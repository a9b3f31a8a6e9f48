SPECIFICATION Spec
CHECK_DEADLOCK FALSE
SYMMETRY Alike
CONSTANTS
  p1 = p1
  p2 = p2
  d1 = d1
  d2 = d2
  a1 = a1
  a2 = a2
  u1 = u1
  u2 = u2
  k1 = k1
  Operators = {p1, p2}
  Registrars = {p1, p2}
  Domains = {d1, d2}
  Assets = {a1, a2}
  Urls = {u1, u2}
  Contacts = {k1}
  DomainOf <- const_DomainOf
  Published <- const_Published
  Listed <- const_Listed
  MaxTime = 2
  MaxWork = 4
  DomainTTL = 1
  ChallengeTTL = 1
  ClaimTTL = 2
  SessionTTL = 1
  MaxChallenges = 2
INVARIANT ClaimsTypeOK
INVARIANT RegistryHonest
INVARIANT AuthorityHeld
PROPERTY ImplementsAuthority
PROPERTY ClaimEarned

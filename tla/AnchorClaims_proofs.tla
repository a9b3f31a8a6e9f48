------------------------ MODULE AnchorClaims_proofs -------------------------
(***************************************************************************)
(* Proofs about AnchorClaims, for any number of operators, domains, assets,*)
(* URLs, contacts and challenges: row locks exclude one another and cover  *)
(* what a transaction decided upon, so no session loses its claimant while *)
(* it acts, no claim outlives what it was checked against, and domains and *)
(* their contacts change hands as DomainAuthority has it.                  *)
(***************************************************************************)
EXTENDS AnchorClaims, SequenceTheorems, FiniteSetTheorems, TLAPS

-----------------------------------------------------------------------------
(***************************************************************************)
(* Types.                                                                  *)
(***************************************************************************)
Challenge == [domain : Domains, consumedAt : Nat, expires : Nat]
Claimant == [domain : Domains, challenge : Nat, verifiedAt : Nat,
             expires : Nat, revokedAt : Nat]
Session == [expires : Nat, revokedAt : Nat]
Contact == [known : BOOLEAN, owner : Nat, verifiedAt : Nat, expires : Nat,
            revokedAt : Nat]
Binding == [domain : Domains \cup {"none"}, expires : Nat]
Source == [Assets -> Binding]
Bindings == UNION {[urls -> Source] : urls \in SUBSET Urls}

Found == [pc : {"found", "anchored"}, at : Time, asset : Assets,
          domain : Domains, url : Urls]
Rehomed == [pc : {"rehomed"}, at : Time, asset : Assets, domain : Domains,
            url : Urls, read : Bindings]
Failed == [pc : {"failed", "unbound"}, at : Time, asset : Assets,
           read : Bindings]
Issuing == [pc : {"issuing"}, domain : Domains, expires : Nat]
Proving == [pc : {"proving"}, challenge : Nat]
Proved == [pc : {"proved", "claimable"}, challenge : Nat, at : Time]
Succeeding == [pc : {"succeeding"}, challenge : Nat, at : Time,
               revoked : SUBSET Nat]
Contacting == [pc : ContactOps, session : Nat, at : Time, granted : BOOLEAN,
               contact : Contacts]
Speaking == [pc : {"revoke_session", "speak"}, session : Nat, at : Time,
             granted : BOOLEAN]

Transaction == {Idle} \cup Found \cup Rehomed \cup Failed \cup Issuing \cup Proving
                 \cup Proved \cup Succeeding \cup Contacting \cup Speaking

SessionOps == ContactOps \cup {"revoke_session", "speak"}

(* What a transaction is follows from how far it has come.                 *)
LEMMA Shape ==
    ASSUME NEW tx \in Transaction
    PROVE  /\ tx.pc \in {"found", "anchored"} => tx \in Found
           /\ tx.pc = "rehomed" => tx \in Rehomed
           /\ tx.pc \in {"failed", "unbound"} => tx \in Failed
           /\ tx.pc = "issuing" => tx \in Issuing
           /\ tx.pc = "proving" => tx \in Proving
           /\ tx.pc \in {"proved", "claimable"} => tx \in Proved
           /\ tx.pc = "succeeding" => tx \in Succeeding
           /\ tx.pc \in ContactOps => tx \in Contacting
           /\ tx.pc \in {"revoke_session", "speak"} => tx \in Speaking
<1>1. CASE tx = Idle
  BY <1>1 DEF Idle, ContactOps
<1>2. CASE tx \in Found
  BY <1>2 DEF Found, ContactOps
<1>3. CASE tx \in Rehomed
  BY <1>3 DEF Rehomed, ContactOps
<1>4. CASE tx \in Failed
  BY <1>4 DEF Failed, ContactOps
<1>5. CASE tx \in Proving
  BY <1>5 DEF Proving, ContactOps
<1>6. CASE tx \in Proved
  BY <1>6 DEF Proved, ContactOps
<1>7. CASE tx \in Succeeding
  BY <1>7 DEF Succeeding, ContactOps
<1>8. CASE tx \in Contacting
  BY <1>8 DEF Contacting, ContactOps
<1>9. CASE tx \in Speaking
  BY <1>9 DEF Speaking, ContactOps
<1>10. CASE tx \in Issuing
  BY <1>10 DEF Issuing, ContactOps
<1> QED
  BY <1>1, <1>2, <1>3, <1>4, <1>5, <1>6, <1>7, <1>8, <1>9, <1>10 DEF Transaction

RowTypes ==
    /\ now \in Time
    /\ anchor \in {"unregistered", "verified", "suspended"}
    /\ domains \in [Domains -> [verifiedAt : Nat, expires : Nat]]
    /\ sources \in Bindings
    /\ events \in [Assets -> {"none", "verified", "suspended"}]
    /\ recorded \in Nat /\ overlooked \subseteq Assets
    /\ challenges \in Seq(Challenge)
    /\ claimants \in Seq(Claimant)
    /\ sessions \in Seq(Session)
    /\ Len(sessions) = Len(claimants)
    /\ \A i \in 1..Len(claimants) : claimants[i].challenge \in 1..Len(challenges)
    /\ contacts \in [Contacts -> Contact]
    /\ \A k \in Contacts : contacts[k].owner \in 0..Len(claimants)

\* A transaction refers to rows that are there.
Fits(tx) ==
    /\ tx \in Transaction
    /\ tx.pc \in {"proving", "proved", "claimable", "succeeding"} =>
         tx.challenge \in 1..Len(challenges)
    /\ tx.pc = "succeeding" => tx.revoked \subseteq 1..Len(claimants)
    /\ tx.pc \in SessionOps => tx.session \in 1..Len(claimants)
    /\ tx.pc \in ContactOps => DomainOf[tx.contact] = claimants[tx.session].domain

TxTypes ==
    /\ txs \in [Operators -> Transaction]
    /\ \A p \in Operators : Fits(txs[p])
    /\ \A l \in locks : l.by \in Operators /\ txs[l.by] # Idle

RowsTyped == RowTypes /\ TxTypes

LEMMA IdleFits == Fits(Idle) /\ Fits(Idle)'
<1>1. Idle \in Transaction
  BY DEF Transaction
<1>2. Idle.pc = "idle"
  BY DEF Idle
<1> QED
  BY <1>1, <1>2 DEF Fits, SessionOps, ContactOps

LEMMA InitTyped == Init => RowsTyped
<1> SUFFICES ASSUME Init PROVE RowsTyped
  OBVIOUS
<1>1. /\ challenges \in Seq(Challenge) /\ claimants \in Seq(Claimant)
      /\ sessions \in Seq(Session)
      /\ Len(challenges) = 0 /\ Len(claimants) = 0 /\ Len(sessions) = 0
  BY EmptySeq DEF Init
<1>2. now \in Time
  BY RowsAssumption DEF Init, Time
<1>3. sources \in Bindings
  <2> DEFINE none == [u \in {} |-> NewSource]
  <2>1. none \in [{} -> Source]
    OBVIOUS
  <2> HIDE DEF none
  <2>2. none \in Bindings
    BY <2>1 DEF Bindings
  <2> QED
    BY <2>2 DEF Init, RegistryInit, none
<1>4. contacts \in [Contacts -> Contact]
  BY DEF Init, Contact, Unknown, Never
<1>5. domains \in [Domains -> [verifiedAt : Nat, expires : Nat]]
  BY DEF Init, RegistryInit, Unverified, Never
<1>6. \A k \in Contacts : contacts[k].owner = 0
  BY DEF Init, Unknown
<1>7. RowTypes
  BY <1>1, <1>2, <1>3, <1>4, <1>5, <1>6 DEF Init, RegistryInit, RowTypes
<1>8. txs \in [Operators -> Transaction] /\ \A p \in Operators : txs[p] = Idle
  BY DEF Init, Transaction
<1> QED
  BY <1>7, <1>8, IdleFits DEF Init, RowsTyped, TxTypes

-----------------------------------------------------------------------------
(***************************************************************************)
(* What the steps do to the rows.                                          *)
(***************************************************************************)
Step(q) == RegistryNext(q) \/ ClaimNext(q) \/ SessionNext(q) \/ Abort(q)

LEMMA TimeType == now \in Time => now \in Nat /\ now # Never
  BY RowsAssumption DEF Time, Never

LEMMA MinimumType ==
    ASSUME NEW s \in Nat, NEW t \in Nat
    PROVE  Earlier(s, t) \in Nat /\ Earlier(s, t) <= s /\ Earlier(s, t) <= t
             /\ Earlier(s, t) \in {s, t}
  BY DEF Earlier

(* Seven operations write rows; the others only move a transaction on.       *)
LEMMA Writers ==
    ASSUME NEW q \in Operators, Step(q)
    PROVE  \/ UNCHANGED <<now, rows>>
           \/ PersistDiscovery(q) \/ SuspendVerification(q)
           \/ IssueChallenge(q) \/ ClaimAnchor(q)
           \/ RegisterVerifiedContact(q) \/ RevokeContact(q) \/ RevokeSession(q)
<1>1. CASE RegistryNext(q)
  BY <1>1 DEF RegistryNext, DiscoverAnchor, UpsertAnchor, SupersedeDomains,
       FailDiscovery, UnbindSources
<1>2. CASE ClaimNext(q)
  BY <1>2 DEF ClaimNext, CreateChallenge, BeginClaim, ProveDomain, LockClaim,
     RevokeClaimants
<1>3. CASE SessionNext(q)
  BY <1>3 DEF SessionNext, BeginSession, AuthenticateSession, Speak
<1>4. CASE Abort(q)
  BY <1>4 DEF Abort
<1> QED
  BY <1>1, <1>2, <1>3, <1>4 DEF Step

(* A new challenge leaves the others as they are.                          *)
LEMMA ChallengeEffect ==
    ASSUME RowsTyped, NEW q \in Operators, IssueChallenge(q)
    PROVE  /\ challenges' \in Seq(Challenge)
           /\ Len(challenges') = Len(challenges) + 1
           /\ \A c \in 1..Len(challenges) : challenges'[c] = challenges[c]
           /\ challenges'[Len(challenges) + 1].consumedAt = Never
<1> DEFINE tx == txs[q]
           new == [domain |-> tx.domain, consumedAt |-> Never,
                   expires |-> tx.expires]
<1>1. tx \in Transaction /\ tx.pc = "issuing"
  BY DEF IssueChallenge, At, RowsTyped, TxTypes
<1>2. new \in Challenge
  BY <1>1, Shape DEF Issuing, Challenge, Never
<1>3. challenges' = Append(challenges, new) /\ new.consumedAt = Never
  BY DEF IssueChallenge
<1> HIDE DEF new
<1> QED
  BY <1>2, <1>3, AppendProperties DEF RowsTyped, RowTypes

(* A claim revokes the claimants it locked, appends its own with a session *)
(* of the same number, and marks its challenge as used.                    *)
LEMMA ClaimEffect ==
    ASSUME RowsTyped, NEW q \in Operators, ClaimAnchor(q)
    PROVE  LET tx == txs[q]
               n == Len(claimants) + 1
               d == challenges[tx.challenge].domain IN
           /\ tx \in Succeeding /\ tx.challenge \in 1..Len(challenges)
           /\ claimants' \in Seq(Claimant) /\ Len(claimants') = n
           /\ \A i \in 1..Len(claimants) :
                claimants'[i] = IF i \in tx.revoked
                                THEN [claimants[i] EXCEPT !.revokedAt = tx.at]
                                ELSE claimants[i]
           /\ claimants'[n].domain = d /\ claimants'[n].challenge = tx.challenge
           /\ claimants'[n].verifiedAt = tx.at /\ claimants'[n].revokedAt = Never
           /\ claimants'[n].expires
                = Earlier(tx.at + ClaimTTL, domains[d].expires)
           /\ sessions' \in Seq(Session) /\ Len(sessions') = n
           /\ \A i \in 1..Len(claimants) : sessions'[i] = sessions[i]
           /\ sessions'[n].expires = Earlier(tx.at + SessionTTL, claimants'[n].expires)
           /\ challenges' \in Seq(Challenge) /\ Len(challenges') = Len(challenges)
           /\ \A c \in 1..Len(challenges) :
                challenges'[c] = IF c = tx.challenge
                                 THEN [challenges[c] EXCEPT !.consumedAt = tx.at]
                                 ELSE challenges[c]
<1> DEFINE tx == txs[q]
           n == Len(claimants) + 1
           d == challenges[tx.challenge].domain
           expires == Earlier(tx.at + ClaimTTL, domains[d].expires)
           kept == [i \in DOMAIN claimants |->
                      IF i \in tx.revoked THEN [claimants[i] EXCEPT !.revokedAt = tx.at]
                      ELSE claimants[i]]
           new == [domain |-> d, challenge |-> tx.challenge, verifiedAt |-> tx.at,
                   expires |-> expires, revokedAt |-> Never]
           opened == [expires |-> Earlier(tx.at + SessionTTL, expires),
                      revokedAt |-> Never]
           used == [challenges[tx.challenge] EXCEPT !.consumedAt = tx.at]
<1>1. tx.pc = "succeeding" /\ tx \in Transaction
  BY DEF ClaimAnchor, At, RowsTyped, TxTypes
<1>2. tx \in Succeeding /\ tx.challenge \in 1..Len(challenges)
  BY <1>1, Shape DEF RowsTyped, TxTypes, Fits
<1>3. tx.at \in Nat /\ tx.at # Never
  BY <1>2, RowsAssumption DEF Succeeding, Time, Never
<1>4. challenges[tx.challenge] \in Challenge
  BY <1>2, ElementOfSeq DEF RowsTyped, RowTypes
<1>5. d \in Domains /\ domains[d].expires \in Nat
  BY <1>4 DEF Challenge, RowsTyped, RowTypes
<1>6. expires \in Nat
  <2>1. tx.at + ClaimTTL \in Nat
    BY <1>3, ClaimsAssumption
  <2> QED
    BY <2>1, <1>5, MinimumType
<1>7. Earlier(tx.at + SessionTTL, expires) \in Nat
  <2>1. tx.at + SessionTTL \in Nat
    BY <1>3, ClaimsAssumption
  <2> QED
    BY <2>1, <1>6, MinimumType
<1>8. /\ claimants' = Append(kept, new) /\ sessions' = Append(sessions, opened)
      /\ challenges' = [challenges EXCEPT ![tx.challenge] = used]
  BY DEF ClaimAnchor, ChallengeOf
<1>9. DOMAIN claimants = 1..Len(claimants) /\ Len(claimants) \in Nat
  BY LenProperties DEF RowsTyped, RowTypes
<1>10. \A i \in 1..Len(claimants) : claimants[i] \in Claimant
  BY ElementOfSeq DEF RowsTyped, RowTypes
<1>11. \A i \in 1..Len(claimants) : kept[i] \in Claimant
  BY <1>3, <1>9, <1>10 DEF Claimant
<1>12. kept \in Seq(Claimant) /\ Len(kept) = Len(claimants)
  <2>1. kept \in [1..Len(claimants) -> Claimant]
    BY <1>9, <1>11
  <2> HIDE DEF kept
  <2> QED
    BY <2>1, <1>9
<1>13. new \in Claimant
  BY <1>2, <1>3, <1>5, <1>6 DEF Claimant, Succeeding, Never
<1>14. opened \in Session
  BY <1>7 DEF Session, Never
<1>15. used \in Challenge
  BY <1>3, <1>4 DEF Challenge
<1>16. \A i \in 1..Len(claimants) :
         kept[i] = IF i \in tx.revoked
                   THEN [claimants[i] EXCEPT !.revokedAt = tx.at]
                   ELSE claimants[i]
  BY <1>9
<1> HIDE DEF kept, used, new, opened
<1>17. /\ claimants' \in Seq(Claimant) /\ Len(claimants') = n
       /\ \A i \in 1..Len(claimants) : claimants'[i] = kept[i]
       /\ claimants'[n] = new
  BY <1>8, <1>12, <1>13, AppendProperties
<1>18. /\ sessions' \in Seq(Session) /\ Len(sessions') = n
       /\ \A i \in 1..Len(claimants) : sessions'[i] = sessions[i]
       /\ sessions'[n] = opened
  BY <1>8, <1>14, AppendProperties DEF RowsTyped, RowTypes
<1>19. /\ challenges' \in Seq(Challenge) /\ Len(challenges') = Len(challenges)
       /\ \A c \in 1..Len(challenges) :
            challenges'[c] = IF c = tx.challenge THEN used ELSE challenges[c]
  BY <1>2, <1>8, <1>15, ExceptSeq DEF RowsTyped, RowTypes
<1>20. /\ new.domain = d /\ new.challenge = tx.challenge /\ new.verifiedAt = tx.at
       /\ new.revokedAt = Never /\ new.expires = expires
       /\ opened.expires = Earlier(tx.at + SessionTTL, expires)
  BY DEF new, opened
<1>21. used = [challenges[tx.challenge] EXCEPT !.consumedAt = tx.at]
  BY DEF used
<1> QED
  BY <1>2, <1>16, <1>17, <1>18, <1>19, <1>20, <1>21


(* A step moves one transaction on; the other transactions keep their      *)
(* locks, and one that is over has none.                                   *)
Moves(q, tx) ==
    /\ txs' = [txs EXCEPT ![q] = tx]
    /\ \A l \in locks' : l.by = q \/ l \in locks
    /\ \A l \in locks : l.by = q \/ l \in locks'
    /\ \A l \in locks' : l.by = q => tx # Idle

LEMMA EndMoves == ASSUME NEW q, End(q) PROVE Moves(q, Idle)
  BY DEF End, Moves

LEMMA LockMoves ==
    ASSUME NEW q, NEW rs, NEW mode, NEW tx, tx # Idle,
           Lock(q, rs, mode), Become(q, tx)
    PROVE  Moves(q, tx)
  BY DEF Lock, Become, Moves

LEMMA BeginMoves ==
    ASSUME NEW q \in Operators, NEW tx, tx # Idle, UNCHANGED locks,
           Begin(q, tx) \/ Become(q, tx)
    PROVE  Moves(q, tx)
  BY DEF Begin, Become, Moves


LEMMA FitsKept ==
    ASSUME NEW tx, Fits(tx), UNCHANGED rows PROVE Fits(tx)'
  BY DEF Fits, rows

LEMMA RegistryMoves ==
    ASSUME RowsTyped, NEW q \in Operators, RegistryNext(q)
    PROVE  \E tx : Moves(q, tx) /\ Fits(tx)'
<1>0. txs[q] \in Transaction /\ now \in Time /\ sources \in Bindings
  BY DEF RowsTyped, RowTypes, TxTypes
<1>1. CASE DiscoverAnchor(q)
  <2>1. PICK a \in Assets, pair \in Published :
          Begin(q, [pc |-> "found", at |-> now, asset |-> a,
                    domain |-> pair[1], url |-> pair[2]])
    BY <1>1 DEF DiscoverAnchor
  <2> DEFINE tx == [pc |-> "found", at |-> now, asset |-> a,
                    domain |-> pair[1], url |-> pair[2]]
  <2>2. pair[1] \in Domains /\ pair[2] \in Urls
    BY RegistryAssumption
  <2>3. tx \in Found /\ tx.pc = "found"
    BY <1>0, <2>2 DEF Found
  <2>4. Fits(tx) /\ tx # Idle
    BY <2>3 DEF Fits, Transaction, SessionOps, ContactOps, Idle
  <2> QED
    BY <1>1, <2>1, <2>4, FitsKept, BeginMoves DEF DiscoverAnchor
<1>2. CASE UpsertAnchor(q)
  <2> DEFINE tx == [txs[q] EXCEPT !.pc = "anchored"]
  <2>1. txs[q] \in Found
    BY <1>0, <1>2, Shape DEF UpsertAnchor, At
  <2>2. tx \in Found /\ tx.pc = "anchored"
    BY <2>1 DEF Found
  <2>3. Fits(tx) /\ tx # Idle
    BY <2>2 DEF Fits, Transaction, SessionOps, ContactOps, Idle
  <2> QED
    BY <1>2, <2>3, FitsKept, LockMoves DEF UpsertAnchor
<1>3. CASE SupersedeDomains(q)
  <2> DEFINE tx == [pc |-> "rehomed", at |-> txs[q].at, asset |-> txs[q].asset,
                    domain |-> txs[q].domain, url |-> txs[q].url, read |-> sources]
  <2>1. txs[q] \in Found
    BY <1>0, <1>3, Shape DEF SupersedeDomains, At
  <2>2. tx \in Rehomed /\ tx.pc = "rehomed"
    BY <1>0, <2>1 DEF Found, Rehomed
  <2>3. Fits(tx) /\ tx # Idle
    BY <2>2 DEF Fits, Transaction, SessionOps, ContactOps, Idle
  <2>4. /\ Lock(q, {Row("domain", d) : d \in Domains}, "write") /\ Become(q, tx)
        /\ UNCHANGED rows
    BY <1>3 DEF SupersedeDomains
  <2> QED
    BY <2>3, <2>4, FitsKept, LockMoves
<1>4. CASE FailDiscovery(q)
  <2>1. PICK a \in Assets :
          Begin(q, [pc |-> "failed", at |-> now, asset |-> a, read |-> sources])
    BY <1>4 DEF FailDiscovery
  <2> DEFINE tx == [pc |-> "failed", at |-> now, asset |-> a, read |-> sources]
  <2>2. tx \in Failed /\ tx.pc = "failed"
    BY <1>0 DEF Failed
  <2>3. Fits(tx) /\ tx # Idle
    BY <2>2 DEF Fits, Transaction, SessionOps, ContactOps, Idle
  <2> QED
    BY <1>4, <2>1, <2>3, FitsKept, BeginMoves DEF FailDiscovery
<1>5. CASE UnbindSources(q)
  <2> DEFINE tx == [txs[q] EXCEPT !.pc = "unbound"]
  <2>1. txs[q] \in Failed
    BY <1>0, <1>5, Shape DEF UnbindSources, At
  <2>2. tx \in Failed /\ tx.pc = "unbound"
    BY <2>1 DEF Failed
  <2>3. Fits(tx) /\ tx # Idle
    BY <2>2 DEF Fits, Transaction, SessionOps, ContactOps, Idle
  <2> QED
    BY <1>5, <2>3, FitsKept, LockMoves DEF UnbindSources
<1>6. CASE PersistDiscovery(q) \/ SuspendVerification(q)
  BY <1>6, EndMoves, IdleFits DEF PersistDiscovery, SuspendVerification
<1> QED
  BY <1>1, <1>2, <1>3, <1>4, <1>5, <1>6 DEF RegistryNext

LEMMA ClaimMoves ==
    ASSUME RowsTyped, NEW q \in Operators, ClaimNext(q)
    PROVE  \E tx : Moves(q, tx) /\ Fits(tx)'
<1>0. /\ txs[q] \in Transaction /\ Fits(txs[q])
      /\ now \in Time /\ Len(challenges) \in Nat
      /\ DOMAIN challenges = 1..Len(challenges)
      /\ DOMAIN claimants = 1..Len(claimants)
  BY LenProperties DEF RowsTyped, RowTypes, TxTypes
<1>1. CASE BeginClaim(q)
  <2>1. PICK c \in DOMAIN challenges :
          Begin(q, [pc |-> "proving", challenge |-> c])
    BY <1>1 DEF BeginClaim
  <2> DEFINE tx == [pc |-> "proving", challenge |-> c]
  <2>2. tx \in Proving /\ tx.pc = "proving" /\ tx.challenge \in 1..Len(challenges)
    BY <1>0 DEF Proving
  <2>3. Fits(tx) /\ tx # Idle
    BY <2>2 DEF Fits, Transaction, SessionOps, ContactOps, Idle
  <2> QED
    BY <1>1, <2>1, <2>3, FitsKept, BeginMoves DEF BeginClaim
<1>2. CASE ProveDomain(q)
  <2> DEFINE tx == [pc |-> "proved", challenge |-> txs[q].challenge, at |-> now]
  <2>1. txs[q] \in Proving /\ txs[q].challenge \in 1..Len(challenges)
    BY <1>0, <1>2, Shape DEF ProveDomain, At, Fits
  <2>2. tx \in Proved /\ tx.pc = "proved" /\ tx.challenge \in 1..Len(challenges)
    BY <1>0, <2>1 DEF Proving, Proved
  <2>3. Fits(tx) /\ tx # Idle
    BY <2>2 DEF Fits, Transaction, SessionOps, ContactOps, Idle
  <2> QED
    BY <1>2, <2>3, FitsKept, BeginMoves DEF ProveDomain
<1>3. CASE LockClaim(q)
  <2> DEFINE tx == [txs[q] EXCEPT !.pc = "claimable"]
  <2>1. txs[q] \in Proved /\ txs[q].challenge \in 1..Len(challenges)
    BY <1>0, <1>3, Shape DEF LockClaim, At, Fits
  <2>2. tx \in Proved /\ tx.pc = "claimable" /\ tx.challenge \in 1..Len(challenges)
    BY <2>1 DEF Proved
  <2>3. Fits(tx) /\ tx # Idle
    BY <2>2 DEF Fits, Transaction, SessionOps, ContactOps, Idle
  <2> QED
    BY <1>3, <2>3, FitsKept, LockMoves DEF LockClaim
<1>4. CASE RevokeClaimants(q)
  <2> DEFINE revoked == ClaimantsOf(ChallengeOf(q).domain)
             tx == [pc |-> "succeeding", challenge |-> txs[q].challenge,
                    at |-> txs[q].at, revoked |-> revoked]
  <2>1. txs[q] \in Proved /\ txs[q].challenge \in 1..Len(challenges)
    BY <1>0, <1>4, Shape DEF RevokeClaimants, At, Fits
  <2>2. revoked \subseteq 1..Len(claimants) /\ revoked \subseteq Nat
    BY <1>0 DEF ClaimantsOf
  <2>3. /\ Lock(q, {Row("claimant", i) : i \in revoked}, "write")
        /\ Become(q, tx) /\ UNCHANGED rows
    BY <1>4 DEF RevokeClaimants
  <2> HIDE DEF revoked
  <2>4. /\ tx \in Succeeding /\ tx.pc = "succeeding"
        /\ tx.challenge \in 1..Len(challenges) /\ tx.revoked \subseteq 1..Len(claimants)
    BY <2>1, <2>2 DEF Proved, Succeeding
  <2>5. Fits(tx) /\ tx # Idle
    BY <2>4 DEF Fits, Transaction, SessionOps, ContactOps, Idle
  <2> QED
    BY <2>3, <2>5, FitsKept, LockMoves
<1>5. CASE ClaimAnchor(q) \/ IssueChallenge(q)
  BY <1>5, EndMoves, IdleFits DEF ClaimAnchor, IssueChallenge
<1>6. CASE CreateChallenge(q)
  <2>1. PICK d \in Domains :
          Begin(q, [pc |-> "issuing", domain |-> d,
                    expires |-> Earlier(now + ChallengeTTL, domains[d].expires)])
    BY <1>6 DEF CreateChallenge
  <2>2. PICK e : e = Earlier(now + ChallengeTTL, domains[d].expires)
    OBVIOUS
  <2>3. now + ChallengeTTL \in Nat /\ domains[d].expires \in Nat
    BY TimeType, ClaimsAssumption DEF RowsTyped, RowTypes
  <2>4. e \in Nat
    BY <2>2, <2>3, MinimumType
  <2> DEFINE tx == [pc |-> "issuing", domain |-> d, expires |-> e]
  <2>5. tx \in Issuing /\ tx.pc = "issuing"
    BY <2>4 DEF Issuing
  <2>6. Fits(tx) /\ tx # Idle
    BY <2>5 DEF Fits, Transaction, SessionOps, ContactOps, Idle
  <2> QED
    BY <1>6, <2>1, <2>2, <2>6, FitsKept, BeginMoves DEF CreateChallenge
<1> QED
  BY <1>1, <1>2, <1>3, <1>4, <1>5, <1>6 DEF ClaimNext

LEMMA SessionMoves ==
    ASSUME RowsTyped, NEW q \in Operators, SessionNext(q)
    PROVE  \E tx : Moves(q, tx) /\ Fits(tx)'
<1>0. /\ txs[q] \in Transaction /\ Fits(txs[q])
      /\ now \in Time /\ Len(claimants) \in Nat
      /\ DOMAIN sessions = 1..Len(claimants)
  BY LenProperties DEF RowsTyped, RowTypes, TxTypes
<1>1. CASE BeginSession(q)
  <2>0. PICK s \in DOMAIN sessions :
          \E tx \in Operations(s) : Authentic(tx) /\ Begin(q, tx)
    BY <1>1 DEF BeginSession
  <2>1. PICK tx \in Operations(s) : Begin(q, tx)
    BY <2>0
  <2>2. s \in 1..Len(claimants)
    BY <1>0
  <2>3. CASE tx.pc \in ContactOps
    <3>1. tx \in [pc : ContactOps, session : {s}, at : {now}, granted : {FALSE},
                  contact : {k \in Contacts : DomainOf[k] = claimants[s].domain}]
      BY <2>3 DEF Operations, ContactOps
    <3> DEFINE no == {FALSE}
               K == {k \in Contacts : DomainOf[k] = claimants[s].domain}
    <3>4. no \subseteq BOOLEAN /\ K \subseteq Contacts
          /\ \A k \in K : DomainOf[k] = claimants[s].domain
      OBVIOUS
    <3> HIDE DEF no, K
    <3>5. tx \in [pc : ContactOps, session : {s}, at : {now}, granted : no, contact : K]
      BY <3>1 DEF no, K
    <3>2. /\ tx \in Contacting /\ tx.session = s
          /\ DomainOf[tx.contact] = claimants[s].domain
      BY <1>0, <2>2, <3>4, <3>5 DEF Contacting
    <3>3. Fits(tx) /\ tx # Idle
      BY <2>2, <2>3, <3>2 DEF Fits, Transaction, SessionOps, ContactOps, Idle
    <3> QED
      BY <1>1, <2>1, <3>3, FitsKept, BeginMoves DEF BeginSession
  <2>4. CASE tx.pc \notin ContactOps
    <3>1. tx \in [pc : {"revoke_session", "speak"}, session : {s}, at : {now},
                  granted : {FALSE}]
      BY <2>4 DEF Operations, ContactOps
    <3> DEFINE no == {FALSE}
    <3>4. no \subseteq BOOLEAN
      OBVIOUS
    <3> HIDE DEF no
    <3>5. tx \in [pc : {"revoke_session", "speak"}, session : {s}, at : {now},
                  granted : no]
      BY <3>1 DEF no
    <3>2. tx \in Speaking /\ tx.session = s
      BY <1>0, <2>2, <3>4, <3>5 DEF Speaking
    <3>3. Fits(tx) /\ tx # Idle
      BY <2>2, <3>2 DEF Fits, Speaking, Transaction, SessionOps, ContactOps, Idle
    <3> QED
      BY <1>1, <2>1, <3>3, FitsKept, BeginMoves DEF BeginSession
  <2> QED
    BY <2>3, <2>4
<1>2. CASE AuthenticateSession(q)
  <2> DEFINE tx == [txs[q] EXCEPT !.granted = TRUE]
  <2>1. /\ Lock(q, SessionRows(txs[q]), "update") /\ Become(q, tx)
        /\ txs[q].pc \in SessionOps /\ UNCHANGED rows
    BY <1>2 DEF AuthenticateSession, SessionOps
  <2>2. txs[q].session \in 1..Len(claimants)
    BY <1>0, <2>1 DEF Fits
  <2>3. CASE txs[q].pc \in ContactOps
    <3>1. txs[q] \in Contacting
      BY <1>0, <2>3, Shape
    <3>2. /\ tx \in Contacting /\ tx.session = txs[q].session /\ tx.pc \in ContactOps
          /\ tx.contact = txs[q].contact
      BY <3>1 DEF Contacting
    <3>3. Fits(tx) /\ tx # Idle
      BY <1>0, <2>2, <2>3, <3>2 DEF Fits, Transaction, SessionOps, ContactOps, Idle
    <3> QED
      BY <2>1, <3>3, FitsKept, LockMoves
  <2>4. CASE txs[q].pc \in {"revoke_session", "speak"}
    <3>1. txs[q] \in Speaking
      BY <1>0, <2>4, Shape
    <3>2. tx \in Speaking /\ tx.session = txs[q].session
      BY <3>1 DEF Speaking
    <3>3. Fits(tx) /\ tx # Idle
      BY <2>2, <3>2 DEF Fits, Speaking, Transaction, SessionOps, ContactOps, Idle
    <3> QED
      BY <2>1, <3>3, FitsKept, LockMoves
  <2> QED
    BY <2>1, <2>3, <2>4 DEF SessionOps
<1>3. CASE \/ RegisterVerifiedContact(q) \/ RevokeContact(q)
           \/ RevokeSession(q) \/ Speak(q)
  BY <1>3, EndMoves, IdleFits DEF RegisterVerifiedContact, RevokeContact,
     RevokeSession, Speak
<1> QED
  BY <1>1, <1>2, <1>3 DEF SessionNext

LEMMA StepMoves ==
    ASSUME RowsTyped, NEW q \in Operators, Step(q)
    PROVE  \E tx : Moves(q, tx) /\ Fits(tx)'
<1>1. CASE Abort(q)
  BY <1>1, EndMoves, IdleFits DEF Abort
<1> QED
  BY <1>1, RegistryMoves, ClaimMoves, SessionMoves DEF Step


(* Rows are only added and keep who they are.                              *)
Grows == /\ Len(challenges') >= Len(challenges)
         /\ Len(claimants') >= Len(claimants)
         /\ \A i \in 1..Len(claimants) : claimants'[i].domain = claimants[i].domain

LEMMA RowsGrow ==
    ASSUME RowsTyped,
           (\E q \in Operators : Step(q)) \/ UNCHANGED rows
    PROVE  Grows
<1>0. Len(challenges) \in Nat /\ Len(claimants) \in Nat
  BY LenProperties DEF RowsTyped, RowTypes
<1>1. CASE UNCHANGED rows
  BY <1>0, <1>1 DEF Grows, rows
<1>2. ASSUME NEW q \in Operators, IssueChallenge(q) PROVE Grows
  <2>1. Len(challenges') = Len(challenges) + 1 /\ UNCHANGED claimants
    BY <1>2, ChallengeEffect DEF IssueChallenge
  <2> QED
    BY <1>0, <2>1 DEF Grows
<1>3. ASSUME NEW q \in Operators, Step(q) PROVE Grows
  <2>1. CASE ClaimAnchor(q)
    <3>1. \A i \in 1..Len(claimants) : claimants[i] \in Claimant
      BY ElementOfSeq DEF RowsTyped, RowTypes
    <3>2. /\ Len(claimants') = Len(claimants) + 1
          /\ Len(challenges') = Len(challenges)
          /\ \A i \in 1..Len(claimants) :
               claimants'[i] = IF i \in txs[q].revoked
                               THEN [claimants[i] EXCEPT !.revokedAt = txs[q].at]
                               ELSE claimants[i]
      BY <2>1, ClaimEffect
    <3>3. ASSUME NEW i \in 1..Len(claimants)
          PROVE  claimants'[i].domain = claimants[i].domain
      <4> DEFINE c == claimants[i]
      <4>1. c \in Claimant
        BY <3>1
      <4>2. claimants'[i] \in {c, [c EXCEPT !.revokedAt = txs[q].at]}
        BY <3>2
      <4> HIDE DEF c
      <4>3. claimants'[i].domain = c.domain
        BY <4>1, <4>2 DEF Claimant
      <4> QED
        BY <4>3 DEF c
    <3> QED
      BY <1>0, <3>2, <3>3 DEF Grows
  <2>2. CASE UNCHANGED <<claimants, challenges>>
    BY <1>0, <2>2 DEF Grows
  <2> QED
    BY <1>2, <1>3, <2>1, <2>2, Writers DEF rows, PersistDiscovery,
       SuspendVerification, RegisterVerifiedContact, RevokeContact, RevokeSession
<1> QED
  BY <1>1, <1>3

LEMMA BindingsAre ==
    ASSUME NEW b
    PROVE  /\ b \in Bindings => /\ DOMAIN b \subseteq Urls
                                /\ \A u \in DOMAIN b : b[u] \in Source
                                /\ b = [u \in DOMAIN b |-> b[u]]
           /\ /\ DOMAIN b \subseteq Urls
              /\ \A u \in DOMAIN b : b[u] \in Source
              /\ b = [u \in DOMAIN b |-> b[u]]
              => b \in Bindings
<1>1. ASSUME b \in Bindings
      PROVE  /\ DOMAIN b \subseteq Urls
             /\ \A u \in DOMAIN b : b[u] \in Source
             /\ b = [u \in DOMAIN b |-> b[u]]
  <2>1. PICK urls \in SUBSET Urls : b \in [urls -> Source]
    BY <1>1 DEF Bindings
  <2> QED
    BY <2>1
<1>2. ASSUME DOMAIN b \subseteq Urls, \A u \in DOMAIN b : b[u] \in Source,
             b = [u \in DOMAIN b |-> b[u]]
      PROVE  b \in Bindings
  <2>1. b \in [DOMAIN b -> Source]
    BY <1>2
  <2> QED
    BY <1>2, <2>1 DEF Bindings
<1> QED
  BY <1>1, <1>2

LEMMA SourceCell ==
    ASSUME NEW row \in Source, NEW a \in Assets, NEW new \in Binding
    PROVE  /\ [row EXCEPT ![a] = new] \in Source
           /\ \A c \in Assets : [row EXCEPT ![a] = new][c] =
                                  IF c = a THEN new ELSE row[c]
  BY DEF Source

LEMMA NewSourceType ==
    Unbound \in Binding /\ NewSource \in Source
      /\ \A c \in Assets : NewSource[c] = Unbound
  BY DEF NewSource, Source, Binding, Unbound, Never

(* The rows there are, without the asset where they were read.             *)
LEMMA WrittenType ==
    ASSUME NEW tx, tx.asset \in Assets, tx.read \in Bindings, sources \in Bindings
    PROVE  /\ Written(tx) \in Bindings /\ DOMAIN Written(tx) = DOMAIN sources
           /\ \A u \in DOMAIN sources, c \in Assets :
                Written(tx)[u][c] =
                  IF u \notin DOMAIN tx.read THEN sources[u][c]
                  ELSE IF c = tx.asset THEN Unbound ELSE tx.read[u][c]
<1> DEFINE w == Written(tx)
           row(u) == [tx.read[u] EXCEPT ![tx.asset] = Unbound]
<1>1. /\ DOMAIN sources \subseteq Urls
      /\ \A u \in DOMAIN sources : sources[u] \in Source
      /\ \A u \in DOMAIN tx.read : tx.read[u] \in Source
  BY BindingsAre
<1>2. \A u \in DOMAIN tx.read :
        /\ row(u) \in Source
        /\ \A c \in Assets : row(u)[c] = IF c = tx.asset THEN Unbound ELSE tx.read[u][c]
  BY <1>1, NewSourceType, SourceCell
<1>3. w = [u \in DOMAIN sources |->
             IF u \in DOMAIN tx.read THEN row(u) ELSE sources[u]]
  BY DEF Written
<1> HIDE DEF w, row
<1>4. DOMAIN w = DOMAIN sources
  BY <1>3
<1>5. \A u \in DOMAIN sources :
        w[u] = IF u \in DOMAIN tx.read THEN row(u) ELSE sources[u]
  BY <1>3
<1>6. w = [u \in DOMAIN w |-> w[u]]
  BY <1>3
<1>7. \A u \in DOMAIN w : w[u] \in Source
  BY <1>1, <1>2, <1>4, <1>5
<1>8. w \in Bindings
  BY <1>1, <1>4, <1>6, <1>7, BindingsAre
<1>9. \A u \in DOMAIN sources, c \in Assets :
        w[u][c] = IF u \notin DOMAIN tx.read THEN sources[u][c]
                  ELSE IF c = tx.asset THEN Unbound ELSE tx.read[u][c]
  BY <1>2, <1>5
<1> QED
  BY <1>4, <1>8, <1>9 DEF w

(* A verified asset is bound at its URL, and nowhere else that was read.   *)
LEMMA ReboundType ==
    ASSUME NEW tx \in Rehomed, sources \in Bindings
    PROVE  /\ Rebound(tx) \in Bindings
           /\ DOMAIN Rebound(tx) = DOMAIN sources \cup {tx.url}
           /\ \A u \in DOMAIN sources \cup {tx.url}, c \in Assets :
                Rebound(tx)[u][c] =
                  IF u # tx.url THEN Written(tx)[u][c]
                  ELSE IF c = tx.asset
                  THEN [domain |-> tx.domain, expires |-> tx.at + DomainTTL]
                  ELSE IF u \in DOMAIN tx.read THEN tx.read[u][c] ELSE Unbound
<1> DEFINE w == Written(tx)
           r == Rebound(tx)
           new == [domain |-> tx.domain, expires |-> tx.at + DomainTTL]
           base == IF tx.url \in DOMAIN tx.read THEN tx.read[tx.url] ELSE NewSource
           row == [base EXCEPT ![tx.asset] = new]
           urls == DOMAIN sources \cup {tx.url}
<1>1. /\ tx.at \in Nat /\ tx.asset \in Assets /\ tx.domain \in Domains
      /\ tx.url \in Urls /\ tx.read \in Bindings
  BY RowsAssumption DEF Rehomed, Time
<1>2. new \in Binding
  BY <1>1, RegistryAssumption DEF Binding
<1>3. w \in Bindings /\ DOMAIN w = DOMAIN sources
  BY <1>1, WrittenType
<1>4. /\ DOMAIN sources \subseteq Urls
      /\ \A u \in DOMAIN sources : w[u] \in Source
      /\ \A u \in DOMAIN tx.read : tx.read[u] \in Source
  BY <1>1, <1>3, BindingsAre
<1>5. base \in Source
  BY <1>4, NewSourceType
<1>6. row = BoundRow(tx)
  BY DEF BoundRow
<1>7. r = [u \in urls |-> IF u = tx.url THEN row ELSE w[u]]
  BY <1>6 DEF Rebound
<1>11. base = IF tx.url \in DOMAIN tx.read THEN tx.read[tx.url] ELSE NewSource
  OBVIOUS
<1> HIDE DEF base, new, w, r
<1>8. /\ row \in Source
      /\ \A c \in Assets : row[c] = IF c = tx.asset THEN new ELSE base[c]
  BY <1>1, <1>2, <1>5, SourceCell
<1> HIDE DEF row
<1>9. /\ DOMAIN r = urls /\ r = [u \in DOMAIN r |-> r[u]]
      /\ \A u \in urls : r[u] = IF u = tx.url THEN row ELSE w[u]
  BY <1>7
<1>10. r \in Bindings
  <2>1. \A u \in DOMAIN r : r[u] \in Source
    BY <1>4, <1>8, <1>9
  <2> QED
    BY <1>1, <1>4, <1>9, <2>1, BindingsAre
<1>12. \A c \in Assets :
         base[c] = IF tx.url \in DOMAIN tx.read THEN tx.read[tx.url][c] ELSE Unbound
  BY <1>11, NewSourceType
<1>13. \A u \in urls, c \in Assets :
         r[u][c] = IF u # tx.url THEN w[u][c]
                   ELSE IF c = tx.asset THEN new
                   ELSE IF u \in DOMAIN tx.read THEN tx.read[u][c] ELSE Unbound
  BY <1>8, <1>9, <1>12
<1> QED
  BY <1>9, <1>10, <1>13 DEF w, r, new

LEMMA DiscoveryTypes ==
    ASSUME RowsTyped, NEW q \in Operators,
           PersistDiscovery(q) \/ SuspendVerification(q)
    PROVE  RowTypes'
<1>0. txs[q] \in Transaction /\ RowTypes
  BY DEF RowsTyped, TxTypes
<1>1. CASE PersistDiscovery(q)
  <2>1. txs[q] \in Rehomed
    BY <1>0, <1>1, Shape DEF PersistDiscovery, At
  <2>2. sources' \in Bindings
    BY <1>0, <1>1, <2>1, ReboundType DEF PersistDiscovery, RowTypes
  <2>3. txs[q].at \in Nat /\ txs[q].at + DomainTTL \in Nat /\ txs[q].asset \in Assets
    BY <2>1, RowsAssumption, RegistryAssumption DEF Rehomed, Time
  <2>4. domains' \in [Domains -> [verifiedAt : Nat, expires : Nat]]
    BY <1>0, <1>1, <2>3 DEF PersistDiscovery, RowTypes, Superseded
  <2>5. /\ contacts' \in [Contacts -> Contact]
        /\ \A k \in Contacts : contacts'[k].owner = contacts[k].owner
    BY <1>0, <1>1 DEF PersistDiscovery, RowTypes, Contact
  <2>6. events' \in [Assets -> {"none", "verified", "suspended"}]
    BY <1>0, <1>1, <2>3 DEF PersistDiscovery, RowTypes
  <2>7. recorded' \in Nat /\ overlooked' \subseteq Assets
    BY <1>0, <1>1 DEF PersistDiscovery, RowTypes
  <2> QED
    BY <1>0, <1>1, <2>2, <2>4, <2>5, <2>6, <2>7 DEF PersistDiscovery, RowTypes
<1>2. CASE SuspendVerification(q)
  <2>1. txs[q] \in Failed
    BY <1>0, <1>2, Shape DEF SuspendVerification, At
  <2>2. txs[q].asset \in Assets /\ txs[q].read \in Bindings
    BY <2>1 DEF Failed
  <2>3. sources' \in Bindings
    BY <1>0, <1>2, <2>2, WrittenType DEF SuspendVerification, RowTypes
  <2>4. events' \in [Assets -> {"none", "verified", "suspended"}]
    BY <1>0, <1>2, <2>2 DEF SuspendVerification, RowTypes
  <2>5. recorded' \in Nat /\ overlooked' \subseteq Assets
    BY <1>0, <1>2, <2>2 DEF SuspendVerification, Unseen, RowTypes
  <2> QED
    BY <1>0, <1>2, <2>3, <2>4, <2>5 DEF SuspendVerification, RowTypes
<1> QED
  BY <1>1, <1>2

LEMMA ClaimTypes ==
    ASSUME RowsTyped, NEW q \in Operators, ClaimAnchor(q)
    PROVE  RowTypes'
<1>0. RowTypes /\ Len(claimants) \in Nat
  BY LenProperties DEF RowsTyped, RowTypes
<1> DEFINE tx == txs[q]
           n == Len(claimants) + 1
<1>1. /\ tx \in Succeeding /\ tx.challenge \in 1..Len(challenges)
      /\ claimants' \in Seq(Claimant) /\ Len(claimants') = n
      /\ \A i \in 1..Len(claimants) :
           claimants'[i] = IF i \in tx.revoked
                           THEN [claimants[i] EXCEPT !.revokedAt = tx.at]
                           ELSE claimants[i]
      /\ claimants'[n].challenge = tx.challenge
      /\ sessions' \in Seq(Session) /\ Len(sessions') = n
      /\ challenges' \in Seq(Challenge) /\ Len(challenges') = Len(challenges)
  BY ClaimEffect
<1>2. \A i \in 1..Len(claimants) : claimants[i] \in Claimant
  BY ElementOfSeq DEF RowsTyped, RowTypes
<1>3. tx.at \in Nat
  BY <1>1, RowsAssumption DEF Succeeding, Time
<1>4. \A i \in 1..n : claimants'[i].challenge \in 1..Len(challenges)
  <2>1. \A i \in 1..Len(claimants) :
          claimants'[i].challenge = claimants[i].challenge
    BY <1>1, <1>2 DEF Claimant
  <2>2. \A i \in 1..n : i \in 1..Len(claimants) \/ i = n
    BY <1>0
  <2> QED
    BY <1>0, <1>1, <2>1, <2>2 DEF RowTypes
<1>5. /\ contacts' \in [Contacts -> Contact]
      /\ \A k \in Contacts : contacts'[k].owner = contacts[k].owner
  BY <1>0, <1>3 DEF ClaimAnchor, RowTypes, Contact
<1>6. UNCHANGED <<now, anchor, domains, sources, events, recorded, overlooked>>
  BY DEF ClaimAnchor
<1> HIDE DEF n, tx
<1>7. \A k \in Contacts : contacts'[k].owner \in 0..Len(claimants')
  BY <1>0, <1>1, <1>5 DEF RowTypes, n
<1> QED
  BY <1>0, <1>1, <1>4, <1>5, <1>6, <1>7 DEF RowTypes

LEMMA ChallengeTypes ==
    ASSUME RowsTyped, NEW q \in Operators, IssueChallenge(q)
    PROVE  RowTypes'
<1>0. RowTypes
  BY DEF RowsTyped
<1>1. /\ challenges' \in Seq(Challenge)
      /\ Len(challenges') = Len(challenges) + 1 /\ Len(challenges) \in Nat
  BY <1>0, ChallengeEffect, LenProperties DEF RowTypes
<1>2. UNCHANGED <<now, anchor, domains, sources, events, recorded, overlooked,
                  claimants, sessions, contacts>>
  BY DEF IssueChallenge
<1>3. \A i \in 1..Len(challenges) : i \in 1..Len(challenges')
  BY <1>1
<1> QED
  BY <1>0, <1>1, <1>2, <1>3 DEF RowTypes

LEMMA SessionTypes ==
    ASSUME RowsTyped, NEW q \in Operators,
           RegisterVerifiedContact(q) \/ RevokeContact(q) \/ RevokeSession(q)
    PROVE  RowTypes'
<1>0. /\ txs[q] \in Transaction /\ RowTypes /\ Fits(txs[q])
      /\ Len(claimants) \in Nat
  BY LenProperties DEF RowsTyped, RowTypes, TxTypes
<1>1. CASE RegisterVerifiedContact(q)
  <2> DEFINE tx == txs[q]
             new == [known |-> TRUE, owner |-> tx.session, verifiedAt |-> tx.at,
                     expires |-> claimants[tx.session].expires, revokedAt |-> Never]
  <2>1. tx \in Contacting /\ tx.session \in 1..Len(claimants)
    BY <1>0, <1>1, Shape DEF RegisterVerifiedContact, Granted, At, ContactOps,
       Fits, SessionOps
  <2>2. tx.at \in Nat /\ tx.contact \in Contacts /\ tx.session \in Nat
    BY <2>1, RowsAssumption DEF Contacting, Time
  <2>3. claimants[tx.session] \in Claimant
    BY <2>1, ElementOfSeq DEF RowsTyped, RowTypes
  <2>4. new \in Contact /\ new.owner \in 0..Len(claimants)
    BY <1>0, <2>1, <2>2, <2>3 DEF Claimant, Contact, Never
  <2>5. contacts' = [contacts EXCEPT ![tx.contact] = new]
    BY <1>1 DEF RegisterVerifiedContact
  <2> HIDE DEF new
  <2>6. /\ contacts' \in [Contacts -> Contact]
        /\ \A k \in Contacts : contacts'[k].owner \in 0..Len(claimants)
    BY <1>0, <2>2, <2>4, <2>5 DEF RowTypes
  <2> QED
    BY <1>0, <1>1, <2>6 DEF RegisterVerifiedContact, RowTypes
<1>2. CASE RevokeContact(q)
  <2> DEFINE tx == txs[q]
             new == [contacts[tx.contact] EXCEPT !.revokedAt = tx.at]
  <2>1. tx \in Contacting
    BY <1>0, <1>2, Shape DEF RevokeContact, Granted, At, ContactOps
  <2>2. tx.at \in Nat /\ tx.contact \in Contacts
    BY <2>1, RowsAssumption DEF Contacting, Time
  <2>3. new \in Contact /\ new.owner = contacts[tx.contact].owner
    BY <1>0, <2>2 DEF Contact, RowTypes
  <2>4. contacts' = [contacts EXCEPT ![tx.contact] = new]
    BY <1>2 DEF RevokeContact
  <2> HIDE DEF new
  <2>5. /\ contacts' \in [Contacts -> Contact]
        /\ \A k \in Contacts : contacts'[k].owner \in 0..Len(claimants)
    BY <1>0, <2>2, <2>3, <2>4 DEF RowTypes
  <2> QED
    BY <1>0, <1>2, <2>5 DEF RevokeContact, RowTypes
<1>3. CASE RevokeSession(q)
  <2> DEFINE tx == txs[q]
             new == [sessions[tx.session] EXCEPT !.revokedAt = tx.at]
  <2>1. tx \in Speaking /\ tx.session \in 1..Len(sessions)
    BY <1>0, <1>3, Shape DEF RevokeSession, Granted, At, Fits, SessionOps, RowTypes
  <2>2. tx.at \in Nat
    BY <2>1, RowsAssumption DEF Speaking, Time
  <2>3. sessions[tx.session] \in Session
    BY <2>1, ElementOfSeq DEF RowsTyped, RowTypes
  <2>4. new \in Session
    BY <2>2, <2>3 DEF Session
  <2>5. sessions' = [sessions EXCEPT ![tx.session] = new]
    BY <1>3 DEF RevokeSession
  <2> HIDE DEF new, tx
  <2>6. sessions' \in Seq(Session) /\ Len(sessions') = Len(sessions)
    BY <2>1, <2>4, <2>5, ExceptSeq DEF RowsTyped, RowTypes
  <2> QED
    BY <1>0, <1>3, <2>6 DEF RevokeSession, RowTypes
<1> QED
  BY <1>1, <1>2, <1>3

(* Types are kept by every step.                                           *)
LEMMA TypesKept == RowsTyped /\ [Next]_vars => RowsTyped'
<1> SUFFICES ASSUME RowsTyped, [Next]_vars PROVE RowsTyped'
  OBVIOUS
<1>0. RowTypes /\ TxTypes
  BY DEF RowsTyped
<1>1. ASSUME NEW q \in Operators, Step(q) PROVE RowsTyped'
  <2>1. ASSUME UNCHANGED <<now, rows>> PROVE RowTypes'
    BY <1>0, <2>1 DEF RowTypes, rows
  <2>2. RowTypes'
    BY <1>1, <2>1, Writers, DiscoveryTypes, ChallengeTypes, ClaimTypes, SessionTypes
  <2>3. Grows
    BY <1>1, RowsGrow
  <2>4. PICK tx : Moves(q, tx) /\ Fits(tx)'
    BY <1>1, StepMoves
  <2>5. ASSUME NEW p \in Operators PROVE Fits(txs[p])'
    <3>1. CASE p = q
      <4>1. txs'[p] = tx
        BY <1>0, <2>4, <3>1 DEF Moves, TxTypes
      <4> QED
        BY <2>4, <4>1 DEF Fits
    <3>2. CASE p # q
      <4>1. txs'[p] = txs[p] /\ Fits(txs[p])
        BY <1>0, <2>4, <3>2 DEF Moves, TxTypes
      <4>2. /\ Len(challenges) \in Nat /\ Len(challenges') \in Nat
            /\ Len(claimants) \in Nat /\ Len(claimants') \in Nat
        BY <1>0, <2>2, LenProperties DEF RowTypes
      <4>3. \A i : /\ i \in 1..Len(challenges) => i \in 1..Len(challenges')
                   /\ i \in 1..Len(claimants) => i \in 1..Len(claimants')
        BY <2>3, <4>2 DEF Grows
      <4>4. Fits(txs[p])'
        BY <2>3, <4>1, <4>3 DEF Fits, Grows, SessionOps
      <4> QED
        BY <4>4
    <3> QED
      BY <3>1, <3>2
  <2>6. TxTypes'
    <3>1. txs' \in [Operators -> Transaction]
      <4>1. txs' \in [Operators -> Transaction] \/ tx \notin Transaction
        BY <1>0, <2>4 DEF Moves, TxTypes
      <4> QED
        BY <2>4, <4>1 DEF Fits
    <3>2. \A l \in locks' : l.by \in Operators /\ txs'[l.by] # Idle
      <4>1. \A p \in Operators : txs'[p] = IF p = q THEN tx ELSE txs[p]
        BY <1>0, <2>4 DEF Moves, TxTypes
      <4> QED
        BY <1>0, <1>1, <2>4, <4>1 DEF Moves, TxTypes
    <3> QED
      BY <2>5, <3>1, <3>2 DEF TxTypes
  <2> QED
    BY <2>2, <2>6 DEF RowsTyped
<1>2. CASE Tick \/ UNCHANGED vars
  <2>1. now' \in Time /\ UNCHANGED <<rows, txs, locks>>
    BY <1>0, <1>2, RowsAssumption DEF Tick, vars, RowTypes, Time
  <2> QED
    BY <1>0, <2>1 DEF RowsTyped, RowTypes, TxTypes, Fits, rows
<1> QED
  BY <1>1, <1>2 DEF Next, Step

LEMMA Typed == Spec => []RowsTyped
<1>1. Init => RowsTyped
  BY InitTyped
<1>2. RowsTyped /\ [Next]_vars => RowsTyped'
  BY TypesKept
<1> QED
  BY <1>1, <1>2, PTL DEF Spec

(* Rows and transactions have their types, every claimant has a session of *)
(* its number and a challenge, and only an open transaction holds a lock   *)
(* (anchor-claim-repository.ts, anchor-repository.ts).                     *)
THEOREM ClaimsTypeCorrect == Spec => []ClaimsTypeOK
<1>1. ASSUME RowsTyped PROVE ClaimsTypeOK
  <2>1. /\ DOMAIN challenges = 1..Len(challenges)
        /\ DOMAIN claimants = 1..Len(claimants)
    BY <1>1, LenProperties DEF RowsTyped, RowTypes
  <2>2. \A c \in 1..Len(challenges) : challenges[c] \in Challenge
    BY <1>1, ElementOfSeq DEF RowsTyped, RowTypes
  <2>3. \A i \in 1..Len(claimants) : claimants[i] \in Claimant
    BY <1>1, ElementOfSeq DEF RowsTyped, RowTypes
  <2> QED
    BY <1>1, <2>1, <2>2, <2>3
    DEF ClaimsTypeOK, RowsTyped, RowTypes, TxTypes, Challenge, Claimant
<1>2. RowsTyped => ClaimsTypeOK
  BY <1>1
<1> QED
  BY <1>2, Typed, PTL

-----------------------------------------------------------------------------
(***************************************************************************)
(* Locks of two transactions on one row never conflict.                    *)
(***************************************************************************)
Exclusion ==
    \A l, m \in locks :
        l.row = m.row /\ l.by # m.by => ~Conflicts(l.mode, m.mode)

LEMMA LocksTaken ==
    ASSUME Exclusion, NEW q, NEW rs, NEW mode,
           AllFree(q, rs, mode), Lock(q, rs, mode)
    PROVE  Exclusion'
<1> DEFINE taken == {[row |-> r, mode |-> mode, by |-> q] : r \in rs}
<1>1. \A l, m : Conflicts(l, m) <=> Conflicts(m, l)
  BY DEF Conflicts
<1>2. \A l \in taken : l.by = q /\ l.mode = mode /\ l.row \in rs
  OBVIOUS
<1>3. ASSUME NEW l \in taken, NEW m \in locks, l.row = m.row, m.by # q
      PROVE  ~Conflicts(l.mode, m.mode)
  BY <1>2, <1>3 DEF AllFree, Free
<1>4. locks' = locks \cup taken
  BY DEF Lock
<1> HIDE DEF taken
<1>5. ASSUME NEW l \in locks', NEW m \in locks', l.row = m.row, l.by # m.by
      PROVE  ~Conflicts(l.mode, m.mode)
  <2>1. CASE l \in locks /\ m \in locks
    BY <1>5, <2>1 DEF Exclusion
  <2>2. CASE l \in taken /\ m \in locks
    BY <1>2, <1>3, <1>5, <2>2
  <2>3. CASE l \in locks /\ m \in taken
    BY <1>1, <1>2, <1>3, <1>5, <2>3
  <2>4. CASE l \in taken /\ m \in taken
    BY <1>2, <1>5, <2>4
  <2> QED
    BY <1>4, <1>5, <2>1, <2>2, <2>3, <2>4
<1>6. \A l, m : Conflicts(l, m)' = Conflicts(l, m)
  BY DEF Conflicts
<1> QED
  BY <1>5, <1>6 DEF Exclusion

LEMMA LocksReleased ==
    ASSUME Exclusion, NEW q, End(q) \/ UNCHANGED locks PROVE Exclusion'
<1>1. locks' \subseteq locks
  BY DEF End
<1>2. \A l, m : Conflicts(l, m)' = Conflicts(l, m)
  BY DEF Conflicts
<1> QED
  BY <1>1, <1>2 DEF Exclusion

LEMMA ExclusionKept ==
    ASSUME Exclusion, NEW q \in Operators, Step(q) PROVE Exclusion'
<1>1. CASE RegistryNext(q)
  <2>1. CASE UpsertAnchor(q)
    <3>1. AllFree(q, {AnchorRow}, "write") /\ Lock(q, {AnchorRow}, "write")
      BY <2>1 DEF UpsertAnchor, AllFree
    <3> QED
      BY <3>1, LocksTaken
  <2>2. CASE SupersedeDomains(q)
    BY <2>2, LocksTaken DEF SupersedeDomains
  <2>3. CASE UnbindSources(q)
    BY <2>3, LocksTaken DEF UnbindSources
  <2> QED
    BY <1>1, <2>1, <2>2, <2>3, LocksReleased
    DEF RegistryNext, DiscoverAnchor, PersistDiscovery, FailDiscovery,
        SuspendVerification
<1>2. CASE ClaimNext(q)
  <2>1. CASE LockClaim(q)
    BY <2>1, LocksTaken DEF LockClaim
  <2>2. CASE RevokeClaimants(q)
    BY <2>2, LocksTaken DEF RevokeClaimants
  <2> QED
    BY <1>2, <2>1, <2>2, LocksReleased
    DEF ClaimNext, CreateChallenge, IssueChallenge, BeginClaim, ProveDomain,
        ClaimAnchor
<1>3. CASE SessionNext(q)
  <2>1. CASE AuthenticateSession(q)
    BY <2>1, LocksTaken DEF AuthenticateSession
  <2> QED
    BY <1>3, <2>1, LocksReleased
    DEF SessionNext, BeginSession, RegisterVerifiedContact, RevokeContact,
        RevokeSession, Speak
<1>4. CASE Abort(q)
  BY <1>4, LocksReleased DEF Abort
<1> QED
  BY <1>1, <1>2, <1>3, <1>4 DEF Step

-----------------------------------------------------------------------------
(***************************************************************************)
(* What a transaction decided upon stays true while it holds its locks.    *)
(***************************************************************************)
Held(p, r, mode) == [row |-> r, mode |-> mode, by |-> p] \in locks
AllHeld(p, rs, mode) == \A r \in rs : Held(p, r, mode)

Sound(p) ==
    LET tx == txs[p] IN
    /\ tx.pc = "rehomed" => AllHeld(p, {Row("domain", d) : d \in Domains}, "write")
    /\ tx.pc \in {"claimable", "succeeding"} =>
         AllHeld(p, ClaimRows(p), "update") /\ StillClaimable(p)
    /\ tx.pc = "succeeding" =>
         /\ AllHeld(p, {Row("claimant", i) : i \in tx.revoked}, "write")
         /\ tx.revoked = ClaimantsOf(ChallengeOf(p).domain)
    /\ tx.pc \in SessionOps /\ tx.granted =>
         /\ AllHeld(p, SessionRows(tx), "update")
         /\ tx.pc # "revoke_session" => claimants[tx.session].revokedAt = Never

Protected == RowsTyped /\ Exclusion /\ \A p \in Operators : Sound(p)

LEMMA InitProtected == Init => Protected
<1> SUFFICES ASSUME Init PROVE Protected
  OBVIOUS
<1>1. \A p \in Operators : txs[p].pc = "idle"
  BY DEF Init, Idle
<1>2. \A p \in Operators : Sound(p)
  BY <1>1 DEF Sound, SessionOps, ContactOps
<1>3. Exclusion
  BY DEF Init, Exclusion
<1> QED
  BY <1>2, <1>3, InitTyped DEF Protected

LEMMA Clash ==
    ASSUME Exclusion, NEW p, NEW q, p # q, NEW r, NEW mode,
           Held(p, r, "update"), Held(q, r, mode)
    PROVE  FALSE
<1> DEFINE l == [row |-> r, mode |-> "update", by |-> p]
           m == [row |-> r, mode |-> mode, by |-> q]
<1>1. l \in locks /\ m \in locks
  BY DEF Held
<1>2. l.row = m.row /\ l.by # m.by /\ Conflicts(l.mode, m.mode)
  BY DEF Conflicts
<1> QED
  BY <1>1, <1>2 DEF Exclusion

LEMMA Waits ==
    ASSUME NEW p, NEW q, p # q, NEW r, NEW mode,
           Held(p, r, "update"), Free(q, r, mode)
    PROVE  FALSE
<1> DEFINE l == [row |-> r, mode |-> "update", by |-> p]
<1>1. l \in locks /\ l.row = r /\ l.by # q /\ Conflicts(mode, l.mode)
  BY DEF Held, Conflicts
<1> QED
  BY <1>1 DEF Free

(* A claim leaves its domain with its own claimant alone, and the claimants *)
(* of the other domains as they are.                                       *)
LEMMA Successor ==
    ASSUME RowsTyped, NEW q \in Operators, ClaimAnchor(q), NEW e,
           e = ChallengeOf(q).domain, txs[q].revoked = ClaimantsOf(e),
           NEW d \in Domains
    PROVE  ClaimantsOf(d)' = IF d = e THEN {Len(claimants) + 1} ELSE ClaimantsOf(d)
<1> DEFINE tx == txs[q]
           n == Len(claimants) + 1
<1>0. RowTypes /\ Len(claimants) \in Nat
  BY LenProperties DEF RowsTyped, RowTypes
<1>1. /\ tx \in Succeeding
      /\ claimants' \in Seq(Claimant) /\ Len(claimants') = n
      /\ \A i \in 1..Len(claimants) :
           claimants'[i] = IF i \in tx.revoked
                           THEN [claimants[i] EXCEPT !.revokedAt = tx.at]
                           ELSE claimants[i]
      /\ claimants'[n].domain = e /\ claimants'[n].revokedAt = Never
  BY ClaimEffect DEF ChallengeOf
<1>2. /\ DOMAIN claimants = 1..Len(claimants)
      /\ DOMAIN claimants' = 1..Len(claimants')
  BY <1>0, <1>1, LenProperties DEF RowTypes
<1>3. tx.at # Never
  BY <1>1, RowsAssumption DEF Succeeding, Time, Never
<1>4. ASSUME NEW i \in 1..Len(claimants)
      PROVE  i \in ClaimantsOf(d)' <=> d # e /\ i \in ClaimantsOf(d)
  <2> DEFINE c == claimants[i]
  <2>1. c \in Claimant
    BY <1>0, ElementOfSeq DEF RowTypes
  <2>2. claimants'[i] \in {c, [c EXCEPT !.revokedAt = tx.at]}
    BY <1>1
  <2>3. i \in tx.revoked <=> c.domain = e /\ c.revokedAt = Never
    BY <1>2 DEF ClaimantsOf
  <2>4. /\ i \notin tx.revoked => claimants'[i] = c
        /\ i \in tx.revoked => claimants'[i] = [c EXCEPT !.revokedAt = tx.at]
    BY <1>1
  <2>5. i \in 1..Len(claimants')
    BY <1>0, <1>1
  <2> HIDE DEF c
  <2>6. /\ claimants'[i].domain = c.domain
        /\ i \in tx.revoked => claimants'[i].revokedAt = tx.at
    BY <2>1, <2>2, <2>4 DEF Claimant
  <2>7. i \in ClaimantsOf(d)' <=>
          claimants'[i].domain = d /\ claimants'[i].revokedAt = Never
    BY <1>2, <2>5 DEF ClaimantsOf
  <2>8. i \in ClaimantsOf(d) <=> c.domain = d /\ c.revokedAt = Never
    BY <1>2 DEF ClaimantsOf, c
  <2> HIDE DEF tx
  <2> QED
    BY <1>3, <2>3, <2>4, <2>6, <2>7, <2>8
<1>5. n \in ClaimantsOf(d)' <=> d = e
  BY <1>0, <1>1, <1>2 DEF ClaimantsOf
<1>6. /\ \A i \in ClaimantsOf(d)' : i \in 1..Len(claimants) \/ i = n
      /\ \A i \in ClaimantsOf(d) : i \in 1..Len(claimants)
  BY <1>0, <1>1, <1>2 DEF ClaimantsOf
<1> HIDE DEF n
<1>7. ASSUME d = e PROVE ClaimantsOf(d)' = {n}
  BY <1>4, <1>5, <1>6, <1>7
<1>8. ASSUME d # e PROVE ClaimantsOf(d)' = ClaimantsOf(d)
  <2>1. ASSUME NEW i PROVE i \in ClaimantsOf(d)' <=> i \in ClaimantsOf(d)
    BY <1>4, <1>5, <1>6, <1>8
  <2> QED
    BY <2>1
<1> QED
  BY <1>7, <1>8 DEF n

(* A row locked FOR UPDATE stays as it is while another transaction steps. *)
LEMMA RowsHeld ==
    ASSUME Protected, NEW p, NEW q \in Operators, p # q, Step(q)
    PROVE  /\ Held(p, AnchorRow, "update") /\ anchor = "verified" =>
                anchor' = "verified"
           /\ \A d \in Domains : Held(p, Row("domain", d), "update") =>
                domains'[d] = domains[d] /\ ClaimantsOf(d)' = ClaimantsOf(d)
           /\ \A c \in 1..Len(challenges) : Held(p, Row("challenge", c), "update") =>
                challenges'[c] = challenges[c]
           /\ \A i \in 1..Len(claimants) : Held(p, Row("claimant", i), "update") =>
                claimants'[i] = claimants[i]
<1> DEFINE Kept == UNCHANGED <<anchor, domains, challenges, claimants>>
<1>0. /\ RowsTyped /\ RowTypes /\ Exclusion /\ Sound(q) /\ Len(claimants) \in Nat
      /\ \A i \in 1..Len(claimants) : claimants[i] \in Claimant
  BY LenProperties, ElementOfSeq DEF Protected, RowsTyped, RowTypes
<1>1. CASE Kept
  <2>1. \A d : ClaimantsOf(d)' = ClaimantsOf(d)
    BY <1>1 DEF ClaimantsOf
  <2> QED
    BY <1>1, <2>1
<1>2. CASE PersistDiscovery(q)
  <2>1. ASSUME NEW d \in Domains, Held(p, Row("domain", d), "update") PROVE FALSE
    <3>1. Held(q, Row("domain", d), "write")
      BY <1>0, <1>2 DEF PersistDiscovery, At, Sound, AllHeld
    <3> QED
      BY <1>0, <2>1, <3>1, Clash
  <2>2. anchor' = "verified" /\ UNCHANGED <<challenges, claimants>>
    BY <1>2 DEF PersistDiscovery
  <2> QED
    BY <2>1, <2>2
<1>3. CASE SuspendVerification(q)
  <2>1. ~Held(p, AnchorRow, "update")
    BY <1>3, Waits DEF SuspendVerification
  <2>2. UNCHANGED <<domains, challenges, claimants>>
    BY <1>3 DEF SuspendVerification
  <2>3. \A d : ClaimantsOf(d)' = ClaimantsOf(d)
    BY <2>2 DEF ClaimantsOf
  <2> QED
    BY <2>1, <2>2, <2>3
<1>4. CASE ClaimAnchor(q)
  <2> DEFINE tx == txs[q]
             n == Len(claimants) + 1
             e == challenges[tx.challenge].domain
  <2>1. /\ tx \in Succeeding /\ tx.challenge \in 1..Len(challenges)
        /\ claimants' \in Seq(Claimant) /\ Len(claimants') = n
        /\ \A i \in 1..Len(claimants) :
             claimants'[i] = IF i \in tx.revoked
                             THEN [claimants[i] EXCEPT !.revokedAt = tx.at]
                             ELSE claimants[i]
        /\ claimants'[n].domain = e
        /\ \A c \in 1..Len(challenges) :
             challenges'[c] = IF c = tx.challenge
                              THEN [challenges[c] EXCEPT !.consumedAt = tx.at]
                              ELSE challenges[c]
    BY <1>0, <1>4, ClaimEffect
  <2>2. UNCHANGED <<anchor, domains>>
    BY <1>4 DEF ClaimAnchor
  <2>3. /\ AllHeld(q, ClaimRows(q), "update")
        /\ AllHeld(q, {Row("claimant", i) : i \in tx.revoked}, "write")
        /\ tx.revoked = ClaimantsOf(e)
    BY <1>0, <1>4 DEF ClaimAnchor, At, Sound, ChallengeOf
  <2>4. /\ Held(q, Row("challenge", tx.challenge), "update")
        /\ Held(q, Row("domain", e), "update")
    BY <2>3 DEF AllHeld, ClaimRows, ChallengeOf
  <2>5. \A c \in 1..Len(challenges) : Held(p, Row("challenge", c), "update") =>
          challenges'[c] = challenges[c]
    BY <1>0, <2>1, <2>4, Clash
  <2>6. ASSUME NEW i \in 1..Len(claimants), Held(p, Row("claimant", i), "update")
        PROVE  claimants'[i] = claimants[i]
    <3>1. i \notin tx.revoked
      <4>1. ASSUME i \in tx.revoked PROVE FALSE
        <5>1. Held(q, Row("claimant", i), "write")
          BY <2>3, <4>1 DEF AllHeld
        <5> QED
          BY <1>0, <2>6, <5>1, Clash
      <4> QED
        BY <4>1
    <3> QED
      BY <2>1, <3>1
  <2>7. ASSUME NEW d \in Domains, Held(p, Row("domain", d), "update")
        PROVE  ClaimantsOf(d)' = ClaimantsOf(d)
    <3>1. PICK f : f = e
      OBVIOUS
    <3>2. d # f
      BY <1>0, <2>4, <2>7, <3>1, Clash
    <3> QED
      BY <1>0, <1>4, <2>3, <3>1, <3>2, Successor DEF ChallengeOf
  <2> QED
    BY <2>2, <2>5, <2>6, <2>7
<1>7. CASE IssueChallenge(q)
  <2>1. \A c \in 1..Len(challenges) : challenges'[c] = challenges[c]
    BY <1>0, <1>7, ChallengeEffect
  <2>2. UNCHANGED <<anchor, domains, claimants>>
    BY <1>7 DEF IssueChallenge
  <2>3. \A d : ClaimantsOf(d)' = ClaimantsOf(d)
    BY <2>2 DEF ClaimantsOf
  <2> QED
    BY <2>1, <2>2, <2>3
<1>5. UNCHANGED <<now, rows>> => Kept
  BY DEF rows
<1>6. RegisterVerifiedContact(q) \/ RevokeContact(q) \/ RevokeSession(q) => Kept
  BY DEF RegisterVerifiedContact, RevokeContact, RevokeSession
<1> QED
  BY <1>1, <1>2, <1>3, <1>4, <1>5, <1>6, <1>7, Writers, <1>0

(* The locks of a transaction are its own to release.                      *)
LEMMA LocksKept ==
    ASSUME Protected, NEW p, NEW q \in Operators, p # q, Step(q)
    PROVE  \A r, mode : Held(p, r, mode) =>
                          [row |-> r, mode |-> mode, by |-> p] \in locks'
<1>1. PICK tx : Moves(q, tx) /\ Fits(tx)'
  BY StepMoves DEF Protected
<1> QED
  BY <1>1 DEF Moves, Held

(* Soundness of the other transactions: what each holds still backs it.    *)
LEMMA OthersSound ==
    ASSUME Protected, NEW p \in Operators, NEW q \in Operators, p # q, Step(q)
    PROVE  Sound(p)'
<1> DEFINE tx == txs[p]
<1>0. RowsTyped /\ Sound(p) /\ Fits(tx)
  BY DEF Protected, RowsTyped, TxTypes
<1>1. txs'[p] = txs[p]
  BY <1>0, StepMoves DEF Moves, RowsTyped, TxTypes
<1>2. tx.pc = "rehomed" => AllHeld(p, {Row("domain", d) : d \in Domains}, "write")'
  <2> DEFINE rs == {Row("domain", d) : d \in Domains}
  <2>1. tx.pc = "rehomed" => AllHeld(p, rs, "write")
    BY <1>0 DEF Sound
  <2> HIDE DEF rs
  <2>2. tx.pc = "rehomed" =>
          \A r \in rs : [row |-> r, mode |-> "write", by |-> p] \in locks'
    BY <2>1, LocksKept DEF AllHeld
  <2>3. rs' = rs
    BY DEF rs, Row
  <2> QED
    BY <2>2, <2>3 DEF rs, Row, AllHeld, Held
<1>3. ASSUME tx.pc \in {"claimable", "succeeding"}
      PROVE  /\ AllHeld(p, ClaimRows(p), "update")' /\ StillClaimable(p)'
             /\ ClaimantsOf(ChallengeOf(p).domain)'
                  = ClaimantsOf(ChallengeOf(p).domain)
  <2> DEFINE c == tx.challenge
             rs == ClaimRows(p)
  <2>1. AllHeld(p, rs, "update") /\ StillClaimable(p)
    BY <1>0, <1>3 DEF Sound
  <2>2. c \in 1..Len(challenges) /\ challenges[c] \in Challenge
    BY <1>0, <1>3, ElementOfSeq DEF Fits, RowsTyped, RowTypes
  <2>3. PICK d \in Domains : d = challenges[c].domain
    BY <2>2 DEF Challenge
  <2>4. /\ Held(p, AnchorRow, "update") /\ Held(p, Row("challenge", c), "update")
        /\ Held(p, Row("domain", d), "update")
    BY <2>1, <2>3 DEF AllHeld, ClaimRows, ChallengeOf
  <2>5. anchor = "verified"
    BY <2>1 DEF StillClaimable
  <2>6. /\ anchor' = "verified" /\ challenges'[c] = challenges[c]
        /\ domains'[d] = domains[d] /\ ClaimantsOf(d)' = ClaimantsOf(d)
    BY <2>2, <2>3, <2>4, <2>5, RowsHeld
  <2>7. ChallengeOf(p)' = ChallengeOf(p)
    BY <1>1, <2>6 DEF ChallengeOf
  <2>8. ClaimRows(p)' = ClaimRows(p)
    BY <1>1, <2>7 DEF ClaimRows, Row, AnchorRow
  <2>9. \A r \in rs : [row |-> r, mode |-> "update", by |-> p] \in locks'
    <3> HIDE DEF rs
    <3> QED
      BY <2>1, LocksKept DEF AllHeld
  <2>10. StillClaimable(p)'
    BY <1>1, <2>1, <2>3, <2>6, <2>7 DEF StillClaimable, ChallengeOf
  <2>11. ClaimantsOf(ChallengeOf(p).domain)' = ClaimantsOf(ChallengeOf(p).domain)
    <3>1. ChallengeOf(p).domain = d /\ ChallengeOf(p)'.domain = d
      BY <2>3, <2>7 DEF ChallengeOf
    <3>2. ClaimantsOf(ChallengeOf(p).domain)' = ClaimantsOf(d)'
      BY <3>1 DEF ClaimantsOf
    <3> QED
      BY <2>6, <3>1, <3>2
  <2>12. AllHeld(p, ClaimRows(p), "update")'
    BY <2>8, <2>9 DEF AllHeld, Held
  <2> QED
    BY <2>10, <2>11, <2>12
<1>4. ASSUME tx.pc = "succeeding"
      PROVE  AllHeld(p, {Row("claimant", i) : i \in tx.revoked}, "write")'
  <2> DEFINE rs == {Row("claimant", i) : i \in tx.revoked}
  <2>1. AllHeld(p, rs, "write")
    BY <1>0, <1>4 DEF Sound
  <2>2. rs' = rs
    BY <1>1 DEF Row
  <2> HIDE DEF rs
  <2>3. \A r \in rs : [row |-> r, mode |-> "write", by |-> p] \in locks'
    BY <2>1, LocksKept DEF AllHeld
  <2> QED
    BY <2>2, <2>3 DEF AllHeld, Held, rs
<1>5. ASSUME tx.pc \in SessionOps, tx.granted
      PROVE  /\ AllHeld(p, SessionRows(tx), "update")'
             /\ tx.pc # "revoke_session" => claimants'[tx.session].revokedAt = Never
  <2> DEFINE rs == SessionRows(tx)
  <2>1. /\ AllHeld(p, rs, "update")
        /\ tx.pc # "revoke_session" => claimants[tx.session].revokedAt = Never
    BY <1>0, <1>5 DEF Sound
  <2>2. Held(p, Row("claimant", tx.session), "update")
    BY <2>1 DEF AllHeld, SessionRows
  <2>3. claimants'[tx.session] = claimants[tx.session]
    BY <1>0, <1>5, <2>2, RowsHeld DEF Fits
  <2>4. rs' = rs
    BY <1>1 DEF SessionRows, Row
  <2> HIDE DEF rs
  <2>5. \A r \in rs : [row |-> r, mode |-> "update", by |-> p] \in locks'
    BY <2>1, LocksKept DEF AllHeld
  <2>7. AllHeld(p, SessionRows(tx), "update")'
    BY <2>4, <2>5 DEF AllHeld, Held, rs
  <2> QED
    BY <2>1, <2>3, <2>7
<1>6. tx.pc = "succeeding" => tx.revoked = ClaimantsOf(ChallengeOf(p).domain)
  BY <1>0 DEF Sound
<1>7. tx' = tx
  BY <1>1
<1> HIDE DEF tx
<1>8. /\ tx.pc \in {"claimable", "succeeding"} =>
           AllHeld(p, ClaimRows(p), "update")' /\ StillClaimable(p)'
      /\ tx.pc = "succeeding" =>
           /\ AllHeld(p, {Row("claimant", i) : i \in tx.revoked}, "write")'
           /\ tx.revoked = ClaimantsOf(ChallengeOf(p).domain)'
      /\ tx.pc \in SessionOps /\ tx.granted =>
           /\ AllHeld(p, SessionRows(tx), "update")'
           /\ tx.pc # "revoke_session" => claimants'[tx.session].revokedAt = Never
  BY <1>3, <1>4, <1>5, <1>6
<1> QED
  BY <1>2, <1>7, <1>8 DEF Sound, tx, SessionOps, ContactOps, Never

(* Soundness of the one that steps: what it decides it has locked first.   *)
LEMMA OwnSound ==
    ASSUME Protected, NEW q \in Operators, Step(q)
    PROVE  Sound(q)'
<1> DEFINE tx == txs[q]
           Quiet(t) == /\ t.pc \notin {"rehomed", "claimable", "succeeding"}
                       /\ t.pc \in SessionOps => ~t.granted
<1>0. RowsTyped /\ txs \in [Operators -> Transaction] /\ tx \in Transaction
  BY DEF Protected, RowsTyped, TxTypes
<1>1. Quiet(txs'[q]) => Sound(q)'
  BY DEF Sound, SessionOps, ContactOps
<1>2. End(q) => Quiet(txs'[q])
  BY <1>0 DEF End, Idle, SessionOps, ContactOps
<1>3. \A rs, mode : Lock(q, rs, mode) =>
        \A r \in rs : [row |-> r, mode |-> mode, by |-> q] \in locks'
  BY DEF Lock
<1>4. CASE SupersedeDomains(q)
  <2>1. txs'[q].pc = "rehomed"
    BY <1>0, <1>4 DEF SupersedeDomains, Become
  <2>2. Lock(q, {Row("domain", d) : d \in Domains}, "write")
    BY <1>4 DEF SupersedeDomains
  <2>3. AllHeld(q, {Row("domain", d) : d \in Domains}, "write")'
    BY <1>3, <2>2 DEF AllHeld, Held, Row
  <2> QED
    BY <2>1, <2>3 DEF Sound, SessionOps, ContactOps
<1>5. CASE LockClaim(q)
  <2>1. tx \in Proved
    BY <1>0, <1>5, Shape DEF LockClaim, At
  <2>2. txs'[q] = [tx EXCEPT !.pc = "claimable"]
    BY <1>0, <1>5 DEF LockClaim, Become
  <2>3. /\ txs'[q].pc = "claimable" /\ txs'[q].challenge = tx.challenge
        /\ txs'[q].at = tx.at
    BY <2>1, <2>2 DEF Proved
  <2>4. UNCHANGED <<anchor, domains, challenges>> /\ StillClaimable(q)
    BY <1>5 DEF LockClaim, rows
  <2>5. ChallengeOf(q)' = ChallengeOf(q)
    BY <2>3, <2>4 DEF ChallengeOf
  <2>6. StillClaimable(q)'
    BY <2>3, <2>4, <2>5 DEF StillClaimable
  <2>7. ClaimRows(q)' = ClaimRows(q)
    BY <2>3, <2>5 DEF ClaimRows, Row, AnchorRow
  <2>8. \A r \in ClaimRows(q) : [row |-> r, mode |-> "update", by |-> q] \in locks'
    BY <1>3, <1>5 DEF LockClaim
  <2>9. AllHeld(q, ClaimRows(q), "update")'
    BY <2>7, <2>8 DEF AllHeld, Held
  <2> QED
    BY <2>3, <2>6, <2>9 DEF Sound, SessionOps, ContactOps
<1>6. CASE RevokeClaimants(q)
  <2> DEFINE revoked == ClaimantsOf(ChallengeOf(q).domain)
             rs == {Row("claimant", i) : i \in revoked}
  <2>1. /\ txs'[q].pc = "succeeding" /\ txs'[q].challenge = tx.challenge
        /\ txs'[q].at = tx.at /\ txs'[q].revoked = revoked
    BY <1>0, <1>6 DEF RevokeClaimants, Become
  <2>2. UNCHANGED <<anchor, domains, challenges, claimants>>
    BY <1>6 DEF RevokeClaimants, rows
  <2>3. AllHeld(q, ClaimRows(q), "update") /\ StillClaimable(q)
    BY <1>6 DEF RevokeClaimants, At, Protected, Sound
  <2>4. ChallengeOf(q)' = ChallengeOf(q)
    BY <2>1, <2>2 DEF ChallengeOf
  <2>5. StillClaimable(q)'
    BY <2>1, <2>2, <2>3, <2>4 DEF StillClaimable
  <2>6. ClaimRows(q)' = ClaimRows(q) /\ rs' = rs /\ revoked' = revoked
    BY <2>1, <2>2, <2>4 DEF ClaimRows, Row, AnchorRow, ClaimantsOf
  <2>7. Lock(q, rs, "write")
    BY <1>6 DEF RevokeClaimants
  <2> HIDE DEF rs, revoked
  <2>8. \A r \in rs : [row |-> r, mode |-> "write", by |-> q] \in locks'
    BY <1>3, <2>7
  <2>9. \A r \in ClaimRows(q) : [row |-> r, mode |-> "update", by |-> q] \in locks'
    BY <2>3, <2>7 DEF AllHeld, Held, Lock
  <2>10. AllHeld(q, ClaimRows(q), "update")'
    BY <2>6, <2>9 DEF AllHeld, Held
  <2>11. AllHeld(q, {Row("claimant", i) : i \in txs[q].revoked}, "write")'
    BY <2>1, <2>6, <2>8 DEF AllHeld, Held, rs, revoked
  <2>12. txs'[q].revoked = ClaimantsOf(ChallengeOf(q).domain)'
    BY <2>1, <2>6 DEF revoked
  <2> QED
    BY <2>1, <2>5, <2>10, <2>11, <2>12 DEF Sound, SessionOps, ContactOps
<1>7. CASE AuthenticateSession(q)
  <2>1. tx.pc \in SessionOps
    BY <1>7 DEF AuthenticateSession, SessionOps
  <2>2. tx \in Contacting \cup Speaking
    BY <1>0, <2>1, Shape DEF SessionOps
  <2>3. txs'[q] = [tx EXCEPT !.granted = TRUE]
    BY <1>0, <1>7 DEF AuthenticateSession, Become
  <2>4. txs'[q].pc = tx.pc /\ txs'[q].session = tx.session
    BY <2>2, <2>3 DEF Contacting, Speaking
  <2>5. SessionRows(txs[q])' = SessionRows(txs[q])
    BY <2>4 DEF SessionRows, Row
  <2>6. \A r \in SessionRows(txs[q]) :
          [row |-> r, mode |-> "update", by |-> q] \in locks'
    BY <1>3, <1>7 DEF AuthenticateSession
  <2>7. AllHeld(q, SessionRows(txs[q]), "update")'
    BY <2>5, <2>6 DEF AllHeld, Held
  <2>8. tx.pc # "revoke_session" => claimants[tx.session].revokedAt = Never
    BY <1>7 DEF AuthenticateSession, Authentic
  <2>9. UNCHANGED claimants
    BY <1>7 DEF AuthenticateSession, rows
  <2>10. txs'[q].pc \notin {"rehomed", "claimable", "succeeding"}
    BY <2>1, <2>4 DEF SessionOps, ContactOps
  <2>11. txs'[q].pc # "revoke_session" => claimants'[txs'[q].session].revokedAt = Never
    BY <2>4, <2>8, <2>9
  <2> QED
    BY <2>7, <2>10, <2>11 DEF Sound, Never
<1>8. CASE BeginSession(q)
  <2>1. PICK s \in DOMAIN sessions : \E t \in Operations(s) :
          Authentic(t) /\ Begin(q, t)
    BY <1>8 DEF BeginSession
  <2>2. PICK t \in Operations(s) : Begin(q, t)
    BY <2>1
  <2>3. ~t.granted /\ t.pc \in SessionOps
    BY <2>2 DEF Operations, SessionOps, ContactOps
  <2>4. txs'[q] = t
    BY <1>0, <2>2 DEF Begin
  <2> QED
    BY <1>1, <2>3, <2>4 DEF SessionOps, ContactOps
<1>9. CASE \/ DiscoverAnchor(q) \/ FailDiscovery(q) \/ CreateChallenge(q)
           \/ BeginClaim(q) \/ ProveDomain(q)
  <2>1. txs'[q].pc \in {"found", "failed", "issuing", "proving", "proved"}
    BY <1>0, <1>9 DEF DiscoverAnchor, FailDiscovery, CreateChallenge, BeginClaim,
       ProveDomain, Begin, Become
  <2> QED
    BY <1>1, <2>1 DEF SessionOps, ContactOps
<1>10. CASE UpsertAnchor(q) \/ UnbindSources(q)
  <2>1. tx \in Found \cup Failed
    BY <1>0, <1>10, Shape DEF UpsertAnchor, UnbindSources, At
  <2>2. txs'[q] = [tx EXCEPT !.pc = "anchored"] \/ txs'[q] = [tx EXCEPT !.pc = "unbound"]
    BY <1>0, <1>10 DEF UpsertAnchor, UnbindSources, Become
  <2>3. txs'[q].pc \in {"anchored", "unbound"}
    BY <2>1, <2>2 DEF Found, Failed
  <2> QED
    BY <1>1, <2>3 DEF SessionOps, ContactOps
<1>11. CASE \/ PersistDiscovery(q) \/ SuspendVerification(q)
            \/ IssueChallenge(q) \/ ClaimAnchor(q)
            \/ RegisterVerifiedContact(q) \/ RevokeContact(q) \/ RevokeSession(q)
            \/ Speak(q) \/ Abort(q)
  BY <1>1, <1>2, <1>11 DEF PersistDiscovery, SuspendVerification, IssueChallenge, ClaimAnchor,
     RegisterVerifiedContact, RevokeContact, RevokeSession, Speak, Abort
<1> QED
  BY <1>4, <1>5, <1>6, <1>7, <1>8, <1>9, <1>10, <1>11
  DEF Step, RegistryNext, ClaimNext, SessionNext

LEMMA ProtectionKept == Protected /\ [Next]_vars => Protected'
<1> SUFFICES ASSUME Protected, [Next]_vars PROVE Protected'
  OBVIOUS
<1>0. RowsTyped' /\ RowsTyped
  BY TypesKept DEF Protected
<1>1. ASSUME NEW q \in Operators, Step(q) PROVE Protected'
  BY <1>0, <1>1, ExclusionKept, OwnSound, OthersSound DEF Protected
<1>2. CASE Tick \/ UNCHANGED vars
  <2>1. UNCHANGED <<rows, txs, locks>>
    BY <1>2 DEF Tick, vars
  <2>2. Exclusion'
    BY <2>1, LocksReleased DEF Protected
  <2>3. ASSUME NEW p \in Operators PROVE Sound(p)'
    <3>1. Sound(p)
      BY DEF Protected
    <3> QED
      BY <2>1, <3>1 DEF Sound, AllHeld, Held, SessionRows, ClaimRows, ChallengeOf,
         StillClaimable, ClaimantsOf, Row, AnchorRow, rows
  <2> QED
    BY <1>0, <2>2, <2>3 DEF Protected
<1> QED
  BY <1>1, <1>2 DEF Next, Step

LEMMA Protection == Spec => []Protected
<1>1. Init => Protected
  BY InitProtected
<1>2. Protected /\ [Next]_vars => Protected'
  BY ProtectionKept
<1> QED
  BY <1>1, <1>2, PTL DEF Spec

(* No operation of a session outlives the claim it speaks for: the rows it *)
(* locked keep every claim waiting (authenticateSession).                  *)
THEOREM AuthorityHeldHolds == Spec => []AuthorityHeld
<1>1. Protected => AuthorityHeld
  BY DEF Protected, Sound, AuthorityHeld, SessionOps, ContactOps
<1> QED
  BY <1>1, Protection, PTL

(* A claimant is written only while its challenge is unused and unexpired, *)
(* the anchor verified and the domain current, and ends, with its session, *)
(* no later than the domain does (claimAnchor).                            *)
THEOREM ClaimEarnedHolds == Spec => ClaimEarned
<1> DEFINE Earned ==
      Len(claimants') # Len(claimants) =>
        LET claimant == claimants'[Len(claimants')]
            challenge == challenges[claimant.challenge] IN
        /\ anchor = "verified"
        /\ challenge.consumedAt = Never
        /\ challenge.domain = claimant.domain
        /\ claimant.verifiedAt < challenge.expires
        /\ claimant.verifiedAt < claimant.expires
        /\ claimant.expires <= domains[claimant.domain].expires
        /\ sessions'[Len(sessions')].expires <= domains[claimant.domain].expires
<1>1. ASSUME Protected, NEW q \in Operators, ClaimAnchor(q) PROVE Earned
  <2>0. RowsTyped
    BY <1>1 DEF Protected
  <2> DEFINE tx == txs[q]
             n == Len(claimants) + 1
             c == challenges[tx.challenge]
             d == c.domain
             expires == claimants'[n].expires
             length == sessions'[n].expires
  <2>1. /\ tx \in Succeeding /\ tx.challenge \in 1..Len(challenges)
        /\ Len(claimants') = n /\ Len(sessions') = n
        /\ claimants'[n].domain = d /\ claimants'[n].challenge = tx.challenge
        /\ claimants'[n].verifiedAt = tx.at
        /\ expires = Earlier(tx.at + ClaimTTL, domains[d].expires)
        /\ length = Earlier(tx.at + SessionTTL, expires)
    BY <1>1, <2>0, ClaimEffect
  <2>2. c \in Challenge /\ tx.at \in Nat
    BY <2>0, <2>1, ElementOfSeq, RowsAssumption
    DEF RowsTyped, RowTypes, Succeeding, Time
  <2>3. d \in Domains /\ c.expires \in Nat /\ domains[d].expires \in Nat
    BY <2>0, <2>2 DEF Challenge, RowsTyped, RowTypes
  <2>4. /\ c.consumedAt = Never /\ anchor = "verified"
        /\ c.expires > tx.at /\ domains[d].expires > tx.at
    BY <1>1 DEF ClaimAnchor, At, Protected, Sound, StillClaimable, ChallengeOf
  <2>5. tx.at + ClaimTTL \in Nat /\ tx.at + SessionTTL \in Nat
        /\ tx.at + ClaimTTL > tx.at
    BY <2>2, ClaimsAssumption
  <2>6. expires \in Nat /\ expires <= domains[d].expires
        /\ expires \in {tx.at + ClaimTTL, domains[d].expires}
    <3>1. PICK a, b : a = tx.at + ClaimTTL /\ b = domains[d].expires
      OBVIOUS
    <3>2. PICK e : e = expires
      OBVIOUS
    <3>3. a \in Nat /\ b \in Nat /\ e = Earlier(a, b)
      BY <2>1, <2>3, <2>5, <3>1, <3>2
    <3>4. e \in Nat /\ e <= b /\ e \in {a, b}
      BY <3>3, MinimumType
    <3> QED
      BY <3>1, <3>2, <3>4
  <2>7. length <= expires /\ length \in Nat
    BY <2>1, <2>5, <2>6, MinimumType
  <2> HIDE DEF tx, n, c, d, expires, length
  <2>8. tx.at < c.expires /\ tx.at < expires /\ length <= domains[d].expires
    BY <2>2, <2>3, <2>4, <2>5, <2>6, <2>7
  <2>9. /\ claimants'[n].expires = expires /\ sessions'[n].expires = length
        /\ challenges[tx.challenge] = c /\ c.domain = d
    BY DEF expires, length, c, d
  <2> QED
    BY <2>1, <2>4, <2>6, <2>8, <2>9
<1>2. ASSUME Protected, [Next]_vars PROVE Earned \/ UNCHANGED vars
  <2>1. ASSUME NEW q \in Operators, Step(q) PROVE Earned
    <3>1. CASE UNCHANGED claimants
      BY <3>1
    <3>2. UNCHANGED <<now, rows>> => UNCHANGED claimants
      BY DEF rows
    <3> QED
      BY <1>1, <1>2, <2>1, <3>1, <3>2, Writers DEF PersistDiscovery,
         SuspendVerification, IssueChallenge, RegisterVerifiedContact,
         RevokeContact, RevokeSession
  <2>2. Tick => UNCHANGED claimants
    BY DEF Tick, rows
  <2> HIDE DEF Earned
  <2>3. UNCHANGED claimants => Earned
    BY DEF Earned
  <2> QED
    BY <1>2, <2>1, <2>2, <2>3 DEF Next, Step
<1>3. Protected /\ [Next]_vars => [Earned]_vars
  BY <1>2
<1> HIDE DEF Earned
<1>4. Spec => [][Earned]_vars
  BY <1>3, Protection, PTL DEF Spec
<1> QED
  BY <1>4 DEF ClaimEarned, Earned

-----------------------------------------------------------------------------
(***************************************************************************)
(* Domains and contacts change hands as DomainAuthority has it.            *)
(***************************************************************************)
Consumed == {c \in 1..Len(challenges) : challenges[c].consumedAt # Never}

\* Every claimant used a challenge up.
Counted ==
    /\ Len(challenges) <= MaxChallenges
    /\ IsFiniteSet(Consumed)
    /\ Cardinality(Consumed) = Len(claimants)

Single == \A d \in Domains : \A i, j \in ClaimantsOf(d) : i = j
Backed == \A k \in Contacts : Owner(k) # 0 => Owner(k) \in ClaimantsOf(DomainOf[k])

Succession == Protected /\ Counted /\ Single /\ Backed

LEMMA InitSuccession == Init => Succession /\ Authority!Init
<1> SUFFICES ASSUME Init PROVE Succession /\ Authority!Init
  OBVIOUS
<1>1. challenges = << >> /\ claimants = << >> /\ Len(challenges) = 0 /\ Len(claimants) = 0
  BY EmptySeq DEF Init
<1>2. Consumed = {}
  BY <1>1 DEF Consumed
<1>3. Counted
  BY <1>1, <1>2, FS_EmptySet, ClaimsAssumption DEF Counted
<1>4. \A d : ClaimantsOf(d) = {}
  BY <1>1 DEF ClaimantsOf
<1>5. \A d : Holder(d) = 0
  BY <1>4 DEF Holder
<1>6. \A k \in Contacts : Owner(k) = 0
  BY DEF Init, Owner, Unknown, Never
<1>7. Single /\ Backed
  BY <1>4, <1>6 DEF Single, Backed
<1>8. Authority!Init
  BY <1>5, <1>6 DEF Authority!Init
<1> QED
  BY <1>3, <1>7, <1>8, InitProtected DEF Succession

LEMMA HolderIs ==
    ASSUME NEW S, NEW i, S = {i}
    PROVE  (IF S = {} THEN 0 ELSE CHOOSE j \in S : TRUE) = i
  OBVIOUS

(* The holder of a domain with one claimant is that claimant.              *)
LEMMA Holding ==
    ASSUME Single, NEW d \in Domains
    PROVE  /\ ClaimantsOf(d) = {} => Holder(d) = 0
           /\ \A i \in ClaimantsOf(d) : Holder(d) = i
           /\ Holder(d) # 0 => Holder(d) \in ClaimantsOf(d)
<1>1. \A i \in ClaimantsOf(d) : ClaimantsOf(d) = {i}
  BY DEF Single
<1>2. \A i \in ClaimantsOf(d) : Holder(d) = i
  BY <1>1, HolderIs DEF Holder
<1> QED
  BY <1>2 DEF Holder

(* A claim takes the domain, and the contacts of the one it succeeds.      *)
LEMMA ClaimTakes ==
    ASSUME Succession, Protected', NEW q \in Operators, ClaimAnchor(q)
    PROVE  Succession' /\ Authority!Next
<1> DEFINE tx == txs[q]
           n == Len(claimants) + 1
<1>0. RowsTyped /\ RowTypes /\ Sound(q) /\ Len(claimants) \in Nat /\ Len(challenges) \in Nat
  BY LenProperties DEF Succession, Protected, RowsTyped, RowTypes
<1>1. /\ tx \in Succeeding /\ tx.challenge \in 1..Len(challenges)
      /\ Len(claimants') = n /\ Len(challenges') = Len(challenges)
      /\ \A c \in 1..Len(challenges) :
           challenges'[c] = IF c = tx.challenge
                            THEN [challenges[c] EXCEPT !.consumedAt = tx.at]
                            ELSE challenges[c]
  BY <1>0, ClaimEffect
<1>2. tx.at # Never /\ tx.at \in Nat
  BY <1>1, RowsAssumption DEF Succeeding, Time, Never
<1>3. challenges[tx.challenge] \in Challenge
  BY <1>0, <1>1, ElementOfSeq DEF RowTypes
<1>4. PICK e \in Domains : e = challenges[tx.challenge].domain
  BY <1>3 DEF Challenge
<1>5. tx.revoked = ClaimantsOf(e) /\ challenges[tx.challenge].consumedAt = Never
  BY <1>0, <1>4 DEF ClaimAnchor, At, Sound, ChallengeOf, StillClaimable
<1>6. \A d \in Domains : ClaimantsOf(d)' = IF d = e THEN {n} ELSE ClaimantsOf(d)
  BY <1>0, <1>4, <1>5, Successor DEF ChallengeOf
<1>7. Counted'
  <2>1. challenges'[tx.challenge].consumedAt = tx.at
    BY <1>1, <1>3 DEF Challenge
  <2>2. Consumed' = Consumed \cup {tx.challenge} /\ tx.challenge \notin Consumed
    <3> DEFINE old == challenges[tx.challenge].consumedAt
               new == challenges'[tx.challenge].consumedAt
    <3>1. /\ \A c \in 1..Len(challenges) : c # tx.challenge =>
               challenges'[c] = challenges[c]
          /\ new # Never /\ old = Never
      BY <1>1, <1>2, <1>5, <2>1
    <3>2. ASSUME NEW c
          PROVE  c \in Consumed' <=> c \in Consumed \/ c = tx.challenge
      <4>1. CASE c = tx.challenge
        BY <1>1, <3>1, <4>1 DEF Consumed
      <4>2. CASE c # tx.challenge
        BY <1>1, <3>1, <4>2 DEF Consumed
      <4> QED
        BY <4>1, <4>2
    <3> QED
      BY <3>1, <3>2 DEF Consumed
  <2>3. IsFiniteSet(Consumed') /\ Cardinality(Consumed') = Cardinality(Consumed) + 1
    BY <2>2, FS_AddElement DEF Succession, Counted
  <2> QED
    BY <1>1, <2>3 DEF Succession, Counted
<1>8. n \in 1..MaxChallenges
  <2>1. Consumed' \subseteq 1..Len(challenges)
    BY <1>1 DEF Consumed
  <2>2. /\ IsFiniteSet(1..Len(challenges))
        /\ Cardinality(1..Len(challenges)) = Len(challenges)
    <3>1. PICK m \in Nat : m = Len(challenges)
      BY <1>0
    <3>2. /\ IsFiniteSet(1..m)
          /\ Cardinality(1..m) = IF 1 > m THEN 0 ELSE m - 1 + 1
      BY FS_Interval
    <3>3. (IF 1 > m THEN 0 ELSE m - 1 + 1) = m
      BY <3>1
    <3> QED
      BY <3>1, <3>2, <3>3
  <2>3. Cardinality(Consumed') <= Len(challenges)
    BY <2>1, <2>2, FS_Subset
  <2>4. Cardinality(Consumed') = n
    BY <1>1, <1>7 DEF Counted
  <2> QED
    BY <1>0, <2>3, <2>4, ClaimsAssumption DEF Succession, Counted
<1>9. \A d \in Domains : ClaimantsOf(d) \subseteq 1..Len(claimants)
  BY <1>0, LenProperties DEF ClaimantsOf, RowTypes
<1>10. \A d \in Domains : Holder(d) < n
  BY <1>0, <1>9, Holding DEF Succession
<1>11. \A d \in Domains : Holder(d)' = IF d = e THEN n ELSE Holder(d)
  <2>1. ASSUME NEW d \in Domains, d = e PROVE Holder(d)' = n
    <3>1. ClaimantsOf(d)' = {n}
      BY <1>6, <2>1
    <3> HIDE DEF n
    <3> QED
      BY <3>1, HolderIs DEF Holder
  <2>2. ASSUME NEW d \in Domains, d # e PROVE Holder(d)' = Holder(d)
    <3>1. ClaimantsOf(d)' = ClaimantsOf(d)
      BY <1>6, <2>2
    <3> QED
      BY <3>1 DEF Holder
  <2> QED
    BY <2>1, <2>2
<1>12. \A k \in Contacts : Owner(k)' = IF DomainOf[k] = e THEN 0 ELSE Owner(k)
  <2>1. contacts' = [k \in Contacts |->
            IF k \in ContactsOf(e) THEN [contacts[k] EXCEPT !.revokedAt = tx.at]
            ELSE contacts[k]]
    BY <1>4 DEF ClaimAnchor, ChallengeOf
  <2>2. ASSUME NEW k \in Contacts, k \in ContactsOf(e)
        PROVE  Owner(k)' = 0 /\ DomainOf[k] = e
    <3>1. contacts'[k] = [contacts[k] EXCEPT !.revokedAt = tx.at] /\ contacts[k] \in Contact
      BY <1>0, <2>1, <2>2 DEF RowTypes
    <3>2. contacts'[k].revokedAt = tx.at
      BY <3>1 DEF Contact
    <3> QED
      BY <1>2, <2>2, <3>2 DEF Owner, ContactsOf
  <2>3. ASSUME NEW k \in Contacts, k \notin ContactsOf(e)
        PROVE  /\ Owner(k)' = Owner(k)
               /\ DomainOf[k] = e => Owner(k) = 0
    <3>1. contacts'[k] = contacts[k]
      BY <2>1, <2>3
    <3> QED
      BY <2>3, <3>1 DEF Owner, ContactsOf
  <2> QED
    BY <2>2, <2>3
<1>13. Single'
  BY <1>6 DEF Succession, Single
<1>14. Backed'
  <2>1. ASSUME NEW k \in Contacts, Owner(k)' # 0
        PROVE  Owner(k)' \in ClaimantsOf(DomainOf[k])'
    <3>1. DomainOf[k] # e /\ Owner(k)' = Owner(k) /\ DomainOf[k] \in Domains
      BY <1>12, <2>1, RowsAssumption
    <3>2. Owner(k) \in ClaimantsOf(DomainOf[k])
      BY <2>1, <3>1 DEF Succession, Backed
    <3> QED
      BY <1>6, <3>1, <3>2
  <2> QED
    BY <2>1 DEF Backed
<1>15. Authority!Take(e, n)
  <2> HIDE DEF n
  <2>1. \A d \in Domains : [f \in Domains |-> Holder(f)][d] < n
    BY <1>10
  <2>2. [d \in Domains |-> Holder(d)]' = [[d \in Domains |-> Holder(d)] EXCEPT ![e] = n]
    BY <1>11
  <2>3. [k \in Contacts |-> Owner(k)]'
          = [k \in Contacts |->
               IF DomainOf[k] = e THEN 0 ELSE [l \in Contacts |-> Owner(l)][k]]
    BY <1>12
  <2> QED
    BY <2>1, <2>2, <2>3 DEF Authority!Take
<1>16. Authority!Next
  BY <1>8, <1>15 DEF Authority!Next
<1> QED
  BY <1>7, <1>13, <1>14, <1>16 DEF Succession

\* Only the contacts move: what a registration or a revocation leaves alone.
LEMMA ContactsMove ==
    ASSUME Succession, Protected', UNCHANGED <<challenges, claimants>>
    PROVE  /\ Counted' /\ Single'
           /\ \A d : ClaimantsOf(d)' = ClaimantsOf(d)
           /\ [d \in Domains |-> Holder(d)]' = [d \in Domains |-> Holder(d)]
<1>1. \A d : ClaimantsOf(d)' = ClaimantsOf(d)
  BY DEF ClaimantsOf
<1>2. ASSUME NEW d PROVE Holder(d)' = Holder(d)
  <2>1. ClaimantsOf(d)' = ClaimantsOf(d)
    BY <1>1
  <2> QED
    BY <2>1 DEF Holder
<1>3. Consumed' = Consumed
  BY DEF Consumed
<1> QED
  BY <1>1, <1>2, <1>3 DEF Succession, Counted, Single

(* A session registers for the domain's holder, as it holds the domain.    *)
LEMMA RegistrationEnrols ==
    ASSUME Succession, Protected', NEW q \in Operators, RegisterVerifiedContact(q)
    PROVE  Succession' /\ Authority!Next
<1> DEFINE tx == txs[q]
           s == tx.session
           new == [known |-> TRUE, owner |-> s, verifiedAt |-> tx.at,
                   expires |-> claimants[s].expires, revokedAt |-> Never]
<1>0. RowTypes /\ Sound(q) /\ Fits(tx) /\ tx.pc = "register" /\ tx.granted
  BY DEF Succession, Protected, RowsTyped, TxTypes, RegisterVerifiedContact,
     Granted, At
<1>1. /\ tx \in Contacting /\ s \in 1..Len(claimants) /\ tx.contact \in Contacts
      /\ DomainOf[tx.contact] = claimants[s].domain
  BY <1>0, Shape DEF Fits, SessionOps, ContactOps, Contacting
<1>2. claimants[s].revokedAt = Never
  BY <1>0 DEF Sound, SessionOps, ContactOps
<1>3. UNCHANGED <<challenges, claimants>>
  BY DEF RegisterVerifiedContact
<1>4. contacts' = [contacts EXCEPT ![tx.contact] = new]
  BY DEF RegisterVerifiedContact
<1>5. PICK k \in Contacts : k = tx.contact
  BY <1>1
<1>6. s \in ClaimantsOf(DomainOf[k]) /\ DomainOf[k] \in Domains
  BY <1>0, <1>1, <1>2, <1>5, LenProperties, RowsAssumption DEF ClaimantsOf, RowTypes
<1>7. Holder(DomainOf[k]) = s /\ s # 0
  BY <1>1, <1>6, Holding DEF Succession
<1>8. new.owner = s /\ new.revokedAt = Never
  OBVIOUS
<1> HIDE DEF new, tx
<1>9. \A l \in Contacts : contacts'[l] = IF l = k THEN new ELSE contacts[l]
  BY <1>0, <1>4, <1>5 DEF RowTypes
<1>10. \A l \in Contacts : Owner(l)' = IF l = k THEN s ELSE Owner(l)
  BY <1>8, <1>9 DEF Owner
<1>11. /\ Counted' /\ Single' /\ \A d : ClaimantsOf(d)' = ClaimantsOf(d)
       /\ [d \in Domains |-> Holder(d)]' = [d \in Domains |-> Holder(d)]
  BY <1>3, ContactsMove
<1>12. Backed'
  BY <1>6, <1>10, <1>11 DEF Succession, Backed
<1>13. Authority!Enrol(k)
  <2>1. [d \in Domains |-> Holder(d)][DomainOf[k]] = s
    BY <1>6, <1>7
  <2>2. [l \in Contacts |-> Owner(l)]' = [[l \in Contacts |-> Owner(l)] EXCEPT ![k] = s]
    BY <1>10
  <2> QED
    BY <1>7, <1>11, <2>1, <2>2 DEF Authority!Enrol
<1> QED
  BY <1>11, <1>12, <1>13 DEF Succession, Authority!Next

(* A contact is withdrawn by the claimant it answers for.                  *)
LEMMA RevocationWithdraws ==
    ASSUME Succession, Protected', NEW q \in Operators, RevokeContact(q)
    PROVE  Succession' /\ Authority!Next
<1> DEFINE tx == txs[q]
           new == [contacts[tx.contact] EXCEPT !.revokedAt = tx.at]
<1>0. RowTypes /\ Fits(tx) /\ tx.pc = "revoke_contact"
  BY DEF Succession, Protected, RowsTyped, TxTypes, RevokeContact, Granted, At
<1>1. /\ tx \in Contacting /\ tx.session \in 1..Len(claimants)
      /\ tx.contact \in Contacts /\ tx.at # Never
  BY <1>0, Shape, RowsAssumption
  DEF Fits, SessionOps, ContactOps, Contacting, Time, Never
<1>2. UNCHANGED <<challenges, claimants>>
  BY DEF RevokeContact
<1>3. contacts' = [contacts EXCEPT ![tx.contact] = new]
  BY DEF RevokeContact
<1>4. PICK k \in Contacts : k = tx.contact
  BY <1>1
<1>5. Owner(k) # 0
  BY <1>1, <1>4 DEF RevokeContact, Owner
<1>6. new.revokedAt # Never
  BY <1>0, <1>1 DEF RowTypes, Contact
<1> HIDE DEF new, tx
<1>7. \A l \in Contacts : contacts'[l] = IF l = k THEN new ELSE contacts[l]
  BY <1>0, <1>3, <1>4 DEF RowTypes
<1>8. \A l \in Contacts : Owner(l)' = IF l = k THEN 0 ELSE Owner(l)
  BY <1>6, <1>7 DEF Owner
<1>9. /\ Counted' /\ Single' /\ \A d : ClaimantsOf(d)' = ClaimantsOf(d)
      /\ [d \in Domains |-> Holder(d)]' = [d \in Domains |-> Holder(d)]
  BY <1>2, ContactsMove
<1>10. Backed'
  BY <1>8, <1>9 DEF Succession, Backed
<1>11. Authority!Withdraw(k)
  <2>1. [l \in Contacts |-> Owner(l)][k] # 0
    BY <1>5
  <2>2. [l \in Contacts |-> Owner(l)]' = [[l \in Contacts |-> Owner(l)] EXCEPT ![k] = 0]
    BY <1>8
  <2> QED
    BY <1>9, <2>1, <2>2 DEF Authority!Withdraw
<1> QED
  BY <1>9, <1>10, <1>11 DEF Succession, Authority!Next

(* Whatever else steps leaves holders and owners as they are.              *)
LEMMA OthersStutter ==
    ASSUME Succession, Protected', Counted', UNCHANGED claimants,
           \A k \in Contacts : Owner(k)' = Owner(k)
    PROVE  Succession' /\ UNCHANGED Authority!authority
<1>1. \A d : ClaimantsOf(d)' = ClaimantsOf(d)
  BY DEF ClaimantsOf
<1>2. ASSUME NEW d PROVE Holder(d)' = Holder(d)
  <2>1. ClaimantsOf(d)' = ClaimantsOf(d)
    BY <1>1
  <2> QED
    BY <2>1 DEF Holder
<1>3. Single' /\ Backed'
  BY <1>1 DEF Succession, Single, Backed
<1>4. /\ [d \in Domains |-> Holder(d)]' = [d \in Domains |-> Holder(d)]
      /\ [k \in Contacts |-> Owner(k)]' = [k \in Contacts |-> Owner(k)]
  BY <1>2
<1> QED
  BY <1>3, <1>4 DEF Succession, Authority!authority

LEMMA CountKept ==
    ASSUME Succession,
           UNCHANGED <<challenges, claimants>> \/ \E q \in Operators : IssueChallenge(q)
    PROVE  Counted'
<1>0. RowsTyped /\ Len(challenges) \in Nat
  BY LenProperties DEF Succession, Protected, RowsTyped, RowTypes
<1>1. CASE UNCHANGED <<challenges, claimants>>
  BY <1>1 DEF Succession, Counted, Consumed
<1>2. ASSUME NEW q \in Operators, IssueChallenge(q) PROVE Counted'
  <2> DEFINE n == Len(challenges) + 1
  <2>1. /\ Len(challenges') = n
        /\ \A c \in 1..Len(challenges) : challenges'[c] = challenges[c]
        /\ challenges'[n].consumedAt = Never
    BY <1>0, <1>2, ChallengeEffect
  <2>2. \A c : c \in 1..n <=> c \in 1..Len(challenges) \/ c = n
    BY <1>0
  <2>3. n <= MaxChallenges /\ UNCHANGED claimants
    BY <1>0, <1>2, ClaimsAssumption DEF IssueChallenge
  <2> HIDE DEF n
  <2>4. Consumed' = Consumed
    BY <2>1, <2>2 DEF Consumed
  <2> QED
    BY <2>1, <2>3, <2>4 DEF Succession, Counted
<1> QED
  BY <1>1, <1>2

LEMMA SuccessionKept ==
    Succession /\ [Next]_vars => Succession' /\ [Authority!Next]_(Authority!authority)
<1> SUFFICES ASSUME Succession, [Next]_vars
             PROVE  Succession' /\ (Authority!Next \/ UNCHANGED Authority!authority)
  OBVIOUS
<1>0. Protected' /\ RowTypes
  BY ProtectionKept DEF Succession, Protected, RowsTyped
<1>1. ASSUME NEW q \in Operators, Step(q)
      PROVE  Succession' /\ (Authority!Next \/ UNCHANGED Authority!authority)
  <2>1. CASE PersistDiscovery(q)
    <3>2. \A k \in Contacts : /\ contacts'[k].owner = contacts[k].owner
                              /\ contacts'[k].revokedAt = contacts[k].revokedAt
      BY <1>0, <2>1 DEF PersistDiscovery, RowTypes, Contact
    <3>3. \A k \in Contacts : Owner(k)' = Owner(k)
      BY <3>2 DEF Owner
    <3> QED
      BY <1>0, <2>1, <3>3, OthersStutter, CountKept DEF PersistDiscovery
  <2>2. CASE UNCHANGED <<challenges, claimants, contacts>>
    <3>1. \A k \in Contacts : Owner(k)' = Owner(k)
      BY <2>2 DEF Owner
    <3> QED
      BY <1>0, <2>2, <3>1, OthersStutter, CountKept
  <2>3. UNCHANGED <<now, rows>> => UNCHANGED <<challenges, claimants, contacts>>
    BY DEF rows
  <2>4. SuspendVerification(q) \/ RevokeSession(q)
          => UNCHANGED <<challenges, claimants, contacts>>
    BY DEF SuspendVerification, RevokeSession
  <2>5. CASE IssueChallenge(q)
    <3>1. UNCHANGED <<claimants, contacts>>
      BY <2>5 DEF IssueChallenge
    <3>2. \A k \in Contacts : Owner(k)' = Owner(k)
      BY <3>1 DEF Owner
    <3>3. Counted'
      BY <2>5, CountKept
    <3> QED
      BY <1>0, <3>1, <3>2, <3>3, OthersStutter
  <2> QED
    BY <1>0, <1>1, <2>1, <2>2, <2>3, <2>4, <2>5, Writers, ClaimTakes,
       RegistrationEnrols, RevocationWithdraws
<1>2. ASSUME UNCHANGED <<claimants, contacts>>, Counted'
      PROVE  Succession' /\ UNCHANGED Authority!authority
  <2>1. \A k \in Contacts : Owner(k)' = Owner(k)
    BY <1>2 DEF Owner
  <2> QED
    BY <1>0, <1>2, <2>1, OthersStutter
<1>4. CASE Tick \/ UNCHANGED vars
  BY <1>2, <1>4, CountKept DEF Tick, vars, rows
<1> QED
  BY <1>1, <1>4 DEF Next, Step

(* The operations, interleaved, waiting and aborted as they may be, change *)
(* holders and contacts as DomainAuthority's atomic steps do (claimAnchor, *)
(* registerVerifiedContact, revokeContact).                                *)
THEOREM AuthorityImplemented == Spec => ImplementsAuthority
<1>1. Init => Succession /\ Authority!Init
  BY InitSuccession
<1>2. Succession /\ [Next]_vars => Succession' /\ [Authority!Next]_(Authority!authority)
  BY SuccessionKept
<1>3. Spec => Authority!Spec
  BY <1>1, <1>2, PTL DEF Spec, Authority!Spec
<1> QED
  BY <1>3 DEF ImplementsAuthority

-----------------------------------------------------------------------------
(***************************************************************************)
(* The registry.  What a discovery read is what is there when it writes, of*)
(* the assets no suspension overlooked, as two discoveries exclude one     *)
(* another at the domains; what a suspension read may be out of date, and  *)
(* the assets it is out of date for are the ones it overlooks.             *)
(***************************************************************************)
Readers == {"rehomed", "failed", "unbound"}

Current(p) ==
    LET tx == txs[p] IN
    /\ tx.pc = "rehomed" =>
         /\ DOMAIN tx.read = DOMAIN sources
         /\ \A u \in DOMAIN sources, a \in Assets \ overlooked :
              tx.read[u][a] = sources[u][a]
    /\ tx.pc \in {"failed", "unbound"} =>
         tx.at <= now /\ DOMAIN tx.read \subseteq DOMAIN sources

Listing ==
    /\ \A a \in Assets \ overlooked :
         IF events[a] = "verified" THEN \E u \in Urls : Bound(a) = {u}
         ELSE Bound(a) = {}
    /\ anchor = "verified" => \E a \in Assets : Bound(a) # {}
    /\ anchor = "suspended" =>
         \A a \in Assets \ overlooked : \A u \in Bound(a) :
             sources[u][a].expires <= now

Registered == Protected /\ Listing /\ \A p \in Operators : Current(p)

LEMMA InitRegistered == Init => Registered
<1> SUFFICES ASSUME Init PROVE Registered
  OBVIOUS
<1>1. \A a \in Assets : Bound(a) = {} /\ events[a] # "verified"
  BY DEF Init, RegistryInit, Bound
<1>2. Listing
  BY <1>1 DEF Listing, Init, RegistryInit
<1>3. \A p \in Operators : Current(p)
  BY DEF Init, Idle, Current
<1> QED
  BY <1>2, <1>3, InitProtected DEF Registered

(* Two discoveries are never both past the domains they end.               *)
LEMMA OneRehomes ==
    ASSUME Protected, NEW p \in Operators, NEW q \in Operators,
           At(p, "rehomed"), At(q, "rehomed")
    PROVE  p = q
<1> SUFFICES ASSUME p # q PROVE FALSE
  OBVIOUS
<1>1. PICK d \in Domains : d = txs[p].domain
  BY Shape DEF At, Protected, RowsTyped, TxTypes, Rehomed
<1> DEFINE l == [row |-> Row("domain", d), mode |-> "write", by |-> p]
           m == [row |-> Row("domain", d), mode |-> "write", by |-> q]
<1>2. l \in locks /\ m \in locks
  BY DEF At, Protected, Sound, AllHeld, Held
<1>3. l.row = m.row /\ l.by # m.by /\ Conflicts(l.mode, m.mode)
  BY DEF Conflicts
<1> QED
  BY <1>2, <1>3 DEF Protected, Exclusion

LEMMA BoundIs ==
    ASSUME NEW b
    PROVE  /\ \A u : u \in Bound(b) <=> u \in DOMAIN sources /\ sources[u][b] # Unbound
           /\ \A u : u \in Bound(b)' <=>
                u \in DOMAIN sources' /\ sources'[u][b] # Unbound
  BY DEF Bound, Unbound, Never

(* A discovery leaves its asset bound at its URL alone, and the others as  *)
(* they are.                                                               *)
LEMMA PersistLists ==
    ASSUME Registered, NEW q \in Operators, PersistDiscovery(q)
    PROVE  Listing'
<1> DEFINE tx == txs[q]
           new == [domain |-> tx.domain, expires |-> tx.at + DomainTTL]
<1>0. RowTypes /\ Listing /\ Current(q) /\ tx \in Transaction /\ tx.pc = "rehomed"
  BY DEF Registered, Protected, RowsTyped, TxTypes, PersistDiscovery, At
<1>1. /\ tx \in Rehomed /\ DOMAIN tx.read = DOMAIN sources
      /\ \A u \in DOMAIN sources, a \in Assets \ overlooked :
           tx.read[u][a] = sources[u][a]
  BY <1>0, Shape DEF Current
<1>2. /\ tx.at \in Nat /\ tx.asset \in Assets /\ tx.url \in Urls
      /\ sources \in Bindings /\ tx.read \in Bindings
  BY <1>0, <1>1, RowsAssumption DEF Rehomed, Time, RowTypes
<1>3. new # Unbound
  <2>1. tx.at + DomainTTL # Never
    BY <1>2, RegistryAssumption DEF Never
  <2> QED
    BY <2>1 DEF Unbound
<1>4. PICK a \in Assets : a = tx.asset
  BY <1>2
<1>5. PICK v \in Urls : v = tx.url
  BY <1>2
<1>6. /\ DOMAIN sources' = DOMAIN sources \cup {v}
      /\ \A u \in DOMAIN sources \cup {v}, c \in Assets :
           sources'[u][c] =
             IF u # v THEN Written(tx)[u][c]
             ELSE IF c = a THEN new
             ELSE IF u \in DOMAIN tx.read THEN tx.read[u][c] ELSE Unbound
  <2>1. sources' = Rebound(tx)
    BY DEF PersistDiscovery
  <2>2. /\ DOMAIN Rebound(tx) = DOMAIN sources \cup {tx.url}
        /\ \A u \in DOMAIN sources \cup {tx.url}, c \in Assets :
             Rebound(tx)[u][c] =
               IF u # tx.url THEN Written(tx)[u][c]
               ELSE IF c = tx.asset THEN new
               ELSE IF u \in DOMAIN tx.read THEN tx.read[u][c] ELSE Unbound
    BY <1>1, <1>2, ReboundType
  <2> HIDE DEF tx, new
  <2> QED
    BY <1>4, <1>5, <2>1, <2>2
<1>7. \A u \in DOMAIN sources, c \in Assets :
        Written(tx)[u][c] = IF c = a THEN Unbound ELSE tx.read[u][c]
  BY <1>1, <1>2, <1>4, WrittenType
<1>8. /\ anchor' = "verified" /\ overlooked' = overlooked \ {a}
      /\ \A b \in Assets : events'[b] = IF b = a THEN "verified" ELSE events[b]
  BY <1>0, <1>4 DEF PersistDiscovery, RowTypes
<1> HIDE DEF tx, new
<1>9. \A u \in DOMAIN sources \cup {v}, c \in Assets :
        sources'[u][c] = IF c = a THEN IF u = v THEN new ELSE Unbound
                         ELSE IF u \in DOMAIN sources THEN tx.read[u][c] ELSE Unbound
  BY <1>1, <1>6, <1>7
<1>10. Bound(a)' = {v}
  <2>1. ASSUME NEW u PROVE u \in Bound(a)' <=> u = v
    <3>1. u \in DOMAIN sources \cup {v} => (sources'[u][a] # Unbound <=> u = v)
      BY <1>3, <1>9
    <3> QED
      BY <1>6, <3>1, BoundIs
  <2> QED
    BY <2>1
<1>11. ASSUME NEW b \in Assets \ overlooked, b # a PROVE Bound(b)' = Bound(b)
  <2>1. ASSUME NEW u PROVE u \in Bound(b)' <=> u \in Bound(b)
    <3>1. u \in DOMAIN sources \cup {v} =>
            sources'[u][b] = IF u \in DOMAIN sources THEN sources[u][b] ELSE Unbound
      BY <1>1, <1>9, <1>11
    <3> QED
      BY <1>6, <3>1, BoundIs
  <2> QED
    BY <2>1
<1>12. ASSUME NEW b \in Assets \ overlooked'
       PROVE  IF events'[b] = "verified" THEN \E u \in Urls : Bound(b)' = {u}
              ELSE Bound(b)' = {}
  <2>1. CASE b = a
    BY <1>8, <1>10, <2>1
  <2>2. CASE b # a
    BY <1>0, <1>8, <1>11, <1>12, <2>2 DEF Listing
  <2> QED
    BY <2>1, <2>2
<1>13. \E b \in Assets : Bound(b)' # {}
  BY <1>10
<1> QED
  BY <1>8, <1>12, <1>13 DEF Listing

(* A suspension leaves its asset bound nowhere and the others as they are, *)
(* but for the assets it overlooks.                                        *)
LEMMA SuspensionLists ==
    ASSUME Registered, NEW q \in Operators, SuspendVerification(q)
    PROVE  Listing'
<1> DEFINE tx == txs[q]
<1>0. RowTypes /\ Listing /\ Current(q) /\ tx \in Transaction /\ tx.pc = "unbound"
  BY DEF Registered, Protected, RowsTyped, TxTypes, SuspendVerification, At
<1>1. tx \in Failed /\ tx.at <= now /\ DOMAIN tx.read \subseteq DOMAIN sources
  BY <1>0, Shape DEF Current
<1>2. /\ tx.at \in Nat /\ tx.asset \in Assets /\ sources \in Bindings
      /\ tx.read \in Bindings /\ now \in Nat /\ UNCHANGED now
  BY <1>0, <1>1, RowsAssumption DEF Failed, Time, RowTypes, SuspendVerification
<1>3. PICK a \in Assets : a = tx.asset
  BY <1>2
<1>4. /\ DOMAIN sources' = DOMAIN sources
      /\ \A u \in DOMAIN sources, c \in Assets :
           sources'[u][c] = IF u \notin DOMAIN tx.read THEN sources[u][c]
                            ELSE IF c = a THEN Unbound ELSE tx.read[u][c]
  BY <1>2, <1>3, WrittenType DEF SuspendVerification
<1>5. /\ Unseen(tx) \subseteq overlooked'
      /\ \A b \in Assets \ overlooked' : b # a => b \notin overlooked
  BY <1>3 DEF SuspendVerification
<1>6. ASSUME NEW b \in Assets \ overlooked', NEW u \in DOMAIN sources
      PROVE  /\ u \in DOMAIN tx.read => b = a \/ sources[u][b] = tx.read[u][b]
             /\ u \notin DOMAIN tx.read => sources[u][b] = Unbound
  BY <1>3, <1>5, <1>6 DEF Unseen
<1>7. /\ anchor' = IF HasCurrentBinding(tx) THEN "verified" ELSE "suspended"
      /\ \A b \in Assets : events'[b] = IF b = a THEN "suspended" ELSE events[b]
  BY <1>0, <1>3 DEF SuspendVerification, RowTypes
<1>8. \A u \in DOMAIN tx.read, b \in Assets : tx.read[u][b].expires \in Nat
  BY <1>2, BindingsAre DEF Source, Binding
<1>9. ASSUME NEW b \in Assets \ overlooked', NEW u \in DOMAIN sources
      PROVE  sources'[u][b] = IF b = a THEN Unbound ELSE sources[u][b]
  BY <1>4, <1>6
<1>10. ASSUME NEW b \in Assets \ overlooked'
       PROVE  IF events'[b] = "verified" THEN \E u \in Urls : Bound(b)' = {u}
              ELSE Bound(b)' = {}
  <2>1. CASE b = a
    <3>1. Bound(b)' = {}
      BY <1>4, <1>9, <2>1, BoundIs
    <3> QED
      BY <1>7, <2>1, <3>1
  <2>2. CASE b # a
    <3>1. ASSUME NEW u PROVE u \in Bound(b)' <=> u \in Bound(b)
      BY <1>4, <1>9, <2>2, BoundIs
    <3>2. Bound(b)' = Bound(b)
      BY <3>1
    <3>3. b \in Assets \ overlooked
      BY <1>5, <2>2
    <3> QED
      BY <1>0, <1>7, <2>2, <3>2, <3>3 DEF Listing
  <2> QED
    BY <2>1, <2>2
<1>11. ASSUME HasCurrentBinding(tx) PROVE \E b \in Assets : Bound(b)' # {}
  <2>1. PICK u \in DOMAIN tx.read, b \in Assets \ {a} : tx.read[u][b].expires > tx.at
    BY <1>3, <1>11 DEF HasCurrentBinding
  <2>2. tx.read[u][b].expires # Never
    BY <1>2, <1>8, <2>1 DEF Never
  <2>3. tx.read[u][b] # Unbound
    BY <2>2 DEF Unbound
  <2>4. u \in Bound(b)'
    BY <1>1, <1>4, <2>1, <2>3, BoundIs
  <2> QED
    BY <2>1, <2>4
<1>12. ASSUME ~HasCurrentBinding(tx), NEW b \in Assets \ overlooked', NEW u \in Bound(b)'
       PROVE  sources'[u][b].expires <= now
  <2>1. u \in DOMAIN sources /\ sources'[u][b] # Unbound
    BY <1>4, BoundIs
  <2>2. b # a /\ sources'[u][b] = sources[u][b]
    BY <1>9, <2>1
  <2>3. u \in DOMAIN tx.read /\ sources[u][b] = tx.read[u][b]
    BY <1>6, <2>1, <2>2
  <2>4. ~(tx.read[u][b].expires > tx.at)
    BY <1>3, <1>12, <2>2, <2>3 DEF HasCurrentBinding
  <2>5. tx.read[u][b].expires \in Nat
    BY <1>8, <2>3
  <2>6. PICK e \in Nat : e = tx.read[u][b].expires
    BY <2>5
  <2>7. e <= now
    BY <1>1, <1>2, <2>4, <2>6
  <2> QED
    BY <2>2, <2>3, <2>6, <2>7
<1> QED
  BY <1>2, <1>7, <1>10, <1>11, <1>12 DEF Listing

(* The sources that are there stay there, and a suspension changes nothing *)
(* an open discovery read that it does not overlook.                       *)
LEMMA OthersCurrent ==
    ASSUME Registered, NEW p \in Operators, NEW q \in Operators, p # q,
           PersistDiscovery(q) \/ SuspendVerification(q)
    PROVE  Current(p)'
<1> DEFINE tx == txs[p]
<1>0. /\ RowTypes /\ Protected /\ Current(p) /\ tx \in Transaction
      /\ txs[q] \in Transaction
  BY DEF Registered, Protected, RowsTyped, TxTypes
<1>1. UNCHANGED now /\ txs'[p] = tx
  BY DEF PersistDiscovery, SuspendVerification, End, Registered, Protected,
     RowsTyped, TxTypes
<1>2. CASE PersistDiscovery(q)
  <2>1. txs[q] \in Rehomed
    BY <1>0, <1>2, Shape DEF PersistDiscovery, At
  <2>2. DOMAIN sources \subseteq DOMAIN sources'
    BY <1>0, <1>2, <2>1, ReboundType DEF PersistDiscovery, RowTypes
  <2>3. tx.pc # "rehomed"
    BY <1>0, <1>2, OneRehomes DEF PersistDiscovery, At
  <2> QED
    BY <1>0, <1>1, <2>2, <2>3 DEF Current
<1>3. CASE SuspendVerification(q)
  <2> DEFINE ty == txs[q]
  <2>1. ty \in Failed
    BY <1>0, <1>3, Shape DEF SuspendVerification, At
  <2>2. ty.asset \in Assets /\ ty.read \in Bindings /\ sources \in Bindings
    BY <1>0, <2>1 DEF Failed, RowTypes
  <2>3. /\ DOMAIN sources' = DOMAIN sources
        /\ \A u \in DOMAIN sources, c \in Assets :
             sources'[u][c] = IF u \notin DOMAIN ty.read THEN sources[u][c]
                              ELSE IF c = ty.asset THEN Unbound ELSE ty.read[u][c]
    BY <1>3, <2>2, WrittenType DEF SuspendVerification
  <2>4. ASSUME tx.pc = "rehomed", NEW u \in DOMAIN sources, NEW c \in Assets \ overlooked'
        PROVE  tx.read[u][c] = sources'[u][c]
    <3>1. At(p, "rehomed")
      BY <2>4 DEF At
    <3>2. c \notin Unseen(ty) /\ c \notin overlooked /\ c # ty.asset
      BY <1>3, <2>4, <3>1 DEF SuspendVerification
    <3>3. u \in DOMAIN ty.read => sources[u][c] = ty.read[u][c]
      BY <2>4, <3>2 DEF Unseen
    <3>4. sources'[u][c] = sources[u][c]
      BY <2>3, <2>4, <3>2, <3>3
    <3>5. tx.read[u][c] = sources[u][c]
      BY <1>0, <2>4, <3>2 DEF Current
    <3> QED
      BY <3>4, <3>5
  <2> QED
    BY <1>0, <1>1, <2>3, <2>4 DEF Current
<1> QED
  BY <1>2, <1>3

LEMMA OwnCurrent ==
    ASSUME Registered, NEW q \in Operators, Step(q) PROVE Current(q)'
<1> DEFINE tx == txs[q]
<1>0. /\ txs \in [Operators -> Transaction] /\ tx \in Transaction
      /\ now \in Nat /\ Current(q)
  BY TimeType DEF Registered, Protected, RowsTyped, RowTypes, TxTypes
<1>1. txs'[q].pc \notin Readers => Current(q)'
  BY DEF Current, Readers
<1>2. End(q) => Current(q)'
  BY <1>0, <1>1 DEF End, Idle, Readers
<1>3. CASE DiscoverAnchor(q)
  <2>1. txs'[q].pc = "found"
    BY <1>0, <1>3 DEF DiscoverAnchor, Begin
  <2> QED
    BY <1>1, <2>1 DEF Readers
<1>4. CASE UpsertAnchor(q)
  <2>1. tx \in Found
    BY <1>0, <1>4, Shape DEF UpsertAnchor, At
  <2>2. txs'[q] = [tx EXCEPT !.pc = "anchored"]
    BY <1>0, <1>4 DEF UpsertAnchor, Become
  <2>3. txs'[q].pc = "anchored"
    BY <2>1, <2>2 DEF Found
  <2> QED
    BY <1>1, <2>3 DEF Readers
<1>5. CASE SupersedeDomains(q)
  <2>1. UNCHANGED sources
    BY <1>5 DEF SupersedeDomains, rows
  <2>2. txs'[q].pc = "rehomed" /\ txs'[q].read = sources
    BY <1>0, <1>5 DEF SupersedeDomains, Become
  <2> QED
    BY <2>1, <2>2 DEF Current
<1>6. CASE FailDiscovery(q)
  <2>1. PICK a \in Assets :
          txs'[q] = [pc |-> "failed", at |-> now, asset |-> a, read |-> sources]
    BY <1>0, <1>6 DEF FailDiscovery, Begin
  <2>2. UNCHANGED <<now, sources>>
    BY <1>6 DEF FailDiscovery, rows
  <2> QED
    BY <1>0, <2>1, <2>2 DEF Current
<1>7. CASE UnbindSources(q)
  <2>1. /\ tx \in Failed /\ DOMAIN tx.read \subseteq DOMAIN sources /\ tx.at <= now
    BY <1>0, <1>7, Shape DEF UnbindSources, At, Current
  <2>2. txs'[q] = [tx EXCEPT !.pc = "unbound"] /\ UNCHANGED <<now, sources>>
    BY <1>0, <1>7 DEF UnbindSources, Become, rows
  <2>3. txs'[q].pc = "unbound" /\ txs'[q].read = tx.read /\ txs'[q].at = tx.at
    BY <2>1, <2>2 DEF Failed
  <2> QED
    BY <2>1, <2>2, <2>3 DEF Current
<1>8. CASE ClaimNext(q) \/ SessionNext(q)
  <2>1. CASE End(q)
    BY <1>2, <2>1
  <2>2. CASE \/ CreateChallenge(q) \/ BeginClaim(q) \/ ProveDomain(q)
             \/ RevokeClaimants(q)
    <3>1. txs'[q].pc \in {"issuing", "proving", "proved", "succeeding"}
      BY <1>0, <2>2 DEF CreateChallenge, BeginClaim, ProveDomain, RevokeClaimants,
         Begin, Become
    <3> QED
      BY <1>1, <3>1 DEF Readers
  <2>3. CASE LockClaim(q)
    <3>1. tx \in Proved
      BY <1>0, <2>3, Shape DEF LockClaim, At
    <3>2. txs'[q] = [tx EXCEPT !.pc = "claimable"]
      BY <1>0, <2>3 DEF LockClaim, Become
    <3>3. txs'[q].pc = "claimable"
      BY <3>1, <3>2 DEF Proved
    <3> QED
      BY <1>1, <3>3 DEF Readers
  <2>4. CASE BeginSession(q)
    <3>1. PICK s \in DOMAIN sessions : \E t \in Operations(s) : Begin(q, t)
      BY <2>4 DEF BeginSession
    <3>2. PICK t \in Operations(s) : Begin(q, t)
      BY <3>1
    <3>3. txs'[q] = t /\ t.pc \in SessionOps
      BY <1>0, <3>2 DEF Begin, Operations, SessionOps, ContactOps
    <3> QED
      BY <1>1, <3>3 DEF SessionOps, ContactOps, Readers
  <2>5. CASE AuthenticateSession(q)
    <3>1. tx.pc \in SessionOps
      BY <2>5 DEF AuthenticateSession, SessionOps
    <3>2. tx \in Contacting \cup Speaking
      BY <1>0, <3>1, Shape DEF SessionOps
    <3>3. txs'[q] = [tx EXCEPT !.granted = TRUE]
      BY <1>0, <2>5 DEF AuthenticateSession, Become
    <3>4. txs'[q].pc = tx.pc
      BY <3>2, <3>3 DEF Contacting, Speaking
    <3> QED
      BY <1>1, <3>1, <3>4 DEF SessionOps, ContactOps, Readers
  <2> QED
    BY <1>8, <2>1, <2>2, <2>3, <2>4, <2>5
    DEF ClaimNext, SessionNext, IssueChallenge, ClaimAnchor, RegisterVerifiedContact,
        RevokeContact, RevokeSession, Speak
<1> QED
  BY <1>2, <1>3, <1>4, <1>5, <1>6, <1>7, <1>8
  DEF Step, RegistryNext, PersistDiscovery, SuspendVerification, Abort

LEMMA RegistrationKept == Registered /\ [Next]_vars => Registered'
<1> SUFFICES ASSUME Registered, [Next]_vars PROVE Registered'
  OBVIOUS
<1>0. Protected' /\ RowsTyped /\ Listing /\ TxTypes
  BY ProtectionKept DEF Registered, Protected, RowsTyped
<1>1. ASSUME UNCHANGED <<anchor, sources, events, overlooked>>, now' >= now
      PROVE  Listing'
  <2>1. \A a \in Assets : Bound(a)' = Bound(a)
    BY <1>1 DEF Bound, Unbound, Never
  <2>2. \A a \in Assets : \A u \in Bound(a) : sources[u][a].expires \in Nat
    BY <1>0, BindingsAre, BoundIs DEF RowsTyped, RowTypes, Source, Binding
  <2>3. now \in Nat /\ now' \in Nat
    BY <1>0, RowsAssumption DEF Protected, RowsTyped, RowTypes, Time
  <2>4. anchor = "suspended" =>
          \A a \in Assets \ overlooked : \A u \in Bound(a) :
              sources[u][a].expires <= now'
    BY <1>0, <1>1, <2>2, <2>3 DEF Listing
  <2> QED
    BY <1>0, <1>1, <2>1, <2>4 DEF Listing
<1>2. ASSUME UNCHANGED <<sources, overlooked>>, now' >= now,
             NEW p \in Operators, txs'[p] = txs[p]
      PROVE  Current(p)'
  <2>1. Current(p) /\ txs[p] \in Transaction
    BY <1>0 DEF Registered, TxTypes
  <2>2. now \in Nat /\ now' \in Nat
    BY <1>0, RowsAssumption DEF Protected, RowsTyped, RowTypes, Time
  <2>3. txs[p].pc \in {"failed", "unbound"} => txs[p].at \in Nat
    BY <2>1, Shape, RowsAssumption DEF Failed, Time
  <2>4. txs[p].pc \in {"failed", "unbound"} => txs[p].at <= now'
    BY <1>2, <2>1, <2>2, <2>3 DEF Current
  <2> QED
    BY <1>2, <2>1, <2>4 DEF Current
<1>3. now \in Nat
  BY <1>0, TimeType DEF RowsTyped, RowTypes
<1>4. ASSUME NEW q \in Operators, Step(q) PROVE Registered'
  <2>1. UNCHANGED now
    BY <1>4, Writers DEF rows, PersistDiscovery, SuspendVerification, IssueChallenge,
       ClaimAnchor, RegisterVerifiedContact, RevokeContact, RevokeSession
  <2>2. \/ UNCHANGED <<anchor, sources, events, overlooked>>
        \/ PersistDiscovery(q) \/ SuspendVerification(q)
    BY <1>4, Writers DEF rows, IssueChallenge, ClaimAnchor, RegisterVerifiedContact,
       RevokeContact, RevokeSession
  <2>3. Listing'
    BY <1>1, <1>3, <2>1, <2>2, PersistLists, SuspensionLists
  <2>4. ASSUME NEW p \in Operators, p # q PROVE Current(p)'
    <3>1. txs'[p] = txs[p]
      BY <1>0, <1>4, <2>4, StepMoves DEF Moves, TxTypes
    <3> QED
      BY <1>2, <1>3, <2>1, <2>2, <2>4, <3>1, OthersCurrent
  <2> QED
    BY <1>0, <1>4, <2>3, <2>4, OwnCurrent DEF Registered
<1>5. CASE Tick \/ UNCHANGED vars
  <2>1. /\ UNCHANGED <<anchor, sources, events, overlooked, txs>>
        /\ now' \in {now, now + 1}
    BY <1>5 DEF Tick, vars, rows
  <2>2. now' >= now
    BY <1>3, <2>1
  <2> QED
    BY <1>0, <1>1, <1>2, <2>1, <2>2 DEF Registered
<1> QED
  BY <1>4, <1>5 DEF Next, Step

(* Whatever operators verify and suspend the anchor's assets at once, an   *)
(* asset no suspension overlooked is bound where its last verification     *)
(* said and nowhere else, and the anchor's status is true of its bindings  *)
(* (persistVerifiedDiscovery, suspendVerification).                        *)
THEOREM RegistryHonestHolds == Spec => []RegistryHonest
<1>1. Init => Registered
  BY InitRegistered
<1>2. Registered /\ [Next]_vars => Registered'
  BY RegistrationKept
<1>3. ASSUME Registered PROVE RegistryHonest
  <2>1. ASSUME NEW a \in Assets \ overlooked
        PROVE  Cardinality(Bound(a)) = IF events[a] = "verified" THEN 1 ELSE 0
    <3>1. CASE events[a] = "verified"
      <4>1. PICK u \in Urls : Bound(a) = {u}
        BY <1>3, <3>1 DEF Registered, Listing
      <4>2. Cardinality({u}) = 1
        BY FS_Singleton
      <4> QED
        BY <3>1, <4>1, <4>2
    <3>2. CASE events[a] # "verified"
      BY <1>3, <3>2, FS_EmptySet DEF Registered, Listing
    <3> QED
      BY <3>1, <3>2
  <2> QED
    BY <1>3, <2>1 DEF Registered, Listing, RegistryHonest
<1>4. Registered => RegistryHonest
  BY <1>3
<1> QED
  BY <1>1, <1>2, <1>4, PTL DEF Spec

=============================================================================

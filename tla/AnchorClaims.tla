---------------------------- MODULE AnchorClaims ----------------------------
(***************************************************************************)
(* Claims of an anchor's domain: a challenge is issued, the claimant shows *)
(* its token on the domain, and becomes the domain's claimant in place of  *)
(* the one before; its session then registers and revokes contacts,        *)
(* replies and disputes.  The operations run beside one another and beside *)
(* the registry's, and wait for one another at the rows they lock.         *)
(* Claimant i has session i: a claim opens exactly one.                    *)
(***************************************************************************)
EXTENDS AnchorRegistry

CONSTANTS ChallengeTTL, ClaimTTL, SessionTTL,
          MaxChallenges   \* bound: challenges ever issued

ASSUME ClaimsAssumption ==
    /\ {ChallengeTTL, ClaimTTL, SessionTTL} \subseteq Nat \ {0}
    /\ MaxChallenges \in Nat

Init ==
    /\ RegistryInit
    /\ now = 1
    /\ challenges = << >> /\ claimants = << >> /\ sessions = << >>
    /\ contacts = [k \in Contacts |-> Unknown]
    /\ txs = [p \in Operators |-> Idle]
    /\ locks = {}

-----------------------------------------------------------------------------
(***************************************************************************)
(* A challenge, for the domain verified last.                              *)
(***************************************************************************)
CurrentDomains ==
    {d \in Domains : domains[d].verifiedAt # Never /\ domains[d].expires > now}

LatestDomain(d) ==
    /\ d \in CurrentDomains
    /\ \A e \in CurrentDomains : domains[e].verifiedAt <= domains[d].verifiedAt

\* The domain is read without a lock.
CreateChallenge(p) ==
    /\ WorkLeft
    /\ anchor = "verified"
    /\ \E d \in Domains :
         /\ LatestDomain(d)
         /\ Begin(p, [pc |-> "issuing", domain |-> d,
                      expires |-> Earlier(now + ChallengeTTL, domains[d].expires)])
    /\ UNCHANGED <<now, rows, locks>>

\* The challenge and its event refer to the rows of the anchor and the domain.
IssueChallenge(p) ==
    LET tx == txs[p] IN
    /\ At(p, "issuing")
    /\ Len(challenges) < MaxChallenges
    /\ AllFree(p, {AnchorRow, Row("domain", tx.domain)}, "share")
    /\ challenges' = Append(challenges,
          [domain |-> tx.domain, consumedAt |-> Never, expires |-> tx.expires])
    /\ End(p)
    /\ UNCHANGED <<now, anchor, domains, sources, events, recorded, overlooked, claimants,
                   sessions, contacts>>

-----------------------------------------------------------------------------
(***************************************************************************)
(* The claim: the challenge is read, the domain asked, and everything read *)
(* again under locks.                                                      *)
(***************************************************************************)
BeginClaim(p) ==
    /\ \E c \in DOMAIN challenges :
         /\ challenges[c].consumedAt = Never
         /\ challenges[c].expires > now
         /\ Begin(p, [pc |-> "proving", challenge |-> c])
    /\ UNCHANGED <<now, rows, locks>>

\* verifyDomainClaim found the token; its time is taken before the locks.
ProveDomain(p) ==
    /\ At(p, "proving")
    /\ Become(p, [pc |-> "proved", challenge |-> txs[p].challenge, at |-> now])
    /\ UNCHANGED <<now, rows, locks>>

ChallengeOf(p) == challenges[txs[p].challenge]

\* Mutant of ClaimRows: only the challenge is read again under a lock.
MutClaimRows(p) == {Row("challenge", txs[p].challenge)}

ClaimRows(p) == {Row("challenge", txs[p].challenge),
                 Row("domain", ChallengeOf(p).domain), AnchorRow}

StillClaimable(p) ==
    LET challenge == ChallengeOf(p) IN
    /\ challenge.consumedAt = Never
    /\ anchor = "verified"
    /\ challenge.expires > txs[p].at
    /\ domains[challenge.domain].expires > txs[p].at

LockClaim(p) ==
    /\ At(p, "proved")
    /\ AllFree(p, ClaimRows(p), "update")
    /\ StillClaimable(p)
    /\ Lock(p, ClaimRows(p), "update")
    /\ Become(p, [txs[p] EXCEPT !.pc = "claimable"])
    /\ UNCHANGED <<now, rows>>

ClaimantsOf(d) ==
    {i \in DOMAIN claimants :
        claimants[i].domain = d /\ claimants[i].revokedAt = Never}
\* Mutant of ContactsOf: a claim leaves the contacts it succeeds alone.
MutContactsOf(d) == {}

ContactsOf(d) ==
    {k \in Contacts : /\ contacts[k].owner # 0
                      /\ DomainOf[k] = d
                      /\ contacts[k].revokedAt = Never}

RevokeClaimants(p) ==
    LET revoked == ClaimantsOf(ChallengeOf(p).domain)
        written == {Row("claimant", i) : i \in revoked} IN
    /\ At(p, "claimable")
    /\ AllFree(p, written, "write")
    /\ Lock(p, written, "write")
    /\ Become(p, [pc |-> "succeeding", challenge |-> txs[p].challenge,
                  at |-> txs[p].at, revoked |-> revoked])
    /\ UNCHANGED <<now, rows>>

\* Nothing waits once the contacts are locked.  The checks of the schema refuse
\* to revoke what was verified later.
ClaimAnchor(p) ==
    LET tx == txs[p]
        d == ChallengeOf(p).domain
        revoked == ContactsOf(d)
        expires == Earlier(tx.at + ClaimTTL, domains[d].expires) IN
    /\ At(p, "succeeding")
    /\ AllFree(p, {Row("contact", k) : k \in revoked}, "write")
    /\ \A i \in tx.revoked : claimants[i].verifiedAt <= tx.at
    /\ \A k \in revoked : contacts[k].verifiedAt <= tx.at
    /\ claimants' = Append([i \in DOMAIN claimants |->
            IF i \in tx.revoked THEN [claimants[i] EXCEPT !.revokedAt = tx.at]
            ELSE claimants[i]],
          [domain |-> d, challenge |-> tx.challenge, verifiedAt |-> tx.at,
           expires |-> expires, revokedAt |-> Never])
    /\ contacts' = [k \in Contacts |->
            IF k \in revoked THEN [contacts[k] EXCEPT !.revokedAt = tx.at]
            ELSE contacts[k]]
    /\ challenges' = [challenges EXCEPT ![tx.challenge].consumedAt = tx.at]
    /\ sessions' = Append(sessions,
          [expires |-> Earlier(tx.at + SessionTTL, expires), revokedAt |-> Never])
    /\ End(p)
    /\ UNCHANGED <<now, anchor, domains, sources, events, recorded, overlooked>>

-----------------------------------------------------------------------------
(***************************************************************************)
(* The operations of a session.  Each takes its time, then locks its       *)
(* session and claimant until it ends; a webhook is asked meanwhile.       *)
(***************************************************************************)
ContactOps == {"register", "revoke_contact"}

Authentic(tx) ==
    /\ sessions[tx.session].revokedAt = Never
    /\ tx.pc # "revoke_session" =>
         /\ sessions[tx.session].expires > tx.at
         /\ claimants[tx.session].revokedAt = Never
         /\ claimants[tx.session].expires > tx.at

Operations(s) ==
    [pc : ContactOps, session : {s}, at : {now}, granted : {FALSE},
     contact : {k \in Contacts : DomainOf[k] = claimants[s].domain}]
    \cup [pc : {"revoke_session", "speak"}, session : {s}, at : {now},
          granted : {FALSE}]

\* An operation that could not authenticate even now is left out: it changes
\* nothing, and neither a session nor a claimant comes back.
BeginSession(p) ==
    /\ \E s \in DOMAIN sessions : \E tx \in Operations(s) :
         Authentic(tx) /\ Begin(p, tx)
    /\ UNCHANGED <<now, rows, locks>>

\* Mutant of SessionRows: authentication locks the session alone.
MutSessionRows(tx) == {Row("session", tx.session)}

SessionRows(tx) == {Row("session", tx.session), Row("claimant", tx.session)}

AuthenticateSession(p) ==
    LET tx == txs[p] IN
    /\ tx.pc \in ContactOps \cup {"revoke_session", "speak"}
    /\ ~tx.granted
    /\ AllFree(p, SessionRows(tx), "update")
    /\ Authentic(tx)
    /\ Lock(p, SessionRows(tx), "update")
    /\ Become(p, [tx EXCEPT !.granted = TRUE])
    /\ UNCHANGED <<now, rows>>

Granted(p, op) == At(p, op) /\ txs[p].granted

\* A contact is inserted, or taken over where its endpoint is known; one that had
\* no domain refers to its row now, and the claim's event to the anchor's.
RegisterVerifiedContact(p) ==
    LET tx == txs[p]  k == tx.contact  claimant == claimants[tx.session] IN
    /\ Granted(p, "register")
    /\ Free(p, Row("contact", k), "write")
    /\ Free(p, AnchorRow, "share")
    /\ contacts[k].owner = 0 => Free(p, Row("domain", claimant.domain), "share")
    /\ contacts' = [contacts EXCEPT ![k] =
          [known |-> TRUE, owner |-> tx.session, verifiedAt |-> tx.at,
           expires |-> claimant.expires, revokedAt |-> Never]]
    /\ End(p)
    /\ UNCHANGED <<now, anchor, domains, sources, events, recorded, overlooked, challenges,
                   claimants, sessions>>

RevokeContact(p) ==
    LET tx == txs[p]  k == tx.contact IN
    /\ Granted(p, "revoke_contact")
    /\ Free(p, Row("contact", k), "update")
    /\ Free(p, AnchorRow, "share")
    /\ contacts[k].owner = tx.session
    /\ contacts[k].revokedAt = Never
    /\ contacts[k].verifiedAt <= tx.at
    /\ contacts' = [contacts EXCEPT ![k].revokedAt = tx.at]
    /\ End(p)
    /\ UNCHANGED <<now, anchor, domains, sources, events, recorded, overlooked, challenges,
                   claimants, sessions>>

RevokeSession(p) ==
    LET tx == txs[p] IN
    /\ Granted(p, "revoke_session")
    /\ Free(p, AnchorRow, "share")
    /\ sessions' = [sessions EXCEPT ![tx.session].revokedAt = tx.at]
    /\ End(p)
    /\ UNCHANGED <<now, anchor, domains, sources, events, recorded, overlooked, challenges,
                   claimants, contacts>>

\* A reply or a dispute is stored, where its case or its flag allows one.
Speak(p) ==
    /\ Granted(p, "speak")
    /\ End(p)
    /\ UNCHANGED <<now, rows>>

-----------------------------------------------------------------------------
ClaimNext(p) ==
    \/ CreateChallenge(p) \/ IssueChallenge(p)
    \/ BeginClaim(p) \/ ProveDomain(p) \/ LockClaim(p)
    \/ RevokeClaimants(p) \/ ClaimAnchor(p)
SessionNext(p) ==
    \/ BeginSession(p) \/ AuthenticateSession(p)
    \/ RegisterVerifiedContact(p) \/ RevokeContact(p) \/ RevokeSession(p)
    \/ Speak(p)

Next ==
    \/ Tick
    \/ \E p \in Operators :
         RegistryNext(p) \/ ClaimNext(p) \/ SessionNext(p) \/ Abort(p)

Spec == Init /\ [][Next]_vars

-----------------------------------------------------------------------------
(***************************************************************************)
(* Properties.                                                             *)
(***************************************************************************)
\* The rows and the transactions have their types.
ClaimsTypeOK ==
    /\ now \in Time
    /\ anchor \in {"unregistered", "verified", "suspended"}
    /\ \A c \in DOMAIN challenges : challenges[c].domain \in Domains
    /\ Len(sessions) = Len(claimants)
    /\ \A i \in DOMAIN claimants :
         /\ claimants[i].domain \in Domains
         /\ claimants[i].challenge \in DOMAIN challenges
    /\ \A k \in Contacts : contacts[k].owner \in 0..Len(claimants)
    /\ \A l \in locks : l.by \in Operators /\ txs[l.by] # Idle

\* The holder of a domain is the claimant not revoked, and a contact is live
\* while it is not.
Holder(d) == IF ClaimantsOf(d) = {} THEN 0 ELSE CHOOSE i \in ClaimantsOf(d) : TRUE
Owner(k) == IF contacts[k].revokedAt = Never THEN contacts[k].owner ELSE 0

Authority == INSTANCE DomainAuthority WITH
    Claimants <- 1..MaxChallenges,
    holder <- [d \in Domains |-> Holder(d)],
    owner <- [k \in Contacts |-> Owner(k)]

\* Transactions that wait for one another at row locks change hands and contacts
\* as if each ran alone: a contact registered or revoked while its domain changes
\* hands belongs to the holder the domain has, or is gone with the one it had
\* (claimAnchor revokes the claimants before it looks for their contacts).
ImplementsAuthority == Authority!Spec

\* While an operation of a session is under way, the webhook's answer or the
\* scan of the evidence included, its claimant is not replaced: nothing is
\* registered, revoked, replied or disputed for a claimant that was
\* (authenticateSession holds the claimant's row to the end).
AuthorityHeld ==
    \A p \in Operators :
        txs[p].pc \in ContactOps \cup {"speak"} /\ txs[p].granted =>
            claimants[txs[p].session].revokedAt = Never

\* A claimant is only ever written while the anchor is verified and the domain's
\* verification outlasts it, for a challenge nobody used: whatever discovery,
\* suspension or claim ended during the domain check or the wait for the locks
\* (claimAnchor reads its rows again FOR UPDATE).
ClaimEarned ==
    [][Len(claimants') # Len(claimants) =>
         LET claimant == claimants'[Len(claimants')]
             challenge == challenges[claimant.challenge] IN
         /\ anchor = "verified"
         /\ challenge.consumedAt = Never
         /\ challenge.domain = claimant.domain
         /\ claimant.verifiedAt < challenge.expires
         /\ claimant.verifiedAt < claimant.expires
         /\ claimant.expires <= domains[claimant.domain].expires
         /\ sessions'[Len(sessions')].expires <= domains[claimant.domain].expires]_vars
=============================================================================

--------------------------- MODULE AnchorRegistry ---------------------------
(***************************************************************************)
(* The registry of verified anchors: an operator looks an asset's issuer   *)
(* up, and either writes what was verified or suspends the asset.  Writing *)
(* starts with the anchor's row and so excludes another writer; a          *)
(* suspension reads the bindings without a lock, writes the rows it read,  *)
(* and locks the anchor last.                                              *)
(***************************************************************************)
EXTENDS AnchorRows

CONSTANTS Registrars,    \* the operators that run discoveries
          Published,     \* <<domain, URL>> pairs an issuer may publish
          Listed,        \* endpoints a domain's document lists
          DomainTTL      \* how long a verification lasts

ASSUME RegistryAssumption ==
    /\ Registrars \subseteq Operators
    /\ Published \subseteq Domains \X Urls
    /\ Listed \subseteq Contacts
    /\ DomainTTL \in Nat \ {0}

Unbound == [domain |-> "none", expires |-> Never]
NewSource == [a \in Assets |-> Unbound]
Unknown == [known |-> FALSE, owner |-> 0, verifiedAt |-> Never,
            expires |-> Never, revokedAt |-> Never]
Unverified == [verifiedAt |-> Never, expires |-> Never]

RegistryInit ==
    /\ anchor = "unregistered"
    /\ domains = [d \in Domains |-> Unverified]
    /\ sources = [u \in {} |-> NewSource]
    /\ events = [a \in Assets |-> "none"]
    /\ overlooked = {} /\ recorded = 0

SourceRows(urls) == {Row("source", u) : u \in urls}

-----------------------------------------------------------------------------
(***************************************************************************)
(* A discovery that verified the issuer, its domain and its document.      *)
(***************************************************************************)
DiscoverAnchor(p) ==
    /\ p \in Registrars /\ WorkLeft
    /\ \E a \in Assets, pair \in Published :
         Begin(p, [pc |-> "found", at |-> now, asset |-> a,
                   domain |-> pair[1], url |-> pair[2]])
    /\ UNCHANGED <<now, rows, locks>>

UpsertAnchor(p) ==
    /\ At(p, "found")
    /\ Free(p, AnchorRow, "write")
    /\ Lock(p, {AnchorRow}, "write")
    /\ Become(p, [txs[p] EXCEPT !.pc = "anchored"])
    /\ UNCHANGED <<now, rows>>

\* The verified domain is written and the others end with it; the sources are
\* read next, and written from what was read.
SupersedeDomains(p) ==
    LET tx == txs[p]
        written == {Row("domain", d) : d \in Domains} IN
    /\ At(p, "anchored")
    /\ AllFree(p, written, "write")
    /\ Lock(p, written, "write")
    /\ Become(p, [pc |-> "rehomed", at |-> tx.at, asset |-> tx.asset,
                  domain |-> tx.domain, url |-> tx.url, read |-> sources])
    /\ UNCHANGED <<now, rows>>

Superseded(row, at) ==
    IF row = Unverified THEN row ELSE [row EXCEPT !.expires = at]

\* The row of the verified URL, new or as it was read.
BoundRow(tx) ==
    [(IF tx.url \in DOMAIN tx.read THEN tx.read[tx.url] ELSE NewSource)
        EXCEPT ![tx.asset] = [domain |-> tx.domain, expires |-> tx.at + DomainTTL]]

\* The rows tx read, written back without its asset.
Written(tx) ==
    [u \in DOMAIN sources |->
        IF u \in DOMAIN tx.read THEN [tx.read[u] EXCEPT ![tx.asset] = Unbound]
        ELSE sources[u]]

\* Mutant of Rebound: the URL an asset was bound at before keeps it.
MutRebound(tx) ==
    [u \in DOMAIN sources \cup {tx.url} |->
        IF u = tx.url THEN BoundRow(tx) ELSE sources[u]]

Rebound(tx) ==
    [u \in DOMAIN sources \cup {tx.url} |->
        IF u = tx.url THEN BoundRow(tx) ELSE Written(tx)[u]]

\* The source of a URL that was not read is inserted, and there must be none.
PersistDiscovery(p) ==
    LET tx == txs[p] IN
    /\ At(p, "rehomed")
    /\ tx.url \in DOMAIN sources => tx.url \in DOMAIN tx.read
    /\ AllFree(p, SourceRows(DOMAIN tx.read \cup {tx.url}), "write")
    /\ anchor' = "verified"
    /\ domains' = [d \in Domains |->
          IF d = tx.domain
          THEN [verifiedAt |-> tx.at, expires |-> tx.at + DomainTTL]
          ELSE Superseded(domains[d], tx.at)]
    /\ sources' = Rebound(tx)
    /\ recorded' = recorded + 1
    /\ events' = [events EXCEPT ![tx.asset] = "verified"]
    /\ overlooked' = overlooked \ {tx.asset}
    /\ contacts' = [k \in Contacts |->
          IF k \in Listed /\ DomainOf[k] = tx.domain
          THEN [contacts[k] EXCEPT !.known = TRUE] ELSE contacts[k]]
    /\ End(p)
    /\ UNCHANGED <<now, challenges, claimants, sessions>>

-----------------------------------------------------------------------------
(***************************************************************************)
(* A discovery that failed, for an anchor that is registered.              *)
(***************************************************************************)
FailDiscovery(p) ==
    /\ p \in Registrars /\ WorkLeft
    /\ anchor # "unregistered"
    /\ \E a \in Assets :
         Begin(p, [pc |-> "failed", at |-> now, asset |-> a, read |-> sources])
    /\ UNCHANGED <<now, rows, locks>>

UnbindSources(p) ==
    /\ At(p, "failed")
    /\ AllFree(p, SourceRows(DOMAIN txs[p].read), "write")
    /\ Lock(p, SourceRows(DOMAIN txs[p].read), "write")
    /\ Become(p, [txs[p] EXCEPT !.pc = "unbound"])
    /\ UNCHANGED <<now, rows>>

\* Another asset's binding keeps the anchor verified while it is current.
HasCurrentBinding(tx) ==
    \E u \in DOMAIN tx.read, a \in Assets \ {tx.asset} :
        tx.read[u][a].expires > tx.at

\* The domain the event names: the asset's binding's, or any the anchor has.
EventDomains(tx) ==
    LET bindings == {tx.read[u][tx.asset] : u \in DOMAIN tx.read} \ {Unbound} IN
    IF bindings # {} THEN {b.domain : b \in bindings}
    ELSE {d \in Domains : domains[d] # Unverified}

\* The assets whose bindings changed since tx read them: a row is written back
\* without the change, or is one tx did not read.
Unseen(tx) ==
    {a \in Assets : \E u \in DOMAIN sources :
        IF u \in DOMAIN tx.read THEN a # tx.asset /\ sources[u][a] # tx.read[u][a]
        ELSE sources[u][a] # Unbound}

SuspendVerification(p) ==
    LET tx == txs[p] IN
    /\ At(p, "unbound")
    /\ Free(p, AnchorRow, "write")
    /\ \E d \in EventDomains(tx) : Free(p, Row("domain", d), "share")
    /\ anchor' = IF HasCurrentBinding(tx) THEN "verified" ELSE "suspended"
    /\ sources' = Written(tx)
    /\ recorded' = recorded + 1
    /\ events' = [events EXCEPT ![tx.asset] = "suspended"]
    /\ overlooked' = Unseen(tx) \cup
          IF \E q \in Operators : At(q, "rehomed")
          THEN overlooked \cup {tx.asset} ELSE overlooked \ {tx.asset}
    /\ End(p)
    /\ UNCHANGED <<now, domains, challenges, claimants, sessions, contacts>>

RegistryNext(p) ==
    \/ DiscoverAnchor(p) \/ UpsertAnchor(p) \/ SupersedeDomains(p)
    \/ PersistDiscovery(p)
    \/ FailDiscovery(p) \/ UnbindSources(p) \/ SuspendVerification(p)

-----------------------------------------------------------------------------
(***************************************************************************)
(* Properties.                                                             *)
(***************************************************************************)
Bound(a) == {u \in DOMAIN sources : sources[u][a] # Unbound}

\* Whatever operators verify and suspend the assets of an anchor at once, the
\* registry says of an asset what its last verification said, unless a
\* suspension overlooked it: one last verified is bound at one URL, one that
\* failed re-verification nowhere, and no binding of a suspended anchor outlives
\* the present.  A suspension reads the bindings without a lock
\* (anchor-repository.ts:201); it overlooks what another operator binds, or has
\* read to bind, meanwhile.  Nothing else is lost: discoveries keep one
\* another's bindings, an overlooked asset is as its next verification says, and
\* a verified anchor always has a binding.
RegistryHonest ==
    /\ \A a \in Assets \ overlooked :
         Cardinality(Bound(a)) = IF events[a] = "verified" THEN 1 ELSE 0
    /\ anchor = "verified" => \E a \in Assets : Bound(a) # {}
    /\ anchor = "suspended" =>
         \A a \in Assets \ overlooked : \A u \in Bound(a) :
             sources[u][a].expires <= now
=============================================================================

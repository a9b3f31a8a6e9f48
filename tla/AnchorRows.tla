----------------------------- MODULE AnchorRows -----------------------------
(***************************************************************************)
(* The rows the anchor registry and the domain claims share, and the row   *)
(* locks PostgreSQL takes for the transactions of both at READ COMMITTED.  *)
(* One anchor is modelled: every row names its anchor, and no transaction  *)
(* touches two.  Its operators are command-line processes, so several      *)
(* transactions may be open at once; what one has written is seen by the   *)
(* others when it commits.                                                 *)
(***************************************************************************)
EXTENDS Naturals, FiniteSets, Sequences

CONSTANTS Operators,     \* processes, each with at most one transaction
          Domains, Assets, Urls,
          Contacts,      \* the endpoints somebody may register
          DomainOf,      \* [Contacts -> Domains]: where an endpoint belongs
          MaxTime,       \* bound: the clock runs from 1 to MaxTime
          MaxWork        \* bound: verifications and challenges before one is begun

ASSUME RowsAssumption ==
    /\ IsFiniteSet(Operators)
    /\ DomainOf \in [Contacts -> Domains]
    /\ MaxTime \in Nat \ {0}
    /\ MaxWork \in Nat

VARIABLES now,
          anchor,      \* the status of the anchor's row, or "unregistered"
          domains,     \* when each domain was verified and until when
          sources,     \* the reserve bindings of each registered attestation URL
          events,      \* the last verification event of each asset
          recorded,    \* how many verification events there are, for MaxWork
          overlooked,  \* history: assets whose bindings a suspension did not see
          challenges, claimants, sessions, contacts,
          txs,         \* what each operator is doing
          locks        \* the row locks held

rows == <<anchor, domains, sources, events, recorded, overlooked, challenges,
          claimants, sessions, contacts>>
vars == <<now, rows, txs, locks>>

Time == 1..MaxTime
Never == 0
WorkLeft == recorded + Len(challenges) < MaxWork
Earlier(s, t) == IF s < t THEN s ELSE t

AnchorRow == <<"anchor">>
Row(table, key) == <<table, key>>

\* FOR UPDATE excludes every other lock; an UPDATE that changes no key excludes
\* every lock but the one a foreign key takes on the row it refers to.
Conflicts(mode, other) ==
    \/ "update" \in {mode, other}
    \/ mode = "write" /\ other = "write"

Free(p, row, mode) ==
    \A l \in locks : (l.row = row /\ l.by # p) => ~Conflicts(mode, l.mode)
AllFree(p, rs, mode) == \A r \in rs : Free(p, r, mode)
Lock(p, rs, mode) ==
    locks' = locks \cup {[row |-> r, mode |-> mode, by |-> p] : r \in rs}

Idle == [pc |-> "idle"]
Begin(p, tx) == /\ txs[p] = Idle
                /\ txs' = [txs EXCEPT ![p] = tx]
Become(p, tx) == txs' = [txs EXCEPT ![p] = tx]
At(p, pc) == txs[p].pc = pc

\* Mutant of End: the locks of a transaction outlive it.
MutEnd(p) == /\ txs' = [txs EXCEPT ![p] = Idle]
             /\ UNCHANGED locks

\* The transaction of p is over: its locks are released.
End(p) == /\ txs' = [txs EXCEPT ![p] = Idle]
          /\ locks' = {l \in locks : l.by # p}

\* A transaction may fail at any point, and leaves nothing behind: its process
\* ends, the connection is lost, a verification it awaits fails, or it is the
\* one PostgreSQL picks among transactions that wait for one another.
Abort(p) == /\ txs[p] # Idle
            /\ End(p)
            /\ UNCHANGED <<now, rows>>

Tick == /\ now < MaxTime
        /\ now' = now + 1
        /\ UNCHANGED <<rows, txs, locks>>
=============================================================================

---------------------------- MODULE SnapshotFeed ----------------------------
(***************************************************************************)
(* What docs/snapshot-events.md promises a reader of the snapshot events:  *)
(* from where it started it receives the published events in the order of  *)
(* their ids, none of them twice and none skipped, and may resume after    *)
(* any event it has received.  The promise can only cover the events that  *)
(* were published in the order of their ids: one that was overtaken by a   *)
(* larger id may come too late.                                            *)
(*                                                                         *)
(* How the server reads, buffers, polls, authorizes or fails is invisible. *)
(***************************************************************************)
EXTENDS Naturals, Sequences

CONSTANT Id     \* the ids events may get, positive numbers

VARIABLES
    visible,    \* the ids of the published events
    overtaken,  \* those that were published after a larger id
    start,      \* the id the reader started after
    received    \* the ids it has received since, in order

vars == <<visible, overtaken, start, received>>

Last == IF received = <<>> THEN start ELSE received[Len(received)]

Init == visible = {} /\ overtaken = {} /\ start = 0 /\ received = <<>>

Publish(e) ==
    /\ e \notin visible
    /\ visible' = visible \cup {e}
    /\ overtaken' = IF \E x \in visible : x > e THEN overtaken \cup {e} ELSE overtaken
    /\ UNCHANGED <<start, received>>

\* The next event: everything before it that was published in order has
\* been received.
Deliver(e) ==
    /\ e \in visible /\ e > Last
    /\ \A x \in visible \ overtaken : ~(Last < x /\ x < e)
    /\ received' = Append(received, e)
    /\ UNCHANGED <<visible, overtaken, start>>

\* The reader starts at some point of the log, or comes back to one it knows.
StartAt(e) ==
    /\ start' = e /\ received' = <<>>
    /\ UNCHANGED <<visible, overtaken>>

Resume(i) ==
    /\ received' = SubSeq(received, 1, i)
    /\ UNCHANGED <<visible, overtaken, start>>

Next ==
    \/ \E e \in Id : Publish(e)
    \/ \E e \in visible : Deliver(e)
    \/ \E e \in visible \cup {0} : StartAt(e)
    \/ \E i \in 0..Len(received) : Resume(i)

Spec == Init /\ [][Next]_vars
=============================================================================

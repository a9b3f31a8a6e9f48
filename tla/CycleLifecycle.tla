--------------------------- MODULE CycleLifecycle ---------------------------
(***************************************************************************)
(* What the ingestion scheduler promises about one scheduled cycle,        *)
(* whatever workers crash, stall or overlap (docs/worker.md, "Lease and    *)
(* shutdown behavior").  A cycle is the row a (metric, subject) pair gets  *)
(* for one schedule boundary.                                              *)
(*                                                                         *)
(* The promise: at most one open cycle per subject; the evidence batch of  *)
(* a cycle is committed at most once and only for a cycle that was         *)
(* scheduled; a cycle completes only when its batch is durable; a settled  *)
(* cycle never changes again.  Claims, tokens, heartbeats and retries are  *)
(* invisible here.                                                         *)
(***************************************************************************)
CONSTANTS Subject, Slot

Key == Subject \X Slot

Settled == {"completed", "failed", "abandoned"}
Stage == {"unscheduled", "open"} \cup Settled

VARIABLES stage,    \* the stage each cycle has reached
          durable   \* the cycles whose evidence batch is committed

vars == <<stage, durable>>

TypeOK == /\ stage \in [Key -> Stage]
          /\ durable \subseteq Key

Init == /\ stage = [k \in Key |-> "unscheduled"]
        /\ durable = {}

\* A boundary opens a cycle unless the subject still has an open one.
Open(k) ==
    /\ stage[k] = "unscheduled"
    /\ \A j \in Key : j[1] = k[1] => stage[j] # "open"
    /\ stage' = [stage EXCEPT ![k] = "open"]
    /\ UNCHANGED durable

\* The batch of a scheduled cycle is committed, once.  A late worker may
\* commit it after the cycle was given up.
Commit(k) ==
    /\ stage[k] # "unscheduled"
    /\ k \notin durable
    /\ durable' = durable \cup {k}
    /\ UNCHANGED stage

\* Open cycles settle, and complete only with a durable batch.  The reaper
\* settles several at once.
Settle ==
    /\ stage' \in [Key -> Stage]
    /\ \A k \in Key :
          \/ stage'[k] = stage[k]
          \/ /\ stage[k] = "open"
             /\ stage'[k] \in Settled
             /\ stage'[k] = "completed" => k \in durable
    /\ UNCHANGED durable

Next == (\E k \in Key : Open(k) \/ Commit(k)) \/ Settle

Spec == Init /\ [][Next]_vars

\* Every cycle that was opened settles in the end.
EventuallySettled == \A k \in Key : stage[k] = "open" ~> stage[k] \in Settled

LiveSpec == Spec /\ EventuallySettled
=============================================================================

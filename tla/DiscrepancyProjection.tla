------------------------ MODULE DiscrepancyProjection ------------------------
(***************************************************************************)
(* How completed cycles move the discrepancies table of one source on one  *)
(* subject: a job reads the prior state (getDiscrepancyStates), advances   *)
(* it in memory (reconcileMetric, reconcileAnchorReserve) and commits it   *)
(* with the cycle's batch (persistCompletedCycle).  Between the read and   *)
(* the commit other jobs may commit.  Cycles open and settle as in         *)
(* CycleLifecycle, which LeaseScheduler implements: one at a time, and a   *)
(* job may still be at work on one that was given up.                      *)
(*                                                                         *)
(* A discrepancy's id is derived from the observation (latest_ledger), so  *)
(* that each occurrence has a row of its own, or from the source, or the   *)
(* anchor and the source (every other metric), so that all the occurrences *)
(* share one, and so do the subjects the source is routed to.  Clocks      *)
(* agree, and a tick passes between a batch's completion time and the next *)
(* boundary.                                                               *)
(***************************************************************************)
EXTENDS DiscrepancyState, Sequences, FiniteSets

CONSTANTS
    Job,            \* the handlers that may be at work, stale ones included
    SourceId,       \* the discrepancy id derived from the source
    NoBatch, NoCycle,
    MaxTime         \* bound on the clock

ASSUME CycleAssumption == IsFiniteSet(Cycle)
ASSUME NullAssumption == NoCycle \notin Cycle /\ SourceId \notin Cycle
ASSUME MaxTimeAssumption == MaxTime \in Nat

\* A source that is missing, stale or malformed yields no band.
Outcome == Band \cup {"missing"}
Batch == [at : Nat, band : Outcome]
ASSUME NoBatchAssumption == NoBatch \notin Batch

Id == Cycle \cup {SourceId}

VARIABLES
    now,
    scheduled,  \* the cycles scheduled so far
    open,       \* the one that is pending or running, or NoCycle
    ids,        \* where discrepancy ids come from, and whose SourceId is
    batch,      \* ingest_cycles and raw readings: completion time and band
    job,        \* what each handler knows
    table,      \* discrepancies, by id
    history,    \* discrepancy_events, by id, in order
    late        \* history: cycles whose batch committed when no longer open

lifecycle == <<scheduled, open, ids>>
projection == <<batch, table, history, late>>
vars == <<now, lifecycle, job, projection>>

\* One id per observation; one per source; and that one taken by the row of
\* another subject the source is routed to.
Ids == (IF Named THEN {} ELSE {"fresh"}) \cup {"own", "foreign"}

Durable == {k \in Cycle : batch[k] # NoBatch}

\* A row and its id, as getDiscrepancyStates returns it; none has no state.
Prior == [id : Id, state : State \cup {NoState}]
NoPrior == [id |-> SourceId, state |-> NoState]

JobState == [step : {"idle", "reading", "persisting"}, cycle : Cycle \cup {NoCycle},
             at : Nat, prior : Prior]
Idle == [step |-> "idle", cycle |-> NoCycle, at |-> 0, prior |-> NoPrior]

\* The columns an event keeps of a state.
Snapshot(r) == [lifecycle |-> r.lifecycle, severity |-> r.severity,
                publication |-> r.publication, reply |-> r.reply,
                cycles |-> r.cycles, above |-> r.above]

Init ==
    /\ now = 1
    /\ scheduled = {}
    /\ open = NoCycle
    /\ ids \in Ids \ {"foreign"}
    /\ batch = [k \in Cycle |-> NoBatch]
    /\ job = [j \in Job |-> Idle]
    /\ table = [d \in Id |-> NoState]
    /\ history = [d \in Id |-> <<>>]
    /\ late = {}

-----------------------------------------------------------------------------
(* The scheduler: a boundary opens a cycle, its lease settles.             *)

Schedule(k) ==
    /\ open = NoCycle
    /\ k \notin scheduled
    /\ \A i \in Durable : batch[i].at < now
    /\ open' = k
    /\ scheduled' = scheduled \cup {k}
    /\ UNCHANGED <<now, ids, job, projection>>

\* Completed, failed or abandoned.
Settle ==
    /\ open # NoCycle
    /\ open' = NoCycle
    /\ UNCHANGED <<now, scheduled, ids, job, projection>>

\* A cycle of another subject of the source inserts its row first.
OtherSubject ==
    /\ ids = "own"
    /\ table[SourceId] = NoState
    /\ ids' = "foreign"
    /\ UNCHANGED <<now, scheduled, open, job, projection>>

-----------------------------------------------------------------------------
(* A handler.                                                              *)

\* A handler that claimed the cycle when it was open has its readings and
\* takes completedAt.
Collect(j, k) ==
    /\ job[j].step = "idle"
    /\ k \in scheduled \ Durable
    /\ job' = [job EXCEPT ![j] = [Idle EXCEPT !.step = "reading", !.cycle = k, !.at = now]]
    /\ UNCHANGED <<now, lifecycle, projection>>

\* The rows of the source.  getDiscrepancyStates keeps the last one of an
\* unordered result.
Rows == {d \in Id : table[d] # NoState}

ReadPrior(j) ==
    /\ job[j].step = "reading"
    /\ \E d \in IF Rows = {} THEN {SourceId} ELSE Rows :
          job' = [job EXCEPT ![j].step = "persisting", ![j].prior = [id |-> d, state |-> table[d]]]
    /\ UNCHANGED <<now, lifecycle, projection>>

\* The computed cycle is not newer than the state it was read against.
Outdated(w) == Ignored(w.prior.state, w.cycle, w.at)

\* Mutant of TargetOf: every observation out of tolerance gets an id of its own.
MutTargetFresh(w, band) ==
    IF band = "within" THEN w.prior.id ELSE IF ids = "fresh" THEN w.cycle ELSE SourceId

\* The id of the state the job computed.
TargetOf(w, band) ==
    IF band = "within" \/ IsOpen(w.prior.state) THEN w.prior.id
    ELSE IF ids = "fresh" THEN w.cycle ELSE SourceId

\* The state to project: none when nothing was measured or the cycle was ignored.
StateOf(w, band) ==
    IF band = "missing" \/ Outdated(w) THEN NoState
    ELSE Advance(w.prior.state, w.cycle, w.at, band)

\* Mutant of Accepts: the upsert does not compare finalization times.
MutAcceptsOlder(d, s) ==
    /\ ids = "foreign" => d # SourceId
    /\ s.lifecycle = "open" => \A e \in Id \ {d} : ~IsOpen(table[e])

\* The upsert: never over another subject's row, only over an older
\* finalization, and one open row per source (discrepancies_open_source_subject_uidx).
Accepts(d, s) ==
    /\ ids = "foreign" => d # SourceId
    /\ table[d] # NoState => table[d].finalizedAt < s.finalizedAt
    /\ s.lifecycle = "open" => \A e \in Id \ {d} : ~IsOpen(table[e])

\* The row after the upsert, whose SET leaves first_observed_at alone.
Upserted(d, s) == IF table[d] = NoState THEN s ELSE [s EXCEPT !.first = table[d].first]

Events(w, band, s) ==
    LET types == EventTypes(w.prior.state, band, s)
        before == IF IsOpen(w.prior.state) THEN Snapshot(w.prior.state) ELSE NoState
    IN  [i \in DOMAIN types |-> [type |-> types[i], before |-> before, after |-> Snapshot(s)]]

\* A resolution targets the first opening of its id, and no two may target the
\* same one (discrepancy_events_target_type_uidx).
Resolves(w, band) == band = "within" /\ IsOpen(w.prior.state)
Resolvable(d) == \A i \in DOMAIN history[d] : history[d][i].type # "resolved"

\* persistCompletedCycle commits: the batch once, and with it the projection.
\* For reconcileMetric a cycle that would be ignored is an error.
Persist(j, band) ==
    LET w == job[j]
        s == StateOf(w, band)
        d == TargetOf(w, band)
    IN  /\ w.step = "persisting"
        /\ w.cycle \notin Durable
        /\ band # "missing" /\ Outdated(w) => Named
        /\ batch' = [batch EXCEPT ![w.cycle] = [at |-> w.at, band |-> band]]
        /\ late' = IF open = w.cycle THEN late ELSE late \cup {w.cycle}
        /\ IF s = NoState THEN UNCHANGED <<table, history>>
           ELSE /\ Accepts(d, s)
                /\ Resolves(w, band) => Resolvable(d)
                /\ table' = [table EXCEPT ![d] = Upserted(d, s)]
                /\ history' = [history EXCEPT ![d] = @ \o Events(w, band, s)]
        /\ job' = [job EXCEPT ![j] = Idle]
        /\ UNCHANGED <<now, lifecycle>>

\* The job ends without an effect: a duplicate, a refused upsert, an ignored
\* cycle, an abort, an error or a crash.
Drop(j) ==
    /\ job[j].step # "idle"
    /\ job' = [job EXCEPT ![j] = Idle]
    /\ UNCHANGED <<now, lifecycle, projection>>

Tick ==
    /\ now < MaxTime
    /\ now' = now + 1
    /\ UNCHANGED <<lifecycle, job, projection>>

Handle(j) ==
    \/ \E k \in Cycle : Collect(j, k)
    \/ ReadPrior(j)
    \/ \E band \in Outcome : Persist(j, band)
    \/ Drop(j)

Next ==
    \/ \E k \in Cycle : Schedule(k)
    \/ Settle
    \/ OtherSubject
    \/ \E j \in Job : Handle(j)
    \/ Tick

Spec == Init /\ [][Next]_vars

-----------------------------------------------------------------------------
TypeOK ==
    /\ now \in Nat
    /\ scheduled \subseteq Cycle
    /\ open \in scheduled \cup {NoCycle}
    /\ ids \in Ids
    /\ batch \in [Cycle -> Batch \cup {NoBatch}]
    /\ job \in [Job -> JobState]
    /\ \A j \in Job : job[j].step # "idle" => job[j].cycle \in Cycle
    /\ DOMAIN table = Id
    /\ \A d \in Id : table[d] # NoState => Valid(table[d])
    /\ late \subseteq Cycle

-----------------------------------------------------------------------------
(* Properties.                                                             *)

\* The batches above the Info band, and those that measured anything.
Above == {k \in Durable : batch[k].band = "above"}
Measured == {k \in Durable : batch[k].band # "missing"}

\* The batches above Info that a state may count.
Counted(batches, r) ==
    {k \in Cycle : /\ batches[k] # NoBatch
                   /\ batches[k].band = "above"
                   /\ r.first <= batches[k].at
                   /\ batches[k].at <= r.finalizedAt}
Backed(batches, r) == r.above <= Cardinality(Counted(batches, r))

\* Severity is never overclaimed, not even when a stale job overlaps its
\* replacement: every cycle a streak counts has a durable batch of that band
\* within the occurrence.
StreakBacked == \A d \in Rows : Backed(batch, table[d])

\* A finalized cycle is never rewritten by a late or duplicate one: a row only
\* moves forward, and keeps its first observation.
NoRewind ==
    [][\A d \in Rows :
         /\ table'[d] # NoState
         /\ table'[d].first = table[d].first
         /\ table'[d] # table[d] => table'[d].finalizedAt > table[d].finalizedAt]_vars

\* Each event starts where the one before it ended.
Follows(e, f) ==
    CASE f.type = "opened" -> e.type = "resolved"
      [] f.type = "resolved" -> e.type = "reconverged"
      [] OTHER -> f.before = e.after

Chained(h) == \A i \in 1..Len(h) - 1 : Follows(h[i], h[i+1])

\* The last event shows the row.
Shows(h, r) == h # <<>> /\ h[Len(h)].after = Snapshot(r)

\* The append-only events replay to the projection, unless a batch committed
\* after its cycle was given up: a stale job can refresh a resolved row that was
\* reopened, without an event.
HistoryReplays ==
    late = {} => /\ \A d \in Id : Chained(history[d])
                 /\ \A d \in Rows : Shows(history[d], table[d])

\* The rule of ADR 0001 over the durable batches, in the order of their times.
LastMeasured == {k \in Measured : \A i \in Measured : batch[i].at <= batch[k].at}
Streak == {k \in Above : \A i \in Measured \ Above : batch[i].at < batch[k].at}
RuledSeverity ==
    IF \A k \in LastMeasured : batch[k].band = "within" THEN "none"
    ELSE IF Streak = {} THEN "info"
    ELSE IF Cardinality(Streak) >= 3 THEN "critical" ELSE "warning"

ClassifiedSeverity ==
    LET current == {d \in Rows : IsOpen(table[d])}
    IN  IF current = {} THEN "none" ELSE table[CHOOSE d \in current : TRUE].severity

\* While a source has one row and no batch committed late, the projection is
\* the mechanical rule: the source has an open discrepancy of exactly the
\* severity its consecutive completed cycles give, and none within tolerance.
RuleHolds == late = {} /\ Cardinality(Rows) <= 1 => ClassifiedSeverity = RuledSeverity

\* A job that is about to commit the cycle that is open.
Finalizing(w) == w.step = "persisting" /\ w.cycle = open /\ open \notin Durable

\* Under the same conditions the projection refuses the cycle that is open only
\* where an id of the source stands in the way: its job is never outdated, its
\* upsert meets no newer finalization and no other open row, unless another
\* subject has taken the id; and its resolution can be recorded, unless the id
\* has seen one before.  The first occurrence of an id of its own never wedges.
OpenCycleAccepted ==
    late = {} /\ Cardinality(Rows) <= 1 =>
        \A j \in Job, band \in Outcome :
            Finalizing(job[j]) =>
                LET s == StateOf(job[j], band)
                    d == TargetOf(job[j], band)
                IN  /\ ~Outdated(job[j])
                    /\ s # NoState => ids = "foreign" \/ Accepts(d, s)
                    /\ Resolves(job[j], band) => ids = "own" \/ Resolvable(d)

-----------------------------------------------------------------------------
(* The inductive invariant behind the proved properties.                   *)

SnapshotType == [lifecycle : Lifecycle, severity : Severity, publication : Publication,
                 reply : Reply, cycles : Nat, above : Nat]
Event == [type : {"opened", "observed", "escalated", "reconverged", "resolved"},
          before : SnapshotType \cup {NoState}, after : SnapshotType]

HistoryTyped == history \in [Id -> Seq(Event)]

\* A job works on a scheduled cycle; what it read is a valid state of a row
\* that still exists and kept its first observation.
PriorsSound ==
    \A j \in Job :
        /\ job[j].step # "idle" => job[j].cycle \in scheduled
        /\ job[j].prior.state = NoState => job[j].prior.id = SourceId
        /\ job[j].prior.state # NoState =>
              /\ Valid(job[j].prior.state)
              /\ table[job[j].prior.id] # NoState
              /\ table[job[j].prior.id].first = job[j].prior.state.first

\* A row has the id of a finalized cycle, or its source's unless that is taken.
RowIds ==
    /\ \A d \in Rows : IF ids = "fresh" THEN d \in Durable ELSE d = SourceId
    /\ ids = "foreign" => Rows = {}

\* With an id per observation an open row was never resolved.
OpenUnresolved ==
    late = {} /\ ids = "fresh" => \A d \in Rows : IsOpen(table[d]) => Resolvable(d)

\* With no late batch, nothing was committed since the open cycle's jobs read.
Serial ==
    late = {} =>
        \A j \in Job :
            job[j].step = "persisting" /\ job[j].cycle = open /\ open \notin Durable =>
                table[job[j].prior.id] = job[j].prior.state

\* A row that does not exist has no events; that of a resolved one ends so.
EventsEnd ==
    late = {} =>
        \A d \in Id :
            /\ table[d] = NoState => history[d] = <<>>
            /\ table[d] # NoState /\ table[d].lifecycle = "resolved" =>
                  history[d] # <<>> /\ history[d][Len(history[d])].type = "resolved"

\* What a job read is backed as the rows are.
PriorsBacked ==
    \A j \in Job : job[j].prior.state # NoState => Backed(batch, job[j].prior.state)

IInv == TypeOK /\ HistoryTyped /\ PriorsSound /\ RowIds /\ Serial /\ EventsEnd /\ HistoryReplays

-----------------------------------------------------------------------------
(* What the documentation says and the code does not do.                   *)

\* "Reconvergence emits both a measured `reconverged` fact and a `resolved`
\* lifecycle fact; neither removes the earlier history.  A later recurrence opens
\* a new discrepancy occurrence": the open cycle, back within tolerance, can
\* resolve the occurrence its job read.
OccurrenceResolves ==
    late = {} /\ ids # "foreign" =>
        \A j \in Job : Finalizing(job[j]) /\ IsOpen(job[j].prior.state) =>
            Resolvable(TargetOf(job[j], "within"))

=============================================================================

---------------------------- MODULE SourceHealth ----------------------------
(***************************************************************************)
(* The durable health of the sources and the refresh jobs that write it:   *)
(* lib/worker/resilience.ts, the collection part of the five job handlers  *)
(* and the source_health_states part of lib/db/repositories.ts.            *)
(*                                                                         *)
(* A job reads the health rows of its sources once, collects every source  *)
(* in a pool of Concurrency consumers (skipping one whose circuit is       *)
(* open, retrying transient failures after a pause), and at its end writes *)
(* one row per source computed from the row it read and from its own       *)
(* completion time.  Jobs of different subjects share sources, so the      *)
(* row may have moved between the read and the write.                      *)
(***************************************************************************)
EXTENDS Integers, Sequences, FiniteSets

CONSTANTS
    Jobs,           \* the refresh jobs, one per subject
    Sources,        \* the rows of source_definitions
    JobSources,     \* JobSources[j]: the sources of job j, in their order
    JobMetric,      \* JobMetric[j]: the metric of job j
    SourceErrors,   \* SourceErrors[s]: the errors the connector of s can return
    MaxAttempts, BaseDelay, MaxDelay, JitterPercent,
    Concurrency, Threshold, Cooldown,   \* the resilience policy
    MaxTime,        \* bound of the wall clock
    MaxCycles,      \* bound of the cycles begun
    MaxSetbacks     \* bound of the times the wall clock is set back

Metrics == {"latest_ledger", "circulating_supply", "order_book_depth",
            "trustline_count", "anchor_reserves"}

None == -1                      \* a null timestamp
Time == 0..MaxTime

(* An error of a connector: its code, the HTTP status (0 when there is     *)
(* none) and the Retry-After it carried (0 when there was none).           *)
NoError == [code |-> "none", status |-> 0, retryAfter |-> 0]
StaleError == [code |-> "stale_observation", status |-> 0, retryAfter |-> 0]
PeriodError == [code |-> "period_mismatch", status |-> 200, retryAfter |-> 0]
BooklessError == [code |-> "empty_book", status |-> 0, retryAfter |-> 0]

ErrorValue(e) == /\ e \in [code: STRING, status: Nat, retryAfter: Nat]
                 /\ e # NoError

(* assertSourceResiliencePolicy, and what discovery hands to a job.        *)
ASSUME PolicyAssumption ==
    /\ MaxAttempts \in Nat \ {0} /\ BaseDelay \in Nat \ {0}
    /\ MaxDelay \in Nat /\ MaxDelay >= BaseDelay
    /\ JitterPercent \in 0..100
    /\ Concurrency \in Nat \ {0} /\ Threshold \in Nat \ {0} /\ Cooldown \in Nat \ {0}
    /\ MaxTime \in Nat /\ MaxCycles \in Nat /\ MaxSetbacks \in Nat
ASSUME JobAssumption ==
    /\ JobMetric \in [Jobs -> Metrics]
    /\ JobSources \in [Jobs -> Seq(Sources)]
    /\ \A s \in Sources: \A e \in SourceErrors[s]: ErrorValue(e)

Min2(a, b) == IF a <= b THEN a ELSE b
Max2(a, b) == IF a >= b THEN a ELSE b

-----------------------------------------------------------------------------
(* lib/worker/resilience.ts                                                *)

RetryableStatus(status) == status \in {408, 425, 429} \/ status >= 500

\* classifySourceFailure
Transient(e) ==
    \/ e.code \in {"request_failed", "request_aborted"}
    \/ e.code = "non_200_response" /\ RetryableStatus(e.status)

\* sourceHealthState
SourceHealthState(e) ==
    CASE e = NoError -> "healthy"
      [] e.code = "network_mismatch" -> "network_mismatched"
      [] e.code \in {"malformed_payload", "empty_ledger_records", "empty_records",
                     "response_too_large", "checkpoint_mismatch",
                     "artifact_integrity_mismatch", "total_mismatch"} -> "malformed"
      [] e.code = "stale_observation" -> "stale"
      [] \/ e.code \in {"redirect_rejected", "invalid_configuration", "excluded_source",
                        "unsafe_endpoint", "domain_unverified", "unsupported_attestation",
                        "scope_mismatch", "unit_mismatch", "period_mismatch"}
         \/ /\ e.code = "non_200_response"
            /\ e.status # 0 /\ ~RetryableStatus(e.status) -> "rejected"
      [] OTHER -> "unreachable"

States == {"absent", "healthy", "unreachable", "rejected", "malformed", "stale",
           "network_mismatched"}

(* retryDelayMs, for any sample of the jitter: exponential in the failed   *)
(* attempt, never above MaxDelay, never below the Retry-After that MaxDelay *)
(* allows.  Math.round rounds halves up.                                   *)
RetryDelays(failedAttempt, e) ==
    LET exponential == Min2(MaxDelay, BaseDelay * 2 ^ Max2(0, failedAttempt - 1))
        jittered == ((exponential * (100 - JitterPercent) + 50) \div 100)
                    .. ((exponential * (100 + JitterPercent) + 50) \div 100)
    IN  {Min2(MaxDelay, Max2(d, Min2(MaxDelay, e.retryAfter))): d \in jittered}

(* A row of source_health_states; an absent row is older than any other.   *)
Row == [state: States, failures: Nat, circuit: {"closed", "open"},
        opened: Int, next: Int, last: Int]
NoRow == [state |-> "absent", failures |-> 0, circuit |-> "closed",
          opened |-> None, next |-> None, last |-> None]

\* sourceCanAttempt
SourceCanAttempt(row, at) == row.next = None \/ row.next <= at

HealthyRow(observedAt) ==
    [state |-> "healthy", failures |-> 0, circuit |-> "closed",
     opened |-> None, next |-> None, last |-> observedAt]

OpensCircuit(previous, e) ==
    /\ Transient(e)
    /\ previous.circuit = "open" \/ previous.failures + 1 >= Threshold

\* The later of the Retry-After and the end of the cooldown, null when neither holds.
NextAttemptAt(previous, e, observedAt) ==
    Max2(IF e.retryAfter > 0 THEN observedAt + e.retryAfter ELSE None,
         IF OpensCircuit(previous, e) THEN observedAt + Cooldown ELSE None)

\* Mutant of FailedRow: a closing circuit keeps the time it was opened.
MutFailedRow(previous, e, observedAt) ==
    [state |-> SourceHealthState(e),
     failures |-> previous.failures + 1,
     circuit |-> IF OpensCircuit(previous, e) THEN "open" ELSE "closed",
     opened |-> IF previous.opened = None /\ OpensCircuit(previous, e)
                THEN observedAt ELSE previous.opened,
     next |-> NextAttemptAt(previous, e, observedAt),
     last |-> observedAt]

FailedRow(previous, e, observedAt) ==
    [state |-> SourceHealthState(e),
     failures |-> previous.failures + 1,
     circuit |-> IF OpensCircuit(previous, e) THEN "open" ELSE "closed",
     opened |-> IF ~OpensCircuit(previous, e) THEN None
                ELSE IF previous.opened # None THEN previous.opened ELSE observedAt,
     next |-> NextAttemptAt(previous, e, observedAt),
     last |-> observedAt]

\* transitionSourceHealth: the row after a collection that ended with error e.
TransitionSourceHealth(previous, e, observedAt) ==
    IF observedAt < previous.last THEN previous
    ELSE IF e = NoError THEN HealthyRow(observedAt)
    ELSE FailedRow(previous, e, observedAt)

-----------------------------------------------------------------------------
VARIABLES
    now,        \* the wall clock
    cycles,     \* the cycles begun
    setbacks,   \* how often the wall clock was set back
    health,     \* health[s]: the row of source s
    phase,      \* phase[j]: idle, collecting, committing
    startedAt,  \* startedAt[j]: when the job took its start time
    completedAt,\* completedAt[j]: when the job took its completion time
    previous,   \* previous[j]: the health rows the job read
    nextIndex,  \* nextIndex[j]: the next position of JobSources[j] to collect
    src,        \* src[j][s]: how far the collection of s by j is
    evidence,   \* history: completion time of the collection the row of s rests on
    readEvidence, \* history: the evidence of the rows the job read
    streak,     \* history: failed collections of s committed in a row
    contended   \* history: two jobs held a reading of the row of s, or a
                \* commit was not newer than the row

clock == <<now, setbacks>>
durable == <<health, evidence, streak, contended>>
jobVars == <<phase, startedAt, completedAt, previous, readEvidence, nextIndex, src>>
vars == <<now, cycles, setbacks, durable, jobVars>>

Range2(seq) == {seq[i]: i \in DOMAIN seq}
SourcesOf(j) == Range2(JobSources[j])

Kinds == {"none", "skip", "answer", "error"}
Waiting == [status |-> "waiting", tries |-> 0, wait |-> 0, kind |-> "none", err |-> NoError]
ResultErrors == (UNION {SourceErrors[s]: s \in Sources}) \cup {NoError, StaleError, PeriodError, BooklessError}
\* A source that waits for its next attempt has one left.
SrcState == {r \in [status: {"waiting", "attempting", "sleeping", "done"},
                    tries: 0..MaxAttempts, wait: 0..MaxDelay, kind: Kinds, err: ResultErrors]:
               r.status = "sleeping" => r.tries < MaxAttempts}

Init ==
    /\ now = 0 /\ cycles = 0 /\ setbacks = 0
    /\ health = [s \in Sources |-> NoRow]
    /\ evidence = [s \in Sources |-> None]
    /\ streak = [s \in Sources |-> 0]
    /\ contended = [s \in Sources |-> FALSE]
    /\ phase = [j \in Jobs |-> "idle"]
    /\ startedAt = [j \in Jobs |-> 0]
    /\ completedAt = [j \in Jobs |-> 0]
    /\ previous = [j \in Jobs |-> [s \in Sources |-> NoRow]]
    /\ readEvidence = [j \in Jobs |-> [s \in Sources |-> None]]
    /\ nextIndex = [j \in Jobs |-> 1]
    /\ src = [j \in Jobs |-> [s \in Sources |-> Waiting]]

-----------------------------------------------------------------------------
Holding(j, s) == phase[j] # "idle" /\ s \in SourcesOf(j)

(* A handler takes its start time and reads the rows of its sources        *)
(* (getSourceHealthStates).  Only the anchor reserve handler uses the      *)
(* start time again before the cycle is stored.                            *)
Begin(j) ==
    /\ phase[j] = "idle"
    /\ cycles < MaxCycles
    /\ cycles' = cycles + 1
    /\ phase' = [phase EXCEPT ![j] = "collecting"]
    /\ startedAt' = [startedAt EXCEPT ![j] =
          IF JobMetric[j] = "anchor_reserves" THEN now ELSE 0]
    /\ previous' = [previous EXCEPT ![j] = health]
    /\ readEvidence' = [readEvidence EXCEPT ![j] = evidence]
    /\ contended' = [s \in Sources |->
          contended[s] \/ (s \in SourcesOf(j) /\ \E k \in Jobs \ {j}: Holding(k, s))]
    /\ UNCHANGED <<clock, health, evidence, streak, completedAt, nextIndex, src>>

InFlight(j) == {s \in SourcesOf(j): src[j][s].status \in {"attempting", "sleeping"}}

(* The anchor reserve handler decides with its start time, the others with *)
(* the clock when the source's turn comes.                                 *)
DecisionAt(j) == IF JobMetric[j] = "anchor_reserves" THEN startedAt[j] ELSE now

(* mapWithConcurrency: a free consumer takes the next source; a source in  *)
(* its cooldown is skipped without an attempt.                             *)
TakeSource(j) ==
    /\ phase[j] = "collecting"
    /\ nextIndex[j] <= Len(JobSources[j])
    /\ Cardinality(InFlight(j)) < Concurrency
    /\ LET s == JobSources[j][nextIndex[j]]
       IN  src' = [src EXCEPT ![j][s] =
                     IF SourceCanAttempt(previous[j][s], DecisionAt(j))
                     THEN [@ EXCEPT !.status = "attempting", !.tries = 1]
                     ELSE [@ EXCEPT !.status = "done", !.kind = "skip"]]
    /\ nextIndex' = [nextIndex EXCEPT ![j] = @ + 1]
    /\ UNCHANGED <<clock, cycles, durable, phase, startedAt, completedAt, previous, readEvidence>>

\* The source answered; an order book may be empty or one-sided.
AttemptAnswered(j, s) ==
    /\ phase[j] = "collecting"
    /\ src[j][s].status = "attempting"
    /\ \E e \in {NoError} \cup (IF JobMetric[j] = "order_book_depth"
                                THEN {BooklessError} ELSE {}):
         src' = [src EXCEPT ![j][s] = [@ EXCEPT !.status = "done", !.kind = "answer", !.err = e]]
    /\ UNCHANGED <<clock, cycles, durable, phase, startedAt, completedAt, previous, readEvidence, nextIndex>>

(* executeWithRetry after an error: a permanent one ends the collection,   *)
(* a transient one too on the last attempt, else the job sleeps.           *)
AttemptFailed(j, s) ==
    /\ phase[j] = "collecting"
    /\ src[j][s].status = "attempting"
    /\ \E e \in SourceErrors[s]:
         IF Transient(e) /\ src[j][s].tries < MaxAttempts
         THEN \E d \in RetryDelays(src[j][s].tries, e):
                src' = [src EXCEPT ![j][s] = [@ EXCEPT !.status = "sleeping", !.wait = d]]
         ELSE src' = [src EXCEPT ![j][s] = [@ EXCEPT !.status = "done", !.kind = "error", !.err = e]]
    /\ UNCHANGED <<clock, cycles, durable, phase, startedAt, completedAt, previous, readEvidence, nextIndex>>

Retried(r) == [r EXCEPT !.status = "attempting", !.tries = r.tries + 1]

\* The sleep is over: the next attempt starts.
RetrySource(j, s) ==
    /\ phase[j] = "collecting"
    /\ src[j][s].status = "sleeping" /\ src[j][s].wait = 0
    /\ src' = [src EXCEPT ![j][s] = Retried(@)]
    /\ UNCHANGED <<clock, cycles, durable, phase, startedAt, completedAt, previous, readEvidence, nextIndex>>

(* What the handler may find of an answer at its completion time: it is    *)
(* too old; an anchor's period does not match the supply reference.        *)
Judgements(metric, e) ==
    IF e # NoError THEN {e}
    ELSE CASE metric = "order_book_depth" -> {NoError}
           [] metric = "anchor_reserves" -> {NoError, StaleError, PeriodError}
           [] OTHER -> {NoError, StaleError}

(* Every source is collected: the handler takes its completion time,       *)
(* judges the answers and computes everything it will write.               *)
Complete(j) ==
    /\ phase[j] = "collecting"
    /\ \A s \in SourcesOf(j): src[j][s].status = "done"
    /\ phase' = [phase EXCEPT ![j] = "committing"]
    /\ completedAt' = [completedAt EXCEPT ![j] = now]
    /\ \E judged \in [SourcesOf(j) -> ResultErrors]:
         /\ \A s \in SourcesOf(j):
              judged[s] \in IF src[j][s].kind = "answer"
                            THEN Judgements(JobMetric[j], src[j][s].err)
                            ELSE {src[j][s].err}
         /\ src' = [src EXCEPT ![j] = [s \in Sources |->
                      IF s \in SourcesOf(j) THEN [src[j][s] EXCEPT !.err = judged[s]]
                      ELSE src[j][s]]]
    /\ UNCHANGED <<clock, cycles, durable, startedAt, previous, readEvidence, nextIndex>>

\* An empty or one-sided book is a healthy answer.
HealthError(e) == IF e.code \in {"empty_book", "one_sided_book"} THEN NoError ELSE e

\* Mutants of SkippedRow: a skip starts the cooldown again; a skip counts as a failure.
MutSkippedRowRearms(j, s) ==
    [previous[j][s] EXCEPT !.last = completedAt[j], !.next = completedAt[j] + Cooldown]
MutSkippedRowCounts(j, s) ==
    [previous[j][s] EXCEPT !.last = completedAt[j], !.failures = @ + 1]

(* The row of a skipped source: the row the job read, observed now; the    *)
(* anchor reserve handler writes it back as it was.                        *)
SkippedRow(j, s) ==
    IF JobMetric[j] = "anchor_reserves" THEN previous[j][s]
    ELSE [previous[j][s] EXCEPT !.last = completedAt[j]]

HealthStateOf(j, s) ==
    IF src[j][s].kind = "skip" THEN SkippedRow(j, s)
    ELSE TransitionSourceHealth(previous[j][s], HealthError(src[j][s].err), completedAt[j])

\* onConflictDoUpdate: an existing row is replaced by a newer one only.
Replaces(j, s) == s \in SourcesOf(j) /\ health[s].last < HealthStateOf(j, s).last

RestsOn(j, s) == IF src[j][s].kind = "skip" \/ completedAt[j] < previous[j][s].last
                 THEN readEvidence[j][s] ELSE completedAt[j]

Reset(j) ==
    /\ phase' = [phase EXCEPT ![j] = "idle"]
    /\ startedAt' = [startedAt EXCEPT ![j] = 0]
    /\ completedAt' = [completedAt EXCEPT ![j] = 0]
    /\ previous' = [previous EXCEPT ![j] = [s \in Sources |-> NoRow]]
    /\ readEvidence' = [readEvidence EXCEPT ![j] = [s \in Sources |-> None]]
    /\ nextIndex' = [nextIndex EXCEPT ![j] = 1]
    /\ src' = [src EXCEPT ![j] = [s \in Sources |-> Waiting]]

\* persistCompletedCycle, the part that touches source_health_states.
Commit(j) ==
    /\ phase[j] = "committing"
    /\ health' = [s \in Sources |-> IF Replaces(j, s) THEN HealthStateOf(j, s) ELSE health[s]]
    /\ evidence' = [s \in Sources |-> IF Replaces(j, s) THEN RestsOn(j, s) ELSE evidence[s]]
    /\ streak' = [s \in Sources |->
          IF s \notin SourcesOf(j) \/ src[j][s].kind = "skip" THEN streak[s]
          ELSE IF HealthError(src[j][s].err) = NoError THEN 0 ELSE streak[s] + 1]
    /\ contended' = [s \in Sources |->
          contended[s] \/ (s \in SourcesOf(j) /\ completedAt[j] <= health[s].last)]
    /\ Reset(j)
    /\ UNCHANGED <<clock, cycles>>

(* The signal of the job is aborted (its lease is lost, the worker shuts   *)
(* down) or the worker crashes: the handler throws, nothing is written.    *)
Abort(j) ==
    /\ phase[j] # "idle"
    /\ Reset(j)
    /\ UNCHANGED <<clock, cycles, durable>>

Sleeping == \E j \in Jobs, s \in Sources: src[j][s].status = "sleeping"

\* Time passes; timers run on even when the bounded clock stands at its end.
Tick ==
    /\ now < MaxTime \/ Sleeping
    /\ now' = Min2(now + 1, MaxTime)
    /\ src' = [j \in Jobs |-> [s \in Sources |->
                 [src[j][s] EXCEPT !.wait = Max2(0, src[j][s].wait - 1)]]]
    /\ UNCHANGED <<cycles, setbacks, durable, phase, startedAt, completedAt, previous, readEvidence, nextIndex>>

\* The wall clock is set back; timers do not notice.
ClockBack ==
    /\ now > 0 /\ setbacks < MaxSetbacks
    /\ now' = now - 1
    /\ setbacks' = setbacks + 1
    /\ UNCHANGED <<cycles, durable, jobVars>>

JobStep(j) ==
    \/ TakeSource(j) \/ Complete(j) \/ Commit(j)
    \/ \E s \in Sources: AttemptAnswered(j, s) \/ AttemptFailed(j, s) \/ RetrySource(j, s)

Next ==
    \/ Tick \/ ClockBack
    \/ \E j \in Jobs: Begin(j) \/ JobStep(j) \/ Abort(j)

Spec == Init /\ [][Next]_vars

-----------------------------------------------------------------------------
TypeOK ==
    /\ now \in Time /\ cycles \in 0..MaxCycles /\ setbacks \in 0..MaxSetbacks
    /\ health \in [Sources -> Row]
    /\ evidence \in [Sources -> Time \cup {None}]
    /\ streak \in [Sources -> Nat]
    /\ contended \in [Sources -> BOOLEAN]
    /\ phase \in [Jobs -> {"idle", "collecting", "committing"}]
    /\ startedAt \in [Jobs -> Time]
    /\ completedAt \in [Jobs -> Time]
    /\ previous \in [Jobs -> [Sources -> Row]]
    /\ readEvidence \in [Jobs -> [Sources -> Time \cup {None}]]
    /\ nextIndex \in [Jobs -> Nat \ {0}]
    /\ src \in [Jobs -> [Sources -> SrcState]]

(* What the CHECK constraints of source_health_states demand of a row.     *)
RowChecks(row) ==
    /\ row.failures >= 0
    /\ \/ row.circuit = "closed" /\ row.opened = None
       \/ row.circuit = "open" /\ row.opened # None /\ row.next # None
    /\ row.state = "healthy" =>
          row.failures = 0 /\ row.circuit = "closed" /\ row.next = None

(* Every row a job is about to write passes the constraints of the table,  *)
(* so no cycle is lost to a rejected health row, and an open circuit has   *)
(* Threshold failures behind it, whichever rows the job started from.      *)
RowAccepted ==
    \A j \in Jobs: phase[j] = "committing" =>
        \A s \in SourcesOf(j):
            /\ RowChecks(HealthStateOf(j, s))
            /\ HealthStateOf(j, s).circuit = "open" => HealthStateOf(j, s).failures >= Threshold

(* A source is never barred for longer than the cooldown, or a Retry-After *)
(* the source itself asked for, counted from a collection that took place: *)
(* skipping a source, however many jobs do it, does not extend its         *)
(* exclusion.                                                              *)
BarredByEvidence ==
    \A s \in Sources: health[s].next # None =>
        /\ evidence[s] # None
        /\ \/ health[s].next <= evidence[s] + Cooldown
           \/ \E e \in SourceErrors[s]: health[s].next <= evidence[s] + e.retryAfter

(* As long as the jobs sharing a source did not overlap and the clock was  *)
(* not set back, the failure count that opens its circuit is the number of *)
(* cycles in a row that failed on it.                                      *)
ExactWhenAlone ==
    \A s \in Sources: ~contended[s] => health[s].failures = streak[s]
=============================================================================

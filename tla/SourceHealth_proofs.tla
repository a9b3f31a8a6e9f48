------------------------ MODULE SourceHealth_proofs -------------------------
(***************************************************************************)
(* Proofs about SourceHealth, for any number of jobs and sources, any      *)
(* policy and any errors: the types, that every health row a job writes    *)
(* passes the constraints of its table, and that a source is never barred  *)
(* longer than a collection that took place justifies.                     *)
(***************************************************************************)
EXTENDS SourceHealth, TLAPS

(* The helpers.                                                            *)
LEMMA Min2Max2Type ==
    ASSUME NEW a \in Int, NEW b \in Int
    PROVE  /\ Min2(a, b) \in {a, b} /\ Min2(a, b) <= a /\ Min2(a, b) <= b
           /\ Max2(a, b) \in {a, b} /\ Max2(a, b) >= a /\ Max2(a, b) >= b
BY DEF Min2, Max2

(* Every pause between two attempts lies between zero and MaxDelay, what-  *)
(* ever the jitter and the Retry-After.                                    *)
LEMMA PauseBounded ==
    ASSUME NEW n \in Nat, NEW e, e.retryAfter \in Nat,
           NEW d \in RetryDelays(n, e)
    PROVE  d \in 0..MaxDelay
<1> DEFINE exponential == Min2(MaxDelay, BaseDelay * 2 ^ Max2(0, n - 1))
           jittered == ((exponential * (100 - JitterPercent) + 50) \div 100)
                       .. ((exponential * (100 + JitterPercent) + 50) \div 100)
<1>1. PICK x \in jittered: d = Min2(MaxDelay, Max2(x, Min2(MaxDelay, e.retryAfter)))
  BY DEF RetryDelays
<1>2. x \in Int
  BY <1>1
<1> HIDE DEF jittered
<1>3. MaxDelay \in Nat
  BY PolicyAssumption
<1> QED
  BY <1>1, <1>2, <1>3 DEF Min2, Max2

LEMMA HealthStateType ==
    ASSUME NEW e PROVE SourceHealthState(e) \in States \ {"absent"}
BY DEF SourceHealthState, States

(* An error that is not NoError never leaves a source healthy.             *)
LEMMA FailedNotHealthy ==
    ASSUME NEW e, e # NoError PROVE SourceHealthState(e) # "healthy"
BY DEF SourceHealthState

LEMMA ResultErrorsAre ==
    /\ {NoError, StaleError, PeriodError, BooklessError} \subseteq ResultErrors
    /\ \A s \in Sources: SourceErrors[s] \subseteq ResultErrors
    /\ \A e \in ResultErrors: \/ e \in {NoError, StaleError, PeriodError, BooklessError}
                              \/ \E s \in Sources: e \in SourceErrors[s]
<1> DEFINE judged == {NoError, StaleError, PeriodError, BooklessError}
           returned == UNION {SourceErrors[s]: s \in Sources}
<1>1. ResultErrors = returned \cup judged
  BY DEF ResultErrors, judged, returned
<1>2. \A e: e \in returned <=> \E s \in Sources: e \in SourceErrors[s]
  OBVIOUS
<1> HIDE DEF judged, returned
<1>3. /\ judged \subseteq ResultErrors
      /\ \A e \in ResultErrors: e \in judged \/ e \in returned
      /\ \A e \in returned: e \in ResultErrors
  BY <1>1
<1> QED
  BY <1>2, <1>3 DEF judged

LEMMA ErrorType ==
    ASSUME NEW e \in ResultErrors
    PROVE  e.retryAfter \in Nat /\ HealthError(e) \in ResultErrors
<1>1. HealthError(e) \in ResultErrors
  BY ResultErrorsAre DEF HealthError
<1>2. CASE e \in {NoError, StaleError, PeriodError, BooklessError}
  BY <1>1, <1>2 DEF NoError, StaleError, PeriodError, BooklessError
<1>3. ASSUME NEW s \in Sources, e \in SourceErrors[s] PROVE e.retryAfter \in Nat
  BY <1>3, JobAssumption DEF ErrorValue
<1> QED
  BY <1>1, <1>2, <1>3, ResultErrorsAre

LEMMA NextAttemptType ==
    ASSUME NEW row \in Row, NEW e, e.retryAfter \in Nat, NEW at \in Int, at >= 0
    PROVE  /\ NextAttemptAt(row, e, at) \in Int
           /\ OpensCircuit(row, e) => NextAttemptAt(row, e, at) >= at + Cooldown
           /\ \/ NextAttemptAt(row, e, at) = None
              \/ NextAttemptAt(row, e, at) = at + Cooldown
              \/ e.retryAfter > 0 /\ NextAttemptAt(row, e, at) = at + e.retryAfter
<1>1. Cooldown \in Nat \ {0}
  BY PolicyAssumption
<1> QED
  BY <1>1 DEF NextAttemptAt, Max2, None

LEMMA TransitionType ==
    ASSUME NEW row \in Row, NEW e, e.retryAfter \in Nat, NEW at \in Int, at >= 0
    PROVE  TransitionSourceHealth(row, e, at) \in Row
<1>1. HealthyRow(at) \in Row
  BY DEF HealthyRow, Row, States, None
<1>2. FailedRow(row, e, at) \in Row
  BY HealthStateType, NextAttemptType DEF FailedRow, Row, None
<1> QED
  BY <1>1, <1>2 DEF TransitionSourceHealth

-----------------------------------------------------------------------------
(* The types.                                                              *)
LEMMA NoRowType == NoRow \in Row
BY DEF NoRow, Row, States, None

LEMMA WaitingType == Waiting \in SrcState
<1>1. MaxDelay \in Nat /\ MaxAttempts \in Nat
  BY PolicyAssumption
<1> QED
  BY <1>1, ResultErrorsAre DEF Waiting, SrcState, Kinds

LEMMA SourcesOfType == ASSUME NEW j \in Jobs PROVE SourcesOf(j) \subseteq Sources
BY JobAssumption DEF SourcesOf, Range2

LEMMA OutType ==
    ASSUME TypeOK, NEW j \in Jobs, NEW s \in Sources
    PROVE  HealthStateOf(j, s) \in Row
<1>1. /\ previous[j][s] \in Row /\ src[j][s].err \in ResultErrors
      /\ completedAt[j] \in Int /\ completedAt[j] >= 0
  BY PolicyAssumption DEF TypeOK, Time, SrcState
<1>2. SkippedRow(j, s) \in Row
  BY <1>1 DEF SkippedRow, Row
<1>3. TransitionSourceHealth(previous[j][s], HealthError(src[j][s].err), completedAt[j]) \in Row
  BY <1>1, TransitionType, ErrorType
<1> QED
  BY <1>2, <1>3 DEF HealthStateOf

LEMMA ResetTypes ==
    ASSUME TypeOK, NEW j \in Jobs, Reset(j)
    PROVE  /\ phase' \in [Jobs -> {"idle", "collecting", "committing"}]
           /\ startedAt' \in [Jobs -> Time]
           /\ completedAt' \in [Jobs -> Time]
           /\ previous' \in [Jobs -> [Sources -> Row]]
           /\ readEvidence' \in [Jobs -> [Sources -> Time \cup {None}]]
           /\ nextIndex' \in [Jobs -> Nat \ {0}]
           /\ src' \in [Jobs -> [Sources -> SrcState]]
<1>1. 0 \in Time
  BY PolicyAssumption DEF Time
<1> QED
  BY <1>1, NoRowType, WaitingType DEF TypeOK, Reset

(* Every change of the collection of a source is one to a legal state.     *)
LEMMA SrcChanges ==
    ASSUME NEW r \in SrcState
    PROVE  /\ [r EXCEPT !.status = "attempting", !.tries = 1] \in SrcState
           /\ [r EXCEPT !.status = "done", !.kind = "skip"] \in SrcState
           /\ r.status = "sleeping" => Retried(r) \in SrcState
           /\ [r EXCEPT !.wait = Max2(0, r.wait - 1)] \in SrcState
<1> DEFINE A == MaxAttempts
           D == MaxDelay
           R == ResultErrors
<1>1. A \in Nat \ {0} /\ D \in Nat
  BY PolicyAssumption
<1>2. r \in [status: {"waiting", "attempting", "sleeping", "done"},
             tries: 0..A, wait: 0..D, kind: Kinds, err: R]
  BY DEF SrcState
<1>3. r.status = "sleeping" => r.tries < A
  BY DEF SrcState
<1> HIDE DEF A, D, R
<1>4. r.tries \in 0..A /\ r.wait \in 0..D
  BY <1>2
<1>5. Max2(0, r.wait - 1) \in 0..D /\ 1 \in 0..A
  BY <1>1, <1>4 DEF Max2
<1>6. r.status = "sleeping" => r.tries + 1 \in 0..A
  BY <1>1, <1>3, <1>4
<1>7. {x \in [status: {"waiting", "attempting", "sleeping", "done"},
              tries: 0..A, wait: 0..D, kind: Kinds, err: R]:
         x.status = "sleeping" => x.tries < A} = SrcState
  BY DEF SrcState, A, D, R
<1>8. [r EXCEPT !.status = "attempting", !.tries = 1] \in SrcState
  BY <1>2, <1>5, <1>7
<1>9. [r EXCEPT !.status = "done", !.kind = "skip"] \in SrcState
  BY <1>2, <1>7 DEF Kinds
<1>10. ASSUME r.status = "sleeping" PROVE Retried(r) \in SrcState
  BY <1>2, <1>6, <1>7, <1>10 DEF Retried
<1>11. [r EXCEPT !.wait = Max2(0, r.wait - 1)] \in SrcState
  BY <1>2, <1>3, <1>5, <1>7
<1> QED
  BY <1>8, <1>9, <1>10, <1>11

LEMMA SrcUpdate ==
    ASSUME TypeOK, NEW j \in Jobs, NEW s \in Sources, NEW v \in SrcState,
           src' = [src EXCEPT ![j][s] = v]
    PROVE  src' \in [Jobs -> [Sources -> SrcState]]
BY DEF TypeOK

LEMMA TypeStep == TypeOK /\ [Next]_vars => TypeOK'
<1> SUFFICES ASSUME TypeOK, [Next]_vars PROVE TypeOK'
  OBVIOUS
<1> USE DEF TypeOK
<1>0. /\ MaxTime \in Nat /\ MaxAttempts \in Nat \ {0} /\ MaxDelay \in Nat
      /\ MaxCycles \in Nat /\ MaxSetbacks \in Nat
  BY PolicyAssumption
<1>1. ASSUME NEW j \in Jobs, Begin(j) PROVE TypeOK'
  BY <1>0, <1>1 DEF Begin, Time, clock
<1>2. ASSUME NEW j \in Jobs, TakeSource(j) PROVE TypeOK'
  <2>1. PICK s \in Sources: s = JobSources[j][nextIndex[j]]
    <3>1. JobSources[j] \in Seq(Sources)
      BY JobAssumption
    <3>2. nextIndex[j] \in Nat \ {0} /\ nextIndex[j] <= Len(JobSources[j])
      BY <1>2 DEF TakeSource
    <3>3. nextIndex[j] \in 1..Len(JobSources[j])
      BY <3>1, <3>2
    <3> QED
      BY <3>1, <3>3
  <2> DEFINE v == IF SourceCanAttempt(previous[j][s], DecisionAt(j))
                  THEN [src[j][s] EXCEPT !.status = "attempting", !.tries = 1]
                  ELSE [src[j][s] EXCEPT !.status = "done", !.kind = "skip"]
  <2>2. v \in SrcState
    <3>1. src[j][s] \in SrcState
      BY <2>1
    <3> QED
      BY <3>1, SrcChanges
  <2>3. src' = [src EXCEPT ![j][s] = v]
    BY <1>2, <2>1 DEF TakeSource
  <2> HIDE DEF v
  <2>4. src' \in [Jobs -> [Sources -> SrcState]]
    BY <2>1, <2>2, <2>3, SrcUpdate
  <2> QED
    BY <1>2, <2>4 DEF TakeSource, clock, durable
<1>3. ASSUME NEW j \in Jobs, NEW s \in Sources, AttemptAnswered(j, s) PROVE TypeOK'
  <2>1. PICK e \in {NoError, BooklessError}:
          src' = [src EXCEPT ![j][s] = [src[j][s] EXCEPT !.status = "done", !.kind = "answer", !.err = e]]
    BY <1>3 DEF AttemptAnswered
  <2>2. [src[j][s] EXCEPT !.status = "done", !.kind = "answer", !.err = e] \in SrcState
    <3>1. src[j][s] \in SrcState /\ e \in ResultErrors
      BY ResultErrorsAre
    <3> QED
      BY <3>1 DEF SrcState, Kinds
  <2>3. src' \in [Jobs -> [Sources -> SrcState]]
    BY <2>1, <2>2, SrcUpdate
  <2> QED
    BY <1>3, <2>3 DEF AttemptAnswered, clock, durable
<1>4. ASSUME NEW j \in Jobs, NEW s \in Sources, AttemptFailed(j, s) PROVE TypeOK'
  <2>1. PICK e \in SourceErrors[s]:
          IF Transient(e) /\ src[j][s].tries < MaxAttempts
          THEN \E d \in RetryDelays(src[j][s].tries, e):
                 src' = [src EXCEPT ![j][s] = [src[j][s] EXCEPT !.status = "sleeping", !.wait = d]]
          ELSE src' = [src EXCEPT ![j][s] = [src[j][s] EXCEPT !.status = "done", !.kind = "error", !.err = e]]
    BY <1>4 DEF AttemptFailed
  <2>2. e \in ResultErrors /\ e.retryAfter \in Nat /\ src[j][s] \in SrcState
    BY ErrorType, ResultErrorsAre
  <2>3. src[j][s].tries \in Nat
    BY <2>2, <1>0 DEF SrcState
  <2>4. src' \in [Jobs -> [Sources -> SrcState]]
    <3>1. ASSUME NEW d \in RetryDelays(src[j][s].tries, e),
                 src[j][s].tries < MaxAttempts
          PROVE  [src[j][s] EXCEPT !.status = "sleeping", !.wait = d] \in SrcState
      <4>1. d \in 0..MaxDelay
        BY <2>2, <2>3, <3>1, PauseBounded
      <4> QED
        BY <2>2, <3>1, <4>1 DEF SrcState
    <3>2. [src[j][s] EXCEPT !.status = "done", !.kind = "error", !.err = e] \in SrcState
      BY <2>2 DEF SrcState, Kinds
    <3>3. CASE Transient(e) /\ src[j][s].tries < MaxAttempts
      <4>1. PICK d \in RetryDelays(src[j][s].tries, e):
              src' = [src EXCEPT ![j][s] = [src[j][s] EXCEPT !.status = "sleeping", !.wait = d]]
        BY <2>1, <3>3
      <4> QED
        BY <4>1, <3>1, <3>3, SrcUpdate
    <3>4. CASE ~(Transient(e) /\ src[j][s].tries < MaxAttempts)
      BY <2>1, <3>2, <3>4, SrcUpdate
    <3> QED
      BY <3>3, <3>4
  <2> QED
    BY <1>4, <2>4 DEF AttemptFailed, clock, durable
<1>5. ASSUME NEW j \in Jobs, NEW s \in Sources, RetrySource(j, s) PROVE TypeOK'
  <2>1. src' = [src EXCEPT ![j][s] = Retried(src[j][s])]
    BY <1>5 DEF RetrySource
  <2>2. src[j][s] \in SrcState /\ src[j][s].status = "sleeping"
    BY <1>5 DEF RetrySource
  <2>3. Retried(src[j][s]) \in SrcState
    BY <2>2, SrcChanges
  <2>4. src' \in [Jobs -> [Sources -> SrcState]]
    BY <2>1, <2>3, SrcUpdate
  <2> QED
    BY <1>5, <2>4 DEF RetrySource, clock, durable
<1>6. ASSUME NEW j \in Jobs, Complete(j) PROVE TypeOK'
  <2>1. PICK judged \in [SourcesOf(j) -> ResultErrors]:
          src' = [src EXCEPT ![j] = [s \in Sources |->
                    IF s \in SourcesOf(j) THEN [src[j][s] EXCEPT !.err = judged[s]]
                    ELSE src[j][s]]]
    BY <1>6 DEF Complete
  <2>2. ASSUME NEW s \in SourcesOf(j) PROVE [src[j][s] EXCEPT !.err = judged[s]] \in SrcState
    <3>1. src[j][s] \in SrcState /\ judged[s] \in ResultErrors
      BY <2>1, SourcesOfType
    <3> QED
      BY <3>1 DEF SrcState
  <2>3. [s \in Sources |-> IF s \in SourcesOf(j) THEN [src[j][s] EXCEPT !.err = judged[s]]
                           ELSE src[j][s]] \in [Sources -> SrcState]
    BY <2>2
  <2>4. src' \in [Jobs -> [Sources -> SrcState]]
    BY <2>1, <2>3
  <2> QED
    BY <1>6, <2>4 DEF Complete, clock, durable
<1>7. ASSUME NEW j \in Jobs, Commit(j) PROVE TypeOK'
  <2>1. health' \in [Sources -> Row]
    BY <1>7, OutType DEF Commit
  <2>2. evidence' \in [Sources -> Time \cup {None}]
    BY <1>7 DEF Commit, RestsOn
  <2>3. streak' \in [Sources -> Nat] /\ contended' \in [Sources -> BOOLEAN]
    BY <1>7 DEF Commit
  <2> QED
    BY <1>7, <2>1, <2>2, <2>3, ResetTypes DEF Commit, clock
<1>8. ASSUME NEW j \in Jobs, Abort(j) PROVE TypeOK'
  BY <1>8, ResetTypes DEF Abort, clock, durable
<1>9. CASE Tick
  <2>1. src' \in [Jobs -> [Sources -> SrcState]]
    <3>1. ASSUME NEW j \in Jobs, NEW s \in Sources
          PROVE  [src[j][s] EXCEPT !.wait = Max2(0, src[j][s].wait - 1)] \in SrcState
      <4> DEFINE r == src[j][s]
      <4>1. r \in SrcState
        OBVIOUS
      <4> HIDE DEF r
      <4>2. [r EXCEPT !.wait = Max2(0, r.wait - 1)] \in SrcState
        BY <4>1, SrcChanges
      <4> QED
        BY <4>2 DEF r
    <3> QED
      BY <1>9, <3>1 DEF Tick
  <2>2. now' \in Time
    BY <1>9, <1>0 DEF Tick, Time, Min2
  <2> QED
    BY <1>9, <2>1, <2>2 DEF Tick, durable
<1>10. CASE ClockBack
  BY <1>10, <1>0 DEF ClockBack, Time, durable, jobVars
<1>11. CASE UNCHANGED vars
  BY <1>11 DEF vars, durable, jobVars
<1> QED
  BY <1>1, <1>2, <1>3, <1>4, <1>5, <1>6, <1>7, <1>8, <1>9, <1>10, <1>11 DEF Next, JobStep

LEMMA TypeInit == Init => TypeOK
<1>1. 0 \in Time /\ MaxCycles \in Nat /\ MaxSetbacks \in Nat
  BY PolicyAssumption DEF Time
<1> QED
  BY <1>1, NoRowType, WaitingType DEF Init, TypeOK

(* The state of the jobs and of source_health_states keeps its shape: no   *)
(* pause outgrows MaxDelay, no source is attempted more than MaxAttempts   *)
(* times in a cycle.                                                       *)
THEOREM HealthTypeCorrect == Spec => []TypeOK
BY TypeInit, TypeStep, PTL DEF Spec

-----------------------------------------------------------------------------
(* The rows.  The invariant ranges over the rows the jobs hold, too: a job *)
(* that skips a source writes back what it read.                           *)
GoodRow(row) == /\ RowChecks(row)
                /\ row.circuit = "open" => row.failures >= Threshold

RowInv == /\ \A s \in Sources: GoodRow(health[s])
          /\ \A j \in Jobs, s \in Sources: GoodRow(previous[j][s])

LEMMA TransitionGood ==
    ASSUME NEW row \in Row, NEW e, e.retryAfter \in Nat, NEW at \in Int, at >= 0, GoodRow(row)
    PROVE  GoodRow(TransitionSourceHealth(row, e, at))
<1>1. Cooldown \in Nat \ {0} /\ Threshold \in Nat \ {0}
  BY PolicyAssumption
<1>2. GoodRow(HealthyRow(at))
  BY DEF GoodRow, RowChecks, HealthyRow, None
<1>3. ASSUME e # NoError PROVE GoodRow(FailedRow(row, e, at))
  <2> DEFINE new == FailedRow(row, e, at)
  <2>1. /\ new.state # "healthy"
        /\ new.failures = row.failures + 1 /\ row.failures \in Nat
    BY <1>3, FailedNotHealthy DEF FailedRow, Row
  <2>2. CASE OpensCircuit(row, e)
    <3>1. new.circuit = "open" /\ new.opened # None /\ new.next = NextAttemptAt(row, e, at)
      BY <2>2 DEF FailedRow, None
    <3>2. new.next # None
      BY <2>2, <3>1, <1>1, NextAttemptType DEF None
    <3>3. new.failures >= Threshold
      BY <2>1, <2>2, <1>1 DEF OpensCircuit, GoodRow
    <3> QED
      BY <2>1, <3>1, <3>2, <3>3 DEF GoodRow, RowChecks
  <2>3. CASE ~OpensCircuit(row, e)
    <3>1. new.circuit = "closed" /\ new.opened = None
      BY <2>3 DEF FailedRow
    <3> QED
      BY <2>1, <3>1 DEF GoodRow, RowChecks
  <2> QED
    BY <2>2, <2>3
<1> QED
  BY <1>2, <1>3 DEF TransitionSourceHealth

LEMMA OutGood ==
    ASSUME TypeOK, NEW j \in Jobs, NEW s \in Sources, GoodRow(previous[j][s])
    PROVE  GoodRow(HealthStateOf(j, s))
<1>1. /\ previous[j][s] \in Row /\ src[j][s].err \in ResultErrors
      /\ completedAt[j] \in Int /\ completedAt[j] >= 0
  BY PolicyAssumption DEF TypeOK, Time, SrcState
<1>2. GoodRow(SkippedRow(j, s))
  BY <1>1 DEF SkippedRow, GoodRow, RowChecks, Row
<1>3. GoodRow(TransitionSourceHealth(previous[j][s], HealthError(src[j][s].err), completedAt[j]))
  BY <1>1, TransitionGood, ErrorType
<1> QED
  BY <1>2, <1>3 DEF HealthStateOf

LEMMA NoRowGood == GoodRow(NoRow)
BY DEF GoodRow, RowChecks, NoRow, None

LEMMA RowStep == TypeOK /\ RowInv /\ [Next]_vars => RowInv'
<1> SUFFICES ASSUME TypeOK, RowInv, [Next]_vars PROVE RowInv'
  OBVIOUS
<1>1. ASSUME NEW j \in Jobs, Begin(j) PROVE RowInv'
  BY <1>1 DEF Begin, RowInv, TypeOK
<1>2. ASSUME NEW j \in Jobs, Reset(j) PROVE \A k \in Jobs, s \in Sources: GoodRow(previous[k][s])'
  <2>1. previous' = [previous EXCEPT ![j] = [s \in Sources |-> NoRow]]
    BY <1>2 DEF Reset
  <2> QED
    BY <2>1, NoRowGood DEF RowInv, TypeOK
<1>3. ASSUME NEW j \in Jobs, Commit(j) PROVE RowInv'
  <2>1. \A s \in Sources: GoodRow(health'[s])
    BY <1>3, OutGood DEF Commit, RowInv
  <2> QED
    BY <1>3, <1>2, <2>1 DEF Commit, RowInv
<1>4. ASSUME NEW j \in Jobs, Abort(j) PROVE RowInv'
  BY <1>4, <1>2 DEF Abort, RowInv, durable
<1>5. CASE UNCHANGED <<health, previous>>
  BY <1>5 DEF RowInv
<1> QED
  BY <1>1, <1>3, <1>4, <1>5 DEF Next, JobStep, TakeSource, AttemptAnswered, AttemptFailed,
     RetrySource, Complete, Tick, ClockBack, vars, durable, jobVars

LEMMA RowInit == Init => RowInv
BY NoRowGood DEF Init, RowInv

(* Whatever rows a job started from and however late it commits, the rows  *)
(* it writes satisfy the CHECKs of source_health_states, and a circuit is  *)
(* open only with Threshold failures behind it.                            *)
THEOREM RowsAlwaysAccepted == Spec => []RowAccepted
<1>1. TypeOK /\ RowInv => RowAccepted
  BY OutGood, SourcesOfType DEF RowInv, RowAccepted, GoodRow
<1> QED
  BY TypeInit, TypeStep, RowInit, RowStep, <1>1, PTL DEF Spec

-----------------------------------------------------------------------------
(* The evidence.  A row bars its source on the strength of a collection;   *)
(* the rows the jobs hold carry the evidence they had when they were read, *)
(* and an error with a Retry-After came from the source itself.            *)
Justified(s, row, at) ==
    row.next # None =>
        /\ at # None
        /\ \/ row.next <= at + Cooldown
           \/ \E e \in SourceErrors[s]: row.next <= at + e.retryAfter

EvidenceInv ==
    /\ \A s \in Sources: Justified(s, health[s], evidence[s])
    /\ \A j \in Jobs, s \in Sources: Justified(s, previous[j][s], readEvidence[j][s])
    /\ \A j \in Jobs, s \in Sources:
          src[j][s].err.retryAfter > 0 => src[j][s].err \in SourceErrors[s]

LEMMA OutJustified ==
    ASSUME TypeOK, EvidenceInv, NEW j \in Jobs, NEW s \in Sources
    PROVE  Justified(s, HealthStateOf(j, s), RestsOn(j, s))
<1> DEFINE e == HealthError(src[j][s].err)
           at == completedAt[j]
           row == previous[j][s]
<1>1. /\ row \in Row /\ src[j][s].err \in ResultErrors /\ at \in Int /\ at >= 0
  BY PolicyAssumption DEF TypeOK, Time, SrcState
<1>2. e.retryAfter \in Nat /\ (e.retryAfter > 0 => e \in SourceErrors[s])
  BY <1>1, ErrorType DEF EvidenceInv, HealthError, NoError
<1>3. Justified(s, row, readEvidence[j][s])
  BY DEF EvidenceInv
<1>4. CASE src[j][s].kind = "skip"
  <2>1. HealthStateOf(j, s).next = row.next
    BY <1>1, <1>4 DEF HealthStateOf, SkippedRow, Row
  <2> QED
    BY <1>3, <1>4, <2>1 DEF Justified, RestsOn
<1>5. CASE src[j][s].kind # "skip" /\ at < row.last
  BY <1>3, <1>5 DEF HealthStateOf, TransitionSourceHealth, RestsOn
<1>6. CASE src[j][s].kind # "skip" /\ ~(at < row.last)
  <2>1. RestsOn(j, s) = at /\ HealthStateOf(j, s) \in {HealthyRow(at), FailedRow(row, e, at)}
    BY <1>6 DEF RestsOn, HealthStateOf, TransitionSourceHealth
  <2>2. Justified(s, HealthyRow(at), at)
    BY DEF Justified, HealthyRow
  <2>3. FailedRow(row, e, at).next = NextAttemptAt(row, e, at)
    BY DEF FailedRow
  <2>4. \/ NextAttemptAt(row, e, at) = None
        \/ NextAttemptAt(row, e, at) = at + Cooldown
        \/ e.retryAfter > 0 /\ NextAttemptAt(row, e, at) = at + e.retryAfter
    BY <1>1, <1>2, NextAttemptType
  <2>5. Cooldown \in Nat /\ at # None
    BY <1>1, PolicyAssumption DEF None
  <2> HIDE DEF e, at, row
  <2>6. CASE NextAttemptAt(row, e, at) = None
    BY <2>1, <2>2, <2>3, <2>6 DEF Justified
  <2>7. CASE NextAttemptAt(row, e, at) = at + Cooldown
    BY <2>1, <2>2, <2>3, <2>5, <2>7, <1>1 DEF Justified
  <2>8. CASE e.retryAfter > 0 /\ NextAttemptAt(row, e, at) = at + e.retryAfter
    BY <2>1, <2>2, <2>3, <2>5, <2>8, <1>1, <1>2 DEF Justified
  <2> QED
    BY <2>4, <2>6, <2>7, <2>8
<1> QED
  BY <1>4, <1>5, <1>6

LEMMA EvidenceStep == TypeOK /\ EvidenceInv /\ [Next]_vars => EvidenceInv'
<1> SUFFICES ASSUME TypeOK, EvidenceInv, [Next]_vars PROVE EvidenceInv'
  OBVIOUS
<1> DEFINE Errs == \A j \in Jobs, s \in Sources:
                     src[j][s].err.retryAfter > 0 => src[j][s].err \in SourceErrors[s]
<1>0. Errs
  BY DEF EvidenceInv
<1>j. /\ NoError.retryAfter = 0 /\ StaleError.retryAfter = 0
      /\ PeriodError.retryAfter = 0 /\ BooklessError.retryAfter = 0
  BY DEF NoError, StaleError, PeriodError, BooklessError
<1>1. ASSUME NEW j \in Jobs, Begin(j) PROVE EvidenceInv'
  BY <1>1 DEF Begin, EvidenceInv, TypeOK
<1>2. ASSUME NEW j \in Jobs, Reset(j)
      PROVE  /\ \A k \in Jobs, s \in Sources: Justified(s, previous'[k][s], readEvidence'[k][s])
             /\ Errs'
  <2>1. Waiting.err = NoError /\ NoRow.next = None
    BY DEF Waiting, NoRow
  <2> QED
    BY <1>2, <1>j, <2>1 DEF Reset, EvidenceInv, Justified, TypeOK
<1>3. ASSUME NEW j \in Jobs, Commit(j) PROVE EvidenceInv'
  <2>1. ASSUME NEW s \in Sources PROVE Justified(s, health'[s], evidence'[s])
    <3>1. CASE Replaces(j, s)
      BY <1>3, <3>1, OutJustified DEF Commit
    <3>2. CASE ~Replaces(j, s)
      BY <1>3, <3>2 DEF Commit, EvidenceInv
    <3> QED
      BY <3>1, <3>2
  <2> QED
    BY <1>3, <1>2, <2>1 DEF Commit, EvidenceInv
<1>4. ASSUME NEW j \in Jobs, Abort(j) PROVE EvidenceInv'
  BY <1>4, <1>2 DEF Abort, EvidenceInv, durable
<1>5. ASSUME UNCHANGED <<health, evidence, previous, readEvidence>>, Errs' PROVE EvidenceInv'
  BY <1>5 DEF EvidenceInv
<1>6. ASSUME NEW j \in Jobs, TakeSource(j) PROVE EvidenceInv'
  <2>1. \A k \in Jobs, s \in Sources: src'[k][s].err = src[k][s].err
    BY <1>6 DEF TakeSource, TypeOK, SrcState
  <2> QED
    BY <1>0, <1>5, <1>6, <2>1 DEF TakeSource, durable
<1>7. ASSUME NEW j \in Jobs, NEW s \in Sources, AttemptAnswered(j, s) PROVE EvidenceInv'
  <2>1. \A k \in Jobs, t \in Sources: src'[k][t].err \in {src[k][t].err, NoError, BooklessError}
    BY <1>7 DEF AttemptAnswered, TypeOK, SrcState
  <2> QED
    BY <1>0, <1>5, <1>7, <1>j, <2>1 DEF AttemptAnswered, durable
<1>8. ASSUME NEW j \in Jobs, NEW s \in Sources, AttemptFailed(j, s) PROVE EvidenceInv'
  <2>1. PICK e \in SourceErrors[s]:
          IF Transient(e) /\ src[j][s].tries < MaxAttempts
          THEN \E d \in RetryDelays(src[j][s].tries, e):
                 src' = [src EXCEPT ![j][s] = [src[j][s] EXCEPT !.status = "sleeping", !.wait = d]]
          ELSE src' = [src EXCEPT ![j][s] = [src[j][s] EXCEPT !.status = "done", !.kind = "error", !.err = e]]
    BY <1>8 DEF AttemptFailed
  <2>2. src \in [Jobs -> [Sources -> SrcState]] /\ src[j][s] \in SrcState
    BY DEF TypeOK
  <2>3. PICK v: /\ src' = [src EXCEPT ![j][s] = v]
                /\ v.err = src[j][s].err \/ v.err = e
    <3>1. ASSUME NEW d PROVE [src[j][s] EXCEPT !.status = "sleeping", !.wait = d].err = src[j][s].err
      BY <2>2 DEF SrcState
    <3>2. [src[j][s] EXCEPT !.status = "done", !.kind = "error", !.err = e].err = e
      BY <2>2 DEF SrcState
    <3>3. CASE Transient(e) /\ src[j][s].tries < MaxAttempts
      <4>1. PICK d \in RetryDelays(src[j][s].tries, e):
              src' = [src EXCEPT ![j][s] = [src[j][s] EXCEPT !.status = "sleeping", !.wait = d]]
        BY <2>1, <3>3
      <4> QED
        BY <4>1, <3>1
    <3>4. CASE ~(Transient(e) /\ src[j][s].tries < MaxAttempts)
      BY <2>1, <3>2, <3>4
    <3> QED
      BY <3>3, <3>4
  <2>4. \A k \in Jobs, t \in Sources:
           src'[k][t].err = src[k][t].err \/ src'[k][t].err \in SourceErrors[t]
    BY <2>1, <2>2, <2>3
  <2> QED
    BY <1>0, <1>5, <1>8, <2>4 DEF AttemptFailed, durable
<1>9. ASSUME NEW j \in Jobs, NEW s \in Sources, RetrySource(j, s) PROVE EvidenceInv'
  <2>1. \A k \in Jobs, t \in Sources: src'[k][t].err = src[k][t].err
    BY <1>9 DEF RetrySource, Retried, TypeOK, SrcState
  <2> QED
    BY <1>0, <1>5, <1>9, <2>1 DEF RetrySource, durable
<1>10. ASSUME NEW j \in Jobs, Complete(j) PROVE EvidenceInv'
  <2>1. PICK judged \in [SourcesOf(j) -> ResultErrors]:
          /\ \A s \in SourcesOf(j):
               judged[s] \in IF src[j][s].kind = "answer"
                             THEN Judgements(JobMetric[j], src[j][s].err)
                             ELSE {src[j][s].err}
          /\ src' = [src EXCEPT ![j] = [s \in Sources |->
                       IF s \in SourcesOf(j) THEN [src[j][s] EXCEPT !.err = judged[s]]
                       ELSE src[j][s]]]
    BY <1>10 DEF Complete
  <2>2. \A s \in SourcesOf(j): judged[s] \in {src[j][s].err, NoError, StaleError, PeriodError}
    BY <2>1 DEF Judgements
  <2>3. \A k \in Jobs, s \in Sources:
           src'[k][s].err \in {src[k][s].err, NoError, StaleError, PeriodError}
    BY <2>1, <2>2 DEF TypeOK, SrcState
  <2> QED
    BY <1>0, <1>5, <1>10, <1>j, <2>3 DEF Complete, durable
<1>11. CASE Tick
  <2>1. ASSUME NEW k \in Jobs, NEW s \in Sources PROVE src'[k][s].err = src[k][s].err
    <3> DEFINE r == src[k][s]
    <3>1. r \in SrcState /\ src'[k][s] = [r EXCEPT !.wait = Max2(0, r.wait - 1)]
      BY <1>11 DEF Tick, TypeOK
    <3> HIDE DEF r
    <3>2. [r EXCEPT !.wait = Max2(0, r.wait - 1)].err = r.err
      BY <3>1 DEF SrcState
    <3> QED
      BY <3>1, <3>2 DEF r
  <2> QED
    BY <1>0, <1>5, <1>11, <2>1 DEF Tick, durable
<1>12. CASE ClockBack \/ UNCHANGED vars
  BY <1>0, <1>5, <1>12 DEF ClockBack, vars, durable, jobVars
<1> QED
  BY <1>1, <1>3, <1>4, <1>6, <1>7, <1>8, <1>9, <1>10, <1>11, <1>12 DEF Next, JobStep

LEMMA EvidenceInit == Init => EvidenceInv
BY DEF Init, EvidenceInv, Justified, NoRow, Waiting, NoError

(* A source is barred only on the strength of a collection that took       *)
(* place, for the cooldown or for a Retry-After of its own: no number of   *)
(* jobs that skip it can keep it out.                                      *)
THEOREM BarsAreJustified == Spec => []BarredByEvidence
<1>1. EvidenceInv => BarredByEvidence
  BY DEF EvidenceInv, Justified, BarredByEvidence
<1> QED
  BY TypeInit, TypeStep, EvidenceInit, EvidenceStep, <1>1, PTL DEF Spec

-----------------------------------------------------------------------------
(* The count of failures.  As long as nothing of a source is contended,    *)
(* one job at most holds a reading of its row, and the row is still what   *)
(* that job read; so the row it writes continues the count.                *)
AloneInv ==
    \A s \in Sources: ~contended[s] =>
        /\ health[s].failures = streak[s]
        /\ \A j \in Jobs: Holding(j, s) =>
              /\ previous[j][s] = health[s]
              /\ \A k \in Jobs \ {j}: ~Holding(k, s)

LEMMA AloneInit == Init => AloneInv
BY DEF Init, AloneInv, Holding, NoRow

(* What a commit makes of a row that is not newer than the reading: the    *)
(* count goes on from the row read, or a skip leaves it as it is.          *)
LEMMA CountContinues ==
    ASSUME TypeOK, NEW j \in Jobs, NEW s \in SourcesOf(j), previous[j][s] = health[s],
           completedAt[j] > health[s].last, Commit(j)
    PROVE  \/ src[j][s].kind = "skip" /\ health'[s].failures = health[s].failures
                                      /\ streak'[s] = streak[s]
           \/ HealthError(src[j][s].err) = NoError /\ health'[s].failures = 0 /\ streak'[s] = 0
           \/ health'[s].failures = health[s].failures + 1 /\ streak'[s] = streak[s] + 1
<1> DEFINE e == HealthError(src[j][s].err)
           row == health[s]
<1>1. /\ s \in Sources
      /\ row \in Row /\ completedAt[j] \in Int
      /\ health'[s] = IF Replaces(j, s) THEN HealthStateOf(j, s) ELSE row
      /\ streak'[s] = IF src[j][s].kind = "skip" THEN streak[s]
                      ELSE IF e = NoError THEN 0 ELSE streak[s] + 1
  BY SourcesOfType DEF Commit, TypeOK, Time
<1>2. CASE src[j][s].kind = "skip"
  <2>1. HealthStateOf(j, s).failures = row.failures
    BY <1>1, <1>2 DEF HealthStateOf, SkippedRow, Row
  <2> QED
    BY <1>1, <1>2, <2>1
<1>3. CASE src[j][s].kind # "skip"
  <2>1. HealthStateOf(j, s) = IF e = NoError THEN HealthyRow(completedAt[j])
                              ELSE FailedRow(row, e, completedAt[j])
    BY <1>1, <1>3 DEF HealthStateOf, TransitionSourceHealth, Row
  <2>2. HealthStateOf(j, s).last = completedAt[j] /\ Replaces(j, s)
    BY <1>1, <2>1 DEF HealthyRow, FailedRow, Replaces
  <2>3. e = NoError => health'[s].failures = 0
    BY <1>1, <2>1, <2>2 DEF HealthyRow
  <2>4. e # NoError => health'[s].failures = row.failures + 1
    BY <1>1, <2>1, <2>2 DEF FailedRow
  <2> QED
    BY <1>1, <1>3, <2>3, <2>4
<1> QED
  BY <1>2, <1>3

LEMMA AloneStep == TypeOK /\ AloneInv /\ [Next]_vars => AloneInv'
<1> SUFFICES ASSUME TypeOK, AloneInv, [Next]_vars PROVE AloneInv'
  OBVIOUS
<1>1. ASSUME NEW j \in Jobs, Begin(j) PROVE AloneInv'
  <2> SUFFICES ASSUME NEW s \in Sources, ~contended'[s]
               PROVE  /\ health'[s].failures = streak'[s]
                      /\ \A k \in Jobs: Holding(k, s)' =>
                            /\ previous'[k][s] = health'[s]
                            /\ \A i \in Jobs \ {k}: ~Holding(i, s)'
    BY DEF AloneInv
  <2>1. /\ ~contended[s] /\ health' = health /\ streak' = streak
        /\ s \in SourcesOf(j) => \A k \in Jobs \ {j}: ~Holding(k, s)
    BY <1>1 DEF Begin, TypeOK
  <2>2. \A k \in Jobs \ {j}: previous'[k] = previous[k] /\ (Holding(k, s)' <=> Holding(k, s))
    BY <1>1 DEF Begin, Holding, TypeOK
  <2>3. previous'[j] = health /\ (Holding(j, s)' <=> s \in SourcesOf(j))
    BY <1>1 DEF Begin, Holding, TypeOK
  <2> QED
    BY <2>1, <2>2, <2>3 DEF AloneInv
<1>2. ASSUME NEW j \in Jobs, Reset(j)
      PROVE  /\ \A s \in Sources: ~Holding(j, s)'
             /\ \A k \in Jobs \ {j}, s \in Sources:
                   previous'[k] = previous[k] /\ (Holding(k, s)' <=> Holding(k, s))
  BY <1>2 DEF Reset, Holding, TypeOK
<1>3. ASSUME NEW j \in Jobs, Commit(j) PROVE AloneInv'
  <2> SUFFICES ASSUME NEW s \in Sources, ~contended'[s]
               PROVE  /\ health'[s].failures = streak'[s]
                      /\ \A k \in Jobs: Holding(k, s)' =>
                            /\ previous'[k][s] = health'[s]
                            /\ \A i \in Jobs \ {k}: ~Holding(i, s)'
    BY DEF AloneInv
  <2>1. /\ ~contended[s] /\ Reset(j) /\ phase[j] # "idle"
        /\ s \in SourcesOf(j) => ~(completedAt[j] <= health[s].last)
    BY <1>3 DEF Commit, TypeOK
  <2>2. CASE s \in SourcesOf(j)
    <3>1. Holding(j, s) /\ previous[j][s] = health[s] /\ \A k \in Jobs \ {j}: ~Holding(k, s)
      BY <2>1, <2>2 DEF Holding, AloneInv
    <3>2. completedAt[j] > health[s].last
      BY <2>1, <2>2 DEF TypeOK, Row, Time
    <3>3. \A k \in Jobs: ~Holding(k, s)'
      BY <1>2, <2>1, <3>1
    <3>4. health[s].failures = streak[s]
      BY <2>1 DEF AloneInv
    <3>5. health'[s].failures = streak'[s]
      BY <1>3, <2>2, <3>1, <3>2, <3>4, CountContinues
    <3> QED
      BY <3>3, <3>5
  <2>3. CASE s \notin SourcesOf(j)
    <3>1. health'[s] = health[s] /\ streak'[s] = streak[s] /\ ~Holding(j, s)'
      BY <1>2, <1>3, <2>1, <2>3 DEF Commit, Replaces
    <3> QED
      BY <1>2, <2>1, <3>1 DEF AloneInv
  <2> QED
    BY <2>2, <2>3
<1>4. ASSUME NEW j \in Jobs, Abort(j) PROVE AloneInv'
  <2>1. Reset(j) /\ UNCHANGED <<health, streak, contended>>
    BY <1>4 DEF Abort, durable
  <2> QED
    BY <1>2, <2>1 DEF AloneInv
<1>5. ASSUME UNCHANGED <<durable, previous>>, \A k \in Jobs: phase'[k] = "idle" <=> phase[k] = "idle"
      PROVE  AloneInv'
  BY <1>5 DEF AloneInv, Holding, durable
<1>6. ASSUME NEW j \in Jobs, Complete(j) PROVE AloneInv'
  <2>1. \A k \in Jobs: phase'[k] = "idle" <=> phase[k] = "idle"
    BY <1>6 DEF Complete, TypeOK
  <2> QED
    BY <1>5, <1>6, <2>1 DEF Complete
<1> QED
  BY <1>1, <1>3, <1>4, <1>5, <1>6 DEF Next, JobStep, TakeSource, AttemptAnswered, AttemptFailed,
     RetrySource, Tick, ClockBack, vars, jobVars

(* Where jobs did not overlap and the clock was not set back, the count    *)
(* that opens a circuit is the number of cycles in a row that failed:      *)
(* a skipped cycle neither adds to it nor ends it.                         *)
THEOREM FailuresCounted == Spec => []ExactWhenAlone
<1>1. AloneInv => ExactWhenAlone
  BY DEF AloneInv, ExactWhenAlone
<1> QED
  BY TypeInit, TypeStep, AloneInit, AloneStep, <1>1, PTL DEF Spec
=============================================================================

--------------------------- MODULE LeaseScheduler ---------------------------
(***************************************************************************)
(* The lease scheduler of the ingestion worker: lib/worker/scheduler.ts    *)
(* over lib/db/scheduler-repository.ts, with the one statement of          *)
(* persistCompletedCycle (lib/db/repositories.ts) that admits a batch once.*)
(*                                                                         *)
(* Worker processes run passes.  A pass reaps the expired leases, schedules*)
(* a cycle per subject for the current boundary, and lets the process's    *)
(* consumers claim and run pending cycles until none is left.  Each        *)
(* statement or transaction the code sends to PostgreSQL is one action;    *)
(* the reaper's transaction is two, because the durable cycles it looks up *)
(* can change before it commits.                                           *)
(***************************************************************************)
EXTENDS Naturals

CONSTANTS
    Subject,        \* the (metric, subject) pairs discovery yields
    Worker,         \* worker processes; also the lease owner label (WORKER_ID)
    Consumer,       \* the concurrent consume() loops of all the processes
    WorkerOf,       \* the process a consumer belongs to
    Skew,           \* how far a process's clock runs ahead of the slowest one
    Interval,       \* INGEST_INTERVAL_SECONDS, in ticks
    LeaseDuration,  \* WORKER_LEASE_DURATION_MS, in ticks
    MaxAttempts,    \* WORKER_MAX_ATTEMPTS
    NoOwner, NoKey, \* null values
    Horizon,        \* bound: the last tick at which boundaries and heartbeats happen
    MaxFaults       \* bound: crashes, shutdowns, failing heartbeats and stray aborts

ASSUME NullAssumption == NoOwner \notin Worker
ASSUME WorkerOfAssumption == WorkerOf \in [Consumer -> Worker]
ASSUME SkewAssumption == Skew \in [Worker -> Nat]
ASSUME NatAssumption ==
    /\ Interval \in Nat \ {0}
    /\ LeaseDuration \in Nat \ {0}
    /\ MaxAttempts \in Nat \ {0}
    /\ Horizon \in Nat
    /\ MaxFaults \in Nat

\* The idempotency key of a cycle, less its constant parts: the subject and
\* the schedule boundary.  A methodology version is fixed for a deployment.
Slot == {t \in 0..Horizon : t % Interval = 0}
Key == Subject \X Slot
SubjectOf(k) == k[1]
ScheduledAt(k) == k[2]

ASSUME NoKeyAssumption == NoKey \notin Key

Active == {"pending", "running"}
Terminal == {"completed", "failed", "abandoned"}
Status == {"absent"} \cup Active \cup Terminal

\* A row of scheduled_cycle_leases.
Row == [status : Status, owner : Worker \cup {NoOwner},
        token : Nat, attempts : Nat, expires : Nat]
AbsentRow == [status |-> "absent", owner |-> NoOwner,
              token |-> 0, attempts |-> 0, expires |-> 0]

\* What a consumer remembers of its claim; owner is its process.
NoLease == [key |-> NoKey, token |-> 0]

\* Where a consumer stands in consume(): "out" when it has returned (or its
\* process is between passes), "idle" at the head of the loop.
Beating == {"handling", "persisting", "acking", "releasing", "failing"}
Working == Beating \cup {"rejecting"}
ConsumerState == {"out", "idle"} \cup Working

\* Where a process stands in runSchedulerOnce().
Phase == {"down", "start", "reaping", "scheduling", "consuming"}

\* What an open reaper transaction will do to a row it has locked.
Verdict == {"none", "completed", "abandoned", "pending"}

VARIABLES
    clock,      \* the time of the slowest process
    row,        \* scheduled_cycle_leases, by key
    finalized,  \* the keys present in ingest_cycles (append-only)
    phase,      \* of each process
    passNow,    \* the `now` a process captured when its pass began
    verdict,    \* of each process's open reaper transaction, by key
    todo,       \* subjects a process has still to schedule in this pass
    stopping,   \* processes whose shutdown signal is raised
    pc,         \* of each consumer
    lease,      \* the claim each consumer works on
    aborted,    \* consumers whose jobController is aborted
    faults      \* faults so far

dbVars == <<row, finalized>>
passVars == <<phase, passNow, verdict, todo>>
consumerVars == <<pc, lease, aborted>>
vars == <<clock, dbVars, passVars, stopping, consumerVars, faults>>

-----------------------------------------------------------------------------
Time(w) == clock + Skew[w]

\* A row the reaper of some process holds locked (SELECT ... FOR UPDATE).
Locked(k) == \E w \in Worker : verdict[w][k] # "none"

\* Mutant of Holds: the update matches the owner label and not the token.
MutHoldsByOwner(c) ==
    LET r == row[lease[c].key]
    IN  r.status = "running" /\ r.owner = WorkerOf[c]

\* The WHERE clause of every fenced update: the row is still running under
\* this owner and this token.
Holds(c) ==
    LET r == row[lease[c].key]
    IN  /\ r.status = "running"
        /\ r.owner = WorkerOf[c]
        /\ r.token = lease[c].token

\* jobSignal: the process's shutdown signal or the consumer's own abort.
Aborted(c) == aborted[c] \/ WorkerOf[c] \in stopping

\* The row after its lease columns are cleared.
Unleased(r, status) == [r EXCEPT !.status = status, !.owner = NoOwner, !.expires = 0]

\* The consumer forgets its claim and loops.
Finished(c) ==
    /\ pc' = [pc EXCEPT ![c] = "idle"]
    /\ lease' = [lease EXCEPT ![c] = NoLease]
    /\ aborted' = [aborted EXCEPT ![c] = FALSE]

Fault == faults < MaxFaults /\ faults' = faults + 1

\* The catch block: an aborted job releases its lease, another error fails it.
Caught(c) == pc' = [pc EXCEPT ![c] = IF Aborted(c) THEN "releasing" ELSE "failing"]

\* isAbort also goes by the name of the error: one called AbortError releases the
\* lease though nothing aborted the job.
Threw(c) ==
    \/ Caught(c) /\ UNCHANGED faults
    \/ /\ ~Aborted(c)
       /\ pc' = [pc EXCEPT ![c] = "releasing"]
       /\ Fault

TypeOK ==
    /\ clock \in Nat
    /\ row \in [Key -> Row]
    /\ finalized \subseteq Key
    /\ phase \in [Worker -> Phase]
    /\ passNow \in [Worker -> Nat]
    /\ verdict \in [Worker -> [Key -> Verdict]]
    /\ todo \in [Worker -> SUBSET Subject]
    /\ stopping \subseteq Worker
    /\ pc \in [Consumer -> ConsumerState]
    /\ lease \in [Consumer -> [key : Key \cup {NoKey}, token : Nat]]
    /\ \A c \in Consumer : pc[c] \in Working => lease[c].key \in Key
    /\ aborted \in [Consumer -> BOOLEAN]
    /\ faults \in Nat

NoVerdict == [k \in Key |-> "none"]

Init ==
    /\ clock = 0
    /\ row = [k \in Key |-> AbsentRow]
    /\ finalized = {}
    /\ phase = [w \in Worker |-> "start"]
    /\ passNow = [w \in Worker |-> 0]
    /\ verdict = [w \in Worker |-> NoVerdict]
    /\ todo = [w \in Worker |-> {}]
    /\ stopping = {}
    /\ pc = [c \in Consumer |-> "out"]
    /\ lease = [c \in Consumer |-> NoLease]
    /\ aborted = [c \in Consumer |-> FALSE]
    /\ faults = 0

-----------------------------------------------------------------------------
(* A pass of runSchedulerOnce.                                             *)

\* Mutant of Expired: the reaper selects only leases with attempts left.
MutExpiredWithBudget(k, now) ==
    row[k].status = "running" /\ row[k].expires <= now /\ row[k].attempts < MaxAttempts

\* reapExpiredLeases, up to its commit: lock the expired running rows nobody
\* else has locked and decide what becomes of each.
Expired(k, now) == row[k].status = "running" /\ row[k].expires <= now

\* Mutant of VerdictOn: one attempt beyond the budget.
MutVerdictOnBeyond(k) ==
    IF k \in finalized THEN "completed"
    ELSE IF row[k].attempts > MaxAttempts THEN "abandoned" ELSE "pending"

VerdictOn(k) ==
    IF k \in finalized THEN "completed"
    ELSE IF row[k].attempts >= MaxAttempts THEN "abandoned" ELSE "pending"

ReapScan(w) ==
    /\ phase[w] = "start"
    /\ phase' = [phase EXCEPT ![w] = "reaping"]
    /\ passNow' = [passNow EXCEPT ![w] = Time(w)]
    /\ verdict' = [verdict EXCEPT ![w] =
          [k \in Key |-> IF Expired(k, Time(w)) /\ ~Locked(k)
                         THEN VerdictOn(k) ELSE "none"]]
    /\ UNCHANGED <<clock, dbVars, todo, stopping, consumerVars, faults>>

\* The reaper's transaction commits; discovery then yields every subject.
ReapCommit(w) ==
    /\ phase[w] = "reaping"
    /\ row' = [k \in Key |-> IF verdict[w][k] = "none" THEN row[k]
                             ELSE Unleased(row[k], verdict[w][k])]
    /\ verdict' = [verdict EXCEPT ![w] = NoVerdict]
    /\ phase' = [phase EXCEPT ![w] = "scheduling"]
    /\ todo' = [todo EXCEPT ![w] = Subject]
    /\ UNCHANGED <<clock, finalized, passNow, stopping, consumerVars, faults>>

\* scheduledTime: the boundary a pass schedules for.
Boundary(w) == (passNow[w] \div Interval) * Interval

\* ensureScheduledCycle: the insert does nothing when the idempotency key
\* exists or the partial unique index sees an active cycle of the subject.
Insertable(k) ==
    /\ row[k].status = "absent"
    /\ \A j \in Key : SubjectOf(j) = SubjectOf(k) => row[j].status \notin Active

Ensure(w, s) ==
    LET k == <<s, Boundary(w)>>
    IN  /\ phase[w] = "scheduling"
        /\ s \in todo[w]
        /\ todo' = [todo EXCEPT ![w] = @ \ {s}]
        /\ row' = IF k \in Key /\ Insertable(k)
                  THEN [row EXCEPT ![k] = [AbsentRow EXCEPT !.status = "pending"]]
                  ELSE row
        /\ UNCHANGED <<clock, finalized, phase, passNow, verdict,
                       stopping, consumerVars, faults>>

\* The consumers of the process start; passNow is not read again.
StartConsumers(w) ==
    /\ phase[w] = "scheduling"
    /\ todo[w] = {}
    /\ phase' = [phase EXCEPT ![w] = "consuming"]
    /\ passNow' = [passNow EXCEPT ![w] = 0]
    /\ pc' = [c \in Consumer |-> IF WorkerOf[c] = w THEN "idle" ELSE pc[c]]
    /\ UNCHANGED <<clock, dbVars, verdict, todo, stopping, lease, aborted, faults>>

\* Promise.all settles when every consumer of the process has returned.
EndPass(w) ==
    /\ phase[w] = "consuming"
    /\ \A c \in Consumer : WorkerOf[c] = w => pc[c] = "out"
    /\ phase' = [phase EXCEPT ![w] = IF w \in stopping THEN "down" ELSE "start"]
    /\ stopping' = stopping \ {w}
    /\ UNCHANGED <<clock, dbVars, passNow, verdict, todo, consumerVars, faults>>

-----------------------------------------------------------------------------
(* A consumer.                                                             *)

\* claimNextCycle orders by scheduledAt, then by an opaque digest.
Claimable(w) == {k \in Key : row[k].status = "pending" /\ ScheduledAt(k) <= Time(w)}
\* Mutant of ClaimedRow: a claim does not advance the token.
MutClaimedRowSameToken(r, w) ==
    [r EXCEPT !.status = "running", !.owner = w, !.attempts = @ + 1,
              !.expires = Time(w) + LeaseDuration]

ClaimedRow(r, w) == [r EXCEPT !.status = "running", !.owner = w, !.token = @ + 1,
                              !.attempts = @ + 1, !.expires = Time(w) + LeaseDuration]

\* A claim whose job definition fails its check, or whose metric has no
\* handler, is rejected before a heartbeat is started.
Claim(c) ==
    LET w == WorkerOf[c]
    IN  /\ pc[c] = "idle"
        /\ w \notin stopping
        /\ \E k \in Claimable(w) :
              /\ \A j \in Claimable(w) : ScheduledAt(k) <= ScheduledAt(j)
              /\ row' = [row EXCEPT ![k] = ClaimedRow(@, w)]
              /\ lease' = [lease EXCEPT ![c] = [key |-> k, token |-> ClaimedRow(row[k], w).token]]
        /\ pc' \in {[pc EXCEPT ![c] = "handling"], [pc EXCEPT ![c] = "rejecting"]}
        /\ UNCHANGED <<clock, finalized, passVars, stopping, aborted, faults>>

\* Mutant of Return: a consumer that finds nothing polls on until shutdown.
MutReturnOnSignal(c) ==
    /\ pc[c] = "idle"
    /\ WorkerOf[c] \in stopping
    /\ pc' = [pc EXCEPT ![c] = "out"]
    /\ UNCHANGED <<clock, dbVars, passVars, stopping, lease, aborted, faults>>

\* The loop ends on a shutdown signal or when nothing can be claimed.
Return(c) ==
    /\ pc[c] = "idle"
    /\ WorkerOf[c] \in stopping \/ Claimable(WorkerOf[c]) = {}
    /\ pc' = [pc EXCEPT ![c] = "out"]
    /\ UNCHANGED <<clock, dbVars, passVars, stopping, lease, aborted, faults>>

\* The handler resolves; an aborted job throws instead of persisting.
HandlerReturns(c) ==
    /\ pc[c] = "handling"
    /\ pc' = [pc EXCEPT ![c] = IF Aborted(c) THEN "releasing" ELSE "persisting"]
    /\ UNCHANGED <<clock, dbVars, passVars, stopping, lease, aborted, faults>>

HandlerThrows(c) ==
    /\ pc[c] = "handling"
    /\ Threw(c)
    /\ UNCHANGED <<clock, dbVars, passVars, stopping, lease, aborted>>

\* persistCompletedCycle: insert into ingest_cycles on conflict do nothing.  A
\* key already present is a duplicate, which is a success too.  The lease is
\* not looked at.
Persist(c) ==
    /\ pc[c] = "persisting"
    /\ finalized' = finalized \cup {lease[c].key}
    /\ pc' = [pc EXCEPT ![c] = "acking"]
    /\ UNCHANGED <<clock, row, passVars, stopping, lease, aborted, faults>>

\* It throws: the batch is rejected, or the connection fails before or after
\* the commit.
PersistThrows(c) ==
    /\ pc[c] = "persisting"
    /\ finalized' \in {finalized, finalized \cup {lease[c].key}}
    /\ Threw(c)
    /\ UNCHANGED <<clock, row, passVars, stopping, lease, aborted>>

\* acknowledgeFinalized: fenced; without a durable cycle, or when the lease is
\* lost, the caller throws.
Acknowledged(c) ==
    row' = [row EXCEPT ![lease[c].key] = Unleased(@, "completed")]

Acknowledge(c) ==
    /\ pc[c] = "acking"
    /\ ~Locked(lease[c].key)
    /\ IF Holds(c) /\ lease[c].key \in finalized
       THEN Acknowledged(c) /\ Finished(c)
       ELSE Caught(c) /\ UNCHANGED <<row, lease, aborted>>
    /\ UNCHANGED <<clock, finalized, passVars, stopping, faults>>

\* The connection fails before or after the update.
AcknowledgeThrows(c) ==
    /\ pc[c] = "acking"
    /\ \/ UNCHANGED row
       \/ ~Locked(lease[c].key) /\ Holds(c) /\ Acknowledged(c)
    /\ Threw(c)
    /\ UNCHANGED <<clock, finalized, passVars, stopping, lease, aborted>>

\* releaseLease and failLease: fenced, and a lost lease is not an error.
Release(c) ==
    /\ pc[c] = "releasing"
    /\ ~Locked(lease[c].key)
    /\ row' = IF Holds(c) THEN [row EXCEPT ![lease[c].key] = Unleased(@, "pending")] ELSE row
    /\ Finished(c)
    /\ UNCHANGED <<clock, finalized, passVars, stopping, faults>>

\* Mutant of Fail: the update is not fenced.
MutFailUnfenced(c) ==
    /\ pc[c] \in {"failing", "rejecting"}
    /\ ~Locked(lease[c].key)
    /\ row' = [row EXCEPT ![lease[c].key] = Unleased(@, "failed")]
    /\ Finished(c)
    /\ UNCHANGED <<clock, finalized, passVars, stopping, faults>>

Fail(c) ==
    /\ pc[c] \in {"failing", "rejecting"}
    /\ ~Locked(lease[c].key)
    /\ row' = IF Holds(c) THEN [row EXCEPT ![lease[c].key] = Unleased(@, "failed")] ELSE row
    /\ Finished(c)
    /\ UNCHANGED <<clock, finalized, passVars, stopping, faults>>

-----------------------------------------------------------------------------
(* The heartbeat of a consumer, until its job is finished.                 *)

\* renewLease: fenced but blind to expiry; a lost lease aborts the job.
Heartbeat(c) ==
    /\ pc[c] \in Beating
    /\ ~Aborted(c)
    /\ ~Locked(lease[c].key)
    /\ IF Holds(c)
       THEN /\ clock < Horizon
            /\ row' = [row EXCEPT ![lease[c].key].expires = Time(WorkerOf[c]) + LeaseDuration]
            /\ UNCHANGED aborted
       ELSE /\ aborted' = [aborted EXCEPT ![c] = TRUE]
            /\ UNCHANGED row
    /\ UNCHANGED <<clock, finalized, passVars, stopping, pc, lease, faults>>

HeartbeatThrows(c) ==
    /\ pc[c] \in Beating
    /\ ~Aborted(c)
    /\ aborted' = [aborted EXCEPT ![c] = TRUE]
    /\ Fault
    /\ UNCHANGED <<clock, dbVars, passVars, stopping, pc, lease>>

-----------------------------------------------------------------------------
(* The environment.                                                        *)

\* The clock runs to Horizon, and past it while a lease has still to expire.
Tick ==
    /\ \/ clock < Horizon
       \/ \E k \in Key, w \in Worker : row[k].status = "running" /\ row[k].expires > Time(w)
    /\ clock' = clock + 1
    /\ UNCHANGED <<dbVars, passVars, stopping, consumerVars, faults>>

\* SIGINT or SIGTERM.
Stop(w) ==
    /\ phase[w] # "down"
    /\ w \notin stopping
    /\ stopping' = stopping \cup {w}
    /\ Fault
    /\ UNCHANGED <<clock, dbVars, passVars, consumerVars>>

\* The process dies, or a statement outside every try block throws and ends
\* it: an open transaction rolls back, its claims stay in the database.
Crash(w) ==
    /\ phase[w] # "down"
    /\ phase' = [phase EXCEPT ![w] = "down"]
    /\ passNow' = [passNow EXCEPT ![w] = 0]
    /\ verdict' = [verdict EXCEPT ![w] = NoVerdict]
    /\ todo' = [todo EXCEPT ![w] = {}]
    /\ stopping' = stopping \ {w}
    /\ pc' = [c \in Consumer |-> IF WorkerOf[c] = w THEN "out" ELSE pc[c]]
    /\ lease' = [c \in Consumer |-> IF WorkerOf[c] = w THEN NoLease ELSE lease[c]]
    /\ aborted' = [c \in Consumer |-> aborted[c] /\ WorkerOf[c] # w]
    /\ Fault
    /\ UNCHANGED <<clock, dbVars>>

\* The deployment restarts the process under the same WORKER_ID.
Restart(w) ==
    /\ phase[w] = "down"
    /\ phase' = [phase EXCEPT ![w] = "start"]
    /\ UNCHANGED <<clock, dbVars, passNow, verdict, todo, stopping, consumerVars, faults>>

-----------------------------------------------------------------------------
PassStep(w) ==
    \/ ReapScan(w) \/ ReapCommit(w)
    \/ \E s \in Subject : Ensure(w, s)
    \/ StartConsumers(w) \/ EndPass(w)
    \/ Restart(w)

ConsumerStep(c) ==
    \/ Claim(c) \/ Return(c)
    \/ HandlerReturns(c) \/ HandlerThrows(c)
    \/ Persist(c) \/ PersistThrows(c)
    \/ Acknowledge(c) \/ AcknowledgeThrows(c)
    \/ Release(c) \/ Fail(c)

Next ==
    \/ Tick
    \/ \E w \in Worker : PassStep(w) \/ Stop(w) \/ Crash(w)
    \/ \E c \in Consumer : ConsumerStep(c) \/ Heartbeat(c) \/ HeartbeatThrows(c)

Spec == Init /\ [][Next]_vars

\* Processes and consumers keep running and handlers end (every retrieval has
\* a timeout); faults, heartbeats and a handler's outcome are left open.
Fairness ==
    /\ WF_vars(Tick)
    /\ \A w \in Worker : WF_vars(PassStep(w))
    /\ \A c \in Consumer : WF_vars(ConsumerStep(c))

FairSpec == Spec /\ Fairness

-----------------------------------------------------------------------------
(* Safety.                                                                 *)

\* Consumer c works on the claim the row of k records now.
Owns(c, k) ==
    /\ pc[c] \in Working
    /\ row[k].status = "running"
    /\ lease[c] = [key |-> k, token |-> row[k].token]

\* However workers stall, crash and share an owner label, no two consumers
\* work on the same claim: the fence of claimNextCycle's token.
ExclusiveClaim ==
    \A c, d \in Consumer : \A k \in Key : Owns(c, k) /\ Owns(d, k) => c = d

\* A row marked completed, by the consumer or by the reaper, has a durable
\* cycle: a crash never loses evidence that was acknowledged.
CompletedIsDurable ==
    \A k \in Key : row[k].status = "completed" => k \in finalized

\* The partial unique index: one pending or running cycle per subject.
OneActivePerSubject ==
    \A j, k \in Key :
        /\ SubjectOf(j) = SubjectOf(k)
        /\ row[j].status \in Active
        /\ row[k].status \in Active
        => j = k

\* A running claim ends only by the consumer that owns it or after its lease
\* ran out on some process's clock: a stale worker of the same process, or of
\* another, cannot acknowledge, release or fail the claim of its replacement.
LeaseNotStolen ==
    [][\A k \in Key :
         row[k].status = "running" /\ row'[k].status # "running" =>
            \/ \E w \in Worker : row[k].expires <= Time(w)
            \/ \E c \in Consumer :
                  /\ Owns(c, k)
                  /\ pc[c] \in {"acking", "releasing", "failing", "rejecting"}
                  /\ pc'[c] # pc[c]]_vars

\* A cycle is claimed at most MaxAttempts times, and once more for each fault:
\* the reaper counts every claim, the released ones too, and a release, which
\* does not look at the budget, needs a shutdown, a failed heartbeat or an error
\* that calls itself an abort (docs/worker.md, WORKER_MAX_ATTEMPTS).
AttemptsBounded == \A k \in Key : row[k].attempts <= MaxAttempts + faults

-----------------------------------------------------------------------------
(* The inductive invariant behind the safety properties.                   *)

\* A consumer at work holds a token its row has reached; only a scheduled row
\* was ever claimed.
TokensIssued ==
    /\ \A c \in Consumer : pc[c] \in Working =>
          0 < lease[c].token /\ lease[c].token <= row[lease[c].key].token
    /\ \A k \in Key : row[k].token > 0 => row[k].status # "absent"

\* No token of a row was handed out twice.
TokensUnique ==
    \A c, d \in Consumer :
        /\ pc[c] \in Working
        /\ pc[d] \in Working
        /\ lease[c] = lease[d]
        => c = d

\* A row locked by a reaper stays running and expired until it commits, one
\* reaper has it, and a verdict of completed stays justified.
LocksSound ==
    /\ \A w \in Worker : \A k \in Key : verdict[w][k] # "none" =>
          /\ row[k].status = "running"
          /\ row[k].expires <= Time(w)
          /\ verdict[w][k] = "completed" => k \in finalized
    /\ \A v, w \in Worker : \A k \in Key :
          verdict[v][k] # "none" /\ verdict[w][k] # "none" => v = w

\* A consumer acknowledges only what it saw committed.
AckedDurable ==
    \A c \in Consumer : pc[c] = "acking" => lease[c].key \in finalized

IInv ==
    /\ TypeOK
    /\ TokensIssued
    /\ TokensUnique
    /\ LocksSound
    /\ AckedDurable
    /\ CompletedIsDurable
    /\ OneActivePerSubject

\* Consumers stand in a running pass only, and one without a claim is not
\* aborted.
Seated ==
    \A c \in Consumer :
        /\ phase[WorkerOf[c]] # "consuming" => pc[c] = "out"
        /\ pc[c] \notin Working => ~aborted[c]

\* The owner of a claim is named in its row, so its fence matches.
OwnersNamed ==
    \A c \in Consumer : \A k \in Key : Owns(c, k) => row[k].owner = WorkerOf[c]

\* An attempt that will not count: the claim's owner is to release it.
Quitting(c) == Aborted(c) \/ pc[c] = "releasing"
Doomed(k) == \E c \in Consumer : Owns(c, k) /\ Quitting(c)

RetriesCharged ==
    \A k \in Key :
        /\ row[k].attempts <= MaxAttempts + faults
        /\ row[k].status = "pending" \/ Doomed(k) => row[k].attempts < MaxAttempts + faults
        /\ \A w \in Worker : verdict[w][k] = "pending" => row[k].attempts < MaxAttempts

\* What keeps AttemptsBounded, on top of IInv.
RetryInv == Seated /\ OwnersNamed /\ RetriesCharged

-----------------------------------------------------------------------------
(* Liveness.                                                               *)

\* No process is wedged: each one starts passes, and so reaps, for ever.
PassesRecur == \A w \in Worker : []<>(phase[w] = "start")

-----------------------------------------------------------------------------
(* The lease table implements the life cycle of its rows.                  *)

Lifecycle == INSTANCE CycleLifecycle WITH
    stage <- [k \in Key |-> CASE row[k].status = "absent" -> "unscheduled"
                              [] row[k].status \in Active -> "open"
                              [] OTHER -> row[k].status],
    durable <- finalized

\* Every behaviour of the table, with any fault, is a life cycle: settled rows
\* stay settled, completion needs a durable batch, a batch commits once.
ImplementsLifecycle == Lifecycle!Spec

\* And with fair processes every scheduled cycle settles: no crash, shutdown or
\* lost heartbeat leaves it pending or running for ever.
ImplementsLiveLifecycle == Lifecycle!LiveSpec
=============================================================================

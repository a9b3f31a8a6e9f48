---------------------------- MODULE RefreshCycle ----------------------------
(***************************************************************************)
(* One refresh cycle from the registry to the reader: the discovery of the *)
(* job (lib/db/scheduler-repository.ts), the reconciliation the handlers   *)
(* of lib/worker run over what their sources returned, its persistence     *)
(* (lib/db/repositories.ts) and the read models that serve the snapshot.   *)
(*                                                                         *)
(* Cycles of one subject follow each other: the lease is exclusive         *)
(* (LeaseScheduler).  What a cycle leaves to the next ones are the rows of *)
(* the discrepancies (here: which sources have one) and, from a supply     *)
(* cycle to a reserve cycle of the same asset, the supply reference.       *)
(* SourceHealth models the retrieval attempts, DiscrepancyProjection the   *)
(* content of the discrepancy rows.                                        *)
(***************************************************************************)
EXTENDS Reconciliation

CONSTANTS
    Subjects,       \* sets of metrics measured on one subject
    Routed,         \* Routed[m]: the sources whose config routes m to the subject
    Answers,        \* Answers[m]: the answers a source can give
    ErrorCodes      \* the error codes a connector can return

VARIABLES
    metrics,        \* the metrics of the subject
    enabled,        \* source_definitions.enabled
    history,        \* discrepancies: the <<metric, source>> that have a row
    reference,      \* what materializeSupplyReference makes of the latest supply
    job,            \* the discovered job: [metric, sources]
    phase,          \* "idle", "discovered", "collected", "committed" or "failed"
    outcome,        \* what the collection left for each source of the job
    snapshot        \* the committed snapshot of the job

vars == <<metrics, enabled, history, reference, job, phase, outcome, snapshot>>

ASSUME RoutingAssumption ==
    /\ Subjects \subseteq SUBSET Metrics
    /\ Routed \in [Metrics -> SUBSET Source]
    /\ Adapter \in [Source -> {"horizon", "archive", "sdex", "anchor"}]

(* What the observation schemas and computeAgeSeconds let through: no      *)
(* amount is negative and no age but the one of an attestation.            *)
ASSUME AnswersAssumption ==
    \A m \in Metrics: \A a \in Answers[m]:
        /\ a.value = [amount |-> a.value.amount, ledger |-> a.value.ledger,
                      detail |-> a.value.detail]
        /\ a.value.amount \in Nat /\ (m \in Reconciled => a.age \in Nat)

NoJob == [metric |-> "none", sources |-> {}]
NoSnapshot == [metric |-> "none", status |-> "unavailable", value |-> NoValue,
               configured |-> 0, responded |-> 0, usable |-> 0, agreeing |-> 0,
               excluded |-> 0, contributions |-> {}, errors |-> {}]
NoReference == [state |-> "none", amount |-> 0, ledger |-> 0]

-----------------------------------------------------------------------------
(* Discovery                                                               *)

\* discoverLatestLedgerJobs
LedgerRoute(s) == Adapter[s] = "horizon"

\* discoverSupplyJobs
SupplyRoute(s) == Adapter[s] \in {"horizon", "archive"} /\ s \in Routed["circulating_supply"]

\* discoverDepthJobs
DepthRoute(s) == Adapter[s] = "sdex" /\ Class[s] = "dex" /\ s \in Routed["order_book_depth"]

\* discoverTrustlineJobs
TrustlineRoute(s) ==
    /\ Adapter[s] = "horizon" /\ Class[s] = "canonical_ledger"
    /\ s \in Routed["trustline_count"]

\* discoverAnchorReserveJobs: the route of a verified anchor, one for a subject
ReserveRoute(s) ==
    /\ Adapter[s] = "anchor" /\ Class[s] = "anchor_self_reported"
    /\ s \in Routed["anchor_reserves"]

Route(m, s) ==
    CASE m = "latest_ledger" -> LedgerRoute(s)
      [] m = "circulating_supply" -> SupplyRoute(s)
      [] m = "order_book_depth" -> DepthRoute(s)
      [] m = "trustline_count" -> TrustlineRoute(s)
      [] m = "anchor_reserves" -> ReserveRoute(s)

JobSources(m) == {s \in enabled: Route(m, s)}

(* The registry is edited from outside.  Nothing reads it while a job      *)
(* runs, so that an edit during a job is one after it; an edit of a source *)
(* without a route to the subject is left out.                             *)
SetEnabled(s) ==
    /\ phase = "idle"
    /\ \E m \in metrics: Route(m, s)
    /\ enabled' = IF s \in enabled THEN enabled \ {s} ELSE enabled \cup {s}
    /\ UNCHANGED <<metrics, history, reference, job, phase, outcome, snapshot>>

Discover(m) ==
    /\ phase = "idle" /\ m \in metrics
    /\ JobSources(m) # {}
    /\ job' = [metric |-> m, sources |-> JobSources(m)]
    /\ phase' = "discovered"
    /\ UNCHANGED <<metrics, enabled, history, reference, outcome, snapshot>>

-----------------------------------------------------------------------------
(* Collection                                                              *)

NoAnswer == [value |-> NoValue, age |-> 0]
Failure(code) == [kind |-> "error", code |-> code, answer |-> NoAnswer]
Answer(answer) == [kind |-> "answer", code |-> "none", answer |-> answer]
Bookless(code) == [kind |-> "bookless", code |-> code, answer |-> NoAnswer]

\* the retries of one source end with its answer or with its last error
Retrieved(m, rejected) ==
    {Failure(code): code \in ErrorCodes \cup {rejected}} \cup {Answer(a): a \in Answers[m]}

\* a source whose circuit is open is not asked
CircuitOpen == {Failure("excluded_source")}

\* `rejected': what an answer becomes that its contract does not accept
LedgerOutcomes == Retrieved("latest_ledger", "invalid_configuration") \cup CircuitOpen
SupplyOutcomes == Retrieved("circulating_supply", "invalid_configuration") \cup CircuitOpen
TrustlineOutcomes == Retrieved("trustline_count", "malformed_payload") \cup CircuitOpen
ReserveOutcomes == Retrieved("anchor_reserves", "invalid_configuration") \cup CircuitOpen

\* a book with a side missing is a reading and an error at once
DepthOutcomes ==
    Retrieved("order_book_depth", "malformed_payload") \cup CircuitOpen
        \cup {Bookless("empty_book"), Bookless("one_sided_book")}

Outcomes(m) ==
    CASE m = "latest_ledger" -> LedgerOutcomes
      [] m = "circulating_supply" -> SupplyOutcomes
      [] m = "order_book_depth" -> DepthOutcomes
      [] m = "trustline_count" -> TrustlineOutcomes
      [] m = "anchor_reserves" -> ReserveOutcomes

\* what the connectors return once the resilience policy is through with them
Collect(o) ==
    /\ phase = "discovered"
    /\ outcome' = o
    /\ phase' = "collected"
    /\ UNCHANGED <<metrics, enabled, history, reference, job, snapshot>>

Of(kind) == {s \in job.sources: outcome[s].kind = kind}

(* The supply and trustline jobs turn an answer past the maximal age into  *)
(* an error of its source; the other two leave it to the orchestrator.     *)
Stale ==
    IF job.metric \in {"circulating_supply", "trustline_count"}
    THEN {s \in Of("answer"): outcome[s].answer.age > MaximumAge(job.metric)} ELSE {}

ErrorOf ==
    [s \in Of("error") \cup Of("bookless") \cup Stale |->
        IF s \in Stale THEN "stale_observation" ELSE outcome[s].code]

\* The observations handed to the orchestrator: the trustline job holds back the stale.
Observations ==
    [s \in IF job.metric = "trustline_count" THEN Of("answer") \ Stale ELSE Of("answer") |->
        outcome[s].answer]

\* The sources that leave a reading: a book with a side missing is one.
Readings == Of("answer") \cup Of("bookless")

-----------------------------------------------------------------------------
(* Reconciliation and persistence                                          *)

Sources(contributions) == {c.source: c \in contributions}

\* a discrepancy row of a source that the job does not hold: the orchestrator throws
Orphaned == \E row \in history: row[1] = job.metric /\ row[2] \notin job.sources

\* Mutant of Unbacked: every job asks for a contribution of every observation.
MutUnbacked(result) == ~ Of("answer") \subseteq Sources(result.contributions)

\* an observation of a latest-ledger job without a contribution: the job throws
Unbacked(result) ==
    job.metric = "latest_ledger" /\ ~ Of("answer") \subseteq Sources(result.contributions)

(* reconciliationSnapshotSchema, the checks of reconciliation_snapshots,   *)
(* and the reading every contribution needs.                               *)
SnapshotAccepted(result) ==
    /\ (result.status = "unavailable") = (result.value = NoValue)
    /\ result.responded \in 0..result.configured
    /\ result.usable \in 0..result.responded
    /\ result.agreeing \in 0..result.usable
    /\ result.excluded \in 0..result.configured
    /\ Sources(result.contributions) \subseteq Readings

(* The sources whose discrepancy the cycle advances: the one it finds      *)
(* deviating, and the one that has a row already.                          *)
Projected(result) ==
    {c.source: c \in {d \in result.contributions: ~ d.agrees \/ <<job.metric, d.source>> \in history}}

\* the sources a committed cycle opens a discrepancy for, or keeps one open
Deviating(result) == {c.source: c \in {d \in result.contributions: ~ d.agrees}}

(* materializeSupplyReference: the agreeing evidence of the latest supply  *)
(* snapshot, which must share its amount and one ledger checkpoint.        *)
Materialized(result) ==
    LET evidence == {c.answer.value: c \in {d \in result.contributions: d.agrees}}
    IN  IF result.status = "unavailable" THEN NoReference
        ELSE IF /\ evidence # {}
                /\ \A v \in evidence: v.amount = result.value.amount
                /\ Cardinality({v.ledger: v \in evidence}) = 1
             THEN [state |-> "current", amount |-> result.value.amount,
                   ledger |-> (CHOOSE v \in evidence: TRUE).ledger]
             ELSE [NoReference EXCEPT !.state = "broken"]

\* persistCompletedCycle, in one transaction
Commit(result) ==
    /\ snapshot' = result
    /\ history' = history \cup {<<job.metric, s>>: s \in Deviating(result)}
    /\ reference' = IF job.metric = "circulating_supply" THEN Materialized(result)
                    ELSE reference
    /\ phase' = "committed"
    /\ UNCHANGED <<metrics, enabled, job, outcome>>

\* An exception leaves nothing behind: the cycle is retried or abandoned.
Fail ==
    /\ phase' = "failed"
    /\ UNCHANGED <<metrics, enabled, history, reference, job, outcome, snapshot>>

(* A discrepancy that the cycle advances may refuse it, whatever the       *)
(* snapshot is worth: its row was finalized by a later cycle               *)
(* (orchestrator.ts:424, repositories.ts:537) or opened under an earlier   *)
(* methodology (discrepancy-state.ts:230), its id belongs to the row of    *)
(* another subject (repositories.ts:515), or its occurrence cannot be      *)
(* opened or resolved again (the indexes of discrepancies and of           *)
(* discrepancy_events).  Which rows do is DiscrepancyProjection's matter;  *)
(* here every one of them may.                                             *)
Refused(result) == Projected(result) # {} /\ Fail

Results == Reconcile(job.metric, job.sources, Observations, ErrorOf)

Finish ==
    /\ phase = "collected" /\ job.metric \in Reconciled
    /\ IF Orphaned THEN Fail
       ELSE \E result \in Results:
            IF Unbacked(result) \/ ~ SnapshotAccepted(result) THEN Fail
            ELSE Commit(result) \/ Refused(result)

\* anchor-reserve-job.ts: ages in maximal attestation ages, negative when ahead of time
ReserveErrors(answer) ==
    IF answer.age < 0 THEN "period_mismatch"
    ELSE IF answer.age > 1 THEN "stale_observation" ELSE "none"

(* The reserve job: `current' says whether the latest supply reference is  *)
(* within its maximal age when the job completes.                          *)
FinishReserve(current) ==
    LET s == CHOOSE t \in job.sources: TRUE
        answer == outcome[s].answer
        answered == outcome[s].kind = "answer"
        early == IF answered THEN ReserveErrors(answer) ELSE outcome[s].code
        usable == reference.state = "current" /\ current
        skewed == answered /\ early = "none" /\ usable /\ answer.value.ledger # reference.ledger
        code == IF skewed THEN "period_mismatch" ELSE early
        errorOf == [t \in IF code = "none" THEN {} ELSE {s} |-> code]
        result == IF answered /\ code = "none" /\ usable
                  THEN ReserveSnapshot(s, answer, reference, errorOf)
                  ELSE ReserveUnavailable(s, answered /\ code = "none", errorOf)
    IN  /\ phase = "collected" /\ job.metric = "anchor_reserves"
        /\ IF reference.state = "broken" \/ ~ SnapshotAccepted(result) THEN Fail
           ELSE Commit(result) \/ Refused(result)

\* Mutant of Settle: the next cycle starts from the outcome of the last one.
MutSettle ==
    /\ phase \in {"committed", "failed"}
    /\ phase' = "idle"
    /\ job' = NoJob /\ snapshot' = NoSnapshot
    /\ UNCHANGED <<metrics, enabled, history, reference, outcome>>

\* the scheduler comes to the next cycle
Settle ==
    /\ phase \in {"committed", "failed"}
    /\ phase' = "idle"
    /\ job' = NoJob /\ outcome' = << >> /\ snapshot' = NoSnapshot
    /\ UNCHANGED <<metrics, enabled, history, reference>>

Init ==
    /\ metrics \in Subjects
    /\ enabled = Source
    /\ history = {}
    /\ reference = NoReference
    /\ job = NoJob /\ phase = "idle" /\ outcome = << >> /\ snapshot = NoSnapshot

Next ==
    \/ \E s \in Source: SetEnabled(s)
    \/ \E m \in Metrics: Discover(m)
    \/ \E o \in [job.sources -> IF job.metric \in Metrics THEN Outcomes(job.metric) ELSE {}]:
           Collect(o)
    \/ Finish
    \/ \E current \in BOOLEAN: FinishReserve(current)
    \/ Settle

Spec == Init /\ [][Next]_vars
-----------------------------------------------------------------------------
(* Properties                                                              *)

(* The variables keep their types, and a phase has what belongs to it: an  *)
(* outcome for each source of the job once they are collected, a snapshot  *)
(* of its metric once it is committed, nothing of an earlier job.          *)
RefreshTypeOK ==
    /\ metrics \in Subjects /\ enabled \subseteq Source
    /\ history \subseteq metrics \X Source
    /\ reference.state \in {"none", "current", "broken"}
    /\ job.metric \in metrics \cup {"none"} /\ job.sources \subseteq Source
    /\ phase \in {"idle", "discovered", "collected", "committed", "failed"}
    /\ DOMAIN outcome = IF phase \in {"idle", "discovered"} THEN {} ELSE job.sources
    /\ snapshot.metric = IF phase = "committed" THEN job.metric ELSE "none"
    /\ snapshot.status \in {"verified", "degraded", "unavailable"}

(* "verified" is only said of a value that every configured source gave    *)
(* without an error, at least two of them, from at least two upstreams,    *)
(* covering every class the methodology expects, half of the weight of     *)
(* their evidence left by its age: lib/reconcile/orchestrator.ts asks for  *)
(* two sources, the rest comes from the caps and the threshold.            *)
VerifiedIsEarned ==
    snapshot.status = "verified" =>
        LET sources == Sources(snapshot.contributions)
            given == [s \in sources |-> outcome[s].answer]
        IN  /\ snapshot.metric # "anchor_reserves" /\ snapshot.errors = {}
            /\ sources = job.sources /\ Cardinality(sources) >= 2
            /\ \A c \in snapshot.contributions: c.agrees
            /\ Cardinality({Upstream(snapshot.metric, s): s \in sources}) >= 2
            /\ MethodologyOf(snapshot.metric).expected \subseteq {Class[s]: s \in sources}
            /\ 2 * WeightOf(given, sources) >= WeightOf([s \in sources |-> [age |-> 0]], sources)

(* The published value is one a source gave, and neither the evidence      *)
(* below it nor the evidence above it outweighs the other half: the lower  *)
(* weighted median of lib/reconcile/weighted-median.ts, ties included.     *)
MedianFair ==
    snapshot.metric \in Reconciled /\ snapshot.status # "unavailable" =>
        LET sources == Sources(snapshot.contributions)
            given == [s \in sources |-> outcome[s].answer]
            below == {s \in sources: given[s].value.amount < snapshot.value.amount}
            above == {s \in sources: given[s].value.amount > snapshot.value.amount}
        IN  /\ \E s \in sources: given[s].value = snapshot.value
            /\ 2 * WeightOf(given, below) <= WeightOf(given, sources)
            /\ 2 * WeightOf(given, above) <= WeightOf(given, sources)

\* what two sources of the cycle answered is not the same fact to its methodology
Disagreement ==
    IF job.metric = "anchor_reserves"
    THEN \E s \in Of("answer"):
            ~ WithinBasisPoints(outcome[s].answer.value.amount, reference.amount,
                                ReserveMethodology.tolerance)
    ELSE \E s, t \in Of("answer"):
            ~ Agrees(job.metric, outcome[s].answer.value, outcome[t].answer.value)

\* what a collected cycle may fail for
Excused ==
    \/ Orphaned
    \/ /\ job.metric = "latest_ledger"
       /\ \E s \in Of("answer"): outcome[s].answer.age >= Underflow
    \/ \E s \in Of("answer"): <<job.metric, s>> \in history
    \/ Disagreement

(* A collected cycle is persisted, whatever mixture of answers, errors,    *)
(* stale answers and half books its sources gave, unless a source of one   *)
(* of its discrepancies is no longer configured (orchestrator.ts:260), the *)
(* weight of a ledger has decayed to nothing (latest-ledger-job.ts:288),   *)
(* or a discrepancy refuses it: then a source that answered has a row      *)
(* already, or two answers differ (the reserve and its reference do).      *)
FailsOnlyWhen == phase = "failed" => Excused

\* the reading a read model compares the value with: the first agreeing one
FirstAgreeing ==
    LET agreeing == {c \in snapshot.contributions: c.agrees}
    IN  CHOOSE c \in agreeing: \A d \in agreeing: c.source <= d.source

CountsMatch ==
    /\ Cardinality(snapshot.contributions) = snapshot.usable
    /\ Cardinality({c \in snapshot.contributions: c.agrees}) = snapshot.agreeing

\* the sources whose discrepancy the committed cycle is the last to finalize
Finalized == {s \in Sources(snapshot.contributions): <<job.metric, s>> \in history}

\* a public discrepancy of the cycle is shown with its reading and the reference
DiscrepanciesShown == Finalized # {} => snapshot.agreeing > 0

\* queryLatestLedgerReadModel: latestLedgerResponseSchema accepts what was stored
LedgerServed ==
    /\ (snapshot.status = "unavailable") = (snapshot.value = NoValue)
    /\ snapshot.responded <= snapshot.configured /\ snapshot.usable <= snapshot.responded
    /\ snapshot.agreeing <= snapshot.usable /\ snapshot.excluded <= snapshot.configured

\* queryLatestSupplyReadModel serves the snapshot
SupplyServed ==
    /\ CountsMatch /\ DiscrepanciesShown
    /\ snapshot.status # "unavailable" =>
        snapshot.agreeing > 0 /\ FirstAgreeing.answer.value.amount = snapshot.value.amount

\* queryLatestTrustlineReadModel serves the snapshot
TrustlineServed ==
    /\ CountsMatch /\ DiscrepanciesShown
    /\ snapshot.status # "unavailable" =>
        snapshot.agreeing > 0 /\ FirstAgreeing.answer.value = snapshot.value

\* queryLatestDepthReadModel serves the snapshot: sameBook
DepthServed ==
    /\ CountsMatch /\ DiscrepanciesShown
    /\ snapshot.status # "unavailable" =>
        snapshot.agreeing > 0 /\ FirstAgreeing.answer.value = snapshot.value

(* Every committed ledger, supply and trustline snapshot is one its read   *)
(* model serves, and the latest supply is a reference the reserve job can  *)
(* read: lib/db/*-read-model.ts and materializeSupplyReference throw on    *)
(* evidence that does not match the snapshot.                              *)
ReadersServed ==
    /\ snapshot.metric = "latest_ledger" => LedgerServed
    /\ snapshot.metric = "circulating_supply" => SupplyServed
    /\ snapshot.metric = "trustline_count" => TrustlineServed
    /\ reference.state # "broken"

(* lib/db/depth-read-model.ts:72 asserts that an available depth snapshot  *)
(* has matching reference evidence.                                        *)
DepthReadersServed == snapshot.metric = "order_book_depth" => DepthServed
=============================================================================

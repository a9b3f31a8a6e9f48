--------------------------- MODULE Reconciliation ---------------------------
(***************************************************************************)
(* The arithmetic of a reconciliation: lib/reconcile without the           *)
(* discrepancy state machine (DiscrepancyState models that).               *)
(*                                                                         *)
(* An answer of a source is [value, age]: its age in half-lives of the     *)
(* metric, and a value [amount, ledger, detail] of which `amount' is what  *)
(* the metric orders its values by (the ledger, the supply, the outer      *)
(* depth, the number of trustlines) and `detail' is what two answers with  *)
(* one amount and one ledger can still differ in (the supply components,   *)
(* the reference price, the trustline states).  Scores are in units of     *)
(* 1/10000, rounded down.                                                  *)
(***************************************************************************)
EXTENDS Methodology, FiniteSetsExt

CONSTANTS
    Source,         \* the rows of source_definitions, by id
    Class,          \* Class[s]: the source class
    Adapter,        \* Adapter[s]: the adapter
    UpstreamId,     \* UpstreamId[s]: the declared upstream of a Horizon source
    Underflow       \* the half-lives after which 0.5 ** n is zero

ASSUME SourceAssumption ==
    /\ Source \subseteq Nat /\ IsFiniteSet(Source)
    /\ Class \in [Source -> SourceClasses]
    /\ Underflow \in Nat \ {0}

MaximumAge(m) == MethodologyOf(m).maximumAge \div MethodologyOf(m).halfLife

Abs(n) == IF n < 0 THEN -n ELSE n
Least(a, b) == IF a <= b THEN a ELSE b

-----------------------------------------------------------------------------
(* staleness.ts                                                            *)

\* 2 ** n, the scale of the weights
PowerOfTwo[n \in 0..Underflow] == IF n = 0 THEN 1 ELSE 2 * PowerOfTwo[n - 1]

\* computeWeightFromAge: base * 0.5 ** (age / halfLife), scaled by 2 ** Underflow
WeightFromAge(base, age) ==
    IF age >= Underflow THEN 0 ELSE base * PowerOfTwo[Underflow - age]

\* computeEffectiveWeight of one answer
EffectiveWeight(s, answer) == WeightFromAge(BaseWeight[Class[s]], answer.age)

-----------------------------------------------------------------------------
(* weighted-median.ts                                                      *)

WeightOf(given, S) == MapThenSumSet(LAMBDA s: EffectiveWeight(s, given[s]), S)

\* Mutant of Medians: the last contribution that brings the weight past a half.
MutMedians(given, usable) ==
    {s \in usable:
        LET below == {t \in usable: given[t].value.amount < given[s].value.amount}
        IN  2 * (WeightOf(given, below) + EffectiveWeight(s, given[s]))
                >= WeightOf(given, usable)}

(* computeWeightedMedian: the contributions sorted by value, the first at  *)
(* which the running weight reaches half of the total.  Contributions of   *)
(* one value are ordered by the id of their observation, a hash: any       *)
(* subset of them may precede the selected one.                            *)
Medians(given, usable) ==
    {s \in usable:
        LET below == {t \in usable: given[t].value.amount < given[s].value.amount}
            tied == {t \in usable \ {s}: given[t].value.amount = given[s].value.amount}
        IN  \E before \in SUBSET tied:
                LET cumulative == WeightOf(given, below \cup before)
                IN  /\ 2 * cumulative < WeightOf(given, usable)
                    /\ 2 * (cumulative + EffectiveWeight(s, given[s])) >= WeightOf(given, usable)}

-----------------------------------------------------------------------------
(* The profiles: latest-ledger.ts, supply.ts, depth.ts, trustlines.ts      *)

\* Mutant of ExactSupply: two checkpoints with the same supply agree.
MutExactSupply(left, right) == left.amount = right.amount /\ left.detail = right.detail

\* exactAgreement of supply.ts
ExactSupply(left, right) ==
    left.amount = right.amount /\ left.ledger = right.ledger /\ left.detail = right.detail

\* exact of trustlines.ts
ExactTrustlines(left, right) ==
    left.ledger = right.ledger /\ left.amount = right.amount /\ left.detail = right.detail

\* maximumDeltaBasisPoints of depth.ts: one bucket stands for all of them
DeltaBasisPoints(observed, reference) ==
    LET denominator == IF reference.amount = 0 THEN 1 ELSE reference.amount
    IN  Least(1000000, (Abs(observed.amount - reference.amount) * 10000) \div denominator)

\* samePrice
SamePrice(left, right) == left.detail = right.detail

\* agrees of depth.ts: neither the ledger nor the exact amounts are compared
DepthAgrees(left, right) ==
    SamePrice(left, right) /\ DeltaBasisPoints(left, right) <= DepthMethodology.tolerance

\* agrees of the latest-ledger profile
LedgerAgrees(left, right) == Abs(left.amount - right.amount) <= LedgerMethodology.tolerance

Agrees(m, observed, reference) ==
    CASE m = "latest_ledger" -> LedgerAgrees(observed, reference)
      [] m = "circulating_supply" -> ExactSupply(observed, reference)
      [] m = "order_book_depth" -> DepthAgrees(observed, reference)
      [] m = "trustline_count" -> ExactTrustlines(observed, reference)

\* spreadDistance of the trustline profile, in 1/10000
TrustlineDistance(observed, reference) ==
    IF reference.amount = 0 THEN IF observed.amount = 0 THEN 0 ELSE 10000
    ELSE Least(10000, (Abs(observed.amount - reference.amount) * 10000) \div reference.amount)

\* spreadDistance / maximumSpreadDistance, in 1/10000, at most one
Distance(m, observed, reference) ==
    CASE m = "latest_ledger" ->
           Least(10000, (Abs(observed.amount - reference.amount) * 10000)
                            \div LedgerMethodology.maximumSpread)
      [] m = "circulating_supply" -> IF ExactSupply(observed, reference) THEN 0 ELSE 10000
      [] m = "order_book_depth" -> Least(10000, DeltaBasisPoints(observed, reference))
      [] m = "trustline_count" -> TrustlineDistance(observed, reference)

\* getUpstreamId: a derivation is as independent as the adapter it comes from
Upstream(m, s) == IF m = "latest_ledger" THEN UpstreamId[s] ELSE Adapter[s]

-----------------------------------------------------------------------------
(* agreement.ts, spread.ts, confidence.ts                                  *)

Share(part, whole) == IF whole = 0 THEN 0 ELSE (part * 10000) \div whole

\* computeWeightedAgreement
AgreementScore(given, usable, agreeing) ==
    Share(WeightOf(given, agreeing), WeightOf(given, usable))

FreshnessScore(given, usable) ==
    Share(WeightOf(given, usable),
          MapThenSumSet(LAMBDA s: WeightFromAge(BaseWeight[Class[s]], 0), usable))

\* computeAvailabilityScore
AvailabilityScore(usable, configured) == Share(Cardinality(usable), Cardinality(configured))

\* computeSourceClassDiversity
DiversityScore(m, usable) ==
    LET represented == {Class[s]: s \in usable}
    IN  Share(Cardinality(MethodologyOf(m).expected \cap represented),
              Cardinality(MethodologyOf(m).expected))

SpreadScore(m, given, usable, reference) ==
    10000 - Max({Distance(m, given[s].value, reference): s \in usable})

\* Mutant of Capped: the caps are never applied.
MutCapped(score, applies, maximum) == score

\* computeConfidence: the caps of the orchestrator, each lowering what is above it
Capped(score, applies, maximum) == IF applies THEN Least(score, 100 * maximum) ELSE score

Confidence(m, configured, given, usable, agreeing, reference, errors) ==
    LET config == MethodologyOf(m)
        evidence == (  config.agreement * AgreementScore(given, usable, agreeing)
                     + config.freshness * FreshnessScore(given, usable)
                     + config.availability * AvailabilityScore(usable, configured)
                     + config.spread * SpreadScore(m, given, usable, reference)) \div 100
        uncapped == (evidence * DiversityScore(m, usable)) \div 10000
        upstreams == {Upstream(m, s): s \in usable}
        single == Capped(uncapped, Cardinality(usable) = 1, config.singleSource)
        replicas == Capped(single, Cardinality(usable) > 1 /\ Cardinality(upstreams) = 1,
                           config.sameUpstream)
    IN  Capped(replicas, errors # {}, config.sourceError)

-----------------------------------------------------------------------------
(* orchestrator.ts                                                         *)

ExclusionCodes == {"network_mismatch", "excluded_source"}
NoResponseCodes == {"request_failed", "request_aborted", "invalid_configuration",
                    "excluded_source"}

(* The observations that count: no error of their source, a weight left,   *)
(* not past the maximal age of the metric.                                 *)
Usable(m, given, errorOf) ==
    {s \in DOMAIN given \ DOMAIN errorOf:
        /\ EffectiveWeight(s, given[s]) > 0
        /\ MaximumAge(m) = 0 \/ given[s].age <= MaximumAge(m)}

Responded(given, errorOf) ==
    DOMAIN given \cup {s \in DOMAIN errorOf: errorOf[s] \notin NoResponseCodes}
Excluded(errorOf) == {s \in DOMAIN errorOf: errorOf[s] \in ExclusionCodes}

NoValue == [amount |-> -1, ledger |-> -1, detail |-> -1]

\* the snapshot of a cycle without a usable observation
UnavailableSnapshot(m, configured, given, errorOf) ==
    [metric |-> m, status |-> "unavailable", value |-> NoValue,
     configured |-> Cardinality(configured),
     responded |-> Cardinality(Responded(given, errorOf)),
     usable |-> 0, agreeing |-> 0, excluded |-> Cardinality(Excluded(errorOf)),
     contributions |-> {}, errors |-> DOMAIN errorOf]

\* degraded, in the orchestrator
Degraded(m, configured, given, usable, agreeing, reference, errorOf) ==
    \/ Cardinality(usable) < MethodologyOf(m).minimumVerified
    \/ DOMAIN errorOf # {}
    \/ Excluded(errorOf) # {}
    \/ Cardinality(usable) < Cardinality(configured)
    \/ WeightOf(given, agreeing) < WeightOf(given, usable)
    \/ Confidence(m, configured, given, usable, agreeing, reference, DOMAIN errorOf)
           < 100 * MethodologyOf(m).threshold

\* the snapshot of a cycle whose median is the value of source s
SnapshotAt(m, configured, given, errorOf, s) ==
    LET usable == Usable(m, given, errorOf)
        reference == given[s].value
        agreeing == {t \in usable: Agrees(m, given[t].value, reference)}
    IN  [metric |-> m,
         status |-> IF Degraded(m, configured, given, usable, agreeing, reference, errorOf)
                    THEN "degraded" ELSE "verified",
         value |-> reference,
         configured |-> Cardinality(configured),
         responded |-> Cardinality(Responded(given, errorOf)),
         usable |-> Cardinality(usable), agreeing |-> Cardinality(agreeing),
         excluded |-> Cardinality(Excluded(errorOf)),
         contributions |-> {[source |-> t, answer |-> given[t], agrees |-> t \in agreeing]:
                                t \in usable},
         errors |-> DOMAIN errorOf]

\* reconcileMetric: the snapshots it may return
Reconcile(m, configured, given, errorOf) ==
    LET usable == Usable(m, given, errorOf)
    IN  IF usable = {} THEN {UnavailableSnapshot(m, configured, given, errorOf)}
        ELSE {SnapshotAt(m, configured, given, errorOf, s): s \in Medians(given, usable)}
-----------------------------------------------------------------------------
(* anchor-reserve.ts: one self-reported attestation against the supply     *)

\* isWithinBasisPoints of amount.ts, without a division
WithinBasisPoints(observed, reference, tolerance) ==
    IF reference = 0 THEN observed = 0
    ELSE Abs(observed - reference) * 10000 <= Abs(reference) * tolerance

\* the errors of the reserve connectors and of the job that carry an HTTP status
StatusCodes == {"redirect_rejected", "non_200_response", "unsupported_attestation",
                "period_mismatch", "stale_observation"}

\* the snapshot of an anchor whose attestation or reference is missing
ReserveUnavailable(s, answered, errorOf) ==
    [metric |-> "anchor_reserves", status |-> "unavailable", value |-> NoValue,
     configured |-> 1,
     responded |-> IF answered \/ \E t \in DOMAIN errorOf: errorOf[t] \in StatusCodes
                   THEN 1 ELSE 0,
     usable |-> 0, agreeing |-> 0,
     excluded |-> IF \E t \in DOMAIN errorOf: errorOf[t] = "excluded_source" THEN 1 ELSE 0,
     contributions |-> {}, errors |-> DOMAIN errorOf]

\* reconcileAnchorReserve: always degraded, whatever the attestation says
ReserveSnapshot(s, answer, reference, errorOf) ==
    LET agrees == WithinBasisPoints(answer.value.amount, reference.amount,
                                    ReserveMethodology.tolerance)
    IN  [metric |-> "anchor_reserves", status |-> "degraded", value |-> answer.value,
         configured |-> 1, responded |-> 1, usable |-> 1,
         agreeing |-> IF agrees THEN 1 ELSE 0, excluded |-> 0,
         contributions |-> {[source |-> s, answer |-> answer, agrees |-> agrees]},
         errors |-> DOMAIN errorOf]
=============================================================================

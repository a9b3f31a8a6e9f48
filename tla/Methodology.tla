---------------------------- MODULE Methodology ----------------------------
(***************************************************************************)
(* config/methodology: the versioned numbers a reconciliation is computed  *)
(* from, and the conditions each file checks when it is loaded.            *)
(*                                                                         *)
(* Weights are in twentieths, coefficients, caps and thresholds in         *)
(* percent, ages in half-lives of the metric, spreads in the unit of the   *)
(* metric.  A maximal age of 0 means that the metric has none.             *)
(***************************************************************************)
EXTENDS Integers, FiniteSets

Metrics == {"latest_ledger", "circulating_supply", "order_book_depth",
            "trustline_count", "anchor_reserves"}
SourceClasses == {"canonical_ledger", "archive", "dex", "anchor_self_reported",
                  "third_party_oracle"}

\* sourceClasses of the methodology, repeated by every metric's file
BaseWeight == [c \in SourceClasses |->
    CASE c = "canonical_ledger" -> 20 [] c = "archive" -> 18 [] c = "dex" -> 17
      [] c = "anchor_self_reported" -> 10 [] c = "third_party_oracle" -> 8]

LedgerMethodology ==
    [halfLife |-> 30, maximumAge |-> 0, tolerance |-> 1, minimumVerified |-> 2,
     agreement |-> 50, freshness |-> 25, availability |-> 20, spread |-> 5,
     maximumSpread |-> 5, threshold |-> 90,
     singleSource |-> 60, sameUpstream |-> 70, sourceError |-> 85,
     expected |-> {"canonical_ledger"}]

SupplyMethodology ==
    [halfLife |-> 30, maximumAge |-> 120, tolerance |-> 0, minimumVerified |-> 2,
     agreement |-> 55, freshness |-> 20, availability |-> 20, spread |-> 5,
     maximumSpread |-> 1, threshold |-> 90,
     singleSource |-> 60, sameUpstream |-> 70, sourceError |-> 85,
     expected |-> {"canonical_ledger", "archive"}]

\* the tolerance is in basis points
DepthMethodology ==
    [SupplyMethodology EXCEPT !.halfLife = 5, !.maximumAge = 20, !.tolerance = 50,
                              !.expected = {"dex"}]

TrustlineMethodology ==
    [SupplyMethodology EXCEPT !.halfLife = 300, !.maximumAge = 900,
                              !.expected = {"canonical_ledger"}]

\* ages in seconds, the tolerance in basis points
ReserveMethodology ==
    [maximumAge |-> 86400, maximumReferenceAge |-> 120, maximumSkew |-> 300,
     tolerance |-> 10, base |-> 25, reference |-> 20, alignment |-> 5, cap |-> 50]

Reconciled == Metrics \ {"anchor_reserves"}

\* The methodology a profile hands to the orchestrator.
MethodologyOf(m) ==
    CASE m = "latest_ledger" -> LedgerMethodology
      [] m = "circulating_supply" -> SupplyMethodology
      [] m = "order_book_depth" -> DepthMethodology
      [] m = "trustline_count" -> TrustlineMethodology

-----------------------------------------------------------------------------
(* The checks made when the files are loaded.                              *)

Percent == 0..100

UnitCoefficients(config) ==
    /\ {config.agreement, config.freshness, config.availability, config.spread} \subseteq Percent
    /\ config.agreement + config.freshness + config.availability + config.spread = 100

UnitBounds(config) ==
    {config.threshold, config.singleSource, config.sameUpstream, config.sourceError} \subseteq Percent

\* validateMethodologyConfig
ValidLedger(config) ==
    /\ \A c \in SourceClasses: BaseWeight[c] \in 1..20
    /\ config.halfLife > 0 /\ config.tolerance >= 0 /\ config.minimumVerified >= 2
    /\ UnitCoefficients(config) /\ UnitBounds(config)
    /\ config.maximumSpread > 0

\* validateSupplyMethodologyConfig
ValidSupply(config) ==
    /\ \A c \in SourceClasses: BaseWeight[c] \in 1..20
    /\ config.tolerance = 0 /\ config.minimumVerified >= 2
    /\ config.halfLife > 0 /\ config.maximumAge > config.halfLife
    /\ UnitCoefficients(config) /\ UnitBounds(config)

\* validateDepthReconciliationMethodologyConfig
ValidDepth(config) ==
    /\ \A c \in SourceClasses: BaseWeight[c] \in 1..20
    /\ config.tolerance \in 0..9999 /\ config.minimumVerified >= 2
    /\ config.halfLife > 0 /\ config.maximumAge > config.halfLife
    /\ UnitCoefficients(config) /\ UnitBounds(config)

\* validateTrustlineMethodologyConfig
ValidTrustline(config) ==
    /\ \A c \in SourceClasses: BaseWeight[c] \in 1..20
    /\ config.tolerance = 0 /\ config.minimumVerified >= 2
    /\ config.halfLife > 0 /\ config.maximumAge > config.halfLife
    /\ UnitCoefficients(config) /\ UnitBounds(config)

\* validateAnchorReserveMethodologyConfig
ValidReserve(config) ==
    /\ config.maximumAge > 0 /\ config.maximumReferenceAge > 0 /\ config.maximumSkew > 0
    /\ config.tolerance \in 0..10000
    /\ {config.base, config.reference, config.alignment, config.cap} \subseteq Percent
    /\ config.base + config.reference + config.alignment <= config.cap

\* assertMethodology of the orchestrator, on what a profile hands to it
ValidForOrchestrator(config) ==
    /\ config.halfLife > 0 /\ config.minimumVerified >= 1
    /\ UnitBounds(config) /\ UnitCoefficients(config)
    /\ config.expected # {} /\ config.expected \subseteq SourceClasses
    /\ \A c \in SourceClasses: BaseWeight[c] \in 1..20

\* Every file passes its own check and the orchestrator's.
ASSUME MethodologyAssumption ==
    /\ ValidLedger(LedgerMethodology) /\ ValidSupply(SupplyMethodology)
    /\ ValidDepth(DepthMethodology) /\ ValidTrustline(TrustlineMethodology)
    /\ ValidReserve(ReserveMethodology)
    /\ \A m \in Reconciled: ValidForOrchestrator(MethodologyOf(m))
=============================================================================

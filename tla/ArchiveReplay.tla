---------------------------- MODULE ArchiveReplay ----------------------------
(***************************************************************************)
(* lib/stellar/archive-supply.ts: a supply replayed from history archives  *)
(* by someone else, taken over when its digest is the one a trusted        *)
(* manifest names and its content is consistent with that manifest.  An    *)
(* artifact stands for its digest: the digests of two artifacts differ.    *)
(***************************************************************************)
EXTENDS Integers, FiniteSets, FiniteSetsExt

CONSTANTS
    Artifacts,      \* what the archive endpoint may serve
    Manifests       \* trusted checkpoints: [artifact, ledger, hash]

\* the connector asks for one classic asset of one network, over one endpoint
ArchiveConfigError(option) ==
    IF option.asset # "credit" THEN "invalid_asset"
    ELSE IF option.adapter # "archive" \/ option.network # "ours" THEN "invalid_configuration"
    ELSE "none"

ArchiveRequest(event) ==
    CASE event \in {"unreachable", "redirect"} -> "request_failed"
      [] event \in {"timeout", "slow_body"} -> "request_aborted"
      [] event = "http_error" -> "non_200_response"
      [] event = "oversized" -> "response_too_large"
      [] event = "not_json" -> "malformed_payload"

\* exactComponents and their sum
ArtifactTotal(artifact) == MapThenSumSet(LAMBDA c: artifact.parts[c], DOMAIN artifact.parts)

CheckpointMatches(artifact, manifest) ==
    /\ artifact.start <= artifact.end /\ artifact.end = artifact.ledger
    /\ artifact.trustedHash = artifact.hash
    /\ artifact.ledger = manifest.ledger /\ artifact.hash = manifest.hash

\* the verdict on the artifact served to a request that completed at `now'
ArchiveVerdict(artifact, manifest, now) ==
    IF artifact # manifest.artifact THEN "artifact_integrity_mismatch"
    ELSE IF ~ artifact.wellFormed THEN "malformed_payload"
    ELSE IF artifact.network # "ours" THEN "network_mismatch"
    ELSE IF artifact.asset # "asked" THEN "invalid_asset"
    ELSE IF ~ CheckpointMatches(artifact, manifest) THEN "checkpoint_mismatch"
    ELSE IF ~ artifact.generated \in artifact.closedAt..now THEN "malformed_payload"
    ELSE IF ArtifactTotal(artifact) # artifact.total THEN "total_mismatch"
    ELSE "none"
=============================================================================

--------------------------- MODULE MCSourceHealth ---------------------------
(***************************************************************************)
(* SourceHealth with two jobs that share a Horizon source: the supply job  *)
(* of an asset also reads an archive.                                      *)
(***************************************************************************)
EXTENDS SourceHealth

CONSTANTS ledgerJob, supplyJob, horizon, archive

TwoJobs == {ledgerJob, supplyJob}
TwoSources == {horizon, archive}
SharedSources == [j \in TwoJobs |-> IF j = ledgerJob THEN <<horizon>> ELSE <<horizon, archive>>]
TheMetrics == [j \in TwoJobs |-> IF j = ledgerJob THEN "latest_ledger" ELSE "circulating_supply"]
TheErrors == [s \in TwoSources |-> IF s = archive THEN {} ELSE
             {[code |-> "non_200_response", status |-> 429, retryAfter |-> 2],
              [code |-> "network_mismatch", status |-> 0, retryAfter |-> 0]}]
=============================================================================

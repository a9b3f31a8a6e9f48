--------------------------- MODULE MCRefreshCycle ---------------------------
(***************************************************************************)
(* RefreshCycle with three Horizon sources, two of them of one upstream,   *)
(* an archive, three order books and an anchor.                            *)
(***************************************************************************)
EXTENDS RefreshCycle

EightSources == 1..8
TheAdapters == <<"horizon", "horizon", "horizon", "archive", "sdex", "sdex", "sdex", "anchor">>
TheClasses == <<"canonical_ledger", "canonical_ledger", "canonical_ledger", "archive",
                "dex", "dex", "dex", "anchor_self_reported">>
TheUpstreams == <<"u", "u", "v", "w", "x", "x", "x", "y">>
TheSubjects == {{"latest_ledger"}, {"circulating_supply", "anchor_reserves"},
                {"order_book_depth"}, {"trustline_count"}}
DepthSubject == {{"order_book_depth"}}
TheRoutes == [m \in Metrics |->
    CASE m = "latest_ledger" -> 1..3 [] m = "circulating_supply" -> {1, 2, 4}
      [] m = "order_book_depth" -> 5..7 [] m = "trustline_count" -> {1, 3}
      [] m = "anchor_reserves" -> {8}]

Value(amount, ledger, detail) == [amount |-> amount, ledger |-> ledger, detail |-> detail]
Given(values, ages, old) == [value: values, age: ages] \cup {[value |-> CHOOSE v \in values: TRUE, age |-> old]}

(* Within the tolerance, beyond it and beyond the maximal spread; the same *)
(* amount at two ledgers and with two details; ages up to the last one     *)
(* accepted, past it, and past what leaves any weight.                     *)
TheAnswers == [m \in Metrics |->
    CASE m = "latest_ledger" ->
           Given({Value(10, 0, 0), Value(11, 0, 0), Value(13, 0, 0)}, {0, 1}, 6)
      [] m = "circulating_supply" ->
           Given({Value(100, 1, 0), Value(100, 1, 1), Value(100, 2, 0), Value(101, 1, 0)}, {0, 4}, 5)
      [] m = "order_book_depth" ->
           Given({Value(1000, 1, 0), Value(1004, 1, 0), Value(1000, 1, 1), Value(1010, 2, 0)},
                 {0, 4}, 5)
      [] m = "trustline_count" ->
           Given({Value(10, 1, 0), Value(10, 1, 1), Value(10, 2, 0), Value(11, 1, 0)}, {0, 3}, 4)
      [] m = "anchor_reserves" ->
           Given({Value(100, 1, 0), Value(100, 2, 0), Value(102, 1, 0)}, {-1, 0}, 2)]
TheErrors == {"request_failed", "network_mismatch"}
=============================================================================

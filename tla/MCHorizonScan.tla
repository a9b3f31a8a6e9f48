--------------------------- MODULE MCHorizonScan ---------------------------
(***************************************************************************)
(* HorizonScan over four ledgers, between which an offer changes, one goes *)
(* and one comes.  Ledger 3 has no bids, the book of ledger 4 is crossed;  *)
(* the asset does not exist in ledger 1.  Pages hold one record, so that   *)
(* every scan crosses pages.                                               *)
(***************************************************************************)
EXTENDS HorizonScan

TheLedgers == {1, 2, 3, 4}
TheTimes == {3, 5, 9, 14}
TheClosings == <<4, 6, 8, 9>>

Price(numerator, denominator) == [n |-> numerator, d |-> denominator]
Offer(id, price, amount, ledger) ==
    [token |-> id, price |-> price, amount |-> amount, modified |-> ledger]

TheBook ==
    <<[ask |-> <<Offer(1, Price(3, 2), 7, 1), Offer(2, Price(5, 3), 4, 1)>>,
       bid |-> <<Offer(3, Price(5, 7), 9, 1)>>],
      [ask |-> <<Offer(1, Price(3, 2), 5, 2)>>,
       bid |-> <<Offer(3, Price(5, 7), 9, 1), Offer(4, Price(5, 6), 8, 2)>>],
      [ask |-> <<Offer(1, Price(3, 2), 5, 2)>>, bid |-> << >>],
      [ask |-> <<Offer(1, Price(3, 2), 5, 2)>>, bid |-> <<Offer(5, Price(2, 3), 6, 4)>>]>>

Record(parts, accounts) == <<[token |-> 1, parts |-> parts, accounts |-> accounts]>>

TheAsset ==
    << << >>,
       Record([authorized |-> 3, pools |-> 1], [authorized |-> 2, unauthorized |-> 0]),
       Record([authorized |-> 2, pools |-> 3], [authorized |-> 2, unauthorized |-> 1]),
       Record([authorized |-> 2, pools |-> 3], [authorized |-> 3, unauthorized |-> 1]) >>

TheOptions ==
    {[asset |-> "credit", adapter |-> a, network |-> "ours"]:
        a \in {"horizon", "sdex", "archive"}}
    \cup {[asset |-> "credit", adapter |-> "horizon", network |-> "other"],
          [asset |-> "native", adapter |-> "horizon", network |-> "ours"],
          [asset |-> "same pair", adapter |-> "sdex", network |-> "ours"]}

Artifact ==
    [wellFormed |-> TRUE, network |-> "ours", asset |-> "asked", ledger |-> 2, hash |-> "h2",
     start |-> 1, end |-> 2, trustedHash |-> "h2", closedAt |-> 6, generated |-> 7,
     parts |-> [authorized |-> 3, pools |-> 1], total |-> 4]

TheArtifacts ==
    {Artifact,
     [Artifact EXCEPT !.wellFormed = FALSE],
     [Artifact EXCEPT !.network = "other"],
     [Artifact EXCEPT !.asset = "other"],
     [Artifact EXCEPT !.start = 3],
     [Artifact EXCEPT !.hash = "h1", !.trustedHash = "h1"],
     [Artifact EXCEPT !.generated = 5],
     [Artifact EXCEPT !.total = 5]}

TheManifests == {[artifact |-> a, ledger |-> 2, hash |-> "h2"]: a \in TheArtifacts}
=============================================================================

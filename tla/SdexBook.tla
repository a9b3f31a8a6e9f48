------------------------------ MODULE SdexBook ------------------------------
(***************************************************************************)
(* The exact arithmetic of an order book: lib/stellar/price.ts and the     *)
(* levels and buckets of lib/stellar/horizon-depth.ts.  An offer is        *)
(* [token, price, amount, modified]: `price' is price_r, the counter asset *)
(* per base asset when it asks and the inverse when it bids, `amount' what *)
(* it sells.  A price stays unreduced: it is only compared and multiplied. *)
(***************************************************************************)
EXTENDS Integers, FiniteSets, Sequences, SequencesExt

CONSTANT Bands      \* priceBandsBasisPoints

ASSUME BandAssumption == Bands \subseteq 1..9999

Invert(price) == [n |-> price.d, d |-> price.n]

\* StellarPrice.compare
Below(p, q) == p.n * q.d < q.n * p.d

Midpoint(p, q) == [n |-> p.n * q.d + q.n * p.d, d |-> 2 * p.d * q.d]

WithinBidBand(price, midpoint, band) ==
    price.n * midpoint.d * 10000 >= midpoint.n * price.d * (10000 - band)

WithinAskBand(price, midpoint, band) ==
    price.n * midpoint.d * 10000 <= midpoint.n * price.d * (10000 + band)

\* Mutant of MultiplyAmountFloor: the base amount of a bid is rounded up.
MutMultiplyAmountFloor(price, amount) == (amount * price.n + price.d - 1) \div price.d

MultiplyAmountFloor(price, amount) == (amount * price.n) \div price.d

PriceOf(side, offer) == IF side = "ask" THEN offer.price ELSE Invert(offer.price)

\* parseLevel: what an offer of one side is worth in base units, at counter per base
Level(side, offer) ==
    [token |-> offer.token, modified |-> offer.modified, price |-> PriceOf(side, offer),
     base |-> IF side = "ask" THEN offer.amount
              ELSE MultiplyAmountFloor(offer.price, offer.amount),
     counter |-> IF side = "ask" THEN MultiplyAmountFloor(offer.price, offer.amount)
                 ELSE offer.amount]

Better(side, p, q) == IF side = "ask" THEN Below(p, q) ELSE Below(q, p)

\* the better price comes first, of equal ones the earlier offer
Before(side, offers, i, j) ==
    LET p == PriceOf(side, offers[i])
        q == PriceOf(side, offers[j])
    IN  Better(side, p, q) \/ (~ Better(side, q, p) /\ i < j)

Place(side, offers, j) == 1 + Cardinality({i \in DOMAIN offers: Before(side, offers, i, j)})

\* bids by falling, asks by rising price; the sort is stable
SortedLevels(side, offers) ==
    [k \in DOMAIN offers |->
        Level(side, offers[CHOOSE j \in DOMAIN offers: Place(side, offers, j) = k])]

Crossed(bids, asks) ==
    bids # << >> /\ asks # << >> /\ ~ Below(Head(bids).price, Head(asks).price)

BookStatus(bids, asks) ==
    IF bids = << >> /\ asks = << >> THEN "empty"
    ELSE IF bids = << >> \/ asks = << >> THEN "one_sided" ELSE "complete"

\* the base amounts of the levels `included' numbers, in their order
SumOfBases(levels, included) ==
    LET sum[n \in 0..Len(levels)] ==
            IF n = 0 THEN 0 ELSE sum[n - 1] + IF n \in included THEN levels[n].base ELSE 0
    IN  sum[Len(levels)]

Within(side, price, midpoint, band) ==
    IF side = "ask" THEN WithinAskBand(price, midpoint, band)
                    ELSE WithinBidBand(price, midpoint, band)

Bucket(side, levels, midpoint, band) ==
    LET included == {i \in DOMAIN levels: Within(side, levels[i].price, midpoint, band)}
    IN  [side |-> side, band |-> band, amount |-> SumOfBases(levels, included),
         offers |-> Cardinality(included)]

\* aggregateBuckets: nothing without a midpoint
Buckets(bids, asks) ==
    LET midpoint == Midpoint(Head(bids).price, Head(asks).price)
    IN  IF BookStatus(bids, asks) # "complete" THEN {}
        ELSE {Bucket("bid", bids, midpoint, b): b \in Bands}
             \cup {Bucket("ask", asks, midpoint, b): b \in Bands}
=============================================================================

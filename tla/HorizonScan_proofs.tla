------------------------- MODULE HorizonScan_proofs -------------------------
(***************************************************************************)
(* Proofs about HorizonScan, for any ledgers, books, page and record       *)
(* budgets, for any answers the service may give in any order, and for any *)
(* number of scans, aborted, failed or resumed.                            *)
(***************************************************************************)
EXTENDS HorizonScan, SequenceTheorems, FiniteSetTheorems, TLAPS

-----------------------------------------------------------------------------
(* What a scan has read.                                                   *)

IsScan(s) == DOMAIN s = DOMAIN NoScan

\* A supply scan that has asked for the issuer, and for nothing else.
Unread(s) ==
    /\ s.next = 0 /\ s.fence = 0 /\ s.pages = 0 /\ s.records = 0 /\ s.last = 0
    /\ s.seen = << >> /\ s.tokens = << >> /\ s.kept = << >>
    /\ s.log = <<Request("root", 0, 0), Request("issuer", 0, s.issuerAt)>>

\* It holds what there is of the asset at its ledger.
Whole(s) ==
    LET rows == Asset[s.fence]
    IN  /\ s.fence \in Ledgers /\ s.kept = rows /\ s.records = Len(rows)
        /\ s.tokens = [i \in DOMAIN rows |-> rows[i].token]

\* It is at its end, or asks whether there is a page after the only record.
OnePage(s) ==
    /\ Whole(s)
    /\ s.next = End \/ (s.kept # << >> /\ s.next = s.kept[1].token)
    /\ s.pages = 1 /\ s.last = 0 /\ s.seen = <<0>>
    /\ s.log = <<Request("root", 0, 0), Request("issuer", 0, s.issuerAt),
                 Request("page", 0, s.fence)>>

\* That page was empty.
TwoPages(s) ==
    /\ Whole(s) /\ s.kept # << >>
    /\ s.next = End /\ s.pages = 2 /\ s.last = s.kept[1].token /\ s.seen = <<0, s.last>>
    /\ s.log = <<Request("root", 0, 0), Request("issuer", 0, s.issuerAt),
                 Request("page", 0, s.fence), Request("page", s.last, s.fence)>>

Checkpoint(s) ==
    /\ IsScan(s) /\ s.side = "asset" /\ s.issuerAt \in Ledgers /\ s.askPages = 0
    /\ Unread(s) \/ OnePage(s) \/ TwoPages(s)

\* The first n offers of a side are read, and the cursor is the last one's.
CursorAt(offers, n) == IF n = 0 THEN 0 ELSE offers[n].token

PrefixRead(offers, kept, next) ==
    \E n \in 0..Len(offers): kept = SubSeq(offers, 1, n) /\ next = CursorAt(offers, n)

\* Before the first page an order book has no ledger; after it, what was read is of one.
BookStarted(s) ==
    /\ IsScan(s) /\ s.side \in {"ask", "bid"} /\ s.seen \in Seq(Int)
    /\ s.side = "ask" => s.askPages = 0
    /\ s.fence = 0 => s.side = "ask" /\ s.kept = << >> /\ s.next = 0
    /\ s.fence # 0 => s.fence \in Ledgers /\ PrefixRead(Book[s.fence][s.side], s.kept, s.next)
    /\ s.side = "bid" => s.fence # 0 /\ s.asks = Book[s.fence].ask

BookRead(s) ==
    s.fence \in Ledgers /\ s.kept = Book[s.fence].bid /\ s.asks = Book[s.fence].ask

\* The page asked for is one the budget has room for.
Affordable(s) == s.pages \in Nat /\ s.askPages \in Nat /\ s.askPages + s.pages < MaxPages

\* What a page request, and the last one, may rely on.
Paging(m, s) ==
    \/ m = "circulating_supply" /\ Checkpoint(s) /\ s.next # End
    \/ m = "trustline_count" /\ IsScan(s) /\ s.side = "asset" /\ s.next = 0
    \/ m = "order_book_depth" /\ BookStarted(s)

Closing(m, s) ==
    \/ m = "circulating_supply" /\ Checkpoint(s) /\ s.next = End /\ s.kept # << >>
    \/ m = "trustline_count" /\ s.fence \in Ledgers /\ s.kept = Asset[s.fence] /\ s.kept # << >>
    \/ m = "order_book_depth" /\ BookRead(s)

Ready(m, request, s) ==
    /\ request = "root" =>
          m \in Scanned /\ s = FreshScan(IF m = "order_book_depth" THEN "ask" ELSE "asset")
    /\ request = "issuer" =>
          /\ m \in {"circulating_supply", "trustline_count"}
          /\ \E forward: s = Timed(Logged(FreshScan("asset"), Request("root", 0, 0)), forward)
    /\ request = "page" => Paging(m, s) /\ Affordable(s)
    /\ request = "ledger" => Closing(m, s)

HeadsReady == step = "heads" => metric = "latest_ledger" /\ DOMAIN roots = Endpoints

\* No checkpoint is kept or returned that is not one of a scan.
Sound(s) == s # NoScan => Checkpoint(s)

Returned(r) ==
    /\ r.kind = "error" => Sound(r.checkpoint)
    /\ r.kind = "observation" => Exact(r) /\ (r.metric = "order_book_depth" => Executable(r))

ScanInv ==
    /\ metric \in Measured /\ restarts \in 0..MaxRestarts
    /\ Ready(metric, step, scan) /\ HeadsReady
    /\ Sound(held) /\ Returned(result)

-----------------------------------------------------------------------------
(* Arithmetic.                                                             *)

LEMMA Products ==
    \A a, b \in Nat, k \in Positive:
        /\ a * k \in Nat /\ (a \in Positive => a * k \in Positive)
        /\ a <= b <=> a * k <= b * k
        /\ a < b <=> a * k < b * k
BY DEF Positive

\* The order of fractions is that of their cross products, which is transitive.
LEMMA CrossTransitive ==
    ASSUME NEW a \in Positive, NEW b \in Positive, NEW c \in Positive,
           NEW d \in Positive, NEW e \in Positive, NEW f \in Positive,
           a * d <= c * b, c * f <= e * d
    PROVE  /\ a * f <= e * b
           /\ a * d < c * b \/ c * f < e * d => a * f < e * b
<1>1. PICK x, y, u, v, s, t : /\ x = a * d /\ y = c * b /\ u = c * f /\ v = e * d
                              /\ s = a * f /\ t = e * b
  OBVIOUS
<1>2. /\ x \in Nat /\ y \in Nat /\ u \in Nat /\ v \in Nat /\ s \in Nat /\ t \in Nat
      /\ b \in Nat /\ d \in Nat /\ f \in Nat
  BY <1>1, Products DEF Positive
<1>3. x * f <= y * f /\ (x < y => x * f < y * f)
  BY <1>1, <1>2, Products
<1>4. u * b <= v * b /\ (u < v => u * b < v * b)
  BY <1>1, <1>2, Products
<1>5. y * f = u * b
  BY <1>1 DEF Positive
<1>6. x * f = s * d /\ v * b = t * d
  BY <1>1 DEF Positive
<1>7. x * f \in Nat /\ y * f \in Nat /\ v * b \in Nat
  BY <1>2
<1>8. s * d <= t * d /\ (x < y \/ u < v => s * d < t * d)
  BY <1>3, <1>4, <1>5, <1>6, <1>7
<1>9. s <= t /\ (x < y \/ u < v => s < t)
  BY <1>2, <1>8, Products
<1> QED  BY <1>1, <1>9

LEMMA FloorCost ==
    ASSUME NEW amount \in Nat, NEW n \in Positive, NEW d \in Positive
    PROVE  /\ (amount * n) \div d \in Nat
           /\ ((amount * n) \div d) * d <= amount * n
<1>1. PICK x : x = amount * n
  OBVIOUS
<1>2. x \in Nat
  BY <1>1 DEF Positive
<1>3. x \div d \in Nat /\ (x \div d) * d <= x
  BY <1>2 DEF Positive
<1> QED  BY <1>1, <1>3

-----------------------------------------------------------------------------
(* The order of the levels.                                                *)

LEMMA PricePositive ==
    ASSUME NEW side, NEW o \in OfferRecord
    PROVE  PriceOf(side, o).n \in Positive /\ PriceOf(side, o).d \in Positive
BY DEF PriceOf, Invert, OfferRecord

LEMMA BetterAsymmetric ==
    ASSUME NEW side, NEW p, NEW q,
           p.n \in Positive, p.d \in Positive, q.n \in Positive, q.d \in Positive
    PROVE  ~ (Better(side, p, q) /\ Better(side, q, p))
<1>1. p.n * q.d \in Nat /\ q.n * p.d \in Nat
  BY Products DEF Positive
<1> QED  BY <1>1 DEF Better, Below

\* What is not worse than something not worse is not worse, and better where
\* one of the two is better.
LEMMA BetterTransitive ==
    ASSUME NEW side, NEW p, NEW q, NEW r,
           p.n \in Positive, p.d \in Positive, q.n \in Positive, q.d \in Positive,
           r.n \in Positive, r.d \in Positive,
           ~ Better(side, q, p), ~ Better(side, r, q)
    PROVE  /\ ~ Better(side, r, p)
           /\ Better(side, p, q) \/ Better(side, q, r) => Better(side, p, r)
<1>1. /\ p.n * q.d \in Nat /\ q.n * p.d \in Nat /\ q.n * r.d \in Nat
      /\ r.n * q.d \in Nat /\ p.n * r.d \in Nat /\ r.n * p.d \in Nat
  BY Products DEF Positive
<1>2. CASE side = "ask"
  <2>1. p.n * q.d <= q.n * p.d /\ q.n * r.d <= r.n * q.d
    BY <1>1, <1>2 DEF Better, Below
  <2>2. /\ p.n * r.d <= r.n * p.d
        /\ p.n * q.d < q.n * p.d \/ q.n * r.d < r.n * q.d => p.n * r.d < r.n * p.d
    BY <2>1, CrossTransitive
  <2> QED  BY <1>1, <1>2, <2>2 DEF Better, Below
<1>3. CASE side # "ask"
  <2>1. r.n * q.d <= q.n * r.d /\ q.n * p.d <= p.n * q.d
    BY <1>1, <1>3 DEF Better, Below
  <2>2. /\ r.n * p.d <= p.n * r.d
        /\ r.n * q.d < q.n * r.d \/ q.n * p.d < p.n * q.d => r.n * p.d < p.n * r.d
    BY <2>1, CrossTransitive
  <2> QED  BY <1>1, <1>3, <2>2 DEF Better, Below
<1> QED  BY <1>2, <1>3

\* The offers of a side are in a strict total order.
LEMMA BeforeOrders ==
    ASSUME NEW side, NEW offers \in Seq(OfferRecord)
    PROVE  /\ \A i \in DOMAIN offers: ~ Before(side, offers, i, i)
           /\ \A i, j \in DOMAIN offers: i # j =>
                  Before(side, offers, i, j) \/ Before(side, offers, j, i)
           /\ \A i, j, k \in DOMAIN offers:
                  Before(side, offers, i, j) /\ Before(side, offers, j, k) =>
                      Before(side, offers, i, k)
<1> DEFINE Price(i) == PriceOf(side, offers[i])
<1>1. \A i \in DOMAIN offers: /\ i \in Nat
                              /\ Price(i).n \in Positive /\ Price(i).d \in Positive
  BY PricePositive
<1>2. \A i, j \in DOMAIN offers:
         ~ (Better(side, Price(i), Price(j)) /\ Better(side, Price(j), Price(i)))
  BY <1>1, BetterAsymmetric
<1>3. \A i, j \in DOMAIN offers:
         Before(side, offers, i, j) <=>
             \/ Better(side, Price(i), Price(j))
             \/ ~ Better(side, Price(j), Price(i)) /\ i < j
  BY DEF Before
<1> HIDE DEF Price
<1>4. ASSUME NEW i \in DOMAIN offers, NEW j \in DOMAIN offers, NEW k \in DOMAIN offers,
             Before(side, offers, i, j), Before(side, offers, j, k)
      PROVE  Before(side, offers, i, k)
  <2> DEFINE better(x, y) == Better(side, Price(x), Price(y))
  <2>1. ~ better(j, i) /\ ~ better(k, j)
    BY <1>2, <1>3, <1>4
  <2>2. /\ ~ better(k, i)
        /\ better(i, j) \/ better(j, k) => better(i, k)
    BY <1>1, <2>1, BetterTransitive
  <2>3. /\ better(i, j) \/ i < j
        /\ better(j, k) \/ j < k
    BY <1>3, <1>4
  <2>4. better(i, k) \/ (~ better(k, i) /\ i < k)
    <3> HIDE DEF better
    <3> QED  BY <1>1, <2>2, <2>3
  <2> QED  BY <1>3, <2>4
<1>5. \A i, j \in DOMAIN offers: i # j => i < j \/ j < i
  BY <1>1
<1> QED  BY <1>1, <1>2, <1>3, <1>4, <1>5

\* Each place is that of one offer: sorting loses nothing and repeats nothing.
LEMMA PlacesPermute ==
    ASSUME NEW side, NEW offers \in Seq(OfferRecord)
    PROVE  /\ \A j \in DOMAIN offers: Place(side, offers, j) \in DOMAIN offers
           /\ \A i, j \in DOMAIN offers: Place(side, offers, i) = Place(side, offers, j) => i = j
           /\ \A k \in DOMAIN offers: \E j \in DOMAIN offers: Place(side, offers, j) = k
<1> DEFINE D == DOMAIN offers
           S(j) == {i \in D: Before(side, offers, i, j)}
           place == [j \in D |-> Place(side, offers, j)]
<1>1. PICK n \in Nat : D = 1..n
  BY LenProperties
<1>2. IsFiniteSet(D) /\ Cardinality(D) = n
  BY <1>1, FS_Interval
<1>3. \A j \in D: IsFiniteSet(S(j)) /\ IsFiniteSet(D \ {j})
  BY <1>2, FS_Subset
<1>4. \A j \in D: Cardinality(S(j)) \in Nat
  BY <1>3, FS_CardinalityType
<1>5. ASSUME NEW i \in D, NEW j \in D, Before(side, offers, i, j)
      PROVE  Cardinality(S(i)) < Cardinality(S(j))
  <2>1. S(i) \subseteq S(j) /\ i \in S(j) /\ i \notin S(i)
    BY <1>5, BeforeOrders
  <2>2. S(i) # S(j)
    BY <2>1
  <2>3. Cardinality(S(i)) <= Cardinality(S(j)) /\ Cardinality(S(i)) # Cardinality(S(j))
    <3> HIDE DEF S
    <3> QED  BY <1>3, <2>1, <2>2, FS_Subset
  <2> QED  BY <1>4, <2>3
<1>6. ASSUME NEW j \in D PROVE Cardinality(S(j)) < n
  <2>1. S(j) \subseteq D \ {j} /\ D \ {j} \subseteq D /\ D \ {j} # D
    BY BeforeOrders
  <2>2. Cardinality(S(j)) <= Cardinality(D \ {j})
    <3> HIDE DEF S
    <3> QED  BY <1>3, <2>1, FS_Subset
  <2>3. Cardinality(D \ {j}) <= Cardinality(D) /\ Cardinality(D \ {j}) # Cardinality(D)
    BY <1>2, <2>1, FS_Subset
  <2>4. Cardinality(D \ {j}) \in Nat
    BY <1>3, FS_CardinalityType
  <2> HIDE DEF S, D
  <2> QED  BY <1>2, <1>4, <2>2, <2>3, <2>4
<1>7. \A i, j \in D: i # j => Cardinality(S(i)) # Cardinality(S(j))
  <2> SUFFICES ASSUME NEW i \in D, NEW j \in D, i # j
               PROVE  Cardinality(S(i)) # Cardinality(S(j))
    OBVIOUS
  <2>1. Before(side, offers, i, j) \/ Before(side, offers, j, i)
    BY BeforeOrders
  <2> HIDE DEF S, D
  <2> QED  BY <1>4, <1>5, <2>1
<1>8. \A j \in D: Place(side, offers, j) = 1 + Cardinality(S(j))
  BY DEF Place
<1> HIDE DEF S
<1>9. \A j \in D: place[j] \in D
  BY <1>1, <1>4, <1>6, <1>8
<1>10. \A i, j \in D: place[i] = place[j] => i = j
  BY <1>4, <1>7, <1>8
<1> HIDE DEF D
<1>11. place \in Injection(D, D)
  <2>1. place \in [D -> D]
    BY <1>9
  <2>2. \A i, j \in D: place[i] = place[j] => i = j
    BY <1>10
  <2> HIDE DEF place
  <2> QED  BY <2>1, <2>2 DEF Injection, IsInjective
<1> HIDE DEF place
<1>12. place \in Surjection(D, D)
  BY <1>2, <1>11, FS_Injection
<1>13. \A k \in D: \E j \in D: place[j] = k
  BY <1>12 DEF Surjection
<1> QED  BY <1>9, <1>10, <1>13 DEF D, place

\* The sorted levels are those of the offers.
LEMMA SortedLevelsOf ==
    ASSUME NEW side, NEW offers \in Seq(OfferRecord)
    PROVE  LET levels == SortedLevels(side, offers)
           IN  /\ levels \in Seq(Range(levels)) /\ DOMAIN levels = DOMAIN offers
               /\ Len(levels) = Len(offers)
               /\ Range(levels) = {Level(side, o): o \in Range(offers)}
<1> DEFINE D == DOMAIN offers
           at(k) == CHOOSE j \in D: Place(side, offers, j) = k
           levels == SortedLevels(side, offers)
<1>1. levels = [k \in D |-> Level(side, offers[at(k)])]
  BY DEF SortedLevels
<1>2. \A k \in D: at(k) \in D /\ Place(side, offers, at(k)) = k
  BY PlacesPermute
<1>3. PICK n \in Nat : D = 1..n /\ Len(offers) = n
  BY LenProperties
<1>4. \A j \in D: \E k \in D: at(k) = j
  BY <1>2, PlacesPermute
<1> HIDE DEF at, D, levels
<1>6. DOMAIN levels = D
  BY <1>1
<1>7. levels \in Seq(Range(levels)) /\ Len(levels) = n
  <2>1. levels \in [1..n -> Range(levels)]
    BY <1>1, <1>3 DEF Range
  <2> QED  BY <2>1, SeqDef, LenProperties
<1>8. Range(levels) = {levels[k]: k \in D} /\ Range(offers) = {offers[j]: j \in D}
  BY <1>6 DEF Range, D
<1>9. Range(levels) = {Level(side, o): o \in Range(offers)}
  <2>1. ASSUME NEW k \in D PROVE \E o \in Range(offers): levels[k] = Level(side, o)
    BY <1>1, <1>2, <1>8
  <2>2. ASSUME NEW j \in D PROVE \E k \in D: levels[k] = Level(side, offers[j])
    BY <1>1, <1>4
  <2>3. ASSUME NEW l \in Range(levels) PROVE l \in {Level(side, o): o \in Range(offers)}
    <3>1. PICK k \in D: l = levels[k]
      BY <1>8
    <3>2. PICK o \in Range(offers): l = Level(side, o)
      BY <2>1, <3>1
    <3> QED  BY <3>2
  <2>4. ASSUME NEW o \in Range(offers) PROVE Level(side, o) \in Range(levels)
    <3>1. PICK j \in D: o = offers[j]
      BY <1>8
    <3>2. PICK k \in D: levels[k] = Level(side, o)
      BY <2>2, <3>1
    <3> QED  BY <1>8, <3>2
  <2> QED  BY <2>3, <2>4
<1> QED  BY <1>3, <1>6, <1>7, <1>9 DEF levels, D

-----------------------------------------------------------------------------
(* Sums of base amounts.                                                   *)

LEMMA LeastNatural ==
    ASSUME NEW T \in SUBSET Nat, T # {}
    PROVE  \E n \in T: \A m \in T: n <= m
<1> DEFINE R == {ss \in Nat \X Nat: ss[1] < ss[2]}
<1>1. R = OpToRel(<, Nat)
  BY Zenon DEF OpToRel
<1>2. IsWellFoundedOn(R, Nat)
  BY <1>1, NatLessThanWellFounded
<1>3. \E n \in T: \A m \in T: ~ (<<m, n>> \in R)
  BY <1>2, WFMin
<1>4. \A n, m \in T: m < n => <<m, n>> \in R
  OBVIOUS
<1> HIDE DEF R
<1>5. PICK n \in T: \A m \in T: ~ (m < n)
  BY <1>3, <1>4
<1> QED  BY <1>5

\* sum adds up, from the first level to the n-th, the bases that are included.
Summed(levels, included, n, sum) ==
    sum = [k \in 0..n |->
              IF k = 0 THEN 0
              ELSE sum[k - 1] + (IF k \in included THEN levels[k].base ELSE 0)]

LEMMA SummedExists ==
    ASSUME NEW levels, NEW included, NEW n \in Nat
    PROVE  \E sum: Summed(levels, included, n, sum)
<1> DEFINE bad == {m \in Nat: ~ \E sum: Summed(levels, included, m, sum)}
<1> SUFFICES ASSUME bad # {} PROVE FALSE
  OBVIOUS
<1>1. PICK m \in bad: \A k \in bad: m <= k
  <2>1. bad \in SUBSET Nat
    OBVIOUS
  <2> HIDE DEF bad
  <2> QED  BY <2>1, LeastNatural
<1>2. m \in Nat /\ ~ \E sum: Summed(levels, included, m, sum)
  BY <1>1
<1>3. CASE m = 0
  <2>1. Summed(levels, included, 0, [k \in 0..0 |-> 0])
    BY DEF Summed
  <2> QED  BY <1>2, <1>3, <2>1
<1>4. CASE m # 0
  <2>1. m - 1 \in Nat /\ m - 1 \notin bad
    <3>1. m - 1 \in Nat /\ ~ (m <= m - 1)
      BY <1>2, <1>4
    <3> HIDE DEF bad
    <3> QED  BY <1>1, <3>1
  <2>2. PICK g: Summed(levels, included, m - 1, g)
    BY <2>1
  <2> DEFINE add(k) == IF k \in included THEN levels[k].base ELSE 0
             f == [k \in 0..m |-> IF k = m THEN g[m - 1] + add(m) ELSE g[k]]
  <2>3. \A k \in 0..(m - 1): g[k] = IF k = 0 THEN 0 ELSE g[k - 1] + add(k)
    BY <2>2 DEF Summed
  <2>4. \A k \in 0..m: f[k] = IF k = 0 THEN 0 ELSE f[k - 1] + add(k)
    <3> HIDE DEF add
    <3> QED  BY <1>2, <1>4, <2>1, <2>3
  <2>5. f = [k \in 0..m |-> f[k]]
    OBVIOUS
  <2> HIDE DEF f
  <2>6. Summed(levels, included, m, f)
    BY <2>4, <2>5 DEF Summed
  <2> QED  BY <1>2, <2>6
<1> QED  BY <1>3, <1>4

\* Leaving nothing out that the other sum has, a sum is at least as large.
LEMMA SumsMonotone ==
    ASSUME NEW levels, Len(levels) \in Nat, \A k \in 1..Len(levels): levels[k].base \in Nat,
           NEW A, NEW B, A \subseteq B
    PROVE  SumOfBases(levels, A) <= SumOfBases(levels, B)
<1> DEFINE N == Len(levels)
           a == CHOOSE sum: Summed(levels, A, N, sum)
           b == CHOOSE sum: Summed(levels, B, N, sum)
<1>1. Summed(levels, A, N, a) /\ Summed(levels, B, N, b)
  BY SummedExists
<1>2. SumOfBases(levels, A) = a[N] /\ SumOfBases(levels, B) = b[N]
  BY DEF SumOfBases, Summed
<1> HIDE DEF a, b
<1> DEFINE add(S, k) == IF k \in S THEN levels[k].base ELSE 0
<1>3. \A k \in 0..N: /\ a[k] = IF k = 0 THEN 0 ELSE a[k - 1] + add(A, k)
                     /\ b[k] = IF k = 0 THEN 0 ELSE b[k - 1] + add(B, k)
  BY <1>1 DEF Summed
<1>4. \A k \in 1..N: add(A, k) \in Nat /\ add(B, k) \in Nat /\ add(A, k) <= add(B, k)
  OBVIOUS
<1> HIDE DEF add
<1> DEFINE bad == {k \in 0..N: ~ (a[k] \in Nat /\ b[k] \in Nat /\ a[k] <= b[k])}
<1>5. bad = {}
  <2> SUFFICES ASSUME bad # {} PROVE FALSE
    OBVIOUS
  <2>1. PICK k \in bad: \A m \in bad: k <= m
    <3>1. bad \in SUBSET Nat
      OBVIOUS
    <3> HIDE DEF bad
    <3> QED  BY <3>1, LeastNatural
  <2>2. k \in 0..N /\ k # 0
    BY <1>3, <2>1
  <2>3. k - 1 \in 0..N /\ k - 1 \notin bad
    <3>1. k - 1 \in 0..N /\ ~ (k <= k - 1)
      BY <2>2
    <3> HIDE DEF bad
    <3> QED  BY <2>1, <3>1
  <2>4. a[k - 1] \in Nat /\ b[k - 1] \in Nat /\ a[k - 1] <= b[k - 1]
    BY <2>3
  <2>5. a[k] \in Nat /\ b[k] \in Nat /\ a[k] <= b[k]
    <3>1. k \in 1..N
      BY <2>2
    <3>2. /\ a[k] = a[k - 1] + add(A, k) /\ b[k] = b[k - 1] + add(B, k)
      BY <1>3, <2>2
    <3>3. add(A, k) \in Nat /\ add(B, k) \in Nat /\ add(A, k) <= add(B, k)
      BY <1>4, <3>1
    <3> QED  BY <2>4, <3>2, <3>3
  <2> QED  BY <2>1, <2>5
<1> QED  BY <1>2, <1>5

-----------------------------------------------------------------------------
(* Buckets.                                                                *)

\* A level of a bid costs no more than it offers.
LEMMA LevelSound ==
    ASSUME NEW side, NEW o \in OfferRecord
    PROVE  /\ Level(side, o).base \in Nat
           /\ Level(side, o).price.n \in Positive /\ Level(side, o).price.d \in Positive
           /\ side # "ask" => Level(side, o).base * Level(side, o).price.n
                                  <= Level(side, o).counter * Level(side, o).price.d
<1>1. o.amount \in Nat /\ o.price.n \in Positive /\ o.price.d \in Positive
  BY DEF OfferRecord, Positive
<1>2. Level(side, o).price.n \in Positive /\ Level(side, o).price.d \in Positive
  BY PricePositive DEF Level
<1>3. PICK b : b = (o.amount * o.price.n) \div o.price.d
  OBVIOUS
<1>4. b \in Nat /\ b * o.price.d <= o.amount * o.price.n
  BY <1>1, <1>3, FloorCost
<1>5. CASE side = "ask"
  BY <1>1, <1>2, <1>5 DEF Level
<1>6. CASE side # "ask"
  BY <1>2, <1>3, <1>4, <1>6 DEF Level, MultiplyAmountFloor, PriceOf, Invert
<1> QED  BY <1>5, <1>6

Narrower(b, c) == b \in 1..9999 /\ c \in 1..9999 /\ b <= c

\* What is within a band is within every wider one.
LEMMA BandsNest ==
    ASSUME NEW side, NEW price, price.n \in Positive, price.d \in Positive,
           NEW midpoint, midpoint.n \in Positive, midpoint.d \in Positive,
           NEW b, NEW c, Narrower(b, c),
           Within(side, price, midpoint, b)
    PROVE  Within(side, price, midpoint, c)
<1>1. \A y \in Nat, x \in Nat, k, m \in Nat: k <= m => x * k <= x * m
  OBVIOUS
<1>2. PICK x, y, z : /\ x = midpoint.n * price.d /\ y = price.n * midpoint.d * 10000
                     /\ z = price.n * midpoint.d
  OBVIOUS
<1>3. x \in Nat /\ z \in Nat /\ y = z * 10000 /\ y \in Nat
  BY <1>2 DEF Positive
<1>4. /\ 10000 - c \in Nat /\ 10000 - b \in Nat /\ 10000 - c <= 10000 - b
      /\ 10000 + c \in Nat /\ 10000 + b \in Nat /\ 10000 + b <= 10000 + c
  BY DEF Narrower
<1>5. x * (10000 - c) <= x * (10000 - b) /\ x * (10000 + b) <= x * (10000 + c)
  BY <1>1, <1>3, <1>4
<1>6. /\ x * (10000 - c) \in Int /\ x * (10000 - b) \in Int
      /\ x * (10000 + c) \in Int /\ x * (10000 + b) \in Int
  BY <1>3, <1>4
<1> DEFINE lowB == x * (10000 - b)
           lowC == x * (10000 - c)
           highB == x * (10000 + b)
           highC == x * (10000 + c)
<1>7. /\ lowC <= lowB /\ highB <= highC
      /\ lowB \in Int /\ lowC \in Int /\ highB \in Int /\ highC \in Int
  BY <1>5, <1>6
<1>8. Within(side, price, midpoint, b) <=> IF side = "ask" THEN y <= highB ELSE y >= lowB
  BY <1>2 DEF Within, WithinAskBand, WithinBidBand
<1>9. Within(side, price, midpoint, c) <=> IF side = "ask" THEN y <= highC ELSE y >= lowC
  BY <1>2 DEF Within, WithinAskBand, WithinBidBand
<1> HIDE DEF lowB, lowC, highB, highC
<1>10. IF side = "ask" THEN y <= highB ELSE y >= lowB
  BY <1>8
<1>11. IF side = "ask" THEN y <= highC ELSE y >= lowC
  BY <1>3, <1>7, <1>10
<1> QED  BY <1>9, <1>11

LEMMA BandsNarrow == \A b, c \in Bands: b <= c => Narrower(b, c)
<1> SUFFICES ASSUME NEW b \in Bands, NEW c \in Bands, b <= c PROVE Narrower(b, c)
  OBVIOUS
<1> QED  BY BandAssumption DEF Narrower

LEMMA BucketGrows ==
    ASSUME NEW side, NEW levels, Len(levels) \in Nat, DOMAIN levels = 1..Len(levels),
           \A i \in DOMAIN levels: /\ levels[i].base \in Nat
                                   /\ levels[i].price.n \in Positive
                                   /\ levels[i].price.d \in Positive,
           NEW midpoint, midpoint.n \in Positive, midpoint.d \in Positive,
           NEW b \in Bands, NEW c \in Bands, b <= c
    PROVE  Bucket(side, levels, midpoint, b).amount <= Bucket(side, levels, midpoint, c).amount
<1>1. Narrower(b, c)
  BY BandsNarrow
<1> DEFINE In(k) == {i \in DOMAIN levels: Within(side, levels[i].price, midpoint, k)}
<1>2. In(b) \subseteq In(c)
  <2> SUFFICES ASSUME NEW i \in DOMAIN levels, Within(side, levels[i].price, midpoint, b)
               PROVE  Within(side, levels[i].price, midpoint, c)
    OBVIOUS
  <2>1. PICK price : price = levels[i].price
    OBVIOUS
  <2>2. price.n \in Positive /\ price.d \in Positive /\ Within(side, price, midpoint, b)
    BY <2>1
  <2>3. Within(side, price, midpoint, c)
    BY <1>1, <2>2, BandsNest
  <2> QED  BY <2>1, <2>3
<1>3. /\ Bucket(side, levels, midpoint, b).amount = SumOfBases(levels, In(b))
      /\ Bucket(side, levels, midpoint, c).amount = SumOfBases(levels, In(c))
  BY DEF Bucket
<1> HIDE DEF In
<1>4. SumOfBases(levels, In(b)) <= SumOfBases(levels, In(c))
  BY <1>2, SumsMonotone
<1> QED  BY <1>3, <1>4

LEMMA BookExecutable ==
    ASSUME NEW asked \in Seq(OfferRecord), NEW bidding \in Seq(OfferRecord),
           NEW asks, asks = SortedLevels("ask", asked),
           NEW bids, bids = SortedLevels("bid", bidding)
    PROVE  /\ \A l \in Range(bids): l.base * l.price.n <= l.counter * l.price.d
           /\ \A b, c \in Buckets(bids, asks):
                  b.side = c.side /\ b.band <= c.band => b.amount <= c.amount
<1>1. /\ bids \in Seq(Range(bids)) /\ asks \in Seq(Range(asks))
      /\ Range(bids) = {Level("bid", o): o \in Range(bidding)}
      /\ Range(asks) = {Level("ask", o): o \in Range(asked)}
  BY SortedLevelsOf
<1>2. Range(bidding) \subseteq OfferRecord /\ Range(asked) \subseteq OfferRecord
  BY DEF Range
<1>3. \A l \in Range(bids): /\ l.base \in Nat /\ l.price.n \in Positive /\ l.price.d \in Positive
                            /\ l.base * l.price.n <= l.counter * l.price.d
  BY <1>1, <1>2, LevelSound
<1>4. \A l \in Range(asks): l.base \in Nat /\ l.price.n \in Positive /\ l.price.d \in Positive
  BY <1>1, <1>2, LevelSound
<1>5. \A b, c \in Buckets(bids, asks):
          b.side = c.side /\ b.band <= c.band => b.amount <= c.amount
  <2> SUFFICES ASSUME BookStatus(bids, asks) = "complete"
               PROVE  \A b, c \in Buckets(bids, asks):
                          b.side = c.side /\ b.band <= c.band => b.amount <= c.amount
    BY DEF Buckets
  <2> DEFINE midpoint == Midpoint(Head(bids).price, Head(asks).price)
  <2>1. Head(bids) \in Range(bids) /\ Head(asks) \in Range(asks)
    BY <1>1 DEF BookStatus, Range
  <2>2. midpoint.n \in Positive /\ midpoint.d \in Positive
    <3>1. PICK p, q: p = Head(bids).price /\ q = Head(asks).price
      OBVIOUS
    <3>2. p.n \in Positive /\ p.d \in Positive /\ q.n \in Positive /\ q.d \in Positive
      BY <1>3, <1>4, <2>1, <3>1
    <3>3. /\ p.n * q.d \in Positive /\ q.n * p.d \in Positive
          /\ 2 * p.d \in Positive /\ 2 * p.d * q.d \in Positive
      <4>1. PICK a, b, c, d: a = p.n /\ b = p.d /\ c = q.n /\ d = q.d
        OBVIOUS
      <4>2. /\ a \in Positive /\ b \in Positive /\ c \in Positive /\ d \in Positive
            /\ 2 * b \in Positive
        BY <3>2, <4>1 DEF Positive
      <4>3. PICK e: e = 2 * b
        OBVIOUS
      <4>4. \A x, y \in Positive: x * y \in Positive
        BY Products DEF Positive
      <4>5. a * d \in Positive /\ c * b \in Positive /\ e * d \in Positive
        BY <4>2, <4>3, <4>4
      <4> QED  BY <4>1, <4>2, <4>3, <4>5
    <3>4. midpoint.n = p.n * q.d + q.n * p.d /\ midpoint.d = 2 * p.d * q.d
      BY <3>1 DEF Midpoint
    <3> QED  BY <3>3, <3>4 DEF Positive
  <2>3. /\ Len(bids) \in Nat /\ DOMAIN bids = 1..Len(bids)
        /\ Len(asks) \in Nat /\ DOMAIN asks = 1..Len(asks)
        /\ \A i \in DOMAIN bids: bids[i] \in Range(bids)
        /\ \A i \in DOMAIN asks: asks[i] \in Range(asks)
    BY <1>1
  <2>4. Buckets(bids, asks) = {Bucket("bid", bids, midpoint, b): b \in Bands}
                              \cup {Bucket("ask", asks, midpoint, b): b \in Bands}
    BY DEF Buckets
  <2> HIDE DEF midpoint
  <2>5. \A b, c \in Bands: b <= c =>
            /\ Bucket("bid", bids, midpoint, b).amount <= Bucket("bid", bids, midpoint, c).amount
            /\ Bucket("ask", asks, midpoint, b).amount <= Bucket("ask", asks, midpoint, c).amount
    BY <1>3, <1>4, <2>2, <2>3, BucketGrows
  <2>6. \A side, levels, b: /\ Bucket(side, levels, midpoint, b).side = side
                            /\ Bucket(side, levels, midpoint, b).band = b
    BY DEF Bucket
  <2> SUFFICES ASSUME NEW b \in Buckets(bids, asks), NEW c \in Buckets(bids, asks),
                      b.side = c.side, b.band <= c.band
               PROVE  b.amount <= c.amount
    OBVIOUS
  <2>7. CASE b.side = "bid"
    <3>0. \A i \in Bands: Bucket("ask", asks, midpoint, i).side # "bid"
      BY <2>6
    <3>1. PICK i \in Bands: b = Bucket("bid", bids, midpoint, i)
      BY <2>4, <2>7, <3>0
    <3>2. PICK j \in Bands: c = Bucket("bid", bids, midpoint, j)
      BY <2>4, <2>7, <3>0
    <3>3. i <= j
      BY <2>6, <3>1, <3>2
    <3> QED  BY <2>5, <3>1, <3>2, <3>3
  <2>8. CASE b.side # "bid"
    <3>1. PICK i \in Bands: b = Bucket("ask", asks, midpoint, i)
      BY <2>4, <2>6, <2>8
    <3>2. PICK j \in Bands: c = Bucket("ask", asks, midpoint, j)
      BY <2>4, <2>6, <2>8
    <3>3. i <= j
      BY <2>6, <3>1, <3>2
    <3> QED  BY <2>5, <3>1, <3>2, <3>3
  <2> QED  BY <2>7, <2>8
<1> QED  BY <1>3, <1>5

-----------------------------------------------------------------------------
(* What the service answers to a page request.                             *)

\* The code of a failed request is that of an error.
Verdicts == {"ok", "none", "end", "more"}

LEMMA FailureCodes ==
    ASSUME NEW m, NEW a \in Failed(m) PROVE a.code \notin Verdicts
<1>1. PICK e \in Events : a = [Blank EXCEPT !.code = RequestCode(m, e)]
  BY DEF Failed
<1>2. /\ SupplyRequest(e) \notin Verdicts /\ TrustlineRequest(e) \notin Verdicts
      /\ DepthRequest(e) \notin Verdicts /\ LedgerRequest(e) \notin Verdicts
  BY DEF Events, SupplyRequest, TrustlineRequest, DepthRequest, LedgerRequest, Verdicts
<1>3. RequestCode(m, e) \notin Verdicts
  BY <1>2 DEF RequestCode
<1> QED  BY <1>1, <1>3 DEF Blank

\* The records of a page are those after the cursor, twice those, or the first
\* ones; it links to its end, to itself or elsewhere.
PageSays(a, what, cursor, size) ==
    LET records == RecordsOf(what, a.header)
        good == Following(records, cursor, size)
    IN  /\ a.header \in Ledgers
        /\ \/ a.records = good
           \/ a.records = good \o good
           \/ a.records = Following(records, 0, size)
        /\ a.link.scope = "none" => what = "asset" \/ a.records = << >>
        /\ \/ a.link = NoLink
           \/ a.link.scope = "foreign"
           \/ a.link.cursor = cursor
           \/ good # << >> /\ a.link.cursor = Last(good).token

\* Another answer than a failure has no code.
LEMMA PageCodes ==
    ASSUME NEW m, NEW what, NEW cursor, NEW size, NEW a \in PageAnswers(m, what, cursor, size)
    PROVE  a \in Failed(m) \/ a.code = "ok"
<1> SUFFICES ASSUME a \notin Failed(m) PROVE a.code = "ok"
  OBVIOUS
<1>1. PICK L \in Ledgers: a \in PagesAt(what, L, cursor, size)
  BY DEF PageAnswers
<1>2. PICK p : p = PageOf(what, L, cursor, size)
  OBVIOUS
<1>3. p.code = "ok" /\ DOMAIN p = {"code", "header", "content", "records", "link"}
  BY <1>2 DEF PageOf, Blank
<1>4. \/ a = p
      \/ a = [p EXCEPT !.records = @ \o @]
      \/ a = [p EXCEPT !.records = PageOf(what, L, 0, size).records]
      \/ a = [p EXCEPT !.link.cursor = cursor]
      \/ a = [p EXCEPT !.link.scope = "foreign"]
      \/ a = [p EXCEPT !.content = "another"]
      \/ a = [p EXCEPT !.content = "malformed"]
      \/ a = [p EXCEPT !.header = 0]
      \/ a = [p EXCEPT !.link = NoLink]
  BY <1>1, <1>2 DEF PagesAt
<1> QED  BY <1>3, <1>4

LEMMA PagesSay ==
    ASSUME NEW m, NEW what, NEW cursor, NEW size, NEW a \in PageAnswers(m, what, cursor, size),
           a.code = "ok", a.header # 0
    PROVE  PageSays(a, what, cursor, size)
<1> DEFINE page(L) == PageOf(what, L, cursor, size)
           good(L) == Following(RecordsOf(what, L), cursor, size)
           link(L) == [scope |-> "same",
                       cursor |-> IF good(L) = << >> THEN cursor ELSE Last(good(L)).token]
<1>1. \A L: page(L) = [code |-> "ok", header |-> L, content |-> "asked",
                       records |-> good(L), link |-> link(L)]
  <2> SUFFICES ASSUME NEW L
               PROVE  page(L) = [code |-> "ok", header |-> L, content |-> "asked",
                                 records |-> good(L), link |-> link(L)]
    OBVIOUS
  <2>1. page(L) = [Blank EXCEPT !.header = L, !.records = good(L), !.link = link(L)]
    BY DEF PageOf
  <2> HIDE DEF page, good, link
  <2> QED  BY <2>1 DEF Blank
<1>2. \A L: PageOf(what, L, 0, size).records = Following(RecordsOf(what, L), 0, size)
  BY DEF PageOf, Blank
<1>3. \A L: /\ link(L).scope = "same"
            /\ link(L).cursor = cursor \/ (good(L) # << >> /\ link(L).cursor = Last(good(L)).token)
  OBVIOUS
<1> HIDE DEF link, good
<1>4. PICK L \in Ledgers: a \in PagesAt(what, L, cursor, size)
  BY FailureCodes DEF PageAnswers, Verdicts
<1> DEFINE p == page(L)
<1>5. \/ a = p
      \/ a = [p EXCEPT !.records = @ \o @]
      \/ a = [p EXCEPT !.records = PageOf(what, L, 0, size).records]
      \/ a = [p EXCEPT !.link.cursor = cursor]
      \/ a = [p EXCEPT !.link.scope = "foreign"]
      \/ a = [p EXCEPT !.content = "another"]
      \/ a = [p EXCEPT !.content = "malformed"]
      \/ a = [p EXCEPT !.header = 0]
      \/ a = [p EXCEPT !.link = NoLink] /\ (what = "asset" \/ a.records = << >>)
  BY <1>4 DEF PagesAt
<1>6. p = [code |-> "ok", header |-> L, content |-> "asked", records |-> good(L), link |-> link(L)]
  BY <1>1
<1> HIDE DEF p, page
<1>7. ASSUME a.header = L, a.link = link(L),
             \/ a.records = good(L)
             \/ a.records = good(L) \o good(L)
             \/ a.records = Following(RecordsOf(what, L), 0, size)
      PROVE  PageSays(a, what, cursor, size)
  <2>1. /\ a.link.scope # "none"
        /\ a.link.cursor = cursor \/ (good(L) # << >> /\ a.link.cursor = Last(good(L)).token)
    <3>1. PICK k, g : k = link(L) /\ g = good(L)
      OBVIOUS
    <3>2. k.scope = "same" /\ (k.cursor = cursor \/ (g # << >> /\ k.cursor = Last(g).token))
      BY <1>3, <3>1
    <3> QED  BY <1>7, <3>1, <3>2
  <2> QED  BY <1>7, <2>1 DEF PageSays, good
<1>8. CASE \/ a = p
           \/ a = [p EXCEPT !.content = "another"]
           \/ a = [p EXCEPT !.content = "malformed"]
           \/ a = [p EXCEPT !.records = @ \o @]
  <2>1. /\ a.header = L /\ a.link = link(L)
        /\ a.records = good(L) \/ a.records = good(L) \o good(L)
    BY <1>6, <1>8
  <2> QED  BY <1>7, <2>1
<1>9. CASE a = [p EXCEPT !.records = PageOf(what, L, 0, size).records]
  <2>1. /\ a.header = L /\ a.link = link(L)
        /\ a.records = Following(RecordsOf(what, L), 0, size)
    BY <1>2, <1>6, <1>9
  <2> QED  BY <1>7, <2>1
<1>10. CASE a = [p EXCEPT !.link.cursor = cursor]
  BY <1>6, <1>10 DEF PageSays, good, link
<1>11. CASE a = [p EXCEPT !.link.scope = "foreign"]
  BY <1>6, <1>11 DEF PageSays, good, link
<1>12. CASE a = [p EXCEPT !.header = 0]
  BY <1>6, <1>12
<1>13. CASE a = [p EXCEPT !.link = NoLink] /\ (what = "asset" \/ a.records = << >>)
  BY <1>6, <1>13 DEF PageSays, good
<1> QED  BY <1>5, <1>8, <1>9, <1>10, <1>11, <1>12, <1>13

-----------------------------------------------------------------------------
(* The pages of a side of a book.                                          *)

Rising(offers) ==
    /\ offers \in Seq(OfferRecord)
    /\ \A i, j \in DOMAIN offers: i < j => offers[i].token < offers[j].token

LEMMA BooksRise ==
    ASSUME NEW L \in Ledgers, NEW side \in {"ask", "bid"} PROVE Rising(Book[L][side])
BY RecordsAssumption DEF Rising

\* The page after the first n offers begins with the next one.
LEMMA FollowingPage ==
    ASSUME NEW offers, Rising(offers), NEW n \in 0..Len(offers), NEW size
    PROVE  Following(offers, CursorAt(offers, n), size) =
               SubSeq(offers, n + 1,
                      IF n + size < Len(offers) THEN n + size ELSE Len(offers))
<1> DEFINE cursor == CursorAt(offers, n)
           passed == {i \in DOMAIN offers: offers[i].token <= cursor}
<1>1. PICK N \in Nat : N = Len(offers) /\ DOMAIN offers = 1..N
  BY LenProperties DEF Rising
<1>2. \A i \in 1..N: offers[i].token \in Nat /\ offers[i].token > 0
  <2>1. \A i \in 1..N: offers[i] \in OfferRecord
    BY <1>1 DEF Rising
  <2> QED  BY <2>1 DEF OfferRecord, Positive
<1>3. \A i, j \in 1..N: i < j => offers[i].token < offers[j].token
  BY <1>1 DEF Rising
<1>4. passed = 1..n
  <2>1. CASE n = 0
    BY <1>1, <1>2, <2>1 DEF CursorAt
  <2>2. CASE n # 0
    <3>1. n \in 1..N /\ cursor = offers[n].token
      BY <1>1, <2>2 DEF CursorAt
    <3> HIDE DEF cursor
    <3>2. \A i \in 1..N: offers[i].token <= cursor <=> i <= n
      <4>1. \A i \in 1..N: i < n \/ i = n \/ n < i
        BY <3>1
      <4> QED  BY <1>2, <1>3, <3>1, <4>1
    <3> QED  BY <1>1, <3>1, <3>2
  <2> QED  BY <2>1, <2>2
<1>5. Cardinality(passed) = n
  <2>1. n \in Int /\ (IF 1 > n THEN 0 ELSE n - 1 + 1) = n
    BY <1>1
  <2>2. Cardinality(1..n) = n
    BY <2>1, FS_Interval
  <2> QED  BY <1>4, <2>2
<1> QED  BY <1>5 DEF Following

\* A page read to its end leaves nothing; any other one goes on from its last offer.
LEMMA PrefixPage ==
    ASSUME NEW offers, Rising(offers), NEW kept, NEW next, PrefixRead(offers, kept, next),
           NEW size \in Positive, NEW good, good = Following(offers, next, size)
    PROVE  /\ kept \in Seq(OfferRecord) /\ good \in Seq(OfferRecord) /\ next \in Int
           /\ good = << >> => kept = offers
           /\ good # << >> => PrefixRead(offers, kept \o good, Last(good).token)
           /\ kept # << >> => next # 0 /\ kept[1] = offers[1] /\ offers # << >>
           /\ kept = << >> => next = 0
<1>1. PICK N \in Nat : N = Len(offers) /\ DOMAIN offers = 1..N
  BY LenProperties DEF Rising
<1>2. PICK n \in 0..N : kept = SubSeq(offers, 1, n) /\ next = CursorAt(offers, n)
  BY <1>1 DEF PrefixRead
<1>3. PICK m : m = IF n + size < N THEN n + size ELSE N
  OBVIOUS
<1>4. m \in n..N /\ (m = n => n = N)
  BY <1>1, <1>2, <1>3 DEF Positive
<1>5. good = SubSeq(offers, n + 1, m)
  BY <1>1, <1>2, <1>3, FollowingPage
<1>6. /\ kept \in Seq(OfferRecord) /\ Len(kept) = n /\ \A i \in 1..n: kept[i] = offers[i]
      /\ good \in Seq(OfferRecord) /\ Len(good) = m - n
      /\ \A i \in 1..(m - n): good[i] = offers[n + i]
  <2>1. \A i \in 1..N: offers[i] \in OfferRecord
    BY <1>1 DEF Rising
  <2>2. /\ 1 \in Int /\ n \in Int /\ m \in Int /\ n + 1 \in Int
        /\ \A i \in 1..n: i \in 1..N /\ 1 + i - 1 = i
        /\ \A i \in (n + 1)..m: i \in 1..N
        /\ \A i \in 1..(m - n): i \in 1..(m - (n + 1) + 1) /\ (n + 1) + i - 1 = n + i
        /\ n - 1 + 1 = n /\ (IF 1 <= n THEN n - 1 + 1 ELSE 0) = n
        /\ (IF n + 1 <= m THEN m - (n + 1) + 1 ELSE 0) = m - n
    BY <1>4
  <2>3. /\ kept \in Seq(OfferRecord) /\ Len(kept) = n
        /\ \A i \in 1..n: kept[i] = offers[1 + i - 1]
    BY <1>2, <2>1, <2>2, SubSeqProperties
  <2>4. /\ good \in Seq(OfferRecord) /\ Len(good) = m - n
        /\ \A i \in 1..(m - (n + 1) + 1): good[i] = offers[(n + 1) + i - 1]
    BY <1>5, <2>1, <2>2, SubSeqProperties
  <2> QED  BY <2>2, <2>3, <2>4
<1>7. \A i \in 1..N: offers[i].token \in Int /\ offers[i].token # 0
  <2>1. \A i \in 1..N: offers[i] \in OfferRecord
    BY <1>1 DEF Rising
  <2> QED  BY <2>1 DEF OfferRecord, Positive
<1>8. next \in Int
  BY <1>2, <1>7 DEF CursorAt
<1>9. ASSUME good = << >> PROVE kept = offers
  <2>1. n = N
    BY <1>1, <1>4, <1>6, <1>9
  <2> QED  BY <1>1, <1>6, <2>1 DEF Rising
<1>10. ASSUME good # << >> PROVE PrefixRead(offers, kept \o good, Last(good).token)
  <2>1. m \in 1..N /\ m # n /\ m - n \in 1..(m - n) /\ n + (m - n) = m
    BY <1>4, <1>6, <1>10
  <2>2. Last(good) = offers[m]
    BY <1>6, <2>1 DEF Last
  <2>3. kept \o good = SubSeq(offers, 1, m)
    <3>1. /\ 1 \in 1..(N + 1) /\ n \in (1 - 1)..N /\ m \in n..N
      BY <1>4
    <3> QED  BY <1>1, <1>2, <1>5, <3>1, ConcatAdjacentSubSeq DEF Rising
  <2> QED  BY <1>1, <2>1, <2>2, <2>3 DEF PrefixRead, CursorAt
<1>11. ASSUME kept # << >> PROVE next # 0 /\ kept[1] = offers[1] /\ offers # << >>
  <2>1. n # 0 /\ n \in 1..N /\ 1 \in 1..n
    BY <1>2, <1>6, <1>11
  <2> QED  BY <1>1, <1>2, <1>6, <1>7, <2>1 DEF CursorAt
<1>12. ASSUME kept = << >> PROVE next = 0
  <2>1. n = 0
    BY <1>2, <1>6, <1>12
  <2> QED  BY <1>2, <2>1 DEF CursorAt
<1> QED  BY <1>6, <1>8, <1>9, <1>10, <1>11, <1>12

Repeats(x) == Cardinality(TokensOf(x)) < Len(x)

\* A token that comes twice is seen by counting the tokens.
LEMMA Repetition ==
    ASSUME NEW x \in Seq(OfferRecord), NEW i \in DOMAIN x, NEW j \in DOMAIN x,
           i # j, x[i].token = x[j].token
    PROVE  Repeats(x)
<1> DEFINE D == DOMAIN x
           T == TokensOf(x)
           f == [k \in D \ {j} |-> x[k].token]
<1>1. PICK n \in Nat : n = Len(x) /\ D = 1..n
  BY LenProperties
<1>2. IsFiniteSet(D) /\ Cardinality(D) = n
  <2>1. IsFiniteSet(1..n) /\ Cardinality(1..n) = n
    BY FS_Interval
  <2> QED  BY <1>1, <2>1
<1>3. IsFiniteSet(D \ {j}) /\ Cardinality(D \ {j}) = n - 1
  BY <1>2, FS_RemoveElement
<1>4. f \in Surjection(D \ {j}, T)
  <2>1. \A k \in D: x[k].token \in T
    BY DEF TokensOf
  <2>2. ASSUME NEW t \in T PROVE \E k \in D \ {j}: x[k].token = t
    <3>1. PICK k \in D: x[k].token = t
      BY DEF TokensOf
    <3> QED  BY <3>1
  <2> HIDE DEF T
  <2> QED  BY <2>1, <2>2 DEF Surjection
<1>5. Cardinality(T) <= Cardinality(D \ {j})
  <2> HIDE DEF f, T, D
  <2> QED  BY <1>3, <1>4, FS_Surjection
<1>6. Cardinality(T) \in Nat
  <2>1. IsFiniteSet(T)
    <3> HIDE DEF f, T, D
    <3> QED  BY <1>3, <1>4, FS_Surjection
  <2> QED  BY <2>1, FS_CardinalityType
<1> HIDE DEF T, D
<1> QED  BY <1>1, <1>3, <1>5, <1>6 DEF T, Repeats

\* The page that was asked for, the same twice over, or the first one.
Delivered(offers, next, size, records) ==
    \/ records = Following(offers, next, size)
    \/ records = Following(offers, next, size) \o Following(offers, next, size)
    \/ records = Following(offers, 0, size)

\* Without a repetition a page is the one that was asked for.
LEMMA DistinctPage ==
    ASSUME NEW offers, Rising(offers), NEW kept, NEW next, PrefixRead(offers, kept, next),
           NEW size \in Positive, NEW records, Delivered(offers, next, size, records),
           ~ Repeats(kept \o records)
    PROVE  records = Following(offers, next, size)
<1>0. PICK good : good = Following(offers, next, size)
  OBVIOUS
<1>1. /\ kept \in Seq(OfferRecord) /\ good \in Seq(OfferRecord)
      /\ kept # << >> => next # 0 /\ kept[1] = offers[1] /\ offers # << >>
      /\ kept = << >> => next = 0
  BY <1>0, PrefixPage
<1>2. Len(kept) \in Nat /\ Len(good) \in Nat
  BY <1>1
<1>3. CASE records = good \o good /\ good # << >>
  <2> DEFINE x == kept \o (good \o good)
             i == Len(kept) + 1
             j == Len(kept) + Len(good) + 1
  <2>1. Len(good) > 0
    BY <1>1, <1>3
  <2>2. /\ good \o good \in Seq(OfferRecord) /\ Len(good \o good) = Len(good) + Len(good)
        /\ (good \o good)[1] = good[1] /\ (good \o good)[Len(good) + 1] = good[1]
    BY <1>1, <1>2, <2>1, ConcatProperties
  <2>3. /\ x \in Seq(OfferRecord) /\ Len(x) = Len(kept) + (Len(good) + Len(good))
        /\ \A k \in 1..(Len(kept) + (Len(good) + Len(good))):
               x[k] = IF k <= Len(kept) THEN kept[k] ELSE (good \o good)[k - Len(kept)]
    BY <1>1, <2>2, ConcatProperties
  <2>4. /\ i \in 1..(Len(kept) + (Len(good) + Len(good))) /\ ~ (i <= Len(kept))
        /\ j \in 1..(Len(kept) + (Len(good) + Len(good))) /\ ~ (j <= Len(kept))
        /\ i # j /\ i - Len(kept) = 1 /\ j - Len(kept) = Len(good) + 1
    BY <1>2, <2>1
  <2>5. x[i] = good[1] /\ x[j] = good[1] /\ i \in DOMAIN x /\ j \in DOMAIN x
    BY <2>2, <2>3, <2>4
  <2> HIDE DEF x, i, j
  <2>6. Repeats(x)
    BY <2>3, <2>4, <2>5, Repetition
  <2> QED  BY <1>3, <2>6 DEF x
<1>4. CASE records = good \o good /\ good = << >>
  BY <1>0, <1>4
<1>5. CASE records = Following(offers, 0, size) /\ kept = << >>
  BY <1>0, <1>1, <1>5
<1>6. CASE records = Following(offers, 0, size) /\ kept # << >>
  <2> DEFINE x == kept \o records
             i == 1
             j == Len(kept) + 1
  <2>1. PrefixRead(offers, << >>, 0)
    <3>1. 0 \in 0..Len(offers) /\ SubSeq(offers, 1, 0) = << >>
      BY SubSeqEmpty DEF Rising
    <3> QED  BY <3>1 DEF PrefixRead, CursorAt
  <2>2. /\ records \in Seq(OfferRecord)
        /\ records = << >> => offers = << >>
        /\ records # << >> => PrefixRead(offers, << >> \o records, Last(records).token)
    <3>1. PICK none, zero: none = << >> /\ zero = 0
      OBVIOUS
    <3>2. PrefixRead(offers, none, zero) /\ records = Following(offers, zero, size)
      BY <1>6, <2>1, <3>1
    <3>3. /\ records \in Seq(OfferRecord)
          /\ records = << >> => none = offers
          /\ records # << >> => PrefixRead(offers, none \o records, Last(records).token)
      BY <3>2, PrefixPage
    <3> QED  BY <3>1, <3>3
  <2>3. records # << >> /\ PrefixRead(offers, records, Last(records).token)
    <3>1. records # << >>
      BY <1>1, <1>6, <2>2
    <3>2. << >> \o records = records
      BY <2>2, ConcatEmptySeq
    <3> QED  BY <2>2, <3>1, <3>2
  <2>4. records[1] = offers[1]
    <3>1. PICK g: g = Following(offers, Last(records).token, size)
      OBVIOUS
    <3> QED  BY <2>3, <3>1, PrefixPage
  <2>5. Len(kept) > 0 /\ Len(records) > 0 /\ Len(records) \in Nat
    BY <1>1, <1>6, <2>2, <2>3
  <2>6. /\ x \in Seq(OfferRecord) /\ Len(x) = Len(kept) + Len(records)
        /\ \A k \in 1..(Len(kept) + Len(records)):
               x[k] = IF k <= Len(kept) THEN kept[k] ELSE records[k - Len(kept)]
    BY <1>1, <2>2, ConcatProperties
  <2>7. /\ i \in 1..(Len(kept) + Len(records)) /\ i <= Len(kept) /\ i # j
        /\ j \in 1..(Len(kept) + Len(records)) /\ ~ (j <= Len(kept)) /\ j - Len(kept) = 1
    BY <1>2, <2>5
  <2>8. x[i] = offers[1] /\ x[j] = offers[1] /\ i \in DOMAIN x /\ j \in DOMAIN x
    BY <1>1, <1>6, <2>4, <2>6, <2>7
  <2> HIDE DEF x, i, j
  <2>9. Repeats(x)
    BY <2>6, <2>7, <2>8, Repetition
  <2> QED  BY <2>9 DEF x
<1> QED  BY <1>0, <1>3, <1>4, <1>5, <1>6 DEF Delivered

-----------------------------------------------------------------------------
(* The pages of an asset.                                                  *)

LEMMA AssetPages ==
    ASSUME NEW L \in Ledgers, NEW size \in Positive
    PROVE  /\ Following(Asset[L], 0, size) = Asset[L]
           /\ Asset[L] # << >> =>
                 /\ Asset[L] = <<Asset[L][1]>> /\ Asset[L][1].token \in Positive
                 /\ Following(Asset[L], Asset[L][1].token, size) = << >>
<1> DEFINE rows == Asset[L]
           passed(cursor) == {i \in DOMAIN rows: rows[i].token <= cursor}
<1>1. size \in Nat /\ size > 0
  BY DEF Positive
<1>2. CASE rows = << >>
  <2>1. DOMAIN rows = {} /\ Len(rows) = 0
    BY <1>2
  <2>2. passed(0) = {}
    BY <2>1
  <2>3. Cardinality(passed(0)) = 0
    BY <2>2, FS_EmptySet
  <2>4. Following(rows, 0, size) = SubSeq(rows, 1, 0)
    <3> HIDE DEF rows
    <3>1. (IF 0 + size < 0 THEN 0 + size ELSE 0) = 0 /\ 0 + 1 = 1
      BY <1>1
    <3> QED  BY <2>1, <2>3, <3>1 DEF Following
  <2> QED  BY <1>2, <2>4, SubSeqEmpty
<1>3. CASE rows # << >>
  <2> DEFINE r == rows[1]
  <2>1. rows = <<r>> /\ r.token \in Positive
    BY <1>3, RecordsAssumption
  <2>2. rows \in Seq({r}) /\ Len(rows) = 1 /\ DOMAIN rows = {1}
    <3>1. \A q: <<q>> \in Seq({q}) /\ Len(<<q>>) = 1 /\ DOMAIN <<q>> = {1}
      OBVIOUS
    <3>2. PICK q: q = r
      OBVIOUS
    <3>3. rows = <<q>>
      BY <2>1, <3>2
    <3> HIDE DEF rows, r
    <3> QED  BY <3>1, <3>2, <3>3
  <2>3. passed(0) = {} /\ passed(r.token) = {1}
    BY <2>1, <2>2 DEF Positive
  <2>4. Cardinality(passed(0)) = 0 /\ Cardinality(passed(r.token)) = 1
    <3>1. Cardinality({}) = 0 /\ Cardinality({1}) = 1
      BY FS_EmptySet, FS_Singleton
    <3> QED  BY <2>3, <3>1
  <2>5. Following(rows, 0, size) = SubSeq(rows, 1, 1)
    <3>1. (IF 0 + size < 1 THEN 0 + size ELSE 1) = 1 /\ 0 + 1 = 1
      BY <1>1
    <3> HIDE DEF rows
    <3> QED  BY <2>2, <2>4, <3>1 DEF Following
  <2>6. Following(rows, r.token, size) = SubSeq(rows, 2, 1)
    <3>1. (IF 1 + size < 1 THEN 1 + size ELSE 1) = 1 /\ 1 + 1 = 2
      BY <1>1
    <3> HIDE DEF rows, r
    <3> QED  BY <2>2, <2>4, <3>1 DEF Following
  <2>7. SubSeq(rows, 1, 1) = rows
    <3> HIDE DEF rows, r
    <3> QED  BY <2>2, SubSeqFull
  <2>8. SubSeq(rows, 2, 1) = << >>
    BY SubSeqEmpty
  <2> QED  BY <2>1, <2>5, <2>6, <2>7, <2>8
<1> QED  BY <1>2, <1>3

\* The page of an asset that is not too long is the record that is left.
LEMMA AssetPage ==
    ASSUME NEW m, NEW cursor, NEW size \in Positive,
           NEW a \in PageAnswers(m, "asset", cursor, size), a.code = "ok", a.header # 0
    PROVE  /\ a.header \in Ledgers /\ (cursor = 0 => Len(a.records) \in Nat)
           /\ cursor = 0 /\ Len(a.records) <= 1 => a.records = Asset[a.header]
           /\ cursor = 0 /\ a.link # NoLink /\ NextAllowed(a.link) =>
                 Asset[a.header] # << >> /\ a.link.cursor = Asset[a.header][1].token
           /\ Asset[a.header] # << >> /\ cursor = Asset[a.header][1].token =>
                 a.records = << >> \/ a.records = Asset[a.header]
<1>1. PageSays(a, "asset", cursor, size)
  BY PagesSay
<1>2. PICK rows : rows = Asset[a.header]
  OBVIOUS
<1>3. PICK good : good = Following(rows, cursor, size)
  OBVIOUS
<1>4. /\ a.header \in Ledgers
      /\ \/ a.records = good
         \/ a.records = good \o good
         \/ a.records = Following(rows, 0, size)
      /\ \/ a.link = NoLink
         \/ a.link.scope = "foreign"
         \/ a.link.cursor = cursor
         \/ good # << >> /\ a.link.cursor = Last(good).token
  BY <1>1, <1>2, <1>3 DEF PageSays, RecordsOf
<1>5. /\ Following(rows, 0, size) = rows
      /\ rows # << >> => rows = <<rows[1]>> /\ Following(rows, rows[1].token, size) = << >>
  BY <1>2, <1>4, AssetPages
<1>6. ASSUME cursor = 0
      PROVE  Len(a.records) \in Nat /\ (Len(a.records) <= 1 => a.records = rows)
  <2>1. good = rows
    BY <1>3, <1>5, <1>6
  <2>2. /\ Len(<<rows[1]>> \o <<rows[1]>>) = 2 /\ << >> \o << >> = << >>
        /\ Len(<<rows[1]>>) = 1 /\ Len(<< >>) = 0
    OBVIOUS
  <2> QED  BY <1>4, <1>5, <2>1, <2>2
<1>7. ASSUME cursor = 0, a.link # NoLink, NextAllowed(a.link)
      PROVE  rows # << >> /\ a.link.cursor = rows[1].token
  <2>1. good = rows
    BY <1>3, <1>5, <1>7
  <2>2. good # << >> /\ a.link.cursor = Last(good).token
    BY <1>4, <1>7 DEF NextAllowed
  <2>3. Last(<<rows[1]>>) = rows[1]
    BY DEF Last
  <2> QED  BY <1>5, <2>1, <2>2, <2>3
<1>8. ASSUME rows # << >>, cursor = rows[1].token
      PROVE  a.records = << >> \/ a.records = rows
  <2>1. good = << >>
    BY <1>3, <1>5, <1>8
  <2>2. << >> \o << >> = << >>
    OBVIOUS
  <2> QED  BY <1>4, <1>5, <2>1, <2>2
<1> QED  BY <1>2, <1>4, <1>6, <1>7, <1>8

\* The records of an asset and their tokens are sequences of the same length, at most one.
LEMMA AssetRows ==
    ASSUME NEW L \in Ledgers, NEW rows, rows = Asset[L],
           NEW tokens, tokens = [i \in DOMAIN rows |-> rows[i].token]
    PROVE  /\ << >> \o rows = rows /\ rows \o << >> = rows
           /\ << >> \o tokens = tokens /\ tokens \o << >> = tokens
           /\ rows = << >> => tokens = << >> /\ Len(rows) = 0
           /\ rows # << >> => /\ rows = <<rows[1]>> /\ tokens = <<rows[1].token>>
                              /\ rows[1].token \in Positive /\ Len(rows) = 1
<1>1. CASE rows = << >>
  BY <1>1
<1>2. CASE rows # << >>
  <2>1. PICK q : rows = <<q>> /\ q.token \in Positive
    BY <1>2, RecordsAssumption
  <2>2. PICK t : t = q.token
    OBVIOUS
  <2>3. tokens = <<t>>
    <3>1. DOMAIN rows = {1} /\ rows[1] = q
      BY <2>1
    <3>2. tokens = [i \in {1} |-> t]
      BY <2>2, <3>1
    <3> QED  BY <3>2
  <2>4. \A x: << >> \o <<x>> = <<x>> /\ <<x>> \o << >> = <<x>> /\ <<x>>[1] = x /\ Len(<<x>>) = 1
    OBVIOUS
  <2> QED  BY <1>2, <2>1, <2>2, <2>3, <2>4
<1> QED  BY <1>1, <1>2

-----------------------------------------------------------------------------
(* The scan of a supply.                                                   *)

LEMMA ScanFields ==
    DOMAIN NoScan = {"side", "next", "fence", "pages", "records", "last", "seen", "tokens",
                     "kept", "asks", "askPages", "issuerAt", "log", "ordered"}
BY DEF NoScan

LEMMA AppendToTwo ==
    ASSUME NEW x, NEW y, NEW z PROVE Append(<<x, y>>, z) = <<x, y, z>>
<1>1. PICK S, q, t : S = {x, y, z} /\ q = <<x, y>> /\ t = Append(q, z)
  OBVIOUS
<1>2. q \in Seq(S) /\ Len(q) = 2 /\ q[1] = x /\ q[2] = y /\ z \in S
  BY <1>1
<1>3. t \in Seq(S) /\ Len(t) = 3 /\ t[3] = z /\ t[1] = x /\ t[2] = y
  <2>1. t \in Seq(S) /\ Len(t) = Len(q) + 1 /\ t[Len(q) + 1] = z
        /\ \A i \in 1..Len(q): t[i] = q[i]
    BY <1>1, <1>2
  <2>2. 2 + 1 = 3 /\ 1 \in 1..2 /\ 2 \in 1..2
    OBVIOUS
  <2> QED  BY <1>2, <2>1, <2>2
<1>4. t = <<x, y, z>>
  BY <1>3
<1> QED  BY <1>1, <1>4

LEMMA AppendToThree ==
    ASSUME NEW x, NEW y, NEW z, NEW w PROVE Append(<<x, y, z>>, w) = <<x, y, z, w>>
<1>1. PICK S, q, t : S = {x, y, z, w} /\ q = <<x, y, z>> /\ t = Append(q, w)
  OBVIOUS
<1>2. q \in Seq(S) /\ Len(q) = 3 /\ q[1] = x /\ q[2] = y /\ q[3] = z /\ w \in S
  BY <1>1
<1>3. t \in Seq(S) /\ Len(t) = 4 /\ t[4] = w /\ t[1] = x /\ t[2] = y /\ t[3] = z
  <2>1. t \in Seq(S) /\ Len(t) = Len(q) + 1 /\ t[Len(q) + 1] = w
        /\ \A i \in 1..Len(q): t[i] = q[i]
    BY <1>1, <1>2
  <2>2. 3 + 1 = 4 /\ 1 \in 1..3 /\ 2 \in 1..3 /\ 3 \in 1..3
    OBVIOUS
  <2> QED  BY <1>2, <2>1, <2>2
<1>4. t = <<x, y, z, w>>
  BY <1>3
<1> QED  BY <1>1, <1>4

LEMMA AppendToNone ==
    ASSUME NEW x PROVE Append(<< >>, x) = <<x>>
<1>1. PICK S, q, t : S = {x} /\ q = << >> /\ t = Append(q, x)
  OBVIOUS
<1>2. q \in Seq(S) /\ Len(q) = 0 /\ x \in S
  BY <1>1
<1>3. t \in Seq(S) /\ Len(t) = 1 /\ t[1] = x
  <2>1. t \in Seq(S) /\ Len(t) = Len(q) + 1 /\ t[Len(q) + 1] = x
    BY <1>1, <1>2
  <2>2. 0 + 1 = 1
    OBVIOUS
  <2> QED  BY <1>2, <2>1, <2>2
<1>4. t = <<x>>
  BY <1>3
<1> QED  BY <1>1, <1>4

LEMMA AppendToOne ==
    ASSUME NEW x, NEW y PROVE Append(<<x>>, y) = <<x, y>>
<1>1. PICK S, q, t : S = {x, y} /\ q = <<x>> /\ t = Append(q, y)
  OBVIOUS
<1>2. q \in Seq(S) /\ Len(q) = 1 /\ q[1] = x /\ y \in S
  BY <1>1
<1>3. t \in Seq(S) /\ Len(t) = 2 /\ t[2] = y /\ t[1] = x
  <2>1. t \in Seq(S) /\ Len(t) = Len(q) + 1 /\ t[Len(q) + 1] = y
        /\ \A i \in 1..Len(q): t[i] = q[i]
    BY <1>1, <1>2
  <2>2. 1 + 1 = 2 /\ 1 \in 1..1
    OBVIOUS
  <2> QED  BY <1>2, <2>1, <2>2
<1>4. t = <<x, y>>
  BY <1>3
<1> QED  BY <1>1, <1>4

\* What an accepted page makes of the checkpoint.
LEMMA AdvancedIs ==
    ASSUME IsScan(scan), NEW a, NEW next
    PROVE  LET s == SupplyAdvanced(a, next)
           IN  /\ IsScan(s) /\ s.side = scan.side /\ s.issuerAt = scan.issuerAt
               /\ s.askPages = scan.askPages
               /\ s.next = next /\ s.fence = a.header /\ s.pages = scan.pages + 1
               /\ s.records = scan.records + Len(a.records) /\ s.last = scan.next
               /\ s.seen = Append(scan.seen, scan.next)
               /\ s.tokens = scan.tokens \o [i \in DOMAIN a.records |-> a.records[i].token]
               /\ s.kept = scan.kept \o a.records
               /\ s.log = Append(scan.log, Request("page", scan.next, a.header))
BY ScanFields DEF IsScan, SupplyAdvanced, Logged

LEMMA SupplyPages ==
    ASSUME Checkpoint(scan), scan.next # End,
           NEW m, NEW a \in PageAnswers(m, scan.side, scan.next, PageSize)
    PROVE  /\ SupplyPageVerdict(a) = "end" => Checkpoint(SupplyAdvanced(a, End))
           /\ SupplyPageVerdict(a) = "more" => Checkpoint(SupplyAdvanced(a, a.link.cursor))
<1> SUFFICES ASSUME SupplyPageVerdict(a) \in {"end", "more"}
             PROVE  /\ SupplyPageVerdict(a) = "end" => Checkpoint(SupplyAdvanced(a, End))
                    /\ SupplyPageVerdict(a) = "more" =>
                          Checkpoint(SupplyAdvanced(a, a.link.cursor))
  OBVIOUS
<1>1. PageSize \in Positive
  BY BudgetAssumption DEF Positive
<1>2. /\ IsScan(scan) /\ scan.side = "asset" /\ scan.issuerAt \in Ledgers /\ scan.askPages = 0
      /\ Unread(scan) \/ OnePage(scan)
  BY DEF Checkpoint, TwoPages
<1>3. a.code = "ok"
  <2>1. a \in Failed(m) \/ a.code = "ok"
    BY PageCodes
  <2> QED  BY <2>1, FailureCodes DEF SupplyPageVerdict, Verdicts
<1>4. /\ a.header # 0 /\ ~ FenceBroken(a)
      /\ ~ (Len(scan.kept) + Len(a.records) > 1)
      /\ SupplyPageVerdict(a) = "end" <=> Len(a.records) < PageSize
      /\ SupplyPageVerdict(a) = "more" => a.link # NoLink /\ NextAllowed(a.link)
  BY <1>3 DEF SupplyPageVerdict
<1> DEFINE L == a.header
           rows == Asset[L]
           tokens == [i \in DOMAIN rows |-> rows[i].token]
<1>6. CASE Unread(scan)
  <2>1. PICK h : h = scan.issuerAt
    OBVIOUS
  <2>2. /\ L \in Ledgers /\ Len(a.records) \in Nat
        /\ Len(a.records) <= 1 => a.records = rows
        /\ SupplyPageVerdict(a) = "more" => rows # << >> /\ a.link.cursor = rows[1].token
    BY <1>1, <1>2, <1>3, <1>4, <1>6, AssetPage DEF Unread
  <2>3. a.records = rows
    <3>1. Len(scan.kept) = 0
      BY <1>6 DEF Unread
    <3> QED  BY <1>4, <2>2, <3>1
  <2>4. ASSUME NEW next, next = End \/ (rows # << >> /\ next = rows[1].token)
        PROVE  Checkpoint(SupplyAdvanced(a, next))
    <3>1. PICK s : s = SupplyAdvanced(a, next)
      OBVIOUS
    <3>2. /\ << >> \o rows = rows /\ << >> \o tokens = tokens
      BY <2>2, AssetRows
    <3>3. /\ IsScan(s) /\ s.side = "asset" /\ s.issuerAt = h /\ s.askPages = 0
          /\ s.next = next /\ s.fence = L /\ s.pages = 0 + 1
          /\ s.records = 0 + Len(rows) /\ s.last = 0
          /\ s.seen = Append(<< >>, 0) /\ s.tokens = << >> \o tokens /\ s.kept = << >> \o rows
          /\ s.log = Append(<<Request("root", 0, 0), Request("issuer", 0, h)>>,
                            Request("page", 0, L))
      BY <1>2, <1>6, <2>1, <2>3, <3>1, AdvancedIs DEF Unread
    <3>4. /\ s.seen = <<0>> /\ s.tokens = tokens /\ s.kept = rows
          /\ s.log = <<Request("root", 0, 0), Request("issuer", 0, h), Request("page", 0, L)>>
      BY <3>2, <3>3, AppendToNone, AppendToTwo
    <3>5. Whole(s)
      BY <2>2, <2>3, <3>3, <3>4 DEF Whole
    <3>6. OnePage(s)
      <4> HIDE DEF rows, tokens, L
      <4>1. s.next = End \/ (s.kept # << >> /\ s.next = s.kept[1].token)
        BY <2>4, <3>3, <3>4
      <4>2. s.pages = 1 /\ s.last = 0 /\ s.seen = <<0>>
        BY <3>3, <3>4
      <4>3. s.log = <<Request("root", 0, 0), Request("issuer", 0, s.issuerAt),
                      Request("page", 0, s.fence)>>
        BY <3>3, <3>4
      <4> QED  BY <3>5, <4>1, <4>2, <4>3 DEF OnePage
    <3> QED  BY <1>2, <2>1, <3>1, <3>3, <3>6 DEF Checkpoint
  <2> QED  BY <2>2, <2>4
<1>7. CASE OnePage(scan)
  <2>1. PICK h : h = scan.issuerAt
    OBVIOUS
  <2>2. /\ scan.fence \in Ledgers /\ scan.kept = Asset[scan.fence] /\ scan.kept # << >>
        /\ scan.next = scan.kept[1].token /\ scan.pages = 1 /\ scan.seen = <<0>>
        /\ scan.records = Len(scan.kept)
        /\ scan.tokens = [i \in DOMAIN scan.kept |-> scan.kept[i].token]
        /\ scan.log = <<Request("root", 0, 0), Request("issuer", 0, h),
                        Request("page", 0, scan.fence)>>
    BY <1>7, <2>1 DEF OnePage, Whole
  <2>3. scan.fence = L /\ scan.fence # 0
    BY <1>4, <2>2, ServiceAssumption DEF FenceBroken
  <2>4. a.records = << >> \/ a.records = rows
    BY <1>1, <1>2, <1>3, <1>4, <2>2, <2>3, AssetPage
  <2>5. a.records = << >>
    <3>1. Len(rows) = 1 /\ scan.kept = rows
      BY <2>2, <2>3, AssetRows
    <3> HIDE DEF rows
    <3> QED  BY <1>4, <2>4, <3>1
  <2>6. SupplyPageVerdict(a) = "end"
    BY <1>1, <1>4, <2>5 DEF Positive
  <2>7. Checkpoint(SupplyAdvanced(a, End))
    <3>1. PICK s, token : s = SupplyAdvanced(a, End) /\ token = scan.next
      OBVIOUS
    <3>2. rows \o << >> = rows /\ tokens \o << >> = tokens
      BY <2>2, <2>3, AssetRows
    <3>3. /\ IsScan(s) /\ s.side = "asset" /\ s.issuerAt = h /\ s.askPages = 0
          /\ s.next = End /\ s.fence = L /\ s.pages = 1 + 1
          /\ s.records = Len(rows) + Len(<< >>) /\ s.last = token
          /\ s.seen = Append(<<0>>, token) /\ s.kept = rows \o << >>
          /\ s.log = Append(<<Request("root", 0, 0), Request("issuer", 0, h),
                              Request("page", 0, L)>>, Request("page", token, L))
          /\ s.tokens = tokens \o [i \in DOMAIN << >> |-> << >>[i].token]
      <4>1. PICK none, t : none = << >> /\ t = [i \in DOMAIN none |-> none[i].token]
        OBVIOUS
      <4>2. a.records = none /\ scan.kept = rows /\ scan.tokens = tokens
        BY <2>2, <2>3, <2>5, <4>1
      <4> HIDE DEF rows, tokens, L
      <4>3. /\ IsScan(s) /\ s.side = scan.side /\ s.issuerAt = scan.issuerAt
            /\ s.askPages = scan.askPages
            /\ s.next = End /\ s.fence = a.header /\ s.pages = scan.pages + 1
            /\ s.records = scan.records + Len(none) /\ s.last = scan.next
            /\ s.seen = Append(scan.seen, scan.next) /\ s.tokens = scan.tokens \o t
            /\ s.kept = scan.kept \o none
            /\ s.log = Append(scan.log, Request("page", scan.next, a.header))
        <5>1. PICK end : end = End /\ s = SupplyAdvanced(a, end)
          BY <3>1
        <5>2. /\ IsScan(s) /\ s.side = scan.side /\ s.issuerAt = scan.issuerAt
              /\ s.askPages = scan.askPages
              /\ s.next = end /\ s.fence = a.header /\ s.pages = scan.pages + 1
              /\ s.records = scan.records + Len(a.records) /\ s.last = scan.next
              /\ s.seen = Append(scan.seen, scan.next)
              /\ s.tokens = scan.tokens \o [i \in DOMAIN a.records |-> a.records[i].token]
              /\ s.kept = scan.kept \o a.records
              /\ s.log = Append(scan.log, Request("page", scan.next, a.header))
          <6>1. IsScan(scan)
            BY <1>2
          <6>2. LET r == SupplyAdvanced(a, end)
                IN  /\ IsScan(r) /\ r.side = scan.side /\ r.issuerAt = scan.issuerAt
                    /\ r.askPages = scan.askPages
                    /\ r.next = end /\ r.fence = a.header /\ r.pages = scan.pages + 1
                    /\ r.records = scan.records + Len(a.records) /\ r.last = scan.next
                    /\ r.seen = Append(scan.seen, scan.next)
                    /\ r.tokens = scan.tokens \o [i \in DOMAIN a.records |-> a.records[i].token]
                    /\ r.kept = scan.kept \o a.records
                    /\ r.log = Append(scan.log, Request("page", scan.next, a.header))
            BY <6>1, AdvancedIs
          <6> QED  BY <5>1, <6>2
        <5>3. t = [i \in DOMAIN a.records |-> a.records[i].token]
          BY <4>1, <4>2
        <5> QED  BY <4>2, <5>1, <5>2, <5>3
      <4>4. /\ scan.side = "asset" /\ scan.issuerAt = h /\ scan.askPages = 0 /\ a.header = L
            /\ scan.pages = 1 /\ scan.records = Len(rows) /\ scan.next = token
        BY <1>2, <2>1, <2>2, <3>1, <4>2 DEF L
      <4>5. /\ scan.seen = <<0>>
            /\ scan.log = <<Request("root", 0, 0), Request("issuer", 0, h), Request("page", 0, L)>>
        BY <2>2, <2>3
      <4> QED  BY <4>1, <4>2, <4>3, <4>4, <4>5
    <3>4. /\ s.seen = <<0, token>> /\ s.kept = rows
          /\ s.log = <<Request("root", 0, 0), Request("issuer", 0, h), Request("page", 0, L),
                       Request("page", token, L)>>
      BY <3>2, <3>3, AppendToOne, AppendToThree
    <3>5. s.tokens = tokens
      <4>1. [i \in DOMAIN << >> |-> << >>[i].token] = << >>
        OBVIOUS
      <4> QED  BY <3>2, <3>3, <4>1
    <3>6. Whole(s)
      <4>1. s.records = Len(rows)
        BY <2>2, <2>3, <3>3, AssetRows
      <4> QED  BY <2>2, <2>3, <3>3, <3>4, <3>5, <4>1 DEF Whole
    <3>7. TwoPages(s)
      <4>1. rows # << >> /\ token = rows[1].token
        BY <2>2, <2>3, <3>1
      <4> HIDE DEF rows, tokens, L
      <4>2. s.next = End /\ s.pages = 2 /\ s.last = s.kept[1].token /\ s.seen = <<0, s.last>>
        <5>1. s.pages = 2
          BY <3>3
        <5>2. s.seen = <<0, s.last>>
          BY <3>3, <3>4
        <5>3. s.last = s.kept[1].token
          BY <3>3, <3>4, <4>1
        <5> QED  BY <3>3, <5>1, <5>2, <5>3
      <4>3. s.log = <<Request("root", 0, 0), Request("issuer", 0, s.issuerAt),
                      Request("page", 0, s.fence), Request("page", s.last, s.fence)>>
        BY <3>3, <3>4
      <4>4. s.kept # << >>
        BY <3>4, <4>1
      <4> QED  BY <3>6, <4>2, <4>3, <4>4 DEF TwoPages
    <3> QED  BY <1>2, <2>1, <3>1, <3>3, <3>7 DEF Checkpoint
  <2> QED  BY <2>6, <2>7
<1> QED  BY <1>2, <1>6, <1>7

\* A checkpoint of a scan is one the connector takes back, if each of its
\* requests began before it ended.
LEMMA CheckpointsConsistent ==
    ASSUME NEW c, Checkpoint(c), c.ordered PROVE CheckpointConsistent(c)
<1>1. c.issuerAt # 0
  BY ServiceAssumption DEF Checkpoint
<1>2. PICK x, y : x = Request("root", 0, 0) /\ y = Request("issuer", 0, c.issuerAt)
  OBVIOUS
<1>3. CASE Unread(c)
  <2>1. /\ Len(c.seen) = 0 /\ Len(c.tokens) = 0 /\ DOMAIN c.seen = {} /\ DOMAIN c.tokens = {}
    BY <1>3 DEF Unread
  <2>2. Len(c.log) = 2 + c.pages /\ c.log[1] = x /\ c.log[2] = y
    BY <1>2, <1>3 DEF Unread
  <2>3. IsInjective(c.seen) /\ IsInjective(c.tokens) /\ Range(c.seen) = {}
    BY <2>1 DEF IsInjective, Range
  <2>4. /\ c.pages = 0 /\ c.fence = 0 /\ c.records = 0 /\ c.next = 0 /\ c.last = 0
        /\ c.kept = << >> /\ c.seen = << >>
    BY <1>3 DEF Unread
  <2> QED  BY <1>1, <1>2, <2>1, <2>2, <2>3, <2>4 DEF CheckpointConsistent, End
<1>4. ASSUME Whole(c)
      PROVE  /\ c.fence # 0 /\ c.records = Len(c.tokens) /\ c.records <= 1
             /\ IsInjective(c.tokens)
             /\ c.kept = << >> <=> c.records = 0
             /\ c.kept # << >> => c.tokens = <<c.kept[1].token>> /\ c.kept[1].token \in Positive
  <2>1. PICK rows, tokens : /\ rows = Asset[c.fence] /\ rows = c.kept
                            /\ tokens = c.tokens /\ tokens = [i \in DOMAIN rows |-> rows[i].token]
    BY <1>4 DEF Whole
  <2>2. c.fence \in Ledgers /\ c.fence # 0 /\ c.records = Len(rows)
    BY <1>4, <2>1, ServiceAssumption DEF Whole
  <2>3. /\ rows = << >> => tokens = << >> /\ Len(rows) = 0
        /\ rows # << >> => /\ tokens = <<rows[1].token>> /\ Len(rows) = 1
                           /\ rows[1].token \in Positive
    <3>1. PICK L : L = c.fence
      OBVIOUS
    <3>2. L \in Ledgers /\ rows = Asset[L]
      BY <2>1, <2>2, <3>1
    <3> QED  BY <2>1, <3>2, AssetRows
  <2>4. Len(tokens) = Len(rows) /\ IsInjective(tokens)
    <3>1. \A q: Len(<<q>>) = 1 /\ Len(<< >>) = 0 /\ DOMAIN <<q>> = {1} /\ DOMAIN << >> = {}
      OBVIOUS
    <3> QED  BY <2>3, <3>1 DEF IsInjective
  <2>5. c.kept # << >> => c.tokens = <<c.kept[1].token>> /\ c.kept[1].token \in Positive
    BY <2>1, <2>3
  <2>6. c.kept = << >> <=> c.records = 0
    BY <2>1, <2>2, <2>3
  <2>7. PICK n : n = c.records
    OBVIOUS
  <2>8. c.records <= 1
    <3>1. n = 0 \/ n = 1
      BY <2>2, <2>3, <2>7
    <3>2. n <= 1
      BY <3>1
    <3> QED  BY <2>7, <3>2
  <2>9. c.records = Len(c.tokens) /\ IsInjective(c.tokens)
    BY <2>1, <2>2, <2>4
  <2> QED  BY <2>2, <2>5, <2>6, <2>8, <2>9
<1>5. CASE OnePage(c)
  <2>1. Whole(c)
    BY <1>5 DEF OnePage
  <2>2. PICK z : z = Request("page", 0, c.fence)
    OBVIOUS
  <2>3. /\ c.next = End \/ (c.kept # << >> /\ c.next = c.kept[1].token)
        /\ c.pages = 1 /\ c.last = 0 /\ c.seen = <<0>> /\ c.log = <<x, y, z>>
    BY <1>2, <1>5, <2>2 DEF OnePage
  <2>4. Len(<<0>>) = 1 /\ DOMAIN <<0>> = {1} /\ <<0>>[1] = 0 /\ <<0>> # << >>
    OBVIOUS
  <2>5. /\ Len(c.seen) = 1 /\ DOMAIN c.seen = {1} /\ c.seen[1] = 0 /\ c.seen # << >>
    BY <2>3, <2>4
  <2>6. IsInjective(c.seen) /\ Range(c.seen) = {0} /\ Last(c.seen) = 0
    BY <2>5 DEF IsInjective, Range, Last
  <2>7. Len(c.log) = 2 + c.pages /\ c.log[1] = x /\ c.log[2] = y /\ c.log[2 + 1] = z
    BY <2>3
  <2>8. c.next # End => c.next # 0 /\ c.next \notin Range(c.seen)
    BY <1>4, <2>1, <2>3, <2>6 DEF Positive
  <2> QED  BY <1>1, <1>2, <1>4, <2>1, <2>2, <2>3, <2>5, <2>6, <2>7, <2>8
           DEF CheckpointConsistent
<1>6. CASE TwoPages(c)
  <2>1. Whole(c) /\ c.kept # << >>
    BY <1>6 DEF TwoPages
  <2>2. PICK token : token = c.kept[1].token
    OBVIOUS
  <2>3. PICK z, w : z = Request("page", 0, c.fence) /\ w = Request("page", token, c.fence)
    OBVIOUS
  <2>4. /\ c.next = End /\ c.pages = 2 /\ c.last = token /\ c.seen = <<0, token>>
        /\ c.log = <<x, y, z, w>>
    BY <1>2, <1>6, <2>2, <2>3 DEF TwoPages
  <2>5. token # 0
    BY <1>4, <2>1, <2>2 DEF Positive
  <2>6. /\ Len(c.seen) = 2 /\ DOMAIN c.seen = {1, 2} /\ c.seen[1] = 0 /\ c.seen[2] = token
        /\ c.seen # << >>
    BY <2>4
  <2>7. IsInjective(c.seen) /\ Last(c.seen) = token
    BY <2>5, <2>6 DEF IsInjective, Last
  <2>8. /\ Len(c.log) = 2 + c.pages /\ c.log[1] = x /\ c.log[2] = y
        /\ c.log[2 + 1] = z /\ c.log[2 + 2] = w
    BY <2>4
  <2> QED  BY <1>1, <1>2, <1>4, <2>1, <2>2, <2>3, <2>4, <2>5, <2>6, <2>7, <2>8
           DEF CheckpointConsistent
<1> QED  BY <1>3, <1>5, <1>6 DEF Checkpoint

-----------------------------------------------------------------------------
(* Every step keeps ScanInv.                                               *)

LEMMA ReturnKeeps ==
    ASSUME ScanInv, NEW r, Return(r), Returned(r), Sound(held') PROVE ScanInv'
<1>1. /\ metric' = metric /\ step' = "done" /\ result' = r
      /\ restarts' \in 0..MaxRestarts
  BY BudgetAssumption DEF Return
<1>2. Ready(metric', step', scan') /\ HeadsReady'
  BY <1>1 DEF Ready, HeadsReady
<1> QED  BY <1>1, <1>2 DEF ScanInv

LEMMA FailKeeps ==
    ASSUME ScanInv, NEW code, Fail(code) \/ FailUnsafe(code) PROVE ScanInv'
<1>1. held' = held
  BY DEF Fail, FailUnsafe
<1>2. Sound(held')
  BY <1>1 DEF ScanInv
<1>3. CASE Fail(code)
  <2>1. PICK r : r = Error(code) /\ Return(r)
    BY <1>3 DEF Fail
  <2>2. r.kind = "error" /\ r.checkpoint = NoScan
    BY <2>1 DEF Error
  <2> QED  BY <1>2, <2>1, <2>2, ReturnKeeps DEF Returned, Sound
<1>4. CASE FailUnsafe(code)
  <2>1. PICK r : r = [Error(code) EXCEPT !.restart = TRUE] /\ Return(r)
    BY <1>4 DEF FailUnsafe
  <2>2. r.kind = "error" /\ r.checkpoint = NoScan
    BY <2>1 DEF Error
  <2> QED  BY <1>2, <2>1, <2>2, ReturnKeeps DEF Returned, Sound
<1> QED  BY <1>3, <1>4

LEMMA FailAtKeeps ==
    ASSUME ScanInv, NEW code, NEW s, Checkpoint(s), NEW restart, FailAt(code, s, restart)
    PROVE  ScanInv'
<1>1. PICK r : r = [Error(code) EXCEPT !.checkpoint = s, !.restart = restart] /\ Return(r)
  BY DEF FailAt
<1>2. r.kind = "error" /\ r.checkpoint = s
  BY <1>1 DEF Error
<1>3. held' = held \/ held' = s
  BY DEF FailAt
<1>4. Sound(held')
  BY <1>3 DEF ScanInv, Sound
<1> QED  BY <1>1, <1>2, <1>4, ReturnKeeps DEF Returned, Sound

LEMMA AskKeeps ==
    ASSUME ScanInv, NEW next, NEW s, Ready(metric, next, s), next # "heads",
           Ask(next, s) \/ (next = "root" /\ restarts < MaxRestarts /\ Restart(s))
    PROVE  ScanInv'
<1>0. restarts' \in 0..MaxRestarts
  BY BudgetAssumption DEF Ask, Restart, ScanInv
<1>1. /\ step' = next /\ scan' = s
      /\ metric' = metric /\ held' = held /\ result' = result /\ roots' = roots
  BY DEF Ask, Restart
<1>2. Ready(metric', step', scan') /\ HeadsReady'
  BY <1>1 DEF HeadsReady
<1>3. Sound(held') /\ Returned(result')
  BY <1>1 DEF ScanInv
<1> QED  BY <1>0, <1>1, <1>2, <1>3 DEF ScanInv

\* The start of a scan, the root and the issuer.
LEMMA StartKeeps == ASSUME ScanInv, NEW option, Start(option) PROVE ScanInv'
<1>1. PICK code : code = (CASE metric = "circulating_supply" -> SupplyConfigError(option)
                            [] metric = "trustline_count" -> TrustlineConfigError(option)
                            [] metric = "order_book_depth" -> DepthConfigError(option))
  OBVIOUS
<1>2. PICK side : side = IF metric = "order_book_depth" THEN "ask" ELSE "asset"
  OBVIOUS
<1>3. metric \in Scanned /\ (Fail(code) \/ Ask("root", FreshScan(side)))
  BY <1>1, <1>2 DEF Start
<1>4. Ready(metric, "root", FreshScan(side))
  BY <1>2, <1>3 DEF Ready
<1> QED  BY <1>3, <1>4, FailKeeps, AskKeeps

\* The clock changes nothing of what a scan has read.
LEMMA TimedIs ==
    ASSUME NEW s, IsScan(s), NEW forward
    PROVE  LET t == Timed(s, forward)
           IN  /\ IsScan(t) /\ t.side = s.side /\ t.next = s.next /\ t.fence = s.fence
               /\ t.pages = s.pages /\ t.records = s.records /\ t.last = s.last
               /\ t.seen = s.seen /\ t.tokens = s.tokens /\ t.kept = s.kept
               /\ t.askPages = s.askPages /\ t.issuerAt = s.issuerAt /\ t.log = s.log
BY ScanFields DEF IsScan, Timed

LEMMA TimedCheckpoint ==
    ASSUME NEW s, Checkpoint(s), NEW forward PROVE Checkpoint(Timed(s, forward))
<1>1. PICK t : t = Timed(s, forward)
  OBVIOUS
<1>2. IsScan(s)
  BY DEF Checkpoint
<1>3. /\ IsScan(t) /\ t.side = s.side /\ t.next = s.next /\ t.fence = s.fence
      /\ t.pages = s.pages /\ t.records = s.records /\ t.last = s.last
      /\ t.seen = s.seen /\ t.tokens = s.tokens /\ t.kept = s.kept
      /\ t.askPages = s.askPages /\ t.issuerAt = s.issuerAt /\ t.log = s.log
  BY <1>1, <1>2, TimedIs
<1>4. /\ Unread(s) => Unread(t)
      /\ OnePage(s) => OnePage(t)
      /\ TwoPages(s) => TwoPages(t)
  BY <1>3 DEF Unread, OnePage, TwoPages, Whole
<1> QED  BY <1>1, <1>3, <1>4 DEF Checkpoint

\* A fresh scan of a book has read nothing.
LEMMA FreshIs ==
    ASSUME NEW side, NEW entry, NEW forward
    PROVE  LET s == Timed(Logged(FreshScan(side), entry), forward)
           IN  /\ IsScan(s) /\ s.side = side /\ s.next = 0 /\ s.fence = 0 /\ s.pages = 0
               /\ s.records = 0 /\ s.last = 0 /\ s.seen = << >> /\ s.tokens = << >>
               /\ s.kept = << >> /\ s.askPages = 0 /\ s.log = <<entry>>
<1>1. PICK s : s = FreshScan(side)
  OBVIOUS
<1>2. /\ IsScan(s) /\ s.side = side /\ s.next = 0 /\ s.fence = 0 /\ s.pages = 0
      /\ s.records = 0 /\ s.last = 0 /\ s.seen = << >> /\ s.tokens = << >>
      /\ s.kept = << >> /\ s.askPages = 0 /\ s.log = << >>
  BY <1>1, ScanFields DEF IsScan, FreshScan, NoScan
<1>3. PICK r : r = Logged(s, entry)
  OBVIOUS
<1>4. /\ IsScan(r) /\ r.side = s.side /\ r.next = s.next /\ r.fence = s.fence /\ r.pages = s.pages
      /\ r.records = s.records /\ r.last = s.last /\ r.seen = s.seen /\ r.tokens = s.tokens
      /\ r.kept = s.kept /\ r.askPages = s.askPages /\ r.log = Append(s.log, entry)
  BY <1>2, <1>3, ScanFields DEF Logged, IsScan
<1>5. r.log = <<entry>>
  BY <1>2, <1>4, AppendToNone
<1>6. PICK t : t = Timed(r, forward)
  OBVIOUS
<1>7. /\ IsScan(t) /\ t.side = r.side /\ t.next = r.next /\ t.fence = r.fence /\ t.pages = r.pages
      /\ t.records = r.records /\ t.last = r.last /\ t.seen = r.seen /\ t.tokens = r.tokens
      /\ t.kept = r.kept /\ t.askPages = r.askPages /\ t.log = r.log
  BY <1>4, <1>6, TimedIs
<1> QED  BY <1>1, <1>2, <1>3, <1>4, <1>5, <1>6, <1>7

LEMMA RootKeeps == ASSUME ScanInv, NEW a, NEW forward, Root(a, forward) PROVE ScanInv'
<1>1. /\ metric \in Scanned
      /\ scan = FreshScan(IF metric = "order_book_depth" THEN "ask" ELSE "asset")
  BY DEF Root, ScanInv, Ready
<1>2. PICK s : s = Timed(Logged(scan, Request("root", 0, 0)), forward)
  OBVIOUS
<1>3. \/ Fail(RootVerdict(a))
      \/ metric = "order_book_depth" /\ Ask("page", s)
      \/ metric # "order_book_depth" /\ Ask("issuer", s)
  BY <1>2 DEF Root
<1>4. CASE Fail(RootVerdict(a))
  BY <1>4, FailKeeps
<1>5. CASE metric = "order_book_depth" /\ Ask("page", s)
  <2>1. /\ IsScan(s) /\ s.side = "ask" /\ s.next = 0 /\ s.fence = 0 /\ s.kept = << >>
        /\ s.seen = << >> /\ s.pages = 0 /\ s.askPages = 0
    BY <1>1, <1>2, <1>5, FreshIs
  <2>2. Affordable(s)
    BY <2>1, BudgetAssumption DEF Affordable
  <2>3. Ready(metric, "page", s)
    BY <1>5, <2>1, <2>2 DEF Ready, Paging, BookStarted
  <2> QED  BY <1>5, <2>3, AskKeeps
<1>6. CASE metric # "order_book_depth" /\ Ask("issuer", s)
  <2>1. Ready(metric, "issuer", s)
    BY <1>1, <1>2, <1>6 DEF Ready, Scanned
  <2> QED  BY <1>6, <2>1, AskKeeps
<1> QED  BY <1>3, <1>4, <1>5, <1>6

LEMMA IssuerKeeps ==
    ASSUME ScanInv, NEW a \in IssuerAnswers(metric), NEW forward, Issuer(a, forward)
    PROVE  ScanInv'
<1>1. /\ metric \in {"circulating_supply", "trustline_count"}
      /\ \E before: scan = Timed(Logged(FreshScan("asset"), Request("root", 0, 0)), before)
  BY DEF Issuer, ScanInv, Ready
<1>2. PICK code : code = IF metric = "trustline_count" THEN TrustlineIssuerVerdict(a)
                         ELSE SupplyIssuerVerdict(a)
  OBVIOUS
<1>3. PICK s : s = Timed(Logged([scan EXCEPT !.issuerAt = a.header],
                                Request("issuer", 0, a.header)), forward)
  OBVIOUS
<1>4. Fail(code) \/ (code = "none" /\ Ask("page", s))
  BY <1>2, <1>3 DEF Issuer
<1>5. CASE Fail(code)
  BY <1>5, FailKeeps
<1>6. CASE code = "none" /\ Ask("page", s)
  <2>1. a \notin Failed(metric)
    BY <1>2, <1>6, FailureCodes DEF TrustlineIssuerVerdict, SupplyIssuerVerdict, Verdicts
  <2>2. a.header # 0
    BY <1>2, <1>6, <2>1 DEF TrustlineIssuerVerdict, SupplyIssuerVerdict, IssuerAnswers, Blank
  <2>3. a.header \in Ledgers
    BY <2>1, <2>2 DEF IssuerAnswers, Blank
  <2>4. /\ IsScan(scan) /\ scan.side = "asset" /\ scan.next = 0 /\ scan.fence = 0 /\ scan.pages = 0
        /\ scan.records = 0 /\ scan.last = 0 /\ scan.seen = << >> /\ scan.tokens = << >>
        /\ scan.kept = << >> /\ scan.askPages = 0 /\ scan.log = <<Request("root", 0, 0)>>
    BY <1>1, FreshIs
  <2>5. /\ IsScan(s) /\ s.side = scan.side /\ s.next = scan.next /\ s.fence = scan.fence
        /\ s.pages = scan.pages /\ s.records = scan.records /\ s.last = scan.last
        /\ s.seen = scan.seen /\ s.tokens = scan.tokens /\ s.kept = scan.kept
        /\ s.askPages = scan.askPages
        /\ s.issuerAt = a.header /\ s.log = Append(scan.log, Request("issuer", 0, a.header))
    BY <1>3, <2>4, ScanFields DEF Logged, Timed, IsScan
  <2>6. s.log = <<Request("root", 0, 0), Request("issuer", 0, a.header)>>
    BY <2>4, <2>5, AppendToOne
  <2>7. Unread(s)
    BY <2>4, <2>5, <2>6 DEF Unread
  <2>8. Checkpoint(s) /\ s.next # End
    BY <2>3, <2>4, <2>5, <2>7 DEF Checkpoint, End
  <2>9. Affordable(s)
    BY <2>4, <2>5, BudgetAssumption DEF Affordable
  <2>10. Ready(metric, "page", s)
    BY <1>1, <2>4, <2>5, <2>8, <2>9 DEF Ready, Paging
  <2> QED  BY <1>6, <2>10, AskKeeps
<1> QED  BY <1>4, <1>5, <1>6

\* The supply of an asset.
LEMMA SupplyOnwardKeeps ==
    ASSUME ScanInv, metric = "circulating_supply", NEW s, Checkpoint(s), SupplyOnward(s)
    PROVE  ScanInv'
<1>1. \/ \E code, restart: FailAt(code, s, restart)
      \/ s.next = End /\ s.kept # << >> /\ Ask("ledger", s)
      \/ s.next # End /\ ~ (s.pages >= MaxPages) /\ Ask("page", s)
  BY DEF SupplyOnward
<1>2. CASE \E code, restart: FailAt(code, s, restart)
  BY <1>2, FailAtKeeps
<1>3. CASE s.next = End /\ s.kept # << >> /\ Ask("ledger", s)
  <2>1. Ready(metric, "ledger", s)
    BY <1>3 DEF Ready, Closing
  <2> QED  BY <1>3, <2>1, AskKeeps
<1>4. CASE s.next # End /\ ~ (s.pages >= MaxPages) /\ Ask("page", s)
  <2>1. Affordable(s)
    <3>1. s.askPages = 0 /\ s.pages \in {0, 1, 2}
      BY DEF Checkpoint, Unread, OnePage, TwoPages
    <3> QED  BY <1>4, <3>1, BudgetAssumption DEF Affordable
  <2>2. Ready(metric, "page", s)
    BY <1>4, <2>1 DEF Ready, Paging
  <2> QED  BY <1>4, <2>2, AskKeeps
<1> QED  BY <1>1, <1>2, <1>3, <1>4

LEMMA SupplyPageKeeps ==
    ASSUME ScanInv, NEW a \in PageReplies, NEW forward, SupplyPage(a, forward) PROVE ScanInv'
<1>1. step = "page" /\ metric = "circulating_supply"
  BY DEF SupplyPage
<1>2. Checkpoint(scan) /\ scan.next # End
  BY <1>1 DEF ScanInv, Ready, Paging
<1>3. a \in PageAnswers(metric, scan.side, scan.next, PageSize)
  BY <1>1 DEF PageReplies
<1>4. \/ restarts < MaxRestarts /\ Restart(FreshScan("asset"))
      \/ FailUnsafe("ledger_changed")
      \/ /\ SupplyPageVerdict(a) = "more"
         /\ SupplyOnward(Timed(SupplyAdvanced(a, a.link.cursor), forward))
      \/ SupplyPageVerdict(a) = "end" /\ SupplyOnward(Timed(SupplyAdvanced(a, End), forward))
      \/ \E code, restart: FailAt(code, scan, restart)
  BY DEF SupplyPage
<1>5. CASE restarts < MaxRestarts /\ Restart(FreshScan("asset"))
  <2>1. Ready(metric, "root", FreshScan("asset"))
    BY <1>1 DEF Ready, Scanned
  <2> QED  BY <1>5, <2>1, AskKeeps
<1>6. CASE FailUnsafe("ledger_changed")
  BY <1>6, FailKeeps
<1>7. CASE /\ SupplyPageVerdict(a) = "more"
           /\ SupplyOnward(Timed(SupplyAdvanced(a, a.link.cursor), forward))
  <2>1. Checkpoint(Timed(SupplyAdvanced(a, a.link.cursor), forward))
    BY <1>2, <1>3, <1>7, SupplyPages, TimedCheckpoint
  <2> QED  BY <1>1, <1>7, <2>1, SupplyOnwardKeeps
<1>8. CASE SupplyPageVerdict(a) = "end" /\ SupplyOnward(Timed(SupplyAdvanced(a, End), forward))
  <2>1. Checkpoint(Timed(SupplyAdvanced(a, End), forward))
    BY <1>2, <1>3, <1>8, SupplyPages, TimedCheckpoint
  <2> QED  BY <1>1, <1>8, <2>1, SupplyOnwardKeeps
<1>9. CASE \E code, restart: FailAt(code, scan, restart)
  BY <1>2, <1>9, FailAtKeeps
<1> QED  BY <1>4, <1>5, <1>6, <1>7, <1>8, <1>9

LEMMA ResumeKeeps == ASSUME ScanInv, NEW same, Resume(same) PROVE ScanInv'
<1>1. metric = "circulating_supply" /\ held # NoScan
  BY DEF Resume
<1>2. Checkpoint(held)
  BY <1>1 DEF ScanInv, Sound
<1>3. SupplyOnward(held) \/ Fail("invalid_configuration")
  BY DEF Resume
<1> QED  BY <1>1, <1>2, <1>3, SupplyOnwardKeeps, FailKeeps

\* The only record is the whole of it.
LEMMA OnlyRecord ==
    ASSUME NEW L \in Ledgers, Asset[L] # << >>
    PROVE  DOMAIN Asset[L] = {1}
<1>1. PICK q : Asset[L] = <<q>>
  BY RecordsAssumption
<1> QED  BY <1>1

LEMMA SupplyLedgerKeeps == ASSUME ScanInv, NEW a, SupplyLedger(a) PROVE ScanInv'
<1>1. step = "ledger" /\ metric = "circulating_supply"
  BY DEF SupplyLedger
<1>2. Checkpoint(scan) /\ scan.next = End /\ scan.kept # << >>
  BY <1>1 DEF ScanInv, Ready, Closing
<1>3. \/ \E code, restart: FailAt(code, scan, restart)
      \/ Return(SupplyObservation) /\ held' = held
  BY DEF SupplyLedger
<1>4. CASE \E code, restart: FailAt(code, scan, restart)
  BY <1>2, <1>4, FailAtKeeps
<1>5. CASE Return(SupplyObservation) /\ held' = held
  <2>1. Whole(scan)
    BY <1>2 DEF Checkpoint, Unread, OnePage, TwoPages
  <2>2. scan.fence \in Ledgers /\ scan.kept = Asset[scan.fence]
    BY <2>1 DEF Whole
  <2>3. PICK L, parts : L = scan.fence /\ parts = Asset[L][1].parts
    OBVIOUS
  <2>4. PICK r : r = SupplyObservation
    OBVIOUS
  <2>5. /\ r.kind = "observation" /\ r.metric = "circulating_supply" /\ r.ledger = L
        /\ r.closedAt = ClosedAt[L] /\ r.parts = parts
    BY <1>1, <2>2, <2>3, <2>4 DEF SupplyObservation
  <2>6. DOMAIN Asset[L] = {1}
    BY <1>2, <2>2, <2>3, OnlyRecord
  <2>7. [i \in {1} |-> r.parts] = [i \in DOMAIN Asset[L] |-> Asset[L][i].parts]
    <3>1. \A i \in {1}: r.parts = Asset[L][i].parts
      BY <2>3, <2>5
    <3> QED  BY <2>6, <3>1
  <2>8. Exact(r)
    BY <2>5, <2>7 DEF Exact
  <2>9. Returned(r) /\ Sound(held')
    BY <1>5, <2>5, <2>8 DEF Returned, ScanInv
  <2> QED  BY <1>5, <2>4, <2>9, ReturnKeeps
<1> QED  BY <1>3, <1>4, <1>5

\* Its trustlines.
LEMMA TrustlinePageKeeps ==
    ASSUME ScanInv, NEW a \in PageReplies, TrustlinePage(a) PROVE ScanInv'
<1>1. step = "page" /\ metric = "trustline_count"
  BY DEF TrustlinePage
<1>2. IsScan(scan) /\ scan.side = "asset" /\ scan.next = 0
  BY <1>1 DEF ScanInv, Ready, Paging
<1>3. PICK one, zero : one = 1 /\ zero = 0
  OBVIOUS
<1>4. a \in PageAnswers(metric, "asset", zero, one)
  BY <1>1, <1>2, <1>3 DEF PageReplies
<1>5. PICK s : s = Logged([scan EXCEPT !.fence = a.header, !.kept = a.records],
                          Request("page", 0, a.header))
  OBVIOUS
<1>6. \/ Fail(TrustlinePageVerdict(a))
      \/ TrustlinePageVerdict(a) = "end" /\ Ask("ledger", s)
  BY <1>5 DEF TrustlinePage
<1>7. CASE Fail(TrustlinePageVerdict(a))
  BY <1>7, FailKeeps
<1>8. CASE TrustlinePageVerdict(a) = "end" /\ Ask("ledger", s)
  <2>1. a \in Failed(metric) \/ a.code = "ok"
    BY <1>4, PageCodes
  <2>2. a.code = "ok"
    BY <1>8, <2>1, FailureCodes DEF TrustlinePageVerdict, Verdicts
  <2>3. a.header # 0 /\ Len(a.records) = 1 /\ a.records # << >>
    BY <1>8, <2>2 DEF TrustlinePageVerdict
  <2>4. one \in Positive
    BY <1>3 DEF Positive
  <2>5. a.header \in Ledgers /\ a.records = Asset[a.header]
    <3>1. PICK m : m = metric
      OBVIOUS
    <3>2. a \in PageAnswers(m, "asset", zero, one)
      BY <1>4, <3>1
    <3>3. /\ a.header \in Ledgers
          /\ zero = 0 /\ Len(a.records) <= 1 => a.records = Asset[a.header]
      BY <2>2, <2>3, <2>4, <3>2, AssetPage
    <3>4. Len(a.records) <= 1
      BY <2>3
    <3> QED  BY <1>3, <3>3, <3>4
  <2>6. s.fence = a.header /\ s.kept = a.records
    BY <1>2, <1>5, ScanFields DEF IsScan, Logged
  <2>7. Ready(metric, "ledger", s)
    BY <1>1, <2>3, <2>5, <2>6 DEF Ready, Closing
  <2> QED  BY <1>8, <2>7, AskKeeps
<1> QED  BY <1>6, <1>7, <1>8

LEMMA TrustlineLedgerKeeps == ASSUME ScanInv, NEW a, TrustlineLedger(a) PROVE ScanInv'
<1>1. step = "ledger" /\ metric = "trustline_count"
  BY DEF TrustlineLedger
<1>2. scan.fence \in Ledgers /\ scan.kept = Asset[scan.fence] /\ scan.kept # << >>
  BY <1>1 DEF ScanInv, Ready, Closing
<1>3. \/ \E code: Fail(code)
      \/ Return(TrustlineObservation) /\ held' = held
  BY DEF TrustlineLedger
<1>4. CASE \E code: Fail(code)
  BY <1>4, FailKeeps
<1>5. CASE Return(TrustlineObservation) /\ held' = held
  <2>1. PICK L, accounts : L = scan.fence /\ accounts = Asset[L][1].accounts
    OBVIOUS
  <2>2. PICK r : r = TrustlineObservation
    OBVIOUS
  <2>3. /\ r.kind = "observation" /\ r.metric = "trustline_count" /\ r.ledger = L
        /\ r.parts = accounts
    BY <1>1, <1>2, <2>1, <2>2 DEF TrustlineObservation
  <2>4. DOMAIN Asset[L] = {1}
    BY <1>2, <2>1, OnlyRecord
  <2>5. [i \in {1} |-> r.parts] = [i \in DOMAIN Asset[L] |-> Asset[L][i].accounts]
    <3>1. \A i \in {1}: r.parts = Asset[L][i].accounts
      BY <2>1, <2>3
    <3> QED  BY <2>4, <3>1
  <2>6. Exact(r)
    BY <2>3, <2>5 DEF Exact
  <2>7. Returned(r) /\ Sound(held')
    BY <1>5, <2>3, <2>6 DEF Returned, ScanInv
  <2> QED  BY <1>5, <2>2, <2>7, ReturnKeeps
<1> QED  BY <1>3, <1>4, <1>5

\* An order book.
LEMMA DepthAdvancedIs ==
    ASSUME IsScan(scan), NEW a, NEW next
    PROVE  LET s == DepthAdvanced(a, next)
           IN  /\ IsScan(s) /\ s.side = scan.side /\ s.asks = scan.asks
               /\ s.next = next /\ s.fence = a.header
               /\ s.pages = scan.pages + 1 /\ s.askPages = scan.askPages
               /\ s.seen = Append(scan.seen, scan.next) /\ s.kept = scan.kept \o a.records
BY ScanFields DEF IsScan, DepthAdvanced, Logged

LEMMA BidScanIs ==
    ASSUME NEW s, IsScan(s)
    PROVE  LET b == BidScan(s)
           IN  /\ IsScan(b) /\ b.side = "bid" /\ b.next = 0 /\ b.fence = s.fence
               /\ b.seen = << >> /\ b.kept = << >> /\ b.asks = s.kept
               /\ b.pages = 0 /\ b.askPages = s.pages
BY ScanFields DEF IsScan, BidScan

LEMMA NothingRead == ASSUME NEW offers, Rising(offers) PROVE PrefixRead(offers, << >>, 0)
<1>1. 0 \in 0..Len(offers) /\ SubSeq(offers, 1, 0) = << >>
  BY SubSeqEmpty DEF Rising
<1> QED  BY <1>1 DEF PrefixRead, CursorAt

\* A page that is accepted goes on where the last one ended, in the same book.
LEMMA DepthPages ==
    ASSUME BookStarted(scan), NEW m, NEW a \in PageAnswers(m, scan.side, scan.next, PageSize),
           DepthPageVerdict(a) \in {"end", "more"},
           NEW next, NEW s, s = DepthAdvanced(a, next)
    PROVE  /\ IsScan(s) /\ s.side = scan.side /\ s.fence \in Ledgers /\ s.fence # 0
           /\ s.next = next /\ s.seen \in Seq(Int)
           /\ s.pages = scan.pages + 1 /\ s.askPages = scan.askPages
           /\ s.side = "bid" => s.asks = Book[s.fence].ask
           /\ DepthPageVerdict(a) = "end" => s.kept = Book[s.fence][s.side]
           /\ DepthPageVerdict(a) = "more" /\ next = a.link.cursor /\ next \notin Range(s.seen) =>
                 PrefixRead(Book[s.fence][s.side], s.kept, s.next)
<1> DEFINE L == a.header
           offers == Book[L][scan.side]
           good == Following(offers, scan.next, PageSize)
<1>1. PageSize \in Positive
  BY BudgetAssumption DEF Positive
<1>2. /\ IsScan(scan) /\ scan.side \in {"ask", "bid"} /\ scan.seen \in Seq(Int)
      /\ scan.fence = 0 => scan.side = "ask" /\ scan.kept = << >> /\ scan.next = 0
      /\ scan.fence # 0 => /\ scan.fence \in Ledgers
                           /\ PrefixRead(Book[scan.fence][scan.side], scan.kept, scan.next)
      /\ scan.side = "bid" => scan.fence # 0 /\ scan.asks = Book[scan.fence].ask
  BY DEF BookStarted
<1>3. a.code = "ok"
  <2>1. a \in Failed(m) \/ a.code = "ok"
    BY PageCodes
  <2> QED  BY <2>1, FailureCodes DEF DepthPageVerdict, Verdicts
<1>4. /\ L # 0 /\ ~ FenceBroken(a)
      /\ ~ Repeats(scan.kept \o a.records)
      /\ DepthPageVerdict(a) = "end" <=> a.link = NoLink \/ a.records = << >>
      /\ DepthPageVerdict(a) = "more" => NextAllowed(a.link)
  BY <1>3 DEF DepthPageVerdict, Repeats
<1>5. PageSays(a, scan.side, scan.next, PageSize)
  BY <1>3, <1>4, PagesSay
<1>6. /\ L \in Ledgers
      /\ \/ a.records = good
         \/ a.records = good \o good
         \/ a.records = Following(offers, 0, PageSize)
      /\ a.link.scope = "none" => a.records = << >>
      /\ \/ a.link = NoLink
         \/ a.link.scope = "foreign"
         \/ a.link.cursor = scan.next
         \/ good # << >> /\ a.link.cursor = Last(good).token
  BY <1>2, <1>5 DEF PageSays, RecordsOf
<1>7. Rising(offers)
  BY <1>2, <1>6, BooksRise
<1>8. scan.fence = 0 \/ scan.fence = L
  BY <1>4 DEF FenceBroken
<1>9. PrefixRead(offers, scan.kept, scan.next)
  BY <1>2, <1>7, <1>8, NothingRead
<1> HIDE DEF offers
<1>10. a.records = good
  <2>1. PICK kept, cursor : kept = scan.kept /\ cursor = scan.next
    OBVIOUS
  <2>2. PICK records : records = a.records
    OBVIOUS
  <2>3. PrefixRead(offers, kept, cursor) /\ ~ Repeats(kept \o records)
    BY <1>4, <1>9, <2>1, <2>2
  <2>4. Delivered(offers, cursor, PageSize, records)
    BY <1>6, <2>1, <2>2 DEF Delivered
  <2>5. records = Following(offers, cursor, PageSize)
    BY <1>1, <1>7, <2>3, <2>4, DistinctPage
  <2> QED  BY <2>1, <2>2, <2>5
<1>11. /\ scan.kept \in Seq(OfferRecord) /\ scan.next \in Int
       /\ good = << >> => scan.kept = offers
       /\ good # << >> => PrefixRead(offers, scan.kept \o good, Last(good).token)
  <2>1. PICK kept, cursor : kept = scan.kept /\ cursor = scan.next
    OBVIOUS
  <2>2. PICK g : g = Following(offers, cursor, PageSize)
    OBVIOUS
  <2>3. PrefixRead(offers, kept, cursor)
    BY <1>9, <2>1
  <2>4. /\ kept \in Seq(OfferRecord) /\ cursor \in Int
        /\ g = << >> => kept = offers
        /\ g # << >> => PrefixRead(offers, kept \o g, Last(g).token)
    BY <1>1, <1>7, <2>2, <2>3, PrefixPage
  <2> QED  BY <2>1, <2>2, <2>4
<1> HIDE DEF good
<1>12. /\ IsScan(s) /\ s.side = scan.side /\ s.asks = scan.asks /\ s.next = next /\ s.fence = L
       /\ s.pages = scan.pages + 1 /\ s.askPages = scan.askPages
       /\ s.seen = Append(scan.seen, scan.next) /\ s.kept = scan.kept \o good
  <2>1. /\ IsScan(s) /\ s.side = scan.side /\ s.asks = scan.asks /\ s.next = next
        /\ s.fence = a.header /\ s.pages = scan.pages + 1 /\ s.askPages = scan.askPages
        /\ s.seen = Append(scan.seen, scan.next) /\ s.kept = scan.kept \o a.records
    <3>1. IsScan(scan)
      BY <1>2
    <3>2. LET r == DepthAdvanced(a, next)
          IN  /\ IsScan(r) /\ r.side = scan.side /\ r.asks = scan.asks
              /\ r.next = next /\ r.fence = a.header
              /\ r.pages = scan.pages + 1 /\ r.askPages = scan.askPages
              /\ r.seen = Append(scan.seen, scan.next) /\ r.kept = scan.kept \o a.records
      BY <3>1, DepthAdvancedIs
    <3> QED  BY <3>2
  <2> QED  BY <1>10, <2>1
<1>13. s.seen \in Seq(Int) /\ scan.next \in Range(s.seen)
  <2>1. PICK seen, cursor : seen = scan.seen /\ cursor = scan.next
    OBVIOUS
  <2>2. PICK q : q = Append(seen, cursor)
    OBVIOUS
  <2>3. q \in Seq(Int) /\ Len(seen) + 1 \in DOMAIN q /\ q[Len(seen) + 1] = cursor
    BY <1>2, <1>11, <2>1, <2>2
  <2> QED  BY <1>12, <2>1, <2>2, <2>3 DEF Range
<1>14. ASSUME DepthPageVerdict(a) = "end" PROVE s.kept = offers
  <2>1. good = << >>
    BY <1>4, <1>6, <1>10, <1>14 DEF NoLink
  <2>2. scan.kept \o << >> = scan.kept
    BY <1>11, ConcatEmptySeq
  <2> QED  BY <1>11, <1>12, <2>1, <2>2
<1>15. ASSUME DepthPageVerdict(a) = "more", next = a.link.cursor, next \notin Range(s.seen)
       PROVE  PrefixRead(offers, s.kept, s.next)
  <2>1. good # << >> /\ next = Last(good).token
    BY <1>4, <1>6, <1>13, <1>15 DEF NextAllowed
  <2> QED  BY <1>11, <1>12, <2>1
<1> QED  BY <1>2, <1>4, <1>6, <1>8, <1>12, <1>13, <1>14, <1>15 DEF offers

LEMMA DepthOnwardKeeps ==
    ASSUME ScanInv, metric = "order_book_depth",
           NEW s, s.next \notin Range(s.seen) => BookStarted(s),
           s.pages \in Nat, s.askPages \in Nat, s.askPages = scan.askPages, DepthOnward(s)
    PROVE  ScanInv'
<1>1. \/ Fail("partial_scan")
      \/ FailUnsafe("duplicate_record")
      \/ ~ (s.pages >= PageBudget) /\ s.next \notin Range(s.seen) /\ Ask("page", s)
  BY DEF DepthOnward
<1>2. CASE ~ (s.pages >= PageBudget) /\ s.next \notin Range(s.seen) /\ Ask("page", s)
  <2>1. Affordable(s)
    BY <1>2, BudgetAssumption DEF Affordable, PageBudget
  <2>2. Ready(metric, "page", s)
    BY <1>2, <2>1 DEF Ready, Paging
  <2> QED  BY <1>2, <2>2, AskKeeps
<1> QED  BY <1>1, <1>2, FailKeeps

LEMMA DepthSideDoneKeeps ==
    ASSUME ScanInv, metric = "order_book_depth",
           NEW s, IsScan(s), s.side \in {"ask", "bid"}, s.fence \in Ledgers, s.fence # 0,
           s.kept = Book[s.fence][s.side], s.side = "bid" => s.asks = Book[s.fence].ask,
           s.pages \in Nat, DepthSideDone(s)
    PROVE  ScanInv'
<1>1. \/ s.side = "bid" /\ Ask("ledger", s)
      \/ Fail("partial_scan")
      \/ s.side # "bid" /\ ~ (s.pages >= MaxPages) /\ Ask("page", BidScan(s))
  BY DEF DepthSideDone
<1>2. CASE s.side = "bid" /\ Ask("ledger", s)
  <2>1. Ready(metric, "ledger", s)
    BY <1>2 DEF Ready, Closing, BookRead
  <2> QED  BY <1>2, <2>1, AskKeeps
<1>3. CASE s.side # "bid" /\ ~ (s.pages >= MaxPages) /\ Ask("page", BidScan(s))
  <2>1. PICK b : b = BidScan(s)
    OBVIOUS
  <2>2. /\ IsScan(b) /\ b.side = "bid" /\ b.next = 0 /\ b.fence = s.fence
        /\ b.seen = << >> /\ b.kept = << >> /\ b.asks = s.kept
        /\ b.pages = 0 /\ b.askPages = s.pages
    BY <2>1, BidScanIs
  <2>3. PICK offers : offers = Book[b.fence]["bid"]
    OBVIOUS
  <2>4. PrefixRead(offers, << >>, 0)
    BY <2>2, <2>3, BooksRise, NothingRead
  <2>5. PrefixRead(Book[b.fence][b.side], b.kept, b.next)
    BY <2>2, <2>3, <2>4
  <2>6. b.seen \in Seq(Int)
    BY <2>2
  <2>7. b.asks = Book[b.fence].ask
    BY <1>3, <2>2
  <2>8. BookStarted(b)
    BY <2>2, <2>5, <2>6, <2>7 DEF BookStarted
  <2>9. Affordable(b)
    BY <1>3, <2>2, BudgetAssumption DEF Affordable
  <2>10. Ready(metric, "page", b)
    BY <2>8, <2>9 DEF Ready, Paging
  <2> QED  BY <1>3, <2>1, <2>10, AskKeeps
<1> QED  BY <1>1, <1>2, <1>3, FailKeeps

LEMMA DepthPageKeeps ==
    ASSUME ScanInv, NEW a \in PageReplies, DepthPage(a) PROVE ScanInv'
<1>1. step = "page" /\ metric = "order_book_depth"
  BY DEF DepthPage
<1>2. BookStarted(scan) /\ scan.pages \in Nat /\ scan.askPages \in Nat
  BY <1>1 DEF ScanInv, Ready, Paging, Affordable
<1>3. a \in PageAnswers(metric, scan.side, scan.next, PageSize)
  BY <1>1 DEF PageReplies
<1>4. PICK m : m = metric
  OBVIOUS
<1>5. \/ restarts < MaxRestarts /\ Restart(FreshScan("ask"))
      \/ \E code: Fail(code) \/ FailUnsafe(code)
      \/ DepthPageVerdict(a) = "more" /\ DepthOnward(DepthAdvanced(a, a.link.cursor))
      \/ DepthPageVerdict(a) = "end" /\ DepthSideDone(DepthAdvanced(a, End))
  BY DEF DepthPage
<1>6. CASE restarts < MaxRestarts /\ Restart(FreshScan("ask"))
  <2>1. Ready(metric, "root", FreshScan("ask"))
    BY <1>1 DEF Ready, Scanned
  <2> QED  BY <1>6, <2>1, AskKeeps
<1>7. CASE \E code: Fail(code) \/ FailUnsafe(code)
  BY <1>7, FailKeeps
<1>8. CASE DepthPageVerdict(a) = "more" /\ DepthOnward(DepthAdvanced(a, a.link.cursor))
  <2>1. PICK next, s : next = a.link.cursor /\ s = DepthAdvanced(a, next)
    OBVIOUS
  <2>2. /\ IsScan(s) /\ s.side = scan.side /\ s.fence \in Ledgers /\ s.fence # 0
        /\ s.next = next /\ s.seen \in Seq(Int)
        /\ s.pages = scan.pages + 1 /\ s.askPages = scan.askPages
        /\ s.side = "bid" => s.asks = Book[s.fence].ask
        /\ next \notin Range(s.seen) => PrefixRead(Book[s.fence][s.side], s.kept, s.next)
    BY <1>2, <1>3, <1>4, <1>8, <2>1, DepthPages
  <2>3. s.next \notin Range(s.seen) => BookStarted(s)
    BY <1>2, <2>2 DEF BookStarted
  <2>4. s.pages \in Nat /\ s.askPages \in Nat /\ s.askPages = scan.askPages
    BY <1>2, <2>2
  <2> QED  BY <1>1, <1>8, <2>1, <2>3, <2>4, DepthOnwardKeeps
<1>9. CASE DepthPageVerdict(a) = "end" /\ DepthSideDone(DepthAdvanced(a, End))
  <2>1. PICK next, s : next = End /\ s = DepthAdvanced(a, next)
    OBVIOUS
  <2>2. /\ IsScan(s) /\ s.side = scan.side /\ s.fence \in Ledgers /\ s.fence # 0
        /\ s.side = "bid" => s.asks = Book[s.fence].ask
        /\ s.kept = Book[s.fence][s.side] /\ s.pages = scan.pages + 1
    BY <1>2, <1>3, <1>4, <1>9, <2>1, DepthPages
  <2>3. s.side \in {"ask", "bid"} /\ s.pages \in Nat
    BY <1>2, <2>2 DEF BookStarted
  <2> QED  BY <1>1, <1>9, <2>1, <2>2, <2>3, DepthSideDoneKeeps
<1> QED  BY <1>5, <1>6, <1>7, <1>8, <1>9

LEMMA DepthLedgerKeeps == ASSUME ScanInv, NEW a, NEW now, DepthLedger(a, now) PROVE ScanInv'
<1>1. step = "ledger" /\ metric = "order_book_depth"
  BY DEF DepthLedger
<1>2. scan.fence \in Ledgers /\ scan.kept = Book[scan.fence].bid /\ scan.asks = Book[scan.fence].ask
  BY <1>1 DEF ScanInv, Ready, Closing, BookRead
<1>3. \/ \E code: Fail(code)
      \/ Return(DepthObservation) /\ held' = held
  BY DEF DepthLedger
<1>4. CASE \E code: Fail(code)
  BY <1>4, FailKeeps
<1>5. CASE Return(DepthObservation) /\ held' = held
  <2>1. PICK L, asked, bidding : L = scan.fence /\ asked = Book[L].ask /\ bidding = Book[L].bid
    OBVIOUS
  <2>2. asked \in Seq(OfferRecord) /\ bidding \in Seq(OfferRecord)
    <3>1. Book[L]["ask"] \in Seq(OfferRecord) /\ Book[L]["bid"] \in Seq(OfferRecord)
      BY <1>2, <2>1, RecordsAssumption
    <3> QED  BY <2>1, <3>1
  <2>3. PICK asks, bids : asks = SortedLevels("ask", asked) /\ bids = SortedLevels("bid", bidding)
    OBVIOUS
  <2>4. PICK r : r = DepthObservation
    OBVIOUS
  <2>5. /\ r.kind = "observation" /\ r.metric = "order_book_depth" /\ r.ledger = L
        /\ r.asks = asks /\ r.bids = bids /\ r.buckets = Buckets(bids, asks)
    BY <1>1, <1>2, <2>1, <2>3, <2>4 DEF DepthObservation
  <2>6. /\ Len(asks) = Len(asked) /\ Len(bids) = Len(bidding)
        /\ Range(asks) = {Level("ask", o): o \in Range(asked)}
        /\ Range(bids) = {Level("bid", o): o \in Range(bidding)}
    BY <2>2, <2>3, SortedLevelsOf
  <2>7. Exact(r)
    BY <2>1, <2>5, <2>6 DEF Exact
  <2>8. Executable(r)
    BY <2>2, <2>3, <2>5, BookExecutable DEF Executable
  <2>9. Returned(r) /\ Sound(held')
    BY <1>5, <2>5, <2>7, <2>8 DEF Returned, ScanInv
  <2> QED  BY <1>5, <2>4, <2>9, ReturnKeeps
<1> QED  BY <1>3, <1>4, <1>5

\* The latest ledger, an archive artifact, and the caller.
LEMMA RootsKeeps ==
    ASSUME ScanInv, NEW answers \in [Endpoints -> RootAnswers("latest_ledger")], Roots(answers)
    PROVE  ScanInv'
<1>1. /\ step' = "heads" /\ roots' = answers /\ metric = "latest_ledger"
      /\ metric' = metric /\ held' = held /\ result' = result /\ restarts' = restarts
  BY DEF Roots
<1>2. DOMAIN roots' = Endpoints
  BY <1>1
<1>3. Ready(metric', step', scan') /\ HeadsReady'
  BY <1>1, <1>2 DEF Ready, HeadsReady
<1>4. Sound(held') /\ Returned(result')
  BY <1>1 DEF ScanInv
<1> QED  BY <1>1, <1>3, <1>4 DEF ScanInv

LEMMA HeadsKeeps ==
    ASSUME ScanInv, NEW answers \in [Accepted(roots) -> HeadAnswers], Heads(answers)
    PROVE  ScanInv'
<1>1. metric = "latest_ledger" /\ DOMAIN roots = Endpoints
  BY DEF Heads, ScanInv, HeadsReady
<1> DEFINE code == [e \in Endpoints |-> IF e \in Accepted(roots) THEN HeadVerdict(answers[e])
                                        ELSE RootVerdict(roots[e])]
           heads == [e \in {d \in Endpoints: code[d] = "none"} |-> answers[e].header]
<1>2. ASSUME NEW e \in Endpoints, code[e] = "none" PROVE answers[e].header \in Ledgers
  <2>1. e \in Accepted(roots)
    <3>1. e \notin Accepted(roots) => RootVerdict(roots[e]) # "none"
      BY <1>1 DEF Accepted
    <3> QED  BY <1>2, <3>1
  <2>2. PICK a \in HeadAnswers : a = answers[e]
    BY <2>1
  <2>3. HeadVerdict(a) = "none"
    BY <1>2, <2>1, <2>2
  <2>4. a \notin Failed("latest_ledger")
    BY <2>3, FailureCodes DEF HeadVerdict, Verdicts
  <2>5. a.content # "another" /\ a.content # "malformed"
    <3>1. a.code = "ok"
      BY <2>4 DEF HeadAnswers, Blank
    <3> QED  BY <2>3, <3>1 DEF HeadVerdict
  <2>6. a \in {[Blank EXCEPT !.header = L]: L \in Ledgers}
    BY <2>4, <2>5 DEF HeadAnswers, Blank
  <2>7. a.header \in Ledgers
    BY <2>6 DEF Blank
  <2> QED  BY <2>2, <2>7
<1>3. Range(heads) \subseteq Ledgers
  <2>1. \A e \in DOMAIN heads: e \in Endpoints /\ code[e] = "none" /\ heads[e] = answers[e].header
    OBVIOUS
  <2> HIDE DEF heads, code
  <2> QED  BY <1>2, <2>1 DEF Range
<1>4. PICK r : /\ Return(r) /\ r.kind = "observation" /\ r.metric = "latest_ledger"
               /\ r.heads = heads
  <2>1. PICK errors, excluded :
           Return([kind |-> "observation", metric |-> metric, heads |-> heads,
                   errors |-> errors, excluded |-> excluded])
    BY DEF Heads
  <2> HIDE DEF heads, code
  <2> QED  BY <1>1, <2>1
<1>5. held' = held
  BY DEF Heads
<1> HIDE DEF heads, code
<1>6. Exact(r)
  BY <1>3, <1>4 DEF Exact
<1>7. Returned(r) /\ Sound(held')
  BY <1>4, <1>5, <1>6 DEF Returned, ScanInv
<1> QED  BY <1>4, <1>7, ReturnKeeps

LEMMA ReadArchiveKeeps ==
    ASSUME ScanInv, NEW option, NEW event \in Events \cup {"none"}, NEW artifact, NEW manifest,
           NEW now, ReadArchive(option, event, artifact, manifest, now)
    PROVE  ScanInv'
<1>1. metric = "archive"
  BY DEF ReadArchive
<1>2. ArchiveVerdict(artifact, manifest, now) = "none" =>
          artifact.ledger = manifest.ledger /\ artifact.hash = manifest.hash
  BY DEF ArchiveVerdict, CheckpointMatches
<1>3. event # "none" => ArchiveRequest(event) # "none"
  BY DEF Events, ArchiveRequest
<1>4. CASE \E code: Fail(code)
  BY <1>4, FailKeeps
<1>5. CASE ~ \E code: Fail(code)
  <2>1. PICK r : /\ r = [kind |-> "observation", metric |-> metric,
                         ledger |-> artifact.ledger, closedAt |-> artifact.closedAt,
                         hash |-> artifact.hash, parts |-> artifact.parts,
                         amount |-> ArtifactTotal(artifact), manifest |-> manifest]
                 /\ Return(r) /\ held' = held
    BY <1>5 DEF ReadArchive
  <2>2. ArchiveVerdict(artifact, manifest, now) = "none"
    BY <1>3, <1>5 DEF ReadArchive
  <2>3. r.kind = "observation" /\ r.metric = "archive"
    BY <1>1, <2>1
  <2>4. r.ledger = artifact.ledger /\ r.hash = artifact.hash /\ r.manifest = manifest
    BY <2>1
  <2>5. Exact(r)
    BY <1>2, <2>2, <2>3, <2>4 DEF Exact
  <2>6. Returned(r) /\ Sound(held')
    BY <2>1, <2>3, <2>5 DEF Returned, ScanInv
  <2> QED  BY <2>1, <2>6, ReturnKeeps
<1> QED  BY <1>4, <1>5

LEMMA AbortKeeps == ASSUME ScanInv, Abort PROVE ScanInv'
<1>1. \/ \E code: Fail(code)
      \/ Return([kind |-> "thrown"]) /\ held' = held
  BY DEF Abort
<1>2. CASE \E code: Fail(code)
  BY <1>2, FailKeeps
<1>3. CASE Return([kind |-> "thrown"]) /\ held' = held
  <2>1. PICK r : r = [kind |-> "thrown"] /\ Return(r)
    BY <1>3
  <2>2. Returned(r) /\ Sound(held')
    BY <1>3, <2>1 DEF Returned, ScanInv
  <2> QED  BY <2>1, <2>2, ReturnKeeps
<1> QED  BY <1>1, <1>2, <1>3

LEMMA TakeKeeps == ASSUME ScanInv, Take PROVE ScanInv'
<1>1. /\ step' = "idle" /\ metric' = metric /\ result' = NoResult
      /\ held' = held /\ restarts' = restarts
  BY DEF Take
<1>2. Ready(metric', step', scan') /\ HeadsReady'
  BY <1>1 DEF Ready, HeadsReady
<1>3. Sound(held') /\ Returned(result')
  BY <1>1 DEF ScanInv, Returned, NoResult
<1> QED  BY <1>1, <1>2, <1>3 DEF ScanInv

LEMMA ScanInvInit == Init => ScanInv
BY BudgetAssumption DEF Init, ScanInv, Ready, HeadsReady, Sound, Returned, NoResult

LEMMA ScanInvNext == ScanInv /\ [Next]_vars => ScanInv'
<1> SUFFICES ASSUME ScanInv, [Next]_vars PROVE ScanInv'
  OBVIOUS
<1>1. CASE \E option \in Options: Start(option)
  BY <1>1, StartKeeps
<1>2. CASE \E same \in BOOLEAN: Resume(same)
  BY <1>2, ResumeKeeps
<1>3. CASE \E answers \in [Endpoints -> RootAnswers("latest_ledger")]: Roots(answers)
  BY <1>3, RootsKeeps
<1>4. CASE \E option \in Options, event \in Events \cup {"none"}, artifact \in Artifacts,
              manifest \in Manifests, now \in Times:
               ReadArchive(option, event, artifact, manifest, now)
  BY <1>4, ReadArchiveKeeps
<1>5. CASE Answered
  <2>1. CASE \E a \in RootAnswers(metric), forward \in Forward: Root(a, forward)
    BY <2>1, RootKeeps
  <2>2. CASE \E a \in IssuerAnswers(metric), forward \in Forward: Issuer(a, forward)
    BY <2>2, IssuerKeeps
  <2>3. CASE \E a \in PageReplies, forward \in Forward: SupplyPage(a, forward)
    BY <2>3, SupplyPageKeeps
  <2>4. CASE \E a \in PageReplies: TrustlinePage(a)
    BY <2>4, TrustlinePageKeeps
  <2>5. CASE \E a \in PageReplies: DepthPage(a)
    BY <2>5, DepthPageKeeps
  <2>6. CASE \E a \in LedgerAnswers(metric): SupplyLedger(a)
    BY <2>6, SupplyLedgerKeeps
  <2>7. CASE \E a \in LedgerAnswers(metric): TrustlineLedger(a)
    BY <2>7, TrustlineLedgerKeeps
  <2>8. CASE \E a \in LedgerAnswers(metric), now \in Times: DepthLedger(a, now)
    BY <2>8, DepthLedgerKeeps
  <2>9. CASE \E answers \in [Accepted(roots) -> HeadAnswers]: Heads(answers)
    BY <2>9, HeadsKeeps
  <2> QED  BY <1>5, <2>1, <2>2, <2>3, <2>4, <2>5, <2>6, <2>7, <2>8, <2>9 DEF Answered
<1>6. CASE Abort
  BY <1>6, AbortKeeps
<1>7. CASE Take
  BY <1>7, TakeKeeps
<1>8. CASE UNCHANGED vars
  <2>1. /\ metric' = metric /\ step' = step /\ scan' = scan /\ roots' = roots
        /\ held' = held /\ result' = result /\ restarts' = restarts
    BY <1>8 DEF vars
  <2>2. Ready(metric', step', scan') /\ HeadsReady'
    BY <2>1 DEF ScanInv, HeadsReady
  <2> QED  BY <2>1, <2>2 DEF ScanInv
<1> QED  BY <1>1, <1>2, <1>3, <1>4, <1>5, <1>6, <1>7, <1>8 DEF Next

-----------------------------------------------------------------------------
(* The work a scan has left.                                               *)

\* The requests still to be answered before the scan ends or restarts.
Left(request, s) ==
    CASE request = "root" -> MaxPages + 3
      [] request = "issuer" -> MaxPages + 2
      [] request = "page" -> MaxPages - (s.askPages + s.pages) + 1
      [] request \in {"ledger", "heads"} -> 1
      [] OTHER -> 0

InProgress == step \notin {"idle", "done"}

Shrinks ==
    \/ step' = "done"
    \/ restarts' = restarts + 1 /\ restarts' <= MaxRestarts
    \/ /\ restarts' = restarts
       /\ Left(step, scan) \in Nat /\ Left(step', scan') \in Nat
       /\ Left(step', scan') < Left(step, scan)

LEMMA ReturnShrinks ==
    ASSUME NEW code, NEW s, NEW restart,
           Fail(code) \/ FailUnsafe(code) \/ FailAt(code, s, restart)
    PROVE  Shrinks
BY DEF Fail, FailUnsafe, FailAt, Return, Shrinks

\* A scan that goes on asks for less, or restarts within the bound.
LEMMA AskShrinks ==
    ASSUME NEW next, NEW s, Ask(next, s), NEW n \in Nat, NEW m \in Nat,
           Left(step, scan) = n, Left(next, s) = m, m < n
    PROVE  Shrinks
BY DEF Ask, Shrinks

LEMMA RestartShrinks ==
    ASSUME ScanInv, restarts < MaxRestarts, NEW s, Restart(s) PROVE Shrinks
BY BudgetAssumption DEF Restart, Shrinks, ScanInv

LEMMA PageLeft ==
    ASSUME ScanInv, step = "page"
    PROVE  /\ scan.pages \in Nat /\ scan.askPages \in Nat
           /\ Left(step, scan) = MaxPages - (scan.askPages + scan.pages) + 1
           /\ Left(step, scan) \in Nat /\ Left(step, scan) > 1
BY BudgetAssumption DEF ScanInv, Ready, Affordable, Left

LEMMA RootShrinks == ASSUME ScanInv, NEW a, NEW forward, Root(a, forward) PROVE Shrinks
<1>1. /\ step = "root" /\ metric \in Scanned
      /\ scan = FreshScan(IF metric = "order_book_depth" THEN "ask" ELSE "asset")
  BY DEF Root, ScanInv, Ready
<1>2. PICK s : s = Timed(Logged(scan, Request("root", 0, 0)), forward)
  OBVIOUS
<1>3. Fail(RootVerdict(a)) \/ Ask("page", s) \/ Ask("issuer", s)
  BY <1>2 DEF Root
<1>4. s.pages = 0 /\ s.askPages = 0
  BY <1>1, <1>2, FreshIs
<1>5. /\ Left(step, scan) = MaxPages + 3 /\ Left("page", s) = MaxPages + 1
      /\ Left("issuer", s) = MaxPages + 2 /\ MaxPages \in Nat
  BY <1>1, <1>4, BudgetAssumption DEF Left
<1>6. /\ Left(step, scan) \in Nat /\ Left("page", s) \in Nat /\ Left("issuer", s) \in Nat
      /\ Left("page", s) < Left(step, scan) /\ Left("issuer", s) < Left(step, scan)
  BY <1>5
<1> QED  BY <1>3, <1>6, ReturnShrinks, AskShrinks

LEMMA IssuerShrinks == ASSUME ScanInv, NEW a, NEW forward, Issuer(a, forward) PROVE Shrinks
<1>1. /\ step = "issuer"
      /\ \E before: scan = Timed(Logged(FreshScan("asset"), Request("root", 0, 0)), before)
  BY DEF Issuer, ScanInv, Ready
<1>2. PICK s : s = Timed(Logged([scan EXCEPT !.issuerAt = a.header],
                                Request("issuer", 0, a.header)), forward)
  OBVIOUS
<1>3. (\E code: Fail(code)) \/ Ask("page", s)
  BY <1>2 DEF Issuer
<1>4. IsScan(scan) /\ scan.pages = 0 /\ scan.askPages = 0
  BY <1>1, FreshIs
<1>5. s.pages = 0 /\ s.askPages = 0
  BY <1>2, <1>4, ScanFields DEF Logged, Timed, IsScan
<1>6. /\ Left(step, scan) = MaxPages + 2 /\ Left("page", s) = MaxPages + 1 /\ MaxPages \in Nat
  BY <1>1, <1>5, BudgetAssumption DEF Left
<1>7. Left(step, scan) \in Nat /\ Left("page", s) \in Nat /\ Left("page", s) < Left(step, scan)
  BY <1>6
<1> QED  BY <1>3, <1>7, ReturnShrinks, AskShrinks

LEMMA SupplyAdvancedPages ==
    ASSUME IsScan(scan), NEW a, NEW next, NEW forward
    PROVE  LET s == Timed(SupplyAdvanced(a, next), forward)
           IN  s.pages = scan.pages + 1 /\ s.askPages = scan.askPages
BY ScanFields DEF IsScan, SupplyAdvanced, Logged, Timed

LEMMA SupplyPageShrinks ==
    ASSUME ScanInv, NEW a, NEW forward, SupplyPage(a, forward) PROVE Shrinks
<1>1. step = "page" /\ metric = "circulating_supply"
  BY DEF SupplyPage
<1>2. IsScan(scan) /\ scan.askPages = 0
  BY <1>1 DEF ScanInv, Ready, Paging, Checkpoint
<1>3. \/ restarts < MaxRestarts /\ Restart(FreshScan("asset"))
      \/ FailUnsafe("ledger_changed")
      \/ \E next: SupplyOnward(Timed(SupplyAdvanced(a, next), forward))
      \/ \E code, restart: FailAt(code, scan, restart)
  BY DEF SupplyPage
<1>4. CASE \E next: SupplyOnward(Timed(SupplyAdvanced(a, next), forward))
  <2>1. PICK next, s : s = Timed(SupplyAdvanced(a, next), forward) /\ SupplyOnward(s)
    BY <1>4
  <2>2. s.pages = scan.pages + 1 /\ s.askPages = scan.askPages
    BY <1>2, <2>1, SupplyAdvancedPages
  <2>3. \/ \E code, restart: FailAt(code, s, restart)
        \/ Ask("ledger", s)
        \/ ~ (s.pages >= MaxPages) /\ Ask("page", s)
    BY <2>1 DEF SupplyOnward
  <2>4. Left("ledger", s) = 1
    BY DEF Left
  <2>5. CASE ~ (s.pages >= MaxPages) /\ Ask("page", s)
    <3>1. Left("page", s) = MaxPages - (s.askPages + s.pages) + 1
      BY DEF Left
    <3>2. Left("page", s) \in Nat /\ Left("page", s) < Left(step, scan)
      BY <1>1, <1>2, <2>2, <2>5, <3>1, PageLeft, BudgetAssumption
    <3> QED  BY <1>1, <2>5, <3>2, PageLeft, AskShrinks
  <2>6. CASE Ask("ledger", s)
    BY <1>1, <2>4, <2>6, PageLeft, AskShrinks
  <2> QED  BY <2>3, <2>5, <2>6, ReturnShrinks
<1> QED  BY <1>3, <1>4, RestartShrinks, ReturnShrinks

LEMMA TrustlinePageShrinks == ASSUME ScanInv, NEW a, TrustlinePage(a) PROVE Shrinks
<1>1. step = "page"
  BY DEF TrustlinePage
<1>2. (\E code: Fail(code)) \/ \E s: Ask("ledger", s)
  BY DEF TrustlinePage
<1>3. \A s: Left("ledger", s) = 1
  BY DEF Left
<1> QED  BY <1>1, <1>2, <1>3, PageLeft, ReturnShrinks, AskShrinks

LEMMA DepthPageShrinks == ASSUME ScanInv, NEW a, DepthPage(a) PROVE Shrinks
<1>1. step = "page" /\ metric = "order_book_depth"
  BY DEF DepthPage
<1>2. IsScan(scan) /\ scan.side \in {"ask", "bid"} /\ (scan.side = "ask" => scan.askPages = 0)
  BY <1>1 DEF ScanInv, Ready, Paging, BookStarted
<1>3. \/ restarts < MaxRestarts /\ Restart(FreshScan("ask"))
      \/ \E code: Fail(code) \/ FailUnsafe(code)
      \/ \E next: DepthOnward(DepthAdvanced(a, next))
      \/ \E next: DepthSideDone(DepthAdvanced(a, next))
  BY DEF DepthPage
<1>4. CASE \E next: DepthOnward(DepthAdvanced(a, next))
  <2>1. PICK next, s : s = DepthAdvanced(a, next) /\ DepthOnward(s)
    BY <1>4
  <2>2. s.pages = scan.pages + 1 /\ s.askPages = scan.askPages
    <3>1. IsScan(scan)
      BY <1>2
    <3>2. LET r == DepthAdvanced(a, next)
          IN  /\ IsScan(r) /\ r.side = scan.side /\ r.asks = scan.asks
              /\ r.next = next /\ r.fence = a.header
              /\ r.pages = scan.pages + 1 /\ r.askPages = scan.askPages
              /\ r.seen = Append(scan.seen, scan.next) /\ r.kept = scan.kept \o a.records
      BY <3>1, DepthAdvancedIs
    <3> QED  BY <2>1, <3>2
  <2>3. \/ \E code: Fail(code) \/ FailUnsafe(code)
        \/ ~ (s.pages >= PageBudget) /\ Ask("page", s)
    BY <2>1 DEF DepthOnward
  <2>4. CASE ~ (s.pages >= PageBudget) /\ Ask("page", s)
    <3>1. Left("page", s) = MaxPages - (s.askPages + s.pages) + 1
      BY DEF Left
    <3>2. Left("page", s) \in Nat /\ Left("page", s) < Left(step, scan)
      BY <1>1, <2>2, <2>4, <3>1, PageLeft, BudgetAssumption DEF PageBudget
    <3> QED  BY <1>1, <2>4, <3>2, PageLeft, AskShrinks
  <2> QED  BY <2>3, <2>4, ReturnShrinks
<1>5. CASE \E next: DepthSideDone(DepthAdvanced(a, next))
  <2>1. PICK next, s : s = DepthAdvanced(a, next) /\ DepthSideDone(s)
    BY <1>5
  <2>2. /\ IsScan(s) /\ s.side = scan.side
        /\ s.pages = scan.pages + 1 /\ s.askPages = scan.askPages
    <3>1. IsScan(scan)
      BY <1>2
    <3>2. LET r == DepthAdvanced(a, next)
          IN  /\ IsScan(r) /\ r.side = scan.side /\ r.asks = scan.asks
              /\ r.next = next /\ r.fence = a.header
              /\ r.pages = scan.pages + 1 /\ r.askPages = scan.askPages
              /\ r.seen = Append(scan.seen, scan.next) /\ r.kept = scan.kept \o a.records
      BY <3>1, DepthAdvancedIs
    <3> QED  BY <2>1, <3>2
  <2>3. \/ Ask("ledger", s)
        \/ \E code: Fail(code)
        \/ s.side # "bid" /\ ~ (s.pages >= MaxPages) /\ Ask("page", BidScan(s))
    BY <2>1 DEF DepthSideDone
  <2>4. Left("ledger", s) = 1
    BY DEF Left
  <2>5. CASE s.side # "bid" /\ ~ (s.pages >= MaxPages) /\ Ask("page", BidScan(s))
    <3>1. PICK b : b = BidScan(s)
      OBVIOUS
    <3>2. b.pages = 0 /\ b.askPages = s.pages
      BY <2>2, <3>1, BidScanIs
    <3>3. Left("page", b) = MaxPages - (b.askPages + b.pages) + 1
      BY DEF Left
    <3>4. scan.askPages = 0
      BY <1>2, <2>2, <2>5
    <3>5. Left("page", b) \in Nat /\ Left("page", b) < Left(step, scan)
      BY <1>1, <2>2, <2>5, <3>2, <3>3, <3>4, PageLeft, BudgetAssumption
    <3> QED  BY <1>1, <2>5, <3>1, <3>5, PageLeft, AskShrinks
  <2>6. CASE Ask("ledger", s)
    BY <1>1, <2>4, <2>6, PageLeft, AskShrinks
  <2> QED  BY <2>3, <2>5, <2>6, ReturnShrinks
<1> QED  BY <1>3, <1>4, <1>5, RestartShrinks, ReturnShrinks

LEMMA NextShrinks == ASSUME ScanInv, InProgress, Next PROVE Shrinks
<1>1. CASE Answered
  <2>1. CASE \E a \in LedgerAnswers(metric): SupplyLedger(a)
    BY <2>1 DEF SupplyLedger, FailAt, Return, Shrinks
  <2>2. CASE \E a \in LedgerAnswers(metric): TrustlineLedger(a)
    BY <2>2 DEF TrustlineLedger, Fail, Return, Shrinks
  <2>3. CASE \E a \in LedgerAnswers(metric), now \in Times: DepthLedger(a, now)
    <3>1. step' = "done"
      BY <2>3 DEF DepthLedger, Fail, Return
    <3> QED  BY <3>1 DEF Shrinks
  <2>4. CASE \E answers \in [Accepted(roots) -> HeadAnswers]: Heads(answers)
    <3>1. step' = "done"
      BY <2>4 DEF Heads, Return
    <3> QED  BY <3>1 DEF Shrinks
  <2> QED  BY <1>1, <2>1, <2>2, <2>3, <2>4, RootShrinks, IssuerShrinks, SupplyPageShrinks,
              TrustlinePageShrinks, DepthPageShrinks DEF Answered
<1>2. CASE Abort
  <2>1. step' = "done"
    BY <1>2 DEF Abort, Fail, Return
  <2> QED  BY <2>1 DEF Shrinks
<1>3. ~ \E option: Start(option)
  BY DEF Start, InProgress
<1>4. ~ \E same: Resume(same)
  BY DEF Resume, InProgress
<1>5. ~ \E answers: Roots(answers)
  BY DEF Roots, InProgress
<1>6. ~ \E option, event, artifact, manifest, now:
           ReadArchive(option, event, artifact, manifest, now)
  BY DEF ReadArchive, InProgress
<1>7. ~ Take
  BY DEF Take, InProgress
<1> QED  BY <1>1, <1>2, <1>3, <1>4, <1>5, <1>6, <1>7 DEF Next

-----------------------------------------------------------------------------
(* Theorems.                                                               *)

\* What a scan has read between two requests is the beginning of one side of
\* one ledger's book, or the whole of one ledger's asset, and every checkpoint
\* the caller may keep is of such a scan (scanSide of horizon-depth.ts, the
\* page loop of horizon-supply.ts).
THEOREM ScanInvHolds == Spec => []ScanInv
<1>1. Init => ScanInv
  BY ScanInvInit
<1>2. ScanInv /\ [Next]_vars => ScanInv'
  BY ScanInvNext
<1> QED  BY <1>1, <1>2, PTL DEF Spec

\* An observation is the complete state of the ledger it names, whatever
\* ledgers, repetitions and false links the answers before it brought.
THEOREM SnapshotExactHolds == Spec => []SnapshotExact
<1>1. ScanInv => SnapshotExact
  BY DEF ScanInv, Returned, SnapshotExact
<1> QED  BY <1>1, ScanInvHolds, PTL

\* Every checkpoint an error leaves, unless it asks to restart or the clock was
\* set back while one of its requests was in flight, passes
\* assertCheckpointConsistent, after any number of resumed scans.
THEOREM CheckpointResumableHolds == Spec => []CheckpointResumable
<1>1. ScanInv => CheckpointResumable
  BY CheckpointsConsistent DEF ScanInv, Returned, Sound, CheckpointResumable
<1> QED  BY <1>1, ScanInvHolds, PTL

\* No bucket of an observed book promises more than its offers can execute,
\* for any prices, amounts and bands.
THEOREM BucketsExecutableHolds == Spec => []BucketsExecutable
<1>1. ScanInv => BucketsExecutable
  BY DEF ScanInv, Returned, BucketsExecutable
<1> QED  BY <1>1, ScanInvHolds, PTL

\* Every step of a scan in progress ends it, spends one of its restarts, or
\* leaves it fewer requests, however the answers alternate: with the time limit
\* of each request, no scan goes on for ever (the page budgets of scanSide and of
\* the page loop, maxLedgerRestarts).
THEOREM ScanShrinks == Spec => [][InProgress => Shrinks]_vars
<1>1. ScanInv /\ [Next]_vars => [InProgress => Shrinks]_vars
  BY NextShrinks
<1> QED  BY <1>1, ScanInvHolds, PTL DEF Spec
=============================================================================

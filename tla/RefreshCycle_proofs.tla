------------------------ MODULE RefreshCycle_proofs -------------------------
(***************************************************************************)
(* Proofs about RefreshCycle and the arithmetic of Reconciliation, for any *)
(* sources, routes, answers and error codes.                               *)
(*                                                                         *)
(* The weights of a reconciliation are added up by a fold over a finite    *)
(* set.  The first part shows what such a sum is, from the well-foundedness*)
(* of strict inclusion on finite sets: a property that fails for some      *)
(* subset fails for a smallest one.                                        *)
(***************************************************************************)
EXTENDS RefreshCycle, FiniteSetTheorems, TLAPS

-----------------------------------------------------------------------------
(* Sums over finite sets.                                                  *)

LEMMA SmallestSubset ==
    ASSUME NEW S, IsFiniteSet(S), NEW T \in SUBSET SUBSET S, T # {}
    PROVE  \E x \in T: \A y \in T: y \subseteq x => y = x
<1>1. IsWellFoundedOn(StrictSubsetOrdering(S), FiniteSubsetsOf(S))
  BY FS_StrictSubsetOrderingWellFounded
<1>2. T \subseteq FiniteSubsetsOf(S)
  BY FS_Subset DEF FiniteSubsetsOf
<1>3. \E x \in T: \A y \in T: ~ (<<y, x>> \in StrictSubsetOrdering(S))
  BY <1>1, <1>2, WFMin
<1> QED
  BY <1>3 DEF StrictSubsetOrdering

Some(S) == CHOOSE x \in S: TRUE

LEMMA SomeOf == ASSUME NEW S, S # {} PROVE Some(S) \in S
BY DEF Some

(* g adds up w over every subset of S, one element after the other.        *)
Adds(w, S, g) ==
    g = [s \in SUBSET S |-> IF s = {} THEN 0 ELSE w[Some(s)] + g[s \ {Some(s)}]]

Total(w, S) == (CHOOSE g: Adds(w, S, g))[S]

LEMMA AddsUnique ==
    ASSUME NEW S, IsFiniteSet(S), NEW R \in SUBSET S, NEW w, NEW v, \A x \in R: w[x] = v[x],
           NEW g, Adds(w, S, g), NEW h, Adds(v, R, h)
    PROVE  \A s \in SUBSET R: g[s] = h[s]
<1> DEFINE bad == {s \in SUBSET R: g[s] # h[s]}
<1> SUFFICES ASSUME bad # {} PROVE FALSE
  OBVIOUS
<1>0. bad \in SUBSET SUBSET S
  OBVIOUS
<1>1. PICK s \in bad: \A y \in bad: y \subseteq s => y = s
  <2> HIDE DEF bad
  <2> QED
    BY <1>0, SmallestSubset
<1>2. s \in SUBSET R /\ s \in SUBSET S /\ g[s] # h[s]
  BY <1>1
<1>3. /\ g[s] = IF s = {} THEN 0 ELSE w[Some(s)] + g[s \ {Some(s)}]
      /\ h[s] = IF s = {} THEN 0 ELSE v[Some(s)] + h[s \ {Some(s)}]
  BY <1>2 DEF Adds
<1>4. s # {}
  BY <1>2, <1>3
<1>5. Some(s) \in s
  BY <1>4, SomeOf
<1>6. s \ {Some(s)} \notin bad
  BY <1>1, <1>5
<1>7. g[s \ {Some(s)}] = h[s \ {Some(s)}] /\ w[Some(s)] = v[Some(s)]
  BY <1>2, <1>5, <1>6
<1> QED
  BY <1>2, <1>3, <1>7

LEMMA AddsExists ==
    ASSUME NEW S, IsFiniteSet(S), NEW w PROVE \E g: Adds(w, S, g)
<1> DEFINE bad == {s \in SUBSET S: ~ \E g: Adds(w, s, g)}
<1> SUFFICES ASSUME bad # {} PROVE FALSE
  OBVIOUS
<1>0. bad \in SUBSET SUBSET S
  OBVIOUS
<1>1. PICK R \in bad: \A y \in bad: y \subseteq R => y = R
  <2> HIDE DEF bad
  <2> QED
    BY <1>0, SmallestSubset
<1>2. R \in SUBSET S /\ IsFiniteSet(R)
  BY <1>1, FS_Subset
<1>3. \A s \in SUBSET R: s # R => \E g: Adds(w, s, g)
  BY <1>1, <1>2
<1>4. \A s \in SUBSET R: s # R => Adds(w, s, CHOOSE g: Adds(w, s, g))
  BY <1>3
<1>5. ASSUME NEW s \in SUBSET R, s # R, s # {}
      PROVE  Total(w, s) = w[Some(s)] + Total(w, s \ {Some(s)})
  <2> DEFINE r == s \ {Some(s)}
             gs == CHOOSE g: Adds(w, s, g)
             gr == CHOOSE g: Adds(w, r, g)
  <2>1. r \in SUBSET R /\ r # R /\ r \in SUBSET s /\ IsFiniteSet(s)
    BY <1>2, <1>5, SomeOf, FS_Subset
  <2>2. Adds(w, s, gs) /\ Adds(w, r, gr)
    BY <1>4, <1>5, <2>1
  <2> HIDE DEF gs, gr
  <2>3. gs[r] = gr[r]
    BY <2>1, <2>2, AddsUnique
  <2>4. gs[s] = w[Some(s)] + gs[r]
    BY <1>5, <2>2 DEF Adds
  <2> QED
    BY <2>3, <2>4 DEF Total, gs, gr
<1>6. ASSUME {} # R PROVE Total(w, {}) = 0
  <2> DEFINE g0 == CHOOSE g: Adds(w, {}, g)
  <2>1. Adds(w, {}, g0)
    BY <1>4, <1>6
  <2> HIDE DEF g0
  <2>2. g0[{}] = 0
    BY <2>1 DEF Adds
  <2> QED
    BY <2>2 DEF Total, g0
<1> DEFINE top == IF R = {} THEN 0 ELSE w[Some(R)] + Total(w, R \ {Some(R)})
           f == [s \in SUBSET R |-> IF s = R THEN top ELSE Total(w, s)]
           next(s) == IF s = {} THEN 0 ELSE w[Some(s)] + f[s \ {Some(s)}]
<1>7. ASSUME NEW s \in SUBSET R PROVE f[s] = next(s)
  <2>1. s # {} => s \ {Some(s)} \in SUBSET R /\ s \ {Some(s)} # R
    BY SomeOf
  <2>2. s # {} => f[s \ {Some(s)}] = Total(w, s \ {Some(s)})
    BY <2>1
  <2>3. CASE s = R
    BY <2>2, <2>3
  <2>4. CASE s # R
    <3>1. f[s] = Total(w, s)
      BY <2>4
    <3> QED
      BY <1>5, <1>6, <2>2, <2>4, <3>1
  <2> QED
    BY <2>3, <2>4
<1>8. f = [s \in SUBSET R |-> f[s]]
  OBVIOUS
<1> HIDE DEF f
<1>9. f = [s \in SUBSET R |-> next(s)]
  BY <1>7, <1>8
<1>10. Adds(w, R, f)
  BY <1>9 DEF Adds
<1> QED
  BY <1>1, <1>10

(* A function that adds up w over the subsets of S gives their totals.     *)
LEMMA TotalFrom ==
    ASSUME NEW S, IsFiniteSet(S), NEW w, NEW g, Adds(w, S, g), NEW s \in SUBSET S
    PROVE  g[s] = Total(w, s)
<1> DEFINE h == CHOOSE h: Adds(w, s, h)
<1>1. Adds(w, s, h)
  BY AddsExists, FS_Subset
<1> HIDE DEF h
<1>2. g[s] = h[s]
  BY <1>1, AddsUnique
<1> QED
  BY <1>2 DEF Total, h

LEMMA TotalUnfolds ==
    ASSUME NEW S, IsFiniteSet(S), NEW w
    PROVE  Total(w, S) = IF S = {} THEN 0 ELSE w[Some(S)] + Total(w, S \ {Some(S)})
<1>1. PICK g: Adds(w, S, g)
  BY AddsExists
<1>2. g[S] = IF S = {} THEN 0 ELSE w[Some(S)] + g[S \ {Some(S)}]
  BY <1>1 DEF Adds
<1> QED
  BY <1>1, <1>2, TotalFrom

LEMMA TotalSame ==
    ASSUME NEW S, IsFiniteSet(S), NEW w, NEW v, \A x \in S: w[x] = v[x]
    PROVE  Total(w, S) = Total(v, S)
<1>1. PICK g: Adds(w, S, g)
  BY AddsExists
<1>2. PICK h: Adds(v, S, h)
  BY AddsExists
<1>3. \A s \in SUBSET S: g[s] = h[s]
  BY <1>1, <1>2, AddsUnique
<1> QED
  BY <1>1, <1>2, <1>3, TotalFrom

(* The order in which the elements are added does not matter.              *)
LEMMA TotalRemove ==
    ASSUME NEW S, IsFiniteSet(S), NEW w, \A x \in S: w[x] \in Int
    PROVE  /\ Total(w, S) \in Int
           /\ \A x \in S: Total(w, S) = w[x] + Total(w, S \ {x})
<1> DEFINE good(s) == /\ Total(w, s) \in Int
                      /\ \A x \in s: Total(w, s) = w[x] + Total(w, s \ {x})
           bad == {s \in SUBSET S: ~ good(s)}
<1> SUFFICES ASSUME bad # {} PROVE FALSE
  OBVIOUS
<1>0. bad \in SUBSET SUBSET S
  OBVIOUS
<1>1. PICK s \in bad: \A y \in bad: y \subseteq s => y = s
  <2> HIDE DEF bad
  <2> QED
    BY <1>0, SmallestSubset
<1>2. s \in SUBSET S /\ IsFiniteSet(s) /\ ~ good(s)
  BY <1>1, FS_Subset
<1>3. \A r \in SUBSET s: r # s => good(r)
  BY <1>1, <1>2
<1>4. Total(w, s) = IF s = {} THEN 0 ELSE w[Some(s)] + Total(w, s \ {Some(s)})
  BY <1>2, TotalUnfolds
<1>5. s # {}
  BY <1>2, <1>4
<1> DEFINE a == Some(s)
<1>6. a \in s /\ w[a] \in Int /\ good(s \ {a})
  BY <1>2, <1>3, <1>5, SomeOf
<1> HIDE DEF a
<1>7. Total(w, s) \in Int /\ Total(w, s) = w[a] + Total(w, s \ {a})
  BY <1>4, <1>5, <1>6 DEF a
<1>8. ASSUME NEW x \in s, x # a PROVE Total(w, s) = w[x] + Total(w, s \ {x})
  <2>1. w[x] \in Int /\ good(s \ {x})
    BY <1>2, <1>3, <1>8
  <2>2. Total(w, s \ {a}) = w[x] + Total(w, (s \ {a}) \ {x})
    BY <1>6, <1>8
  <2>3. Total(w, s \ {x}) = w[a] + Total(w, (s \ {x}) \ {a})
    BY <1>6, <1>8, <2>1
  <2>4. (s \ {a}) \ {x} = (s \ {x}) \ {a}
    OBVIOUS
  <2>5. good((s \ {a}) \ {x})
    BY <1>3, <1>6
  <2>6. Total(w, (s \ {a}) \ {x}) \in Int /\ w[a] \in Int /\ w[x] \in Int
    BY <1>6, <2>1, <2>5
  <2>7. Total(w, s \ {x}) = w[a] + Total(w, (s \ {a}) \ {x})
    BY <2>3, <2>4
  <2>8. Total(w, s) = w[a] + Total(w, s \ {a})
    BY <1>7
  <2> HIDE DEF good, bad
  <2> QED
    BY <2>2, <2>6, <2>7, <2>8
<1> QED
  BY <1>2, <1>7, <1>8

LEMMA TotalUnion ==
    ASSUME NEW S, IsFiniteSet(S), NEW w, \A x \in S: w[x] \in Int,
           NEW A \in SUBSET S, NEW B \in SUBSET S, A \cap B = {}
    PROVE  Total(w, A \cup B) = Total(w, A) + Total(w, B)
<1> DEFINE bad == {s \in SUBSET B: Total(w, A \cup s) # Total(w, A) + Total(w, s)}
<1> SUFFICES ASSUME bad # {} PROVE FALSE
  OBVIOUS
<1>0. bad \in SUBSET SUBSET S
  OBVIOUS
<1>1. PICK s \in bad: \A y \in bad: y \subseteq s => y = s
  <2> HIDE DEF bad
  <2> QED
    BY <1>0, SmallestSubset
<1>2. s \in SUBSET B /\ Total(w, A \cup s) # Total(w, A) + Total(w, s)
  BY <1>1
<1>3. \A r \in SUBSET S: IsFiniteSet(r) /\ Total(w, r) \in Int
  BY FS_Subset, TotalRemove
<1>4. s # {}
  <2>1. Total(w, {}) = 0
    BY FS_EmptySet, TotalUnfolds
  <2>2. Total(w, A) \in Int
    BY <1>3
  <2> SUFFICES ASSUME s = {} PROVE FALSE
    OBVIOUS
  <2>3. A \cup s = A
    OBVIOUS
  <2> QED
    BY <1>2, <2>1, <2>2, <2>3
<1>5. PICK x: x \in s
  BY <1>4
<1>6. s \ {x} \notin bad
  BY <1>1, <1>5
<1>7. Total(w, A \cup (s \ {x})) = Total(w, A) + Total(w, s \ {x})
  BY <1>2, <1>6
<1>8. (A \cup s) \ {x} = A \cup (s \ {x})
  BY <1>2, <1>5
<1>9. s \in SUBSET S /\ A \cup s \in SUBSET S /\ w[x] \in Int
  BY <1>2, <1>5
<1>10. Total(w, A \cup s) = w[x] + Total(w, A \cup (s \ {x}))
  BY <1>3, <1>5, <1>8, <1>9, TotalRemove
<1>11. Total(w, s) = w[x] + Total(w, s \ {x})
  BY <1>3, <1>5, <1>9, TotalRemove
<1>12. Total(w, A) \in Int /\ Total(w, s \ {x}) \in Int
  BY <1>3, <1>9
<1> QED
  BY <1>2, <1>7, <1>9, <1>10, <1>11, <1>12

LEMMA TotalBelow ==
    ASSUME NEW S, IsFiniteSet(S), NEW w, NEW v,
           \A x \in S: w[x] \in Int /\ v[x] \in Int /\ w[x] <= v[x]
    PROVE  Total(w, S) <= Total(v, S)
<1> DEFINE bad == {s \in SUBSET S: ~ (Total(w, s) <= Total(v, s))}
<1> SUFFICES ASSUME bad # {} PROVE FALSE
  OBVIOUS
<1>0. bad \in SUBSET SUBSET S
  OBVIOUS
<1>1. PICK s \in bad: \A y \in bad: y \subseteq s => y = s
  <2> HIDE DEF bad
  <2> QED
    BY <1>0, SmallestSubset
<1>2. s \in SUBSET S /\ ~ (Total(w, s) <= Total(v, s))
  BY <1>1
<1>3. \A r \in SUBSET S: IsFiniteSet(r) /\ Total(w, r) \in Int /\ Total(v, r) \in Int
  BY FS_Subset, TotalRemove
<1>4. s # {}
  <2>1. Total(w, {}) = 0 /\ Total(v, {}) = 0
    BY FS_EmptySet, TotalUnfolds
  <2> QED
    BY <1>2, <2>1
<1>5. PICK x: x \in s
  BY <1>4
<1>6. s \ {x} \notin bad
  BY <1>1, <1>5
<1>7. Total(w, s \ {x}) <= Total(v, s \ {x})
  BY <1>2, <1>6
<1>8. Total(w, s) = w[x] + Total(w, s \ {x}) /\ Total(v, s) = v[x] + Total(v, s \ {x})
  BY <1>2, <1>3, <1>5, TotalRemove
<1>9. Total(w, s \ {x}) \in Int /\ Total(v, s \ {x}) \in Int
  BY <1>2, <1>3
<1> QED
  BY <1>2, <1>5, <1>7, <1>8, <1>9

LEMMA TotalNat ==
    ASSUME NEW S, IsFiniteSet(S), NEW w, \A x \in S: w[x] \in Nat
    PROVE  Total(w, S) \in Nat
<1> DEFINE bad == {s \in SUBSET S: Total(w, s) \notin Nat}
<1> SUFFICES ASSUME bad # {} PROVE FALSE
  OBVIOUS
<1>0. bad \in SUBSET SUBSET S
  OBVIOUS
<1>1. PICK s \in bad: \A y \in bad: y \subseteq s => y = s
  <2> HIDE DEF bad
  <2> QED
    BY <1>0, SmallestSubset
<1>2. s \in SUBSET S /\ Total(w, s) \notin Nat /\ IsFiniteSet(s)
  BY <1>1, FS_Subset
<1>3. Total(w, s) = IF s = {} THEN 0 ELSE w[Some(s)] + Total(w, s \ {Some(s)})
  BY <1>2, TotalUnfolds
<1>4. Some(s) \in s
  BY <1>2, <1>3, SomeOf
<1>5. s \ {Some(s)} \notin bad
  BY <1>1, <1>4
<1> QED
  BY <1>2, <1>3, <1>4, <1>5

(* A part weighs no more than the whole, and less without a positive weight. *)
LEMMA TotalPart ==
    ASSUME NEW S, IsFiniteSet(S), NEW w, \A x \in S: w[x] \in Nat, NEW A \in SUBSET S
    PROVE  /\ Total(w, A) \in Nat /\ Total(w, A) <= Total(w, S)
           /\ \A x \in S \ A: Total(w, A) + w[x] <= Total(w, S)
<1>1. \A r \in SUBSET S: IsFiniteSet(r) /\ Total(w, r) \in Nat
  BY FS_Subset, TotalNat
<1>2. Total(w, A \cup (S \ A)) = Total(w, A) + Total(w, S \ A)
  BY TotalUnion
<1>3. A \cup (S \ A) = S
  OBVIOUS
<1>4. ASSUME NEW x \in S \ A PROVE Total(w, S \ A) >= w[x]
  <2>1. Total(w, S \ A) = w[x] + Total(w, (S \ A) \ {x})
    BY <1>1, TotalRemove
  <2>2. Total(w, (S \ A) \ {x}) \in Nat
    BY <1>1
  <2> QED
    BY <2>1, <2>2
<1>5. Total(w, A) \in Nat /\ Total(w, S \ A) \in Nat
  BY <1>1
<1>6. Total(w, S) = Total(w, A) + Total(w, S \ A)
  BY <1>2, <1>3
<1> QED
  BY <1>4, <1>5, <1>6

-----------------------------------------------------------------------------
(* Weights.                                                                *)

LEMMA LeastNatural ==
    ASSUME NEW T \in SUBSET Nat, T # {}
    PROVE  \E n \in T: \A m \in T: n <= m
<1> DEFINE R == {ss \in Nat \X Nat: ss[1] < ss[2]}
<1>1. R = OpToRel(<, Nat)
  BY Zenon DEF OpToRel
<1>2. IsWellFoundedOn(R, Nat)
  BY <1>1, NatLessThanWellFounded
<1>3. \E n \in T: \A m \in T: ~ (<<m, n>> \in R)
  BY <1>2, WFMin
<1>4. \A n, m \in T: m < n => <<m, n>> \in R
  OBVIOUS
<1> HIDE DEF R
<1>5. PICK n \in T: \A m \in T: ~ (m < n)
  BY <1>3, <1>4
<1>6. \A m \in T: n <= m
  BY <1>5
<1> QED
  BY <1>6

LEMMA PowerOfTwoUnfolds ==
    PowerOfTwo = [n \in 0..Underflow |-> IF n = 0 THEN 1 ELSE 2 * PowerOfTwo[n - 1]]
<1> DEFINE Powers(n, g) == g = [k \in 0..n |-> IF k = 0 THEN 1 ELSE 2 * g[k - 1]]
           bad == {n \in Nat: ~ \E g: Powers(n, g)}
<1>1. bad = {}
  <2> SUFFICES ASSUME bad # {} PROVE FALSE
    OBVIOUS
  <2>1. PICK n \in bad: \A m \in bad: n <= m
    <3>1. bad \in SUBSET Nat
      OBVIOUS
    <3> HIDE DEF bad
    <3> QED
      BY <3>1, LeastNatural
  <2>2. n \in Nat /\ ~ \E g: Powers(n, g)
    BY <2>1
  <2>3. CASE n = 0
    <3>1. Powers(n, [k \in 0..0 |-> 1])
      BY <2>3
    <3>2. \E g: Powers(n, g)
      BY <3>1
    <3> QED
      BY <2>2, <3>2
  <2>4. CASE n # 0
    <3>1. n - 1 \in Nat /\ n - 1 \notin bad
      <4>1. n \in Nat /\ n - 1 \in Nat
        BY <2>2, <2>4
      <4> HIDE DEF bad
      <4> QED
        BY <2>1, <4>1
    <3>2. PICK g: Powers(n - 1, g)
      BY <3>1
    <3>3. \A k \in 0..(n - 1): g[k] = IF k = 0 THEN 1 ELSE 2 * g[k - 1]
      BY <3>2
    <3> DEFINE f == [k \in 0..n |-> IF k = n THEN 2 * g[n - 1] ELSE g[k]]
    <3>4. \A k \in 0..n: f[k] = IF k = 0 THEN 1 ELSE 2 * f[k - 1]
      BY <2>2, <2>4, <3>1, <3>3
    <3>5. f = [k \in 0..n |-> f[k]]
      OBVIOUS
    <3> HIDE DEF f
    <3>6. Powers(n, f)
      BY <3>4, <3>5
    <3> QED
      BY <2>2, <3>6
  <2> QED
    BY <2>3, <2>4
<1>2. \E g: Powers(Underflow, g)
  BY <1>1, SourceAssumption
<1> QED
  BY <1>2 DEF PowerOfTwo

LEMMA PowerOfTwoGrows ==
    \A n \in 0..Underflow: /\ PowerOfTwo[n] \in Nat \ {0}
                           /\ PowerOfTwo[n] <= PowerOfTwo[Underflow]
<1>1. Underflow \in Nat \ {0}
  BY SourceAssumption
<1>2. \A n \in 0..Underflow: PowerOfTwo[n] = IF n = 0 THEN 1 ELSE 2 * PowerOfTwo[n - 1]
  BY PowerOfTwoUnfolds
<1>3. \A n \in 0..Underflow: PowerOfTwo[n] \in Nat \ {0}
  <2> DEFINE bad == {n \in 0..Underflow: PowerOfTwo[n] \notin Nat \ {0}}
  <2> SUFFICES ASSUME bad # {} PROVE FALSE
    OBVIOUS
  <2>1. bad \in SUBSET Nat
    OBVIOUS
  <2>2. PICK n \in bad: \A m \in bad: n <= m
    <3> HIDE DEF bad
    <3> QED
      BY <2>1, LeastNatural
  <2>3. n \in 0..Underflow /\ PowerOfTwo[n] \notin Nat \ {0} /\ n # 0
    BY <1>2, <2>2
  <2>4. n - 1 \in 0..Underflow /\ n - 1 \notin bad
    BY <1>1, <2>2, <2>3
  <2>5. PowerOfTwo[n - 1] \in Nat \ {0}
    BY <2>4
  <2> QED
    BY <1>2, <2>3, <2>5
<1>4. \A n \in 0..Underflow: PowerOfTwo[Underflow - n] <= PowerOfTwo[Underflow]
  <2> DEFINE bad == {n \in 0..Underflow: ~ (PowerOfTwo[Underflow - n] <= PowerOfTwo[Underflow])}
  <2> SUFFICES ASSUME bad # {} PROVE FALSE
    OBVIOUS
  <2>1. bad \in SUBSET Nat
    OBVIOUS
  <2>2. PICK n \in bad: \A m \in bad: n <= m
    <3> HIDE DEF bad
    <3> QED
      BY <2>1, LeastNatural
  <2>3. n \in 0..Underflow /\ ~ (PowerOfTwo[Underflow - n] <= PowerOfTwo[Underflow])
    BY <2>2
  <2>4. Underflow \in 0..Underflow /\ Underflow - 0 = Underflow
    BY <1>1
  <2>5. n # 0
    BY <1>3, <2>3, <2>4
  <2>6. n - 1 \in 0..Underflow /\ n - 1 \notin bad
    BY <1>1, <2>2, <2>3, <2>5
  <2> DEFINE k == Underflow - (n - 1)
  <2>7. k \in 0..Underflow /\ k # 0 /\ k - 1 = Underflow - n
    BY <1>1, <2>3, <2>5
  <2>8. PowerOfTwo[k] <= PowerOfTwo[Underflow]
    BY <2>6
  <2> HIDE DEF k
  <2>9. PowerOfTwo[k] = 2 * PowerOfTwo[Underflow - n]
    BY <1>2, <2>7
  <2>10. Underflow - n \in 0..Underflow
    BY <1>1, <2>3
  <2> QED
    BY <1>3, <2>3, <2>4, <2>8, <2>9, <2>10
<1>5. \A n \in 0..Underflow: Underflow - n \in 0..Underflow /\ Underflow - (Underflow - n) = n
  BY <1>1
<1> QED
  BY <1>3, <1>4, <1>5

Weights(given, S) == [s \in S |-> EffectiveWeight(s, given[s])]
FreshWeights(S) == [s \in S |-> WeightFromAge(BaseWeight[Class[s]], 0)]

LEMMA WeightOfIsTotal ==
    ASSUME NEW S, IsFiniteSet(S), NEW given
    PROVE  WeightOf(given, S) = Total(Weights(given, S), S)
<1> DEFINE w == Weights(given, S)
           Iterates(g) == g = [s \in SUBSET S |->
               IF s = {} THEN 0
               ELSE EffectiveWeight(CHOOSE x \in s: TRUE, given[CHOOSE x \in s: TRUE])
                        + g[s \ {CHOOSE x \in s: TRUE}]]
           c == CHOOSE g: Iterates(g)
<1>1. WeightOf(given, S) = c[S]
  BY DEF WeightOf, MapThenSumSet, MapThenFoldSet
<1>2. \A g: Iterates(g) <=> Adds(w, S, g)
  <2> SUFFICES ASSUME NEW g PROVE Iterates(g) <=> Adds(w, S, g)
    OBVIOUS
  <2>1. \A s \in SUBSET S: s # {} =>
           w[Some(s)] = EffectiveWeight(CHOOSE x \in s: TRUE, given[CHOOSE x \in s: TRUE])
    <3>1. \A s \in SUBSET S: s # {} => Some(s) \in S
      BY SomeOf
    <3> QED
      BY <3>1 DEF Weights, Some
  <2> HIDE DEF w
  <2>2. \A s \in SUBSET S:
           (IF s = {} THEN 0
            ELSE EffectiveWeight(CHOOSE x \in s: TRUE, given[CHOOSE x \in s: TRUE])
                     + g[s \ {CHOOSE x \in s: TRUE}])
           = (IF s = {} THEN 0 ELSE w[Some(s)] + g[s \ {Some(s)}])
    BY <2>1 DEF Some
  <2> QED
    BY <2>2 DEF Adds
<1> HIDE DEF Iterates, w
<1>3. \E g: Iterates(g)
  BY <1>2, AddsExists
<1>4. Iterates(c)
  BY <1>3
<1>5. Adds(w, S, c)
  BY <1>2, <1>4
<1> HIDE DEF c, w
<1>6. c[S] = Total(w, S)
  BY <1>5, TotalFrom
<1> QED
  BY <1>1, <1>6 DEF w

LEMMA FreshIsTotal ==
    ASSUME NEW S, IsFiniteSet(S)
    PROVE  /\ MapThenSumSet(LAMBDA s: WeightFromAge(BaseWeight[Class[s]], 0), S)
                  = Total(FreshWeights(S), S)
           /\ WeightOf([s \in S |-> [age |-> 0]], S) = Total(FreshWeights(S), S)
<1> DEFINE fresh == [s \in S |-> [age |-> 0]]
<1>1. WeightOf(fresh, S) = Total(Weights(fresh, S), S)
  BY WeightOfIsTotal
<1>2. \A s \in S: Weights(fresh, S)[s] = FreshWeights(S)[s]
  BY DEF Weights, FreshWeights, EffectiveWeight
<1>3. Total(Weights(fresh, S), S) = Total(FreshWeights(S), S)
  BY <1>2, TotalSame
<1> DEFINE w == FreshWeights(S)
           Iterates(g) == g = [s \in SUBSET S |->
               IF s = {} THEN 0
               ELSE WeightFromAge(BaseWeight[Class[CHOOSE x \in s: TRUE]], 0)
                        + g[s \ {CHOOSE x \in s: TRUE}]]
           c == CHOOSE g: Iterates(g)
<1>4. MapThenSumSet(LAMBDA s: WeightFromAge(BaseWeight[Class[s]], 0), S) = c[S]
  BY DEF MapThenSumSet, MapThenFoldSet
<1>5. \A g: Iterates(g) <=> Adds(w, S, g)
  <2> SUFFICES ASSUME NEW g PROVE Iterates(g) <=> Adds(w, S, g)
    OBVIOUS
  <2>1. \A s \in SUBSET S: s # {} =>
           w[Some(s)] = WeightFromAge(BaseWeight[Class[CHOOSE x \in s: TRUE]], 0)
    <3>1. \A s \in SUBSET S: s # {} => Some(s) \in S
      BY SomeOf
    <3> QED
      BY <3>1 DEF FreshWeights, Some
  <2> HIDE DEF w
  <2>2. \A s \in SUBSET S:
           (IF s = {} THEN 0
            ELSE WeightFromAge(BaseWeight[Class[CHOOSE x \in s: TRUE]], 0)
                     + g[s \ {CHOOSE x \in s: TRUE}])
           = (IF s = {} THEN 0 ELSE w[Some(s)] + g[s \ {Some(s)}])
    BY <2>1 DEF Some
  <2> QED
    BY <2>2 DEF Adds
<1> HIDE DEF Iterates, w
<1>6. \E g: Iterates(g)
  BY <1>5, AddsExists
<1>7. Iterates(c)
  BY <1>6
<1>8. Adds(w, S, c)
  BY <1>5, <1>7
<1> HIDE DEF c, w
<1>9. c[S] = Total(w, S)
  BY <1>8, TotalFrom
<1> QED
  BY <1>1, <1>3, <1>4, <1>9 DEF w

(* An answer weighs something until it underflows, and never more than a   *)
(* fresh one.                                                              *)
LEMMA WeightBounds ==
    ASSUME NEW s \in Source, NEW age \in Nat
    PROVE  LET weight == WeightFromAge(BaseWeight[Class[s]], age)
               fresh == WeightFromAge(BaseWeight[Class[s]], 0)
           IN  /\ weight \in Nat /\ fresh \in Nat \ {0} /\ weight <= fresh
               /\ weight > 0 <=> age < Underflow
<1> DEFINE base == BaseWeight[Class[s]]
<1>1. base \in 1..20
  <2>1. Class[s] \in SourceClasses
    BY SourceAssumption
  <2>2. \A c \in SourceClasses: BaseWeight[c] \in 1..20
    BY MethodologyAssumption DEF ValidLedger
  <2> QED
    BY <2>1, <2>2
<1>2. Underflow \in Nat \ {0}
  BY SourceAssumption
<1> HIDE DEF base
<1>3. WeightFromAge(base, 0) = base * PowerOfTwo[Underflow]
  BY <1>2 DEF WeightFromAge
<1>4. PowerOfTwo[Underflow] \in Nat \ {0}
  BY <1>2, PowerOfTwoGrows
<1>5. \A b \in 1..20, p, q \in Nat \ {0}: b * p \in Nat \ {0} /\ (p <= q => b * p <= b * q)
  OBVIOUS
<1>6. WeightFromAge(base, 0) \in Nat \ {0}
  BY <1>1, <1>3, <1>4, <1>5
<1>7. CASE age >= Underflow
  <2>1. WeightFromAge(base, age) = 0
    BY <1>7 DEF WeightFromAge
  <2> QED
    BY <1>2, <1>6, <1>7, <2>1 DEF base
<1>8. CASE age < Underflow
  <2>1. WeightFromAge(base, age) = base * PowerOfTwo[Underflow - age]
    BY <1>2, <1>8 DEF WeightFromAge
  <2>2. Underflow - age \in 0..Underflow
    BY <1>2, <1>8
  <2>3. /\ PowerOfTwo[Underflow - age] \in Nat \ {0}
        /\ PowerOfTwo[Underflow - age] <= PowerOfTwo[Underflow]
    BY <2>2, PowerOfTwoGrows
  <2>4. /\ base * PowerOfTwo[Underflow - age] \in Nat \ {0}
        /\ base * PowerOfTwo[Underflow - age] <= base * PowerOfTwo[Underflow]
    BY <1>1, <1>4, <1>5, <2>3
  <2> QED
    BY <1>3, <1>6, <1>8, <2>1, <2>4 DEF base
<1> QED
  BY <1>2, <1>7, <1>8

-----------------------------------------------------------------------------
(* The inductive invariant.                                                *)

(* What the variables are in each phase.                                   *)
PhaseInv ==
    /\ metrics \in Subjects /\ enabled \subseteq Source
    /\ history \subseteq metrics \X Source
    /\ reference.state \in {"none", "current"}
    /\ phase \in {"idle", "discovered", "collected", "committed", "failed"}
    /\ IF phase = "idle" THEN job = NoJob
       ELSE job.metric \in metrics /\ job.sources \in SUBSET Source /\ job.sources # {}
    /\ IF phase \in {"idle", "discovered"} THEN outcome = << >>
       ELSE outcome \in [job.sources -> Outcomes(job.metric)]
    /\ phase # "committed" => snapshot = NoSnapshot

(* A committed snapshot is one the reconciliation of the collected answers *)
(* may return, and a reserve snapshot never says more than "degraded".     *)
SnapshotInv ==
    phase = "committed" =>
        IF job.metric \in Reconciled THEN snapshot \in Results
        ELSE /\ snapshot.metric = job.metric
             /\ snapshot.status \in {"degraded", "unavailable"}

RefreshInv == PhaseInv /\ SnapshotInv /\ FailsOnlyWhen

-----------------------------------------------------------------------------
(* What a reconciliation computes, of any answers it may be given.         *)

(* The observations and errors of the sources of a job.                    *)
Gathered(m, configured, given, errorOf) ==
    /\ m \in Reconciled /\ configured \in SUBSET Source
    /\ DOMAIN given \subseteq configured /\ DOMAIN errorOf \subseteq configured
    /\ \A s \in DOMAIN given:
        /\ given[s].age \in Nat /\ given[s].value.amount \in Nat
        /\ given[s].value = [amount |-> given[s].value.amount,
                             ledger |-> given[s].value.ledger,
                             detail |-> given[s].value.detail]

LEMMA UsableFacts ==
    ASSUME NEW m, NEW configured, NEW given, NEW errorOf, Gathered(m, configured, given, errorOf)
    PROVE  LET usable == Usable(m, given, errorOf)
           IN  /\ usable \in SUBSET configured /\ usable \in SUBSET Source
               /\ usable \subseteq DOMAIN given /\ IsFiniteSet(usable)
               /\ \A s \in usable: /\ Weights(given, usable)[s] \in Nat \ {0}
                                   /\ FreshWeights(usable)[s] \in Nat \ {0}
                                   /\ Weights(given, usable)[s] <= FreshWeights(usable)[s]
<1> DEFINE usable == Usable(m, given, errorOf)
<1>1. /\ usable \in SUBSET configured /\ usable \in SUBSET Source
      /\ usable \subseteq DOMAIN given
      /\ \A s \in usable: EffectiveWeight(s, given[s]) > 0
  BY DEF Usable, Gathered
<1>2. IsFiniteSet(usable)
  BY <1>1, SourceAssumption, FS_Subset
<1>3. ASSUME NEW s \in usable
      PROVE  /\ Weights(given, usable)[s] \in Nat \ {0}
             /\ FreshWeights(usable)[s] \in Nat \ {0}
             /\ Weights(given, usable)[s] <= FreshWeights(usable)[s]
  <2>1. s \in Source /\ given[s].age \in Nat
    BY <1>1 DEF Gathered
  <2> DEFINE weight == WeightFromAge(BaseWeight[Class[s]], given[s].age)
             fresh == WeightFromAge(BaseWeight[Class[s]], 0)
  <2>2. weight \in Nat /\ fresh \in Nat \ {0} /\ weight <= fresh
    BY <2>1, WeightBounds
  <2>3. weight > 0
    BY <1>1 DEF EffectiveWeight
  <2>4. Weights(given, usable)[s] = weight /\ FreshWeights(usable)[s] = fresh
    BY DEF Weights, FreshWeights, EffectiveWeight
  <2> HIDE DEF weight, fresh
  <2> QED
    BY <2>2, <2>3, <2>4
<1> HIDE DEF usable
<1> QED
  BY <1>1, <1>2, <1>3 DEF usable

LEMMA WeightOfPart ==
    ASSUME NEW S, IsFiniteSet(S), NEW given, NEW A \in SUBSET S
    PROVE  WeightOf(given, A) = Total(Weights(given, S), A)
<1>1. IsFiniteSet(A)
  BY FS_Subset
<1>2. WeightOf(given, A) = Total(Weights(given, A), A)
  BY <1>1, WeightOfIsTotal
<1>3. \A x \in A: Weights(given, A)[x] = Weights(given, S)[x]
  BY DEF Weights
<1> QED
  BY <1>1, <1>2, <1>3, TotalSame

LEMMA WeightOfSame ==
    ASSUME NEW S, IsFiniteSet(S), NEW given, NEW other, \A s \in S: given[s] = other[s]
    PROVE  WeightOf(given, S) = WeightOf(other, S)
<1>1. \A s \in S: Weights(given, S)[s] = Weights(other, S)[s]
  BY DEF Weights
<1>2. Total(Weights(given, S), S) = Total(Weights(other, S), S)
  BY <1>1, TotalSame
<1> QED
  BY <1>2, WeightOfIsTotal

(* The selected contribution has at most half of the weight on either side,*)
(* whichever of its ties precede it.                                       *)
LEMMA MedianBalanced ==
    ASSUME NEW m, NEW configured, NEW given, NEW errorOf, Gathered(m, configured, given, errorOf),
           NEW s \in Medians(given, Usable(m, given, errorOf))
    PROVE  LET usable == Usable(m, given, errorOf)
               below == {t \in usable: given[t].value.amount < given[s].value.amount}
               above == {t \in usable: given[t].value.amount > given[s].value.amount}
           IN  /\ 2 * WeightOf(given, below) <= WeightOf(given, usable)
               /\ 2 * WeightOf(given, above) <= WeightOf(given, usable)
<1> DEFINE usable == Usable(m, given, errorOf)
           below == {t \in usable: given[t].value.amount < given[s].value.amount}
           above == {t \in usable: given[t].value.amount > given[s].value.amount}
           tied == {t \in usable \ {s}: given[t].value.amount = given[s].value.amount}
           w == Weights(given, usable)
<1>1. /\ IsFiniteSet(usable) /\ usable \subseteq DOMAIN given
      /\ \A t \in usable: w[t] \in Nat
  BY UsableFacts
<1>2. \A t \in usable: given[t].value.amount \in Nat
  BY <1>1 DEF Gathered
<1>3. s \in usable
  BY DEF Medians
<1>4. PICK before \in SUBSET tied:
        /\ 2 * WeightOf(given, below \cup before) < WeightOf(given, usable)
        /\ 2 * (WeightOf(given, below \cup before) + EffectiveWeight(s, given[s]))
               >= WeightOf(given, usable)
  BY DEF Medians
<1>5. EffectiveWeight(s, given[s]) = w[s]
  BY <1>3 DEF Weights
<1> DEFINE up == below \cup before
<1>6. /\ below \in SUBSET usable /\ up \in SUBSET usable /\ above \in SUBSET usable
      /\ below \in SUBSET up /\ s \notin up
  BY <1>2, <1>3, <1>4
<1>7. (up \cup {s}) \cap above = {}
  BY <1>2, <1>3, <1>4
<1>8. /\ WeightOf(given, below) = Total(w, below) /\ WeightOf(given, up) = Total(w, up)
      /\ WeightOf(given, above) = Total(w, above) /\ WeightOf(given, usable) = Total(w, usable)
  <2>1. \A A \in SUBSET usable: WeightOf(given, A) = Total(w, A)
    <3> HIDE DEF usable, w
    <3> QED
      BY <1>1, WeightOfPart DEF w
  <2> HIDE DEF usable, w, up, above, below
  <2> QED
    BY <1>6, <2>1
<1> HIDE DEF usable, below, above, tied, w, up
<1>9. IsFiniteSet(up) /\ \A t \in up: w[t] \in Nat
  BY <1>1, <1>6, FS_Subset
<1>10. Total(w, below) \in Nat /\ Total(w, below) <= Total(w, up)
  BY <1>6, <1>9, TotalPart
<1> DEFINE all == up \cup {s}
<1>11. all \in SUBSET usable /\ all \ {s} = up /\ s \in all
  BY <1>3, <1>6
<1>12. IsFiniteSet(all) /\ \A t \in all: w[t] \in Int
  BY <1>1, <1>11, FS_Subset
<1> HIDE DEF all
<1>13. Total(w, all) = w[s] + Total(w, up)
  <2>1. Total(w, all) = w[s] + Total(w, all \ {s})
    BY <1>11, <1>12, TotalRemove
  <2> QED
    BY <1>11, <2>1
<1>14. Total(w, all \cup above) = Total(w, all) + Total(w, above)
  <2>1. all \cap above = {} /\ \A t \in usable: w[t] \in Int
    BY <1>1, <1>7 DEF all
  <2> QED
    BY <1>1, <1>6, <1>11, <2>1, TotalUnion
<1>15. all \cup above \in SUBSET usable
  BY <1>6, <1>11
<1>16. /\ Total(w, all \cup above) <= Total(w, usable) /\ Total(w, usable) \in Nat
       /\ Total(w, up) \in Nat /\ Total(w, above) \in Nat
  BY <1>1, <1>6, <1>15, TotalPart, TotalNat
<1>17. w[s] \in Nat
  BY <1>1, <1>3
<1>18. 2 * Total(w, up) < Total(w, usable)
  BY <1>4, <1>8 DEF up
<1>19. 2 * (Total(w, up) + w[s]) >= Total(w, usable)
  BY <1>4, <1>5, <1>8 DEF up
<1>20. 2 * Total(w, below) <= Total(w, usable)
  BY <1>10, <1>16, <1>18
<1>21. 2 * Total(w, above) <= Total(w, usable)
  BY <1>13, <1>14, <1>16, <1>17, <1>19
<1> QED
  BY <1>8, <1>20, <1>21 DEF usable, below, above

(* The snapshot around one observation: its counts are those of its        *)
(* evidence, and it agrees at least with itself.                           *)
LEMMA AgreesWithItself ==
    ASSUME NEW m \in Reconciled, NEW v,
           v.amount \in Nat
    PROVE  Agrees(m, v, v)
<1>1. Abs(v.amount - v.amount) = 0
  BY DEF Abs
<1>2. CASE m = "latest_ledger"
  BY <1>1, <1>2 DEF Agrees, LedgerAgrees, LedgerMethodology
<1>3. CASE m = "circulating_supply"
  BY <1>3 DEF Agrees, ExactSupply
<1>4. CASE m = "trustline_count"
  BY <1>4 DEF Agrees, ExactTrustlines
<1>5. CASE m = "order_book_depth"
  <2> DEFINE denominator == IF v.amount = 0 THEN 1 ELSE v.amount
  <2>1. denominator \in Nat \ {0}
    OBVIOUS
  <2>2. \A d \in Nat \ {0}: (0 * 10000) \div d = 0
    OBVIOUS
  <2>3. DeltaBasisPoints(v, v) = Least(1000000, (0 * 10000) \div denominator)
    BY <1>1 DEF DeltaBasisPoints
  <2> HIDE DEF denominator
  <2>4. DeltaBasisPoints(v, v) = 0
    BY <2>1, <2>2, <2>3 DEF Least
  <2>5. DepthMethodology.tolerance = 50
    BY DEF DepthMethodology, SupplyMethodology
  <2> QED
    BY <1>5, <2>4, <2>5 DEF Agrees, DepthAgrees, SamePrice
<1> QED
  BY <1>2, <1>3, <1>4, <1>5 DEF Reconciled, Metrics

LEMMA OneRowEach ==
    ASSUME NEW S, IsFiniteSet(S), NEW f, DOMAIN f = S, f = [x \in S |-> f[x]],
           \A x, y \in S: f[x] = f[y] => x = y
    PROVE  Cardinality({f[x]: x \in S}) = Cardinality(S)
<1> DEFINE T == {f[x]: x \in S}
<1>1. f \in [S -> T]
  OBVIOUS
<1>2. \A t \in T: \E x \in S: f[x] = t
  OBVIOUS
<1> HIDE DEF T
<1>3. f \in Bijection(S, T)
  BY <1>1, <1>2 DEF Bijection, Injection, Surjection, IsInjective
<1>4. ExistsBijection(S, T)
  BY <1>3 DEF ExistsBijection
<1> QED
  BY <1>4, FS_Bijection DEF T

Agreeing(m, given, errorOf, s) ==
    {t \in Usable(m, given, errorOf): Agrees(m, given[t].value, given[s].value)}
Agreed(result) == {c \in result.contributions: c.agrees}

LEMMA SnapshotCounts ==
    ASSUME NEW m, NEW configured, NEW given, NEW errorOf, Gathered(m, configured, given, errorOf),
           NEW s \in Usable(m, given, errorOf),
           NEW r, r = SnapshotAt(m, configured, given, errorOf, s)
    PROVE  /\ Sources(r.contributions) = Usable(m, given, errorOf)
           /\ r.usable = Cardinality(Usable(m, given, errorOf))
           /\ r.agreeing = Cardinality(Agreeing(m, given, errorOf, s))
           /\ Cardinality(r.contributions) = r.usable
           /\ Cardinality(Agreed(r)) = r.agreeing /\ r.agreeing \in Nat \ {0}
           /\ \A c \in r.contributions: c.agrees <=> c.source \in Agreeing(m, given, errorOf, s)
           /\ \A c \in Agreed(r): /\ c.source \in Agreeing(m, given, errorOf, s)
                                  /\ c.answer = given[c.source]
           /\ \E c \in Agreed(r): c.source = s
<1> DEFINE usable == Usable(m, given, errorOf)
           agreeing == Agreeing(m, given, errorOf, s)
           agreed == Agreed(r)
           row(t) == [source |-> t, answer |-> given[t], agrees |-> t \in agreeing]
           yes(t) == [source |-> t, answer |-> given[t], agrees |-> TRUE]
<1>1. /\ r.contributions = {row(t): t \in usable}
      /\ r.usable = Cardinality(usable) /\ r.agreeing = Cardinality(agreeing)
  BY DEF SnapshotAt, Agreeing
<1>2. IsFiniteSet(usable) /\ agreeing \in SUBSET usable /\ s \in usable
  BY UsableFacts DEF Agreeing
<1>3. s \in agreeing
  <2>1. given[s].value.amount \in Nat /\ m \in Reconciled
    BY <1>2, UsableFacts DEF Gathered
  <2> QED
    BY <1>2, <2>1, AgreesWithItself DEF Agreeing
<1> HIDE DEF usable, agreeing
<1>4. IsFiniteSet(agreeing)
  BY <1>2, FS_Subset
<1>5. r.agreeing \in Nat \ {0}
  BY <1>1, <1>3, <1>4, FS_EmptySet, FS_CardinalityType
<1>6. agreed = {yes(t): t \in agreeing}
  <2>1. \A t \in usable: (row(t).agrees <=> t \in agreeing)
    OBVIOUS
  <2>2. \A t \in agreeing: row(t) = yes(t)
    OBVIOUS
  <2>3. agreed = {row(t): t \in agreeing}
    <3> HIDE DEF row
    <3> QED
      BY <1>1, <1>2, <2>1 DEF Agreed
  <2> HIDE DEF row, yes
  <2> QED
    BY <2>2, <2>3
<1>7. Sources(r.contributions) = usable
  <2>1. \A t \in usable: row(t).source = t
    OBVIOUS
  <2> HIDE DEF row
  <2> QED
    BY <1>1, <2>1 DEF Sources
<1>8. Cardinality(r.contributions) = Cardinality(usable)
  <2> DEFINE f == [t \in usable |-> row(t)]
  <2>1. \A t \in usable: f[t].source = t /\ f[t] = row(t)
    OBVIOUS
  <2>2. DOMAIN f = usable /\ f = [t \in usable |-> f[t]]
    OBVIOUS
  <2>3. r.contributions = {f[t]: t \in usable}
    <3> HIDE DEF row, agreed
    <3> QED
      BY <1>1
  <2> HIDE DEF f, agreed
  <2>4. \A x, y \in usable: f[x] = f[y] => x = y
    BY <2>1
  <2> QED
    BY <1>2, <2>2, <2>3, <2>4, OneRowEach
<1>9. Cardinality(agreed) = Cardinality(agreeing)
  <2> DEFINE f == [t \in agreeing |-> yes(t)]
  <2>1. \A t \in agreeing: f[t].source = t /\ f[t] = yes(t)
    OBVIOUS
  <2>2. DOMAIN f = agreeing /\ f = [t \in agreeing |-> f[t]]
    OBVIOUS
  <2>3. agreed = {f[t]: t \in agreeing}
    <3> HIDE DEF yes, agreed
    <3> QED
      BY <1>6
  <2> HIDE DEF f, agreed
  <2>4. \A x, y \in agreeing: f[x] = f[y] => x = y
    BY <2>1
  <2> QED
    BY <1>4, <2>2, <2>3, <2>4, OneRowEach
<1>10. \A c \in r.contributions: c.agrees <=> c.source \in agreeing
  <2>1. \A t \in usable: row(t).source = t /\ (row(t).agrees <=> t \in agreeing)
    OBVIOUS
  <2> HIDE DEF row
  <2> QED
    BY <1>1, <2>1
<1>11. /\ \A c \in agreed: c.source \in agreeing /\ c.answer = given[c.source]
       /\ \E c \in agreed: c.source = s
  <2>1. \A t \in agreeing: yes(t).source = t /\ yes(t).answer = given[t]
    OBVIOUS
  <2> HIDE DEF yes, agreed
  <2> QED
    BY <1>3, <1>6, <2>1
<1> QED
  BY <1>1, <1>5, <1>7, <1>8, <1>9, <1>10, <1>11 DEF usable, agreeing

(* The scores are shares of one, in units of 1/10000.                      *)
Scores == {n \in Nat: n <= 10000}

LEMMA ShareBounds ==
    ASSUME NEW part \in Nat, NEW whole \in Nat, part <= whole
    PROVE  /\ Share(part, whole) \in Scores
           /\ Share(part, whole) * whole <= part * 10000
<1> USE DEF Scores
<1>1. CASE whole = 0
  BY <1>1 DEF Share
<1>2. CASE whole # 0
  <2> DEFINE q == (part * 10000) \div whole
  <2>1. q \in Nat /\ q * whole <= part * 10000
    BY <1>2
  <2>2. part * 10000 <= whole * 10000
    OBVIOUS
  <2>3. Share(part, whole) = q
    BY <1>2 DEF Share
  <2> HIDE DEF q
  <2>4. q <= 10000
    <3> SUFFICES ASSUME q >= 10001 PROVE FALSE
      BY <2>1
    <3>1. q * whole >= 10001 * whole
      BY <2>1
    <3> QED
      BY <1>2, <2>1, <2>2, <3>1
  <2> QED
    BY <2>1, <2>3, <2>4
<1> QED
  BY <1>1, <1>2

LEMMA DivisionNat == ASSUME NEW a \in Nat, NEW b \in Nat \ {0} PROVE a \div b \in Nat
OBVIOUS

LEMMA DistanceBounds ==
    ASSUME NEW m \in Reconciled, NEW v, NEW u, v.amount \in Nat, u.amount \in Nat
    PROVE  Distance(m, v, u) \in Scores
<1> USE DEF Scores
<1> DEFINE difference == Abs(v.amount - u.amount) * 10000
<1>1. difference \in Nat
  BY DEF Abs
<1> HIDE DEF difference
<1>2. CASE m = "latest_ledger"
  <2> DEFINE q == difference \div 5
  <2>1. q \in Nat
    BY <1>1
  <2>2. Distance(m, v, u) = Least(10000, q)
    BY <1>2 DEF Distance, LedgerMethodology, difference
  <2> HIDE DEF q
  <2>3. Least(10000, q) \in Scores
    BY <2>1, SMT DEF Least
  <2> QED
    BY <2>2, <2>3
<1>3. CASE m = "circulating_supply"
  BY <1>3 DEF Distance
<1>4. CASE m = "trustline_count"
  <2>1. CASE u.amount = 0
    BY <1>4, <2>1 DEF Distance, TrustlineDistance
  <2>2. CASE u.amount # 0
    <3> DEFINE q == difference \div u.amount
    <3>1. q \in Nat
      BY <1>1, <2>2, DivisionNat
    <3>2. Distance(m, v, u) = Least(10000, q)
      BY <1>4, <2>2 DEF Distance, TrustlineDistance, difference
    <3> HIDE DEF q
    <3>3. Least(10000, q) \in Scores
      BY <3>1, SMT DEF Least
    <3> QED
      BY <3>2, <3>3
  <2> QED
    BY <2>1, <2>2
<1>5. CASE m = "order_book_depth"
  <2> DEFINE denominator == IF u.amount = 0 THEN 1 ELSE u.amount
             q == difference \div denominator
             delta == DeltaBasisPoints(v, u)
  <2>1. q \in Nat
    <3>1. denominator \in Nat \ {0}
      OBVIOUS
    <3> HIDE DEF denominator
    <3> QED
      BY <1>1, <3>1, DivisionNat
  <2>2. delta = Least(1000000, q)
    BY DEF DeltaBasisPoints, difference
  <2> HIDE DEF q
  <2>3. Least(1000000, q) \in Nat
    BY <2>1, SMT DEF Least
  <2>4. delta \in Nat
    BY <2>2, <2>3, SMT
  <2>5. Distance(m, v, u) = Least(10000, delta)
    BY <1>5 DEF Distance
  <2> HIDE DEF delta
  <2>6. Least(10000, delta) \in Scores
    BY <2>4, SMT DEF Least
  <2> QED
    BY <2>5, <2>6
<1> QED
  BY <1>2, <1>3, <1>4, <1>5 DEF Reconciled, Metrics

LEMMA SpreadIs ==
    ASSUME NEW m, NEW given, NEW usable, NEW ref
    PROVE  SpreadScore(m, given, usable, ref) =
               10000 - Max({Distance(m, given[t].value, ref): t \in usable})
BY DEF SpreadScore

LEMMA SpreadBounds ==
    ASSUME NEW m, NEW configured, NEW given, NEW errorOf, Gathered(m, configured, given, errorOf),
           NEW s \in Usable(m, given, errorOf)
    PROVE  SpreadScore(m, given, Usable(m, given, errorOf), given[s].value) \in Scores
<1> DEFINE usable == Usable(m, given, errorOf)
           D == {Distance(m, given[t].value, given[s].value): t \in usable}
           missing == {10000 - d: d \in D}
<1>1. \A t \in usable: given[t].value.amount \in Nat /\ m \in Reconciled
  BY UsableFacts DEF Gathered
<1>2. \A t \in usable: Distance(m, given[t].value, given[s].value) \in Scores
  <2>1. s \in usable
    OBVIOUS
  <2> HIDE DEF usable
  <2> SUFFICES ASSUME NEW t \in usable
               PROVE  Distance(m, given[t].value, given[s].value) \in Scores
    OBVIOUS
  <2>2. given[t].value.amount \in Nat /\ given[s].value.amount \in Nat /\ m \in Reconciled
    BY <1>1, <2>1
  <2> QED
    BY <2>2, DistanceBounds
<1>3. D \in SUBSET Scores /\ D # {}
  BY <1>2
<1> HIDE DEF usable, D
<1>4. missing \in SUBSET Nat /\ missing # {}
  <2>1. \A d \in D: 10000 - d \in Nat
    BY <1>3 DEF Scores
  <2> QED
    BY <1>3, <2>1
<1> HIDE DEF missing
<1>5. PICK n \in missing: \A k \in missing: n <= k
  BY <1>4, LeastNatural
<1>6. PICK d \in D: n = 10000 - d
  BY <1>5 DEF missing
<1>7. \A e \in D: d >= e
  <2> SUFFICES ASSUME NEW e \in D PROVE d >= e
    OBVIOUS
  <2>1. n <= 10000 - e
    BY <1>5 DEF missing
  <2> QED
    BY <1>3, <1>6, <2>1 DEF Scores
<1>8. Max(D) \in D
  <2>1. \E x \in D: \A y \in D: x >= y
    BY <1>6, <1>7
  <2> QED
    BY <2>1 DEF Max
<1>9. Max(D) \in Scores
  BY <1>3, <1>8
<1>10. SpreadScore(m, given, usable, given[s].value) = 10000 - Max(D)
  BY SpreadIs DEF D
<1> QED
  <2> DEFINE most == Max(D)
  <2>1. most \in Scores
    BY <1>9
  <2> HIDE DEF most
  <2>2. 10000 - most \in Scores
    BY <2>1 DEF Scores
  <2> DEFINE spread == SpreadScore(m, given, usable, given[s].value)
  <2>3. spread = 10000 - most
    BY <1>10 DEF most
  <2>4. spread \in Scores
    <3> HIDE DEF spread
    <3> QED
      BY <2>2, <2>3
  <2> QED
    BY <2>4 DEF usable

LEMMA MethodologyNumbers ==
    ASSUME NEW m \in Reconciled
    PROVE  LET config == MethodologyOf(m)
           IN  /\ config.agreement + config.freshness = 75 /\ config.freshness \in {20, 25}
               /\ config.availability = 20 /\ config.spread = 5
               /\ config.threshold = 90 /\ config.minimumVerified = 2
               /\ config.singleSource \in Nat /\ config.sourceError \in Nat
               /\ config.sameUpstream = 70
               /\ \/ config.expected = {"canonical_ledger"}
                  \/ config.expected = {"dex"}
                  \/ config.expected = {"canonical_ledger", "archive"}
BY DEF MethodologyOf, LedgerMethodology, SupplyMethodology, DepthMethodology,
       TrustlineMethodology, Reconciled, Metrics

LEMMA PairSize ==
    ASSUME NEW x, NEW y, x # y
    PROVE  IsFiniteSet({x, y}) /\ Cardinality({x, y}) = 2 /\ Cardinality({x}) = 1
<1>1. IsFiniteSet({x}) /\ Cardinality({x}) = 1
  BY FS_Singleton
<1>2. {x, y} = {x} \cup {y} /\ y \notin {x}
  OBVIOUS
<1> QED
  BY <1>1, <1>2, FS_AddElement

LEMMA ExpectedSize ==
    ASSUME NEW m \in Reconciled
    PROVE  LET E == MethodologyOf(m).expected IN IsFiniteSet(E) /\ Cardinality(E) \in {1, 2}
<1> DEFINE E == MethodologyOf(m).expected
<1>1. E = {"canonical_ledger"} \/ E = {"dex"} \/ E = {"canonical_ledger", "archive"}
  BY MethodologyNumbers
<1> HIDE DEF E
<1>2. IsFiniteSet({"canonical_ledger"}) /\ Cardinality({"canonical_ledger"}) = 1
  BY FS_Singleton
<1>3. IsFiniteSet({"dex"}) /\ Cardinality({"dex"}) = 1
  BY FS_Singleton
<1>4. /\ IsFiniteSet({"canonical_ledger", "archive"})
      /\ Cardinality({"canonical_ledger", "archive"}) = 2
  BY PairSize
<1> QED
  BY <1>1, <1>2, <1>3, <1>4 DEF E

Passing(score) == ~ (score < 9000)

(* A class that the methodology expects and nobody represents halves the   *)
(* diversity, at least.                                                    *)
LEMMA DiversityBounds ==
    ASSUME NEW m \in Reconciled, NEW usable, Passing(DiversityScore(m, usable))
    PROVE  /\ MethodologyOf(m).expected \subseteq {Class[s]: s \in usable}
           /\ DiversityScore(m, usable) = 10000
<1> DEFINE E == MethodologyOf(m).expected
           R == {Class[s]: s \in usable}
           part == Cardinality(E \cap R)
           whole == Cardinality(E)
<1>1. IsFiniteSet(E) /\ whole \in {1, 2}
  BY ExpectedSize
<1> HIDE DEF E, R
<1>2. /\ part \in Nat /\ part <= whole /\ (part = whole => E \cap R = E)
  <2>1. E \cap R \in SUBSET E
    OBVIOUS
  <2> QED
    BY <1>1, <2>1, FS_Subset, FS_CardinalityType
<1> HIDE DEF part, whole
<1>3. DiversityScore(m, usable) = (part * 10000) \div whole
  BY <1>1 DEF DiversityScore, Share, E, R, part, whole
<1>4. CASE part = whole
  <2>1. (part * 10000) \div whole = 10000
    BY <1>1, <1>4
  <2> QED
    BY <1>2, <1>3, <1>4, <2>1 DEF E, R
<1>5. CASE part # whole
  <2>1. (part * 10000) \div whole \in {0, 5000}
    <3>1. part = 0 \/ (part = 1 /\ whole = 2)
      BY <1>1, <1>2, <1>5
    <3>2. CASE part = 0
      BY <1>1, <3>2, SMT
    <3>3. CASE part = 1 /\ whole = 2
      BY <3>3, SMT
    <3> QED
      BY <3>1, <3>2, <3>3
  <2> DEFINE score == DiversityScore(m, usable)
  <2>2. score \in {0, 5000} /\ Passing(score)
    BY <1>3, <2>1
  <2> HIDE DEF score
  <2>3. FALSE
    BY <2>2, SMT DEF Passing
  <2> QED
    BY <2>3
<1> QED
  BY <1>4, <1>5

(* A confidence of nine tenths needs every class, two upstreams and half   *)
(* of the weight the answers had when they were fresh.                     *)
LEMMA ConfidenceNeeds ==
    ASSUME NEW m, NEW configured, NEW given, NEW errorOf, Gathered(m, configured, given, errorOf),
           NEW s \in Usable(m, given, errorOf),
           NEW agreeing \in SUBSET Usable(m, given, errorOf), NEW errors,
           Passing(Confidence(m, configured, given, Usable(m, given, errorOf), agreeing,
                              given[s].value, errors))
    PROVE  LET usable == Usable(m, given, errorOf)
           IN  /\ MethodologyOf(m).expected \subseteq {Class[t]: t \in usable}
               /\ ~ (/\ Cardinality(usable) > 1
                     /\ Cardinality({Upstream(m, t): t \in usable}) = 1)
               /\ 2 * Total(Weights(given, usable), usable)
                      >= Total(FreshWeights(usable), usable)
<1> DEFINE usable == Usable(m, given, errorOf)
           config == MethodologyOf(m)
           w == Weights(given, usable)
           v == FreshWeights(usable)
           A == AgreementScore(given, usable, agreeing)
           F == FreshnessScore(given, usable)
           V == AvailabilityScore(usable, configured)
           P == SpreadScore(m, given, usable, given[s].value)
           D == DiversityScore(m, usable)
           sum == config.agreement * A + config.freshness * F
                      + config.availability * V + config.spread * P
           evidence == sum \div 100
           uncapped == (evidence * D) \div 10000
           replicas == Cardinality(usable) > 1
                           /\ Cardinality({Upstream(m, t): t \in usable}) = 1
           single == Capped(uncapped, Cardinality(usable) = 1, config.singleSource)
           shared == Capped(single, replicas, config.sameUpstream)
           final == Capped(shared, errors # {}, config.sourceError)
<1>1. Passing(final)
  BY DEF Confidence
<1>2. m \in Reconciled
  BY DEF Gathered
<1>3. /\ usable \in SUBSET configured /\ IsFiniteSet(configured) /\ IsFiniteSet(usable)
      /\ \A t \in usable: w[t] \in Nat /\ v[t] \in Nat \ {0} /\ w[t] <= v[t]
  <2>1. IsFiniteSet(configured)
    BY SourceAssumption, FS_Subset DEF Gathered
  <2>2. /\ usable \in SUBSET configured /\ IsFiniteSet(usable)
        /\ \A t \in usable: /\ w[t] \in Nat \ {0} /\ v[t] \in Nat \ {0} /\ w[t] <= v[t]
    BY UsableFacts
  <2> QED
    BY <2>1, <2>2
<1>4. s \in usable /\ agreeing \in SUBSET usable
  OBVIOUS
<1>5. P \in Scores
  BY SpreadBounds
<1> HIDE DEF usable, w, v
<1>6. /\ Total(w, usable) \in Nat /\ Total(v, usable) \in Nat
      /\ Total(w, usable) <= Total(v, usable)
      /\ Total(w, agreeing) \in Nat /\ Total(w, agreeing) <= Total(w, usable)
  BY <1>3, <1>4, TotalNat, TotalBelow, TotalPart
<1>7. /\ WeightOf(given, usable) = Total(w, usable)
      /\ WeightOf(given, agreeing) = Total(w, agreeing)
  BY <1>3, <1>4, WeightOfPart DEF w
<1>8. A \in Scores
  BY <1>6, <1>7, ShareBounds DEF AgreementScore
<1>9. F = Share(Total(w, usable), Total(v, usable))
  BY <1>3, <1>7, FreshIsTotal, Zenon DEF FreshnessScore, v
<1>10. F \in Scores /\ F * Total(v, usable) <= Total(w, usable) * 10000
  BY <1>6, <1>9, ShareBounds
<1>11. V \in Scores
  <2>1. /\ Cardinality(usable) \in Nat /\ Cardinality(configured) \in Nat
        /\ Cardinality(usable) <= Cardinality(configured)
    BY <1>3, FS_Subset, FS_CardinalityType
  <2> QED
    BY <2>1, ShareBounds DEF AvailabilityScore
<1> HIDE DEF A, F, V, P
<1>12. /\ config.agreement + config.freshness = 75 /\ config.freshness \in {20, 25}
       /\ config.availability = 20 /\ config.spread = 5
       /\ config.singleSource \in Nat /\ config.sourceError \in Nat /\ config.sameUpstream = 70
  BY <1>2, MethodologyNumbers
<1>13. \/ config.agreement = 50 /\ config.freshness = 25
       \/ config.agreement = 55 /\ config.freshness = 20
  <2>1. config.agreement \in Nat
    BY <1>2 DEF MethodologyOf, LedgerMethodology, SupplyMethodology, DepthMethodology,
                TrustlineMethodology, Reconciled, Metrics
  <2> QED
    BY <1>12, <2>1
<1> HIDE DEF config
<1>scores. /\ A \in Nat /\ F \in Nat /\ V \in Nat /\ P \in Nat
           /\ A <= 10000 /\ F <= 10000 /\ V <= 10000 /\ P <= 10000
  BY <1>5, <1>8, <1>10, <1>11, SMT DEF Scores
<1>14. /\ sum \in Nat /\ sum <= 1000000
       /\ sum >= 900000 => F >= 5000
  <2>1. CASE config.agreement = 50 /\ config.freshness = 25
    <3>1. sum = 50 * A + 25 * F + 20 * V + 5 * P
      BY <1>12, <2>1
    <3> HIDE DEF sum
    <3> QED
      BY <1>scores, <3>1, SMT
  <2>2. CASE config.agreement = 55 /\ config.freshness = 20
    <3>1. sum = 55 * A + 20 * F + 20 * V + 5 * P
      BY <1>12, <2>2
    <3> HIDE DEF sum
    <3> QED
      BY <1>scores, <3>1, SMT
  <2> QED
    BY <1>13, <2>1, <2>2
<1> HIDE DEF sum
<1>15. evidence \in Nat /\ evidence <= 10000 /\ (evidence >= 9000 => sum >= 900000)
  BY <1>14, SMT
<1> HIDE DEF evidence
<1> HIDE DEF D
<1>16. D \in Scores
  <2>1. /\ Cardinality(config.expected) \in Nat
        /\ Cardinality(config.expected \cap {Class[t]: t \in usable}) \in Nat
        /\ Cardinality(config.expected \cap {Class[t]: t \in usable})
               <= Cardinality(config.expected)
    <3>1. IsFiniteSet(config.expected)
      BY <1>2, ExpectedSize DEF config
    <3>2. config.expected \cap {Class[t]: t \in usable} \in SUBSET config.expected
      OBVIOUS
    <3> QED
      BY <3>1, <3>2, FS_Subset, FS_CardinalityType
  <2> QED
    BY <2>1, ShareBounds DEF DiversityScore, D, config
<1>17. uncapped \in Nat /\ uncapped <= evidence /\ uncapped <= D
  <2> DEFINE product == evidence * D
  <2>1. D \in Nat /\ D <= 10000
    BY <1>16, SMT DEF Scores
  <2>2. product \in Nat /\ product <= evidence * 10000 /\ product <= 10000 * D
    BY <1>15, <2>1, SMT
  <2> HIDE DEF product
  <2>3. product \div 10000 \in Nat /\ product \div 10000 <= evidence /\ product \div 10000 <= D
    BY <1>15, <2>1, <2>2, SMT
  <2> QED
    BY <2>3 DEF product
<1> HIDE DEF uncapped
<1>18. /\ single \in Int /\ single <= uncapped
       /\ shared \in Int /\ shared <= single /\ final \in Int /\ final <= shared
       /\ replicas => shared <= 7000
  BY <1>12, <1>17, SMT DEF Capped, Least
<1> HIDE DEF single, shared, final, replicas
<1>19. ~ replicas /\ Passing(uncapped)
  BY <1>1, <1>17, <1>18, SMT DEF Passing
<1>20. Passing(D) /\ Passing(evidence)
  BY <1>15, <1>16, <1>17, <1>19, SMT DEF Passing, Scores
<1>21. F >= 5000
  BY <1>14, <1>15, <1>20, SMT DEF Passing
<1>22. 2 * Total(w, usable) >= Total(v, usable)
  <2>1. F * Total(v, usable) >= 5000 * Total(v, usable)
    BY <1>6, <1>scores, <1>21, SMT
  <2>2. Total(w, usable) * 10000 >= 5000 * Total(v, usable)
    <3> DEFINE p == F * Total(v, usable)
    <3>1. p \in Int
      BY <1>6, <1>scores, SMT
    <3>2. p <= Total(w, usable) * 10000 /\ p >= 5000 * Total(v, usable)
      BY <1>10, <2>1
    <3> HIDE DEF p
    <3> QED
      BY <1>6, <3>1, <3>2, SMT
  <2> QED
    BY <1>6, <2>2, SMT
<1>23. config.expected \subseteq {Class[t]: t \in usable}
  BY <1>2, <1>20, DiversityBounds DEF D, config
<1> QED
  BY <1>19, <1>22, <1>23 DEF replicas, config, usable, w, v

-----------------------------------------------------------------------------
(* A cycle of the state machine.                                           *)

Settled == phase \in {"collected", "committed", "failed"}

(* An answer a source gave is one of the answers of the metric, and the    *)
(* other outcomes are errors of their source.                              *)
LEMMA OutcomeKinds ==
    ASSUME PhaseInv, Settled, NEW s \in job.sources
    PROVE  /\ outcome[s].kind \in {"answer", "error", "bookless"}
           /\ outcome[s].kind = "answer" =>
                outcome[s].answer \in Answers[job.metric] /\ outcome[s].code = "none"
<1>1. outcome \in [job.sources -> Outcomes(job.metric)] /\ job.metric \in metrics
  BY DEF PhaseInv, Settled
<1>2. job.metric \in Metrics
  BY <1>1, RoutingAssumption DEF PhaseInv
<1> DEFINE Common == {Failure(code): code \in ErrorCodes \cup {"invalid_configuration",
                                                               "malformed_payload"}}
                        \cup {Answer(a): a \in Answers[job.metric]} \cup CircuitOpen
                        \cup {Bookless("empty_book"), Bookless("one_sided_book")}
<1>3. Outcomes(job.metric) \subseteq Common
  BY <1>2 DEF Outcomes, LedgerOutcomes, SupplyOutcomes, DepthOutcomes, TrustlineOutcomes,
              ReserveOutcomes, Retrieved, Metrics
<1>4. \A o \in Common: /\ o.kind \in {"answer", "error", "bookless"}
                       /\ o.kind = "answer" => o.answer \in Answers[job.metric] /\ o.code = "none"
  <2>1. \A code: Failure(code).kind = "error" /\ Bookless(code).kind = "bookless"
    BY DEF Failure, Bookless
  <2>2. \A a: /\ Answer(a).kind = "answer" /\ Answer(a).answer = a /\ Answer(a).code = "none"
    BY DEF Answer
  <2> QED
    BY <2>1, <2>2 DEF CircuitOpen
<1> HIDE DEF Common
<1> QED
  BY <1>1, <1>3, <1>4

LEMMA GatheredHere ==
    ASSUME PhaseInv, Settled, job.metric \in Reconciled
    PROVE  Gathered(job.metric, job.sources, Observations, ErrorOf)
<1>1. job.sources \in SUBSET Source
  BY DEF PhaseInv, Settled
<1>2. /\ DOMAIN Observations \subseteq Of("answer") /\ DOMAIN ErrorOf \subseteq job.sources
      /\ \A s \in DOMAIN Observations: Observations[s] = outcome[s].answer
      /\ Of("answer") \subseteq job.sources
  BY DEF Observations, ErrorOf, Of, Stale
<1>3. ASSUME NEW s \in DOMAIN Observations
      PROVE  /\ Observations[s].age \in Nat /\ Observations[s].value.amount \in Nat
             /\ Observations[s].value = [amount |-> Observations[s].value.amount,
                                         ledger |-> Observations[s].value.ledger,
                                         detail |-> Observations[s].value.detail]
  <2>1. s \in job.sources /\ outcome[s].kind = "answer"
    BY <1>2 DEF Of
  <2>2. outcome[s].answer \in Answers[job.metric]
    BY <2>1, OutcomeKinds
  <2>3. job.metric \in Metrics
    BY DEF Reconciled
  <2>4. Observations[s] = outcome[s].answer
    BY <1>2
  <2> QED
    BY <2>2, <2>3, <2>4, AnswersAssumption
<1> QED
  BY <1>1, <1>2, <1>3 DEF Gathered

Given == Usable(job.metric, Observations, ErrorOf)

LEMMA ResultCases ==
    ASSUME NEW result \in Results
    PROVE  \/ /\ Given = {}
              /\ result = UnavailableSnapshot(job.metric, job.sources, Observations, ErrorOf)
           \/ \E s \in Medians(Observations, Given):
                  /\ s \in Given
                  /\ result = SnapshotAt(job.metric, job.sources, Observations, ErrorOf, s)
BY DEF Results, Reconcile, Given, Medians

LEMMA UnavailableAccepted ==
    ASSUME PhaseInv, Settled, job.metric \in Reconciled,
           NEW result, result = UnavailableSnapshot(job.metric, job.sources, Observations, ErrorOf)
    PROVE  /\ SnapshotAccepted(result) /\ result.metric = job.metric
           /\ result.status = "unavailable" /\ result.contributions = {}
           /\ result.usable = 0 /\ result.agreeing = 0
<1> DEFINE responded == Responded(Observations, ErrorOf)
           excluded == Excluded(ErrorOf)
<1>1. responded \in SUBSET job.sources /\ excluded \in SUBSET job.sources
  BY GatheredHere DEF Gathered, Responded, Excluded
<1>2. IsFiniteSet(job.sources)
  BY SourceAssumption, FS_Subset DEF PhaseInv, Settled
<1>3. /\ Cardinality(responded) \in 0..Cardinality(job.sources)
      /\ Cardinality(excluded) \in 0..Cardinality(job.sources)
  BY <1>1, <1>2, FS_Subset, FS_CardinalityType
<1> HIDE DEF responded, excluded
<1>4. /\ result.configured = Cardinality(job.sources) /\ result.responded = Cardinality(responded)
      /\ result.excluded = Cardinality(excluded) /\ result.usable = 0 /\ result.agreeing = 0
      /\ result.contributions = {} /\ result.status = "unavailable" /\ result.value = NoValue
      /\ result.metric = job.metric
  BY DEF UnavailableSnapshot, responded, excluded
<1> QED
  BY <1>3, <1>4 DEF SnapshotAccepted, Sources

LEMMA AvailableAccepted ==
    ASSUME PhaseInv, Settled, job.metric \in Reconciled, NEW s \in Given,
           NEW result, result = SnapshotAt(job.metric, job.sources, Observations, ErrorOf, s)
    PROVE  /\ SnapshotAccepted(result) /\ result.metric = job.metric
           /\ result.status \in {"verified", "degraded"} /\ result.value = Observations[s].value
           /\ Sources(result.contributions) = Given
<1> DEFINE responded == Responded(Observations, ErrorOf)
           excluded == Excluded(ErrorOf)
           agreeing == {t \in Given: Agrees(job.metric, Observations[t].value,
                                            Observations[s].value)}
<1>1. Gathered(job.metric, job.sources, Observations, ErrorOf)
  BY GatheredHere
<1>2. /\ responded \in SUBSET job.sources /\ excluded \in SUBSET job.sources
      /\ Given \in SUBSET responded /\ agreeing \in SUBSET Given
      /\ Given \subseteq DOMAIN Observations
  BY <1>1 DEF Gathered, Responded, Excluded, Given, Usable
<1>3. IsFiniteSet(job.sources) /\ IsFiniteSet(responded) /\ IsFiniteSet(Given)
  BY <1>2, SourceAssumption, FS_Subset DEF PhaseInv, Settled
<1> HIDE DEF responded, excluded, agreeing
<1>4. /\ Cardinality(responded) \in 0..Cardinality(job.sources)
      /\ Cardinality(excluded) \in 0..Cardinality(job.sources)
      /\ Cardinality(Given) \in 0..Cardinality(responded)
      /\ Cardinality(agreeing) \in 0..Cardinality(Given)
  BY <1>2, <1>3, FS_Subset, FS_CardinalityType
<1>5. /\ result.configured = Cardinality(job.sources) /\ result.responded = Cardinality(responded)
      /\ result.excluded = Cardinality(excluded) /\ result.usable = Cardinality(Given)
      /\ result.agreeing = Cardinality(agreeing)
      /\ result.status \in {"verified", "degraded"} /\ result.value = Observations[s].value
      /\ result.metric = job.metric
  BY DEF SnapshotAt, responded, excluded, agreeing, Given
<1>6. Sources(result.contributions) = Given
  <2>1. s \in Usable(job.metric, Observations, ErrorOf)
    BY DEF Given
  <2>2. Sources(SnapshotAt(job.metric, job.sources, Observations, ErrorOf, s).contributions)
            = Usable(job.metric, Observations, ErrorOf)
    BY <1>1, <2>1, SnapshotCounts
  <2> QED
    BY <2>2 DEF Given
<1>7. Given \subseteq Readings
  BY <1>2 DEF Observations, Readings, Of, Stale
<1>8. Observations[s].value # NoValue
  <2>1. Observations[s].value.amount \in Nat
    BY <1>1, <1>2 DEF Gathered
  <2>2. NoValue.amount = -1
    BY DEF NoValue
  <2> QED
    BY <2>1, <2>2
<1> QED
  BY <1>4, <1>5, <1>6, <1>7, <1>8 DEF SnapshotAccepted

LEMMA ResultAccepted ==
    ASSUME PhaseInv, Settled, job.metric \in Reconciled, NEW result \in Results
    PROVE  /\ SnapshotAccepted(result) /\ result.metric = job.metric
           /\ Sources(result.contributions) = Given
<1>1. CASE /\ Given = {}
           /\ result = UnavailableSnapshot(job.metric, job.sources, Observations, ErrorOf)
  BY <1>1, UnavailableAccepted DEF Sources
<1>2. CASE \E s \in Medians(Observations, Given):
              /\ s \in Given
              /\ result = SnapshotAt(job.metric, job.sources, Observations, ErrorOf, s)
  BY <1>2, AvailableAccepted
<1> QED
  BY <1>1, <1>2, ResultCases

(* A ledger without a contribution has no weight left: the metric has no   *)
(* maximal age, and nothing else keeps an answer out.                      *)
LEMMA UnbackedIsOld ==
    ASSUME PhaseInv, Settled, NEW result \in Results, job.metric \in Reconciled, Unbacked(result)
    PROVE  /\ job.metric = "latest_ledger"
           /\ \E s \in Of("answer"): outcome[s].answer.age >= Underflow
<1>1. PICK s \in Of("answer"): s \notin Given
  BY ResultAccepted DEF Unbacked
<1>2. job.metric = "latest_ledger"
  BY DEF Unbacked
<1>3. Stale = {} /\ s \in job.sources /\ outcome[s].kind = "answer"
  BY <1>1, <1>2 DEF Stale, Of
<1>4. /\ s \in DOMAIN Observations /\ Observations[s] = outcome[s].answer
      /\ s \notin DOMAIN ErrorOf
  BY <1>1, <1>2, <1>3 DEF Observations, ErrorOf, Of
<1>5. MaximumAge(job.metric) = 0
  <2>1. MethodologyOf(job.metric).maximumAge = 0 /\ MethodologyOf(job.metric).halfLife = 30
    BY <1>2 DEF MethodologyOf, LedgerMethodology
  <2> QED
    BY <2>1, SMT DEF MaximumAge
<1>6. ~ (EffectiveWeight(s, Observations[s]) > 0)
  BY <1>1, <1>4, <1>5 DEF Given, Usable
<1> DEFINE age == outcome[s].answer.age
<1>7. age \in Nat /\ s \in Source
  BY <1>3, <1>4, GatheredHere DEF Gathered
<1>8. ~ (WeightFromAge(BaseWeight[Class[s]], age) > 0)
  BY <1>4, <1>6 DEF EffectiveWeight
<1>9. ~ (age < Underflow)
  BY <1>7, <1>8, WeightBounds
<1>10. age >= Underflow
  BY <1>7, <1>9, SourceAssumption
<1> QED
  BY <1>1, <1>2, <1>10

(* The agreeing evidence of a supply snapshot is one value at one ledger.  *)
LEMMA MaterializedWhole ==
    ASSUME PhaseInv, Settled, job.metric = "circulating_supply", NEW result \in Results
    PROVE  Materialized(result).state \in {"none", "current"}
<1>1. job.metric \in Reconciled
  BY DEF Reconciled, Metrics
<1>2. CASE Given = {} /\ result = UnavailableSnapshot(job.metric, job.sources, Observations, ErrorOf)
  <2>1. result.status = "unavailable"
    BY <1>1, <1>2, UnavailableAccepted
  <2>2. Materialized(result) = NoReference
    BY <2>1 DEF Materialized
  <2> QED
    BY <2>2 DEF NoReference
<1>3. ASSUME NEW s \in Given,
             result = SnapshotAt(job.metric, job.sources, Observations, ErrorOf, s)
      PROVE  Materialized(result).state = "current"
  <2> DEFINE agreed == {d \in result.contributions: d.agrees}
             evidence == {c.answer.value: c \in agreed}
  <2>1. Gathered(job.metric, job.sources, Observations, ErrorOf)
    BY <1>1, GatheredHere
  <2>2. /\ result.status # "unavailable" /\ result.value = Observations[s].value
    BY <1>1, <1>3, AvailableAccepted
  <2>3. /\ \A c \in agreed: /\ c.source \in Agreeing(job.metric, Observations, ErrorOf, s)
                            /\ c.answer = Observations[c.source]
        /\ \E c \in agreed: c.source = s
    <3>1. s \in Usable(job.metric, Observations, ErrorOf)
      BY DEF Given
    <3>2. agreed = Agreed(result)
      BY DEF Agreed
    <3> HIDE DEF agreed
    <3> QED
      BY <1>3, <2>1, <3>1, <3>2, SnapshotCounts
  <2>4. \A t \in Agreeing(job.metric, Observations, ErrorOf, s):
            ExactSupply(Observations[t].value, Observations[s].value)
    BY DEF Agreeing, Agrees
  <2>5. \A c \in agreed: /\ c.answer.value.amount = result.value.amount
                         /\ c.answer.value.ledger = result.value.ledger
    <3> HIDE DEF agreed
    <3> QED
      BY <2>2, <2>3, <2>4 DEF ExactSupply
  <2> HIDE DEF agreed
  <2>6. evidence # {} /\ \A v \in evidence: /\ v.amount = result.value.amount
                                            /\ v.ledger = result.value.ledger
    BY <2>3, <2>5
  <2> HIDE DEF evidence
  <2>7. {v.ledger: v \in evidence} = {result.value.ledger}
    BY <2>6
  <2>8. Cardinality({v.ledger: v \in evidence}) = 1
    BY <2>7, FS_Singleton
  <2>9. Materialized(result) = [state |-> "current", amount |-> result.value.amount,
                                ledger |-> (CHOOSE v \in evidence: TRUE).ledger]
    BY <2>2, <2>6, <2>8 DEF Materialized, evidence, agreed
  <2> QED
    BY <2>9
<1> QED
  BY <1>2, <1>3, ResultCases

(* A reserve cycle: one source, whatever it answered.                      *)
LEMMA ReserveAccepted ==
    ASSUME PhaseInv, phase = "collected", job.metric = "anchor_reserves", NEW s \in job.sources,
           NEW answered, answered = (outcome[s].kind = "answer"), NEW errorOf, NEW responded
    PROVE  LET available == ReserveSnapshot(s, outcome[s].answer, reference, errorOf)
               missing == ReserveUnavailable(s, responded, errorOf)
           IN  /\ /\ SnapshotAccepted(missing) /\ missing.metric = job.metric
                  /\ missing.status = "unavailable" /\ Deviating(missing) = {}
               /\ answered =>
                  /\ SnapshotAccepted(available) /\ available.metric = job.metric
                  /\ available.status = "degraded" /\ Deviating(available) \subseteq {s}
<1> DEFINE available == ReserveSnapshot(s, outcome[s].answer, reference, errorOf)
           missing == ReserveUnavailable(s, responded, errorOf)
<1>1. /\ missing.status = "unavailable" /\ missing.value = NoValue /\ missing.contributions = {}
      /\ missing.configured = 1 /\ missing.responded \in {0, 1} /\ missing.usable = 0
      /\ missing.agreeing = 0 /\ missing.excluded \in {0, 1} /\ missing.metric = job.metric
  BY DEF ReserveUnavailable
<1>2. /\ available.status = "degraded" /\ available.value = outcome[s].answer.value
      /\ available.configured = 1 /\ available.responded = 1 /\ available.usable = 1
      /\ available.agreeing \in {0, 1} /\ available.excluded = 0
      /\ available.metric = job.metric
      /\ \A c \in available.contributions: c.source = s
  BY DEF ReserveSnapshot
<1> HIDE DEF available, missing
<1>3. SnapshotAccepted(missing) /\ Deviating(missing) = {}
  BY <1>1 DEF SnapshotAccepted, Sources, Deviating
<1>4. ASSUME answered PROVE SnapshotAccepted(available) /\ Deviating(available) \subseteq {s}
  <2>1. s \in Readings
    BY <1>4 DEF Readings, Of
  <2>2. outcome[s].answer.value # NoValue
    <3>1. outcome[s].answer \in Answers[job.metric]
      BY <1>4, OutcomeKinds DEF Settled
    <3>2. outcome[s].answer.value.amount \in Nat
      BY <3>1, AnswersAssumption DEF Metrics
    <3>3. NoValue.amount = -1
      BY DEF NoValue
    <3> QED
      BY <3>2, <3>3
  <2>3. Sources(available.contributions) \subseteq {s}
    BY <1>2 DEF Sources
  <2> QED
    BY <1>2, <2>1, <2>2, <2>3 DEF SnapshotAccepted, Deviating
<1> QED
  BY <1>1, <1>2, <1>3, <1>4 DEF available, missing

LEMMA RefreshInit == Init => RefreshInv
<1> SUFFICES ASSUME Init PROVE RefreshInv
  OBVIOUS
<1> QED
  BY DEF Init, RefreshInv, PhaseInv, SnapshotInv, FailsOnlyWhen, NoReference

LEMMA DiscoverStep ==
    ASSUME RefreshInv, NEW m \in Metrics, Discover(m) PROVE RefreshInv'
<1>1. JobSources(m) \in SUBSET Source
  BY DEF JobSources, RefreshInv, PhaseInv
<1>2. PhaseInv'
  BY <1>1 DEF Discover, RefreshInv, PhaseInv
<1> QED
  BY <1>2 DEF Discover, RefreshInv, SnapshotInv, FailsOnlyWhen

LEMMA CollectStep ==
    ASSUME RefreshInv, Collect(outcome'),
           outcome' \in [job.sources -> IF job.metric \in Metrics THEN Outcomes(job.metric) ELSE {}]
    PROVE  RefreshInv'
<1>1. job.metric \in Metrics
  BY RoutingAssumption DEF Collect, RefreshInv, PhaseInv
<1>2. PhaseInv'
  BY <1>1 DEF Collect, RefreshInv, PhaseInv
<1> QED
  BY <1>2 DEF Collect, RefreshInv, SnapshotInv, FailsOnlyWhen

(* Neither the answers nor what the reconciliation may return of them      *)
(* change when a cycle is persisted or fails.                              *)
LEMMA ResultsKept ==
    ASSUME job' = job, outcome' = outcome
    PROVE  Results' = Results /\ Of("answer")' = Of("answer")
BY DEF Results, Observations, ErrorOf, Of, Stale

LEMMA CommitStep ==
    ASSUME RefreshInv, phase = "collected", NEW result, Commit(result),
           result.metric = job.metric, Deviating(result) \subseteq job.sources,
           job.metric = "circulating_supply" =>
               Materialized(result).state \in {"none", "current"},
           IF job.metric \in Reconciled THEN result \in Results
           ELSE result.status \in {"degraded", "unavailable"}
    PROVE  RefreshInv'
<1>1. /\ job.metric \in metrics /\ job.sources \in SUBSET Source
      /\ job' = job /\ outcome' = outcome /\ snapshot' = result /\ phase' = "committed"
      /\ metrics' = metrics
  BY DEF Commit, RefreshInv, PhaseInv
<1>2. history' \subseteq metrics \X Source
  BY <1>1 DEF Commit, RefreshInv, PhaseInv
<1>3. reference'.state \in {"none", "current"}
  BY DEF Commit, RefreshInv, PhaseInv
<1>4. PhaseInv'
  BY <1>1, <1>2, <1>3 DEF Commit, RefreshInv, PhaseInv
<1>5. SnapshotInv'
  BY <1>1, ResultsKept DEF SnapshotInv
<1> QED
  BY <1>1, <1>4, <1>5 DEF RefreshInv, FailsOnlyWhen

(* A cycle that fails for one of the reasons keeps the strengthening.      *)
LEMMA FailStep ==
    ASSUME RefreshInv, phase = "collected", Fail, Excused PROVE RefreshInv'
<1>1. /\ job' = job /\ outcome' = outcome /\ history' = history /\ reference' = reference
      /\ phase' = "failed" /\ metrics' = metrics /\ enabled' = enabled /\ snapshot' = snapshot
  BY DEF Fail
<1>2. Excused'
  BY <1>1 DEF Excused, Orphaned, Disagreement, Of
<1>3. PhaseInv'
  BY <1>1 DEF RefreshInv, PhaseInv
<1> QED
  BY <1>1, <1>2, <1>3 DEF RefreshInv, SnapshotInv, FailsOnlyWhen

(* A cycle that advances a discrepancy had a source with a row answer, or  *)
(* a source that the median differs from.                                  *)
LEMMA ProjectedExcused ==
    ASSUME PhaseInv, Settled, job.metric \in Reconciled,
           NEW result \in Results, Projected(result) # {}
    PROVE  Excused
<1>1. PICK c \in result.contributions: ~ c.agrees \/ <<job.metric, c.source>> \in history
  BY DEF Projected
<1>2. Given # {}
  BY <1>1, ResultAccepted DEF Sources
<1>3. PICK s \in Given:
        result = SnapshotAt(job.metric, job.sources, Observations, ErrorOf, s)
  BY <1>2, ResultCases
<1>4. PICK t \in Given:
        /\ c.source = t
        /\ c.agrees = (t \in {u \in Given: Agrees(job.metric, Observations[u].value,
                                                Observations[s].value)})
  BY <1>1, <1>3 DEF SnapshotAt, Given
<1>5. \A u \in Given: u \in Of("answer") /\ Observations[u] = outcome[u].answer
  <2>1. Given \subseteq DOMAIN Observations
    BY DEF Given, Usable
  <2>2. \A u \in DOMAIN Observations: u \in Of("answer") /\ Observations[u] = outcome[u].answer
    BY DEF Observations, Of, Stale
  <2> QED
    BY <2>1, <2>2
<1>6. CASE <<job.metric, c.source>> \in history
  BY <1>4, <1>5, <1>6 DEF Excused
<1>7. CASE ~ c.agrees
  <2>1. ~ Agrees(job.metric, Observations[t].value, Observations[s].value)
    BY <1>4, <1>7
  <2>2. ~ Agrees(job.metric, outcome[t].answer.value, outcome[s].answer.value)
    BY <1>5, <2>1
  <2>3. job.metric # "anchor_reserves"
    BY DEF Reconciled
  <2> QED
    BY <1>5, <2>2, <2>3 DEF Disagreement, Excused
<1> QED
  BY <1>1, <1>6, <1>7

LEMMA FinishStep ==
    ASSUME RefreshInv, Finish PROVE RefreshInv'
<1>1. /\ PhaseInv /\ Settled /\ phase = "collected" /\ job.metric \in Reconciled
      /\ job.sources \in SUBSET Source
  BY DEF Finish, RefreshInv, PhaseInv, Settled
<1>2. ASSUME NEW result \in Results, Commit(result) PROVE RefreshInv'
  <2>1. /\ result.metric = job.metric /\ Sources(result.contributions) = Given
    BY <1>1, ResultAccepted
  <2>2. Given \subseteq job.sources
    BY <1>1, GatheredHere, UsableFacts DEF Given
  <2>3. Deviating(result) \subseteq job.sources
    BY <2>1, <2>2 DEF Deviating, Sources
  <2> QED
    BY <1>1, <1>2, <2>1, <2>3, CommitStep, MaterializedWhole
<1>3. ASSUME Fail, Orphaned \/ \E result \in Results: Unbacked(result) \/ ~ SnapshotAccepted(result)
      PROVE  RefreshInv'
  <2>1. \/ Orphaned
        \/ /\ job.metric = "latest_ledger"
           /\ \E s \in Of("answer"): outcome[s].answer.age >= Underflow
    BY <1>1, <1>3, ResultAccepted, UnbackedIsOld
  <2>2. Excused
    BY <2>1 DEF Excused
  <2> QED
    BY <1>1, <1>3, <2>2, FailStep
<1>4. ASSUME NEW result \in Results, Refused(result) PROVE RefreshInv'
  <2>1. Projected(result) # {} /\ Fail
    BY <1>4 DEF Refused
  <2> QED
    BY <1>1, <2>1, ProjectedExcused, FailStep
<1> QED
  BY <1>2, <1>3, <1>4 DEF Finish

(* A reserve that its discrepancy refuses has a row or differs from the    *)
(* supply it is compared with.                                             *)
LEMMA ReserveExcused ==
    ASSUME job.metric = "anchor_reserves", NEW s \in job.sources, outcome[s].kind = "answer",
           NEW errorOf,
           Projected(ReserveSnapshot(s, outcome[s].answer, reference, errorOf)) # {}
    PROVE  Excused
<1>1. s \in Of("answer")
  BY DEF Of
<1>2. PICK c \in ReserveSnapshot(s, outcome[s].answer, reference, errorOf).contributions:
        ~ c.agrees \/ <<job.metric, c.source>> \in history
  BY DEF Projected
<1>3. /\ c.source = s
      /\ c.agrees = WithinBasisPoints(outcome[s].answer.value.amount, reference.amount,
                                      ReserveMethodology.tolerance)
  BY <1>2 DEF ReserveSnapshot
<1> QED
  BY <1>1, <1>2, <1>3 DEF Excused, Disagreement

LEMMA FinishReserveStep ==
    ASSUME RefreshInv, NEW current \in BOOLEAN, FinishReserve(current) PROVE RefreshInv'
<1> DEFINE s == CHOOSE t \in job.sources: TRUE
           answer == outcome[s].answer
           answered == outcome[s].kind = "answer"
           early == IF answered THEN ReserveErrors(answer) ELSE outcome[s].code
           usable == reference.state = "current" /\ current
           skewed == answered /\ early = "none" /\ usable /\ answer.value.ledger # reference.ledger
           code == IF skewed THEN "period_mismatch" ELSE early
           errorOf == [t \in IF code = "none" THEN {} ELSE {s} |-> code]
           available == ReserveSnapshot(s, answer, reference, errorOf)
           missing == ReserveUnavailable(s, answered /\ code = "none", errorOf)
           result == IF answered /\ code = "none" /\ usable THEN available ELSE missing
<1>1. /\ PhaseInv /\ phase = "collected" /\ job.metric = "anchor_reserves"
      /\ job.sources \in SUBSET Source /\ job.sources # {} /\ reference.state # "broken"
  BY DEF FinishReserve, RefreshInv, PhaseInv
<1>2. s \in job.sources
  BY <1>1
<1> HIDE DEF s
<1>3. IF reference.state = "broken" \/ ~ SnapshotAccepted(result) THEN Fail
      ELSE Commit(result) \/ Refused(result)
  BY DEF FinishReserve, s
<1> HIDE DEF errorOf
<1>4. /\ SnapshotAccepted(missing) /\ missing.metric = job.metric
      /\ missing.status = "unavailable" /\ Deviating(missing) = {}
  BY <1>1, <1>2, ReserveAccepted
<1>8. answered /\ Projected(available) # {} => Excused
  BY <1>1, <1>2, ReserveExcused
<1>9. Projected(missing) = {}
  BY DEF Projected, ReserveUnavailable
<1>5. answered => /\ SnapshotAccepted(available) /\ available.metric = job.metric
                  /\ available.status = "degraded" /\ Deviating(available) \subseteq {s}
  BY <1>1, <1>2, ReserveAccepted
<1> HIDE DEF available, missing
<1>6. /\ SnapshotAccepted(result) /\ result.metric = job.metric
      /\ result.status \in {"degraded", "unavailable"} /\ Deviating(result) \subseteq job.sources
  BY <1>2, <1>4, <1>5
<1>7. Commit(result) \/ Refused(result)
  BY <1>1, <1>3, <1>6
<1>10. Projected(result) # {} => Excused
  BY <1>8, <1>9
<1> HIDE DEF result
<1>11. CASE Commit(result)
  BY <1>1, <1>6, <1>11, CommitStep DEF Reconciled
<1>12. CASE Refused(result)
  BY <1>1, <1>10, <1>12, FailStep DEF Refused
<1> QED
  BY <1>7, <1>11, <1>12

(* Every step of a refresh, a commit above all, keeps the strengthening.   *)
THEOREM RefreshStep == RefreshInv /\ [Next]_vars => RefreshInv'
<1> SUFFICES ASSUME RefreshInv, [Next]_vars PROVE RefreshInv'
  OBVIOUS
<1>1. ASSUME NEW s \in Source, SetEnabled(s) PROVE RefreshInv'
  <2>1. PhaseInv'
    BY <1>1 DEF SetEnabled, RefreshInv, PhaseInv
  <2> QED
    BY <1>1, <2>1 DEF SetEnabled, RefreshInv, SnapshotInv, FailsOnlyWhen
<1>2. ASSUME NEW m \in Metrics, Discover(m) PROVE RefreshInv'
  BY <1>2, DiscoverStep
<1>3. ASSUME NEW o \in [job.sources -> IF job.metric \in Metrics THEN Outcomes(job.metric) ELSE {}],
             Collect(o)
      PROVE  RefreshInv'
  <2>1. outcome' = o
    BY <1>3 DEF Collect
  <2> QED
    BY <1>3, <2>1, CollectStep
<1>4. ASSUME Finish PROVE RefreshInv'
  BY <1>4, FinishStep
<1>5. ASSUME NEW current \in BOOLEAN, FinishReserve(current) PROVE RefreshInv'
  BY <1>5, FinishReserveStep
<1>6. ASSUME Settle PROVE RefreshInv'
  <2>1. PhaseInv'
    BY <1>6 DEF Settle, RefreshInv, PhaseInv
  <2> QED
    BY <1>6, <2>1 DEF Settle, RefreshInv, SnapshotInv, FailsOnlyWhen
<1>7. ASSUME UNCHANGED vars PROVE RefreshInv'
  <2>1. PhaseInv' /\ Results' = Results /\ Excused' = Excused
    BY <1>7, ResultsKept DEF vars, RefreshInv, PhaseInv, Excused, Orphaned, Disagreement
  <2> QED
    BY <1>7, <2>1 DEF vars, RefreshInv, SnapshotInv, FailsOnlyWhen
<1> QED
  BY <1>1, <1>2, <1>3, <1>4, <1>5, <1>6, <1>7 DEF Next

(* What a phase holds, what a snapshot was computed from and why a cycle   *)
(* failed: the strengthening behind the properties below.                  *)
THEOREM RefreshInvariant == Spec => []RefreshInv
BY RefreshInit, RefreshStep, PTL DEF Spec

-----------------------------------------------------------------------------
(* What the invariant implies.                                             *)

(* A snapshot that is not unavailable was computed around one of the       *)
(* answers, a weighted median of them.                                     *)
LEMMA CommittedSnapshot ==
    ASSUME RefreshInv, snapshot.metric \in Reconciled
    PROVE  /\ PhaseInv /\ Settled /\ phase = "committed" /\ job.metric \in Reconciled
           /\ snapshot.metric = job.metric /\ snapshot \in Results
           /\ Gathered(job.metric, job.sources, Observations, ErrorOf)
           /\ Sources(snapshot.contributions) = Given
           /\ \A t \in Given: t \in Source /\ Observations[t] = outcome[t].answer
           /\ snapshot.status # "unavailable" => \E s \in Medians(Observations, Given):
                /\ s \in Given
                /\ snapshot = SnapshotAt(job.metric, job.sources, Observations, ErrorOf, s)
                /\ snapshot.value = Observations[s].value
<1>1. phase = "committed"
  <2>1. "none" \notin Reconciled
    BY DEF Reconciled, Metrics
  <2> QED
    BY <2>1 DEF RefreshInv, PhaseInv, NoSnapshot
<1>2. job.metric \in Reconciled /\ snapshot \in Results
  BY <1>1 DEF RefreshInv, SnapshotInv
<1>3. PhaseInv /\ Settled
  BY <1>1 DEF RefreshInv, Settled
<1>4. Gathered(job.metric, job.sources, Observations, ErrorOf)
  BY <1>2, <1>3, GatheredHere
<1>5. snapshot.metric = job.metric /\ Sources(snapshot.contributions) = Given
  BY <1>2, <1>3, ResultAccepted
<1>6. \A t \in Given: t \in Source /\ Observations[t] = outcome[t].answer
  BY <1>4 DEF Given, Usable, Observations, Gathered
<1>7. snapshot.status # "unavailable" => \E s \in Medians(Observations, Given):
         /\ s \in Given
         /\ snapshot = SnapshotAt(job.metric, job.sources, Observations, ErrorOf, s)
         /\ snapshot.value = Observations[s].value
  <2>1. CASE /\ Given = {}
             /\ snapshot = UnavailableSnapshot(job.metric, job.sources, Observations, ErrorOf)
    BY <1>2, <1>3, <2>1, UnavailableAccepted
  <2>2. ASSUME NEW s \in Medians(Observations, Given), s \in Given,
               snapshot = SnapshotAt(job.metric, job.sources, Observations, ErrorOf, s)
        PROVE  snapshot.value = Observations[s].value
    BY <1>2, <1>3, <2>2, AvailableAccepted
  <2> QED
    BY <1>2, <2>1, <2>2, ResultCases
<1> QED
  BY <1>1, <1>2, <1>3, <1>4, <1>5, <1>6, <1>7

LEMMA MedianFairHere == RefreshInv => MedianFair
<1> SUFFICES ASSUME RefreshInv, snapshot.metric \in Reconciled, snapshot.status # "unavailable"
             PROVE  LET sources == Sources(snapshot.contributions)
                        given == [s \in sources |-> outcome[s].answer]
                        below == {s \in sources: given[s].value.amount < snapshot.value.amount}
                        above == {s \in sources: given[s].value.amount > snapshot.value.amount}
                    IN  /\ \E s \in sources: given[s].value = snapshot.value
                        /\ 2 * WeightOf(given, below) <= WeightOf(given, sources)
                        /\ 2 * WeightOf(given, above) <= WeightOf(given, sources)
  BY DEF MedianFair
<1> DEFINE sources == Sources(snapshot.contributions)
           given == [s \in sources |-> outcome[s].answer]
           below == {s \in sources: given[s].value.amount < snapshot.value.amount}
           above == {s \in sources: given[s].value.amount > snapshot.value.amount}
<1>1. /\ Gathered(job.metric, job.sources, Observations, ErrorOf)
      /\ sources = Given
      /\ \A t \in Given: Observations[t] = outcome[t].answer
  BY CommittedSnapshot
<1>2. PICK s \in Medians(Observations, Given):
         s \in Given /\ snapshot.value = Observations[s].value
  BY CommittedSnapshot
<1>3. \A t \in sources: given[t] = Observations[t]
  BY <1>1
<1>4. IsFiniteSet(sources)
  BY <1>1, UsableFacts DEF Given
<1> HIDE DEF sources, given
<1>5. \A A \in SUBSET sources: WeightOf(given, A) = WeightOf(Observations, A)
  <2> SUFFICES ASSUME NEW A \in SUBSET sources
               PROVE  WeightOf(given, A) = WeightOf(Observations, A)
    OBVIOUS
  <2>1. IsFiniteSet(A) /\ \A t \in A: given[t] = Observations[t]
    BY <1>3, <1>4, FS_Subset
  <2> QED
    BY <2>1, WeightOfSame
<1>6. /\ below = {t \in Given: Observations[t].value.amount < Observations[s].value.amount}
      /\ above = {t \in Given: Observations[t].value.amount > Observations[s].value.amount}
  BY <1>1, <1>2, <1>3
<1> DEFINE low == {t \in Given: Observations[t].value.amount < Observations[s].value.amount}
           high == {t \in Given: Observations[t].value.amount > Observations[s].value.amount}
<1>7. /\ 2 * WeightOf(Observations, low) <= WeightOf(Observations, Given)
      /\ 2 * WeightOf(Observations, high) <= WeightOf(Observations, Given)
  BY <1>1, MedianBalanced DEF Given
<1>8. /\ WeightOf(given, below) = WeightOf(Observations, below)
      /\ WeightOf(given, above) = WeightOf(Observations, above)
      /\ WeightOf(given, sources) = WeightOf(Observations, sources)
  <2>1. below \in SUBSET sources /\ above \in SUBSET sources /\ sources \in SUBSET sources
    OBVIOUS
  <2> HIDE DEF below, above
  <2> QED
    BY <1>5, <2>1
<1>9. \E t \in sources: given[t].value = snapshot.value
  BY <1>1, <1>2, <1>3
<1> HIDE DEF below, above, low, high
<1>10. /\ 2 * WeightOf(given, below) <= WeightOf(given, sources)
       /\ 2 * WeightOf(given, above) <= WeightOf(given, sources)
  BY <1>1, <1>6, <1>7, <1>8 DEF low, high
<1> QED
  BY <1>9, <1>10 DEF below, above, sources, given

(* The published value is a lower weighted median of the usable answers:   *)
(* neither side of it outweighs the other (lib/reconcile/weighted-median.ts).*)
THEOREM MedianIsFair == Spec => []MedianFair
BY RefreshInvariant, MedianFairHere, PTL

LEMMA TypeHere == RefreshInv => RefreshTypeOK
<1> SUFFICES ASSUME RefreshInv PROVE RefreshTypeOK
  OBVIOUS
<1>1. /\ job.metric \in metrics \cup {"none"} /\ job.sources \subseteq Source
      /\ reference.state \in {"none", "current", "broken"}
  BY DEF RefreshInv, PhaseInv, NoJob
<1>2. DOMAIN outcome = IF phase \in {"idle", "discovered"} THEN {} ELSE job.sources
  <2>1. DOMAIN << >> = {}
    OBVIOUS
  <2> QED
    BY <2>1 DEF RefreshInv, PhaseInv
<1>3. /\ snapshot.metric = IF phase = "committed" THEN job.metric ELSE "none"
      /\ snapshot.status \in {"verified", "degraded", "unavailable"}
  <2>1. CASE phase # "committed"
    BY <2>1 DEF RefreshInv, PhaseInv, NoSnapshot
  <2>2. CASE phase = "committed" /\ job.metric \notin Reconciled
    BY <2>2 DEF RefreshInv, SnapshotInv
  <2>3. CASE phase = "committed" /\ job.metric \in Reconciled
    <3>1. PhaseInv /\ Settled /\ snapshot \in Results
      BY <2>3 DEF RefreshInv, SnapshotInv, Settled
    <3>2. snapshot.metric = job.metric
      BY <2>3, <3>1, ResultAccepted
    <3>3. snapshot.status \in {"verified", "degraded", "unavailable"}
      BY <2>3, <3>1, ResultCases, AvailableAccepted, UnavailableAccepted
    <3> QED
      BY <2>3, <3>2, <3>3
  <2> QED
    BY <2>1, <2>2, <2>3
<1> QED
  BY <1>1, <1>2, <1>3 DEF RefreshTypeOK, RefreshInv, PhaseInv

(* The variables keep their types, and each phase has what belongs to it.  *)
THEOREM RefreshTypeCorrect == Spec => []RefreshTypeOK
BY RefreshInvariant, TypeHere, PTL

(* A collected cycle is persisted unless a source of one of its            *)
(* discrepancies is gone, a ledger answer weighs nothing any more, a       *)
(* source that answered has a discrepancy row, or two answers differ       *)
(* (orchestrator.ts:260 and 424, latest-ledger-job.ts:288,                 *)
(* repositories.ts:537): one whose sources agree and have no row is.       *)
THEOREM FailureExplained == Spec => []FailsOnlyWhen
<1>1. RefreshInv => FailsOnlyWhen
  BY DEF RefreshInv
<1> QED
  BY <1>1, RefreshInvariant, PTL

(* The evidence that agrees weighs as much as all of it only if it is all. *)
LEMMA AllAgree ==
    ASSUME NEW m, NEW configured, NEW given, NEW errorOf, Gathered(m, configured, given, errorOf),
           NEW agreeing \in SUBSET Usable(m, given, errorOf),
           ~ (WeightOf(given, agreeing) < WeightOf(given, Usable(m, given, errorOf)))
    PROVE  agreeing = Usable(m, given, errorOf)
<1> DEFINE usable == Usable(m, given, errorOf)
           w == Weights(given, usable)
<1>1. /\ IsFiniteSet(usable)
      /\ \A t \in usable: w[t] \in Nat \ {0}
  BY UsableFacts
<1>2. agreeing \in SUBSET usable
  OBVIOUS
<1>3. ~ (WeightOf(given, agreeing) < WeightOf(given, usable))
  OBVIOUS
<1> HIDE DEF usable, w
<1>4. /\ WeightOf(given, agreeing) = Total(w, agreeing) /\ WeightOf(given, usable) = Total(w, usable)
  BY <1>1, <1>2, WeightOfPart DEF w
<1>5. /\ Total(w, agreeing) \in Nat /\ Total(w, usable) \in Nat
      /\ \A x \in usable \ agreeing: Total(w, agreeing) + w[x] <= Total(w, usable)
  BY <1>1, <1>2, TotalPart, TotalNat
<1>6. usable \ agreeing = {}
  <2> SUFFICES ASSUME NEW x \in usable \ agreeing PROVE FALSE
    OBVIOUS
  <2> QED
    BY <1>1, <1>3, <1>4, <1>5
<1> QED
  BY <1>2, <1>6 DEF usable

LEMMA FiniteImage ==
    ASSUME NEW S, IsFiniteSet(S), NEW f, DOMAIN f = S, f = [x \in S |-> f[x]]
    PROVE  IsFiniteSet({f[x]: x \in S})
<1> DEFINE T == {f[x]: x \in S}
<1>1. f \in [S -> T] /\ \A t \in T: \E x \in S: f[x] = t
  OBVIOUS
<1> HIDE DEF T
<1>2. f \in Surjection(S, T)
  BY <1>1 DEF Surjection
<1> QED
  BY <1>2, FS_Surjection DEF T

(* Two upstreams: more than one source, and not a single upstream.         *)
LEMMA TwoUpstreams ==
    ASSUME NEW U, IsFiniteSet(U), U # {}, Cardinality(U) # 1
    PROVE  Cardinality(U) >= 2
<1>1. Cardinality(U) \in Nat /\ Cardinality(U) # 0
  BY FS_CardinalityType, FS_EmptySet
<1> QED
  BY <1>1

LEMMA VerifiedHere == RefreshInv => VerifiedIsEarned
<1> DEFINE sources == Sources(snapshot.contributions)
           given == [s \in sources |-> outcome[s].answer]
<1> SUFFICES ASSUME RefreshInv, snapshot.status = "verified"
             PROVE  /\ snapshot.metric # "anchor_reserves" /\ snapshot.errors = {}
                    /\ sources = job.sources /\ Cardinality(sources) >= 2
                    /\ \A c \in snapshot.contributions: c.agrees
                    /\ Cardinality({Upstream(snapshot.metric, s): s \in sources}) >= 2
                    /\ MethodologyOf(snapshot.metric).expected \subseteq {Class[s]: s \in sources}
                    /\ 2 * WeightOf(given, sources)
                           >= WeightOf([s \in sources |-> [age |-> 0]], sources)
  BY DEF VerifiedIsEarned
<1>1. snapshot.metric \in Reconciled
  <2>1. phase = "committed"
    BY DEF RefreshInv, PhaseInv, NoSnapshot
  <2>2. job.metric \in Reconciled /\ snapshot \in Results
    BY <2>1 DEF RefreshInv, SnapshotInv
  <2> QED
    BY <2>1, <2>2, ResultAccepted DEF RefreshInv, Settled
<1> DEFINE m == job.metric
<1>2. /\ Gathered(m, job.sources, Observations, ErrorOf) /\ m \in Reconciled
      /\ sources = Given /\ snapshot.metric = m
      /\ \A t \in Given: t \in Source /\ Observations[t] = outcome[t].answer
  BY <1>1, CommittedSnapshot
<1>3. PICK s \in Given:
         snapshot = SnapshotAt(m, job.sources, Observations, ErrorOf, s)
  BY <1>1, CommittedSnapshot
<1> DEFINE agreed == Agreeing(m, Observations, ErrorOf, s)
<1>4. ~ Degraded(m, job.sources, Observations, Given, agreed, Observations[s].value, ErrorOf)
  <2>1. agreed = {t \in Given: Agrees(m, Observations[t].value, Observations[s].value)}
    BY DEF Agreeing, Given
  <2>2. snapshot.status = IF Degraded(m, job.sources, Observations, Given, agreed,
                                      Observations[s].value, ErrorOf)
                          THEN "degraded" ELSE "verified"
    BY <1>3, <2>1 DEF SnapshotAt, Given
  <2> HIDE DEF agreed, m
  <2> QED
    BY <2>2
<1>5. snapshot.errors = DOMAIN ErrorOf
  BY <1>3 DEF SnapshotAt
<1>6. /\ Given \in SUBSET job.sources /\ IsFiniteSet(Given) /\ agreed \in SUBSET Given
  BY <1>2, UsableFacts DEF Given, Agreeing
<1>7. IsFiniteSet(job.sources)
  BY <1>2, SourceAssumption, FS_Subset DEF Gathered
<1> HIDE DEF sources, given, m, agreed
<1>8. MethodologyOf(m).minimumVerified = 2 /\ MethodologyOf(m).threshold = 90
  BY <1>2, MethodologyNumbers
<1>9. /\ ~ (Cardinality(Given) < 2) /\ DOMAIN ErrorOf = {}
      /\ ~ (Cardinality(Given) < Cardinality(job.sources))
      /\ ~ (WeightOf(Observations, agreed) < WeightOf(Observations, Given))
      /\ ~ (Confidence(m, job.sources, Observations, Given, agreed, Observations[s].value,
                       DOMAIN ErrorOf) < 100 * MethodologyOf(m).threshold)
  BY <1>4, <1>8 DEF Degraded
<1>10. Given = job.sources /\ Cardinality(Given) >= 2
  <2>1. Cardinality(Given) \in Nat /\ Cardinality(job.sources) \in Nat
    BY <1>6, <1>7, FS_CardinalityType
  <2>2. ~ (Cardinality(Given) < 2) /\ ~ (Cardinality(Given) < Cardinality(job.sources))
    BY <1>9
  <2>3. /\ Cardinality(Given) <= Cardinality(job.sources)
        /\ Cardinality(job.sources) = Cardinality(Given) => job.sources = Given
    BY <1>6, <1>7, FS_Subset
  <2> QED
    BY <2>1, <2>2, <2>3
<1>11. agreed = Given
  <2>1. agreed \in SUBSET Usable(m, Observations, ErrorOf)
    BY <1>6 DEF Given, m
  <2>2. ~ (WeightOf(Observations, agreed)
               < WeightOf(Observations, Usable(m, Observations, ErrorOf)))
    BY <1>9 DEF Given, m
  <2> QED
    BY <1>2, <2>1, <2>2, AllAgree DEF Given, m
<1>12. \A c \in snapshot.contributions: c.agrees
  <2>1. \A c \in snapshot.contributions: c.agrees <=> c.source \in agreed
    <3>1. s \in Usable(m, Observations, ErrorOf)
      BY DEF Given, m
    <3> QED
      BY <1>2, <1>3, <3>1, SnapshotCounts DEF agreed
  <2>2. \A c \in snapshot.contributions: c.source \in Given
    BY <1>2 DEF Sources, sources
  <2> QED
    BY <1>11, <2>1, <2>2
<1>13. Passing(Confidence(m, job.sources, Observations, Given, agreed, Observations[s].value,
                          DOMAIN ErrorOf))
  BY <1>8, <1>9 DEF Passing
<1>14. /\ MethodologyOf(m).expected \subseteq {Class[t]: t \in Given}
       /\ ~ (/\ Cardinality(Given) > 1
             /\ Cardinality({Upstream(m, t): t \in Given}) = 1)
       /\ 2 * Total(Weights(Observations, Given), Given) >= Total(FreshWeights(Given), Given)
  BY <1>2, <1>6, <1>13, ConfidenceNeeds DEF Given, m
<1>15. Cardinality({Upstream(m, t): t \in Given}) >= 2
  <2> DEFINE U == {Upstream(m, t): t \in Given}
  <2>1. Cardinality(Given) > 1
    BY <1>6, <1>10, FS_CardinalityType
  <2>2. IsFiniteSet(U)
    <3> DEFINE f == [t \in Given |-> Upstream(m, t)]
    <3>1. f = [t \in Given |-> f[t]] /\ DOMAIN f = Given /\ U = {f[t]: t \in Given}
      OBVIOUS
    <3> HIDE DEF f, U
    <3>2. IsFiniteSet({f[t]: t \in Given})
      BY <1>6, <3>1, FiniteImage
    <3> QED
      BY <3>1, <3>2
  <2> QED
    BY <1>3, <1>14, <2>1, <2>2, TwoUpstreams
<1>16. /\ WeightOf(given, Given) = Total(Weights(Observations, Given), Given)
       /\ WeightOf([t \in Given |-> [age |-> 0]], Given) = Total(FreshWeights(Given), Given)
  <2>1. \A t \in Given: given[t] = Observations[t]
    BY <1>2 DEF given, sources
  <2>2. WeightOf(given, Given) = WeightOf(Observations, Given)
    BY <1>6, <2>1, WeightOfSame
  <2> QED
    BY <1>6, <2>2, WeightOfIsTotal, FreshIsTotal
<1> QED
  BY <1>1, <1>2, <1>5, <1>9, <1>10, <1>12, <1>14, <1>15, <1>16 DEF sources, given, Reconciled

(* "verified" is only said of a value every configured source agrees with, *)
(* at least two sources of two upstreams, every expected class among them  *)
(* and half of their weight left: what the caps and the threshold of       *)
(* computeConfidence amount to.                                            *)
THEOREM VerifiedIsAlwaysEarned == Spec => []VerifiedIsEarned
BY RefreshInvariant, VerifiedHere, PTL

LEMMA FirstAgreeingHere ==
    ASSUME RefreshInv, snapshot.metric \in Reconciled, snapshot.status # "unavailable"
    PROVE  \E s \in Given:
              /\ snapshot.value = Observations[s].value
              /\ FirstAgreeing.source \in Agreeing(job.metric, Observations, ErrorOf, s)
              /\ FirstAgreeing.answer = Observations[FirstAgreeing.source]
<1> DEFINE agreed == {c \in snapshot.contributions: c.agrees}
           ids == {c.source: c \in agreed}
<1>1. PICK s \in Given:
         /\ snapshot.value = Observations[s].value
         /\ snapshot = SnapshotAt(job.metric, job.sources, Observations, ErrorOf, s)
  BY CommittedSnapshot
<1>2. /\ Gathered(job.metric, job.sources, Observations, ErrorOf)
      /\ \A t \in Given: t \in Source
  BY CommittedSnapshot
<1>3. /\ \A c \in agreed: /\ c.source \in Agreeing(job.metric, Observations, ErrorOf, s)
                          /\ c.answer = Observations[c.source]
      /\ \E c \in agreed: c.source = s
  <2>1. s \in Usable(job.metric, Observations, ErrorOf)
    BY DEF Given
  <2>2. agreed = Agreed(snapshot)
    BY DEF Agreed
  <2> HIDE DEF agreed
  <2> QED
    BY <1>1, <1>2, <2>1, <2>2, SnapshotCounts
<1>4. \A c \in agreed: c.source \in Nat
  <2>1. \A t \in Agreeing(job.metric, Observations, ErrorOf, s): t \in Given
    BY DEF Agreeing, Given
  <2> HIDE DEF agreed
  <2> QED
    BY <1>2, <1>3, <2>1, SourceAssumption
<1> HIDE DEF agreed
<1>5. PICK n \in ids: \A k \in ids: n <= k
  <2>1. ids \in SUBSET Nat /\ ids # {}
    BY <1>3, <1>4
  <2> HIDE DEF ids
  <2> QED
    BY <2>1, LeastNatural
<1>6. \E c \in agreed: \A d \in agreed: c.source <= d.source
  BY <1>5
<1>7. FirstAgreeing \in agreed
  BY <1>6, Zenon DEF FirstAgreeing, agreed
<1> QED
  BY <1>1, <1>3, <1>7

LEMMA CountsHere ==
    ASSUME RefreshInv, snapshot.metric \in Reconciled
    PROVE  /\ CountsMatch /\ SnapshotAccepted(snapshot)
           /\ snapshot.status # "unavailable" => snapshot.agreeing > 0
           /\ DiscrepanciesShown
<1>1. /\ PhaseInv /\ Settled /\ job.metric \in Reconciled /\ snapshot \in Results
      /\ Gathered(job.metric, job.sources, Observations, ErrorOf)
      /\ Sources(snapshot.contributions) = Given
  BY CommittedSnapshot
<1>2. SnapshotAccepted(snapshot)
  BY <1>1, ResultAccepted
<1>3. CASE /\ Given = {}
           /\ snapshot = UnavailableSnapshot(job.metric, job.sources, Observations, ErrorOf)
  <2>1. /\ snapshot.contributions = {} /\ snapshot.usable = 0 /\ snapshot.agreeing = 0
        /\ snapshot.status = "unavailable"
    BY <1>1, <1>3, UnavailableAccepted
  <2>2. {c \in snapshot.contributions: c.agrees} = {}
    BY <2>1
  <2>3. CountsMatch
    BY <2>1, <2>2, FS_EmptySet DEF CountsMatch
  <2>4. DiscrepanciesShown
    BY <2>1 DEF DiscrepanciesShown, Finalized, Sources
  <2> QED
    BY <1>2, <2>1, <2>3, <2>4
<1>4. ASSUME NEW s \in Given,
             snapshot = SnapshotAt(job.metric, job.sources, Observations, ErrorOf, s)
      PROVE  CountsMatch /\ snapshot.agreeing > 0
  <2>1. s \in Usable(job.metric, Observations, ErrorOf)
    BY DEF Given
  <2>2. /\ Cardinality(snapshot.contributions) = snapshot.usable
        /\ Cardinality(Agreed(snapshot)) = snapshot.agreeing /\ snapshot.agreeing \in Nat \ {0}
    BY <1>1, <1>4, <2>1, SnapshotCounts
  <2> QED
    BY <2>2 DEF CountsMatch, Agreed
<1> QED
  BY <1>1, <1>2, <1>3, <1>4, ResultCases DEF DiscrepanciesShown

LEMMA ReadersHere == RefreshInv => ReadersServed
<1> SUFFICES ASSUME RefreshInv PROVE ReadersServed
  OBVIOUS
<1>1. ASSUME snapshot.metric = "latest_ledger" PROVE LedgerServed
  <2>1. SnapshotAccepted(snapshot)
    BY <1>1, CountsHere DEF Reconciled, Metrics
  <2>2. \A n: \A k \in 0..n: k <= n
    OBVIOUS
  <2> QED
    BY <2>1, <2>2 DEF SnapshotAccepted, LedgerServed
<1>2. ASSUME snapshot.metric = "circulating_supply" PROVE SupplyServed
  <2>1. snapshot.metric \in Reconciled /\ job.metric = "circulating_supply"
    BY <1>2, CommittedSnapshot DEF Reconciled, Metrics
  <2>2. ASSUME snapshot.status # "unavailable"
        PROVE  FirstAgreeing.answer.value.amount = snapshot.value.amount
    BY <2>1, <2>2, FirstAgreeingHere DEF Agreeing, Agrees, ExactSupply
  <2> QED
    BY <2>1, <2>2, CountsHere DEF SupplyServed
<1>3. ASSUME snapshot.metric = "trustline_count" PROVE TrustlineServed
  <2>1. snapshot.metric \in Reconciled /\ job.metric = "trustline_count"
    BY <1>3, CommittedSnapshot DEF Reconciled, Metrics
  <2>2. ASSUME snapshot.status # "unavailable"
        PROVE  FirstAgreeing.answer.value = snapshot.value
    <3> DEFINE t == FirstAgreeing.source
    <3>1. PICK s \in Given: /\ snapshot.value = Observations[s].value
                            /\ t \in Agreeing(job.metric, Observations, ErrorOf, s)
                            /\ FirstAgreeing.answer = Observations[t]
      BY <2>1, <2>2, FirstAgreeingHere
    <3>2. t \in Given /\ ExactTrustlines(Observations[t].value, Observations[s].value)
      BY <2>1, <3>1 DEF Agreeing, Agrees, Given
    <3>3. \A u \in Given: Observations[u].value = [amount |-> Observations[u].value.amount,
                                                   ledger |-> Observations[u].value.ledger,
                                                   detail |-> Observations[u].value.detail]
      BY <2>1, CommittedSnapshot DEF Gathered, Given, Usable
    <3> HIDE DEF t
    <3> QED
      BY <3>1, <3>2, <3>3 DEF ExactTrustlines
  <2> QED
    BY <2>1, <2>2, CountsHere DEF TrustlineServed
<1>4. reference.state # "broken"
  BY DEF RefreshInv, PhaseInv
<1> QED
  BY <1>1, <1>2, <1>3, <1>4 DEF ReadersServed

(* What is stored is what the ledger, supply and trustline read models     *)
(* accept, and the latest supply never breaks the reserve jobs.            *)
THEOREM ReadersAlwaysServed == Spec => []ReadersServed
BY RefreshInvariant, ReadersHere, PTL

-----------------------------------------------------------------------------
(* There is always a median.                                               *)

LEMMA LargestAmount ==
    ASSUME NEW P, IsFiniteSet(P), P # {}, NEW a, \A t \in P: a[t] \in Nat
    PROVE  \E s \in P: \A t \in P: a[t] <= a[s]
<1> DEFINE bounds == {n \in Nat: \A t \in P: a[t] <= n}
<1>1. bounds # {}
  <2>1. Total(a, P) \in Nat
    BY TotalNat
  <2>2. \A t \in P: a[t] <= Total(a, P)
    <3>1. Total(a, {}) = 0
      BY FS_EmptySet, TotalUnfolds
    <3>2. \A t \in P \ {}: Total(a, {}) + a[t] <= Total(a, P)
      BY TotalPart
    <3> QED
      BY <2>1, <3>1, <3>2
  <2> QED
    BY <2>1, <2>2
<1>2. PICK n \in bounds: \A k \in bounds: n <= k
  <2>1. bounds \in SUBSET Nat
    OBVIOUS
  <2> HIDE DEF bounds
  <2> QED
    BY <1>1, <2>1, LeastNatural
<1>3. n \in Nat /\ \A t \in P: a[t] <= n
  BY <1>2
<1>4. \E s \in P: a[s] = n
  <2> SUFFICES ASSUME \A s \in P: a[s] # n PROVE FALSE
    OBVIOUS
  <2>1. n # 0 /\ \A t \in P: a[t] <= n - 1
    BY <1>3
  <2>2. n - 1 \in bounds
    BY <1>3, <2>1
  <2> HIDE DEF bounds
  <2>3. n <= n - 1
    BY <1>2, <2>2
  <2> QED
    BY <1>3, <2>3
<1> QED
  BY <1>3, <1>4

(* The weighted median of usable answers exists: some contribution reaches *)
(* the half of the weight, and the selection of weighted-median.ts does    *)
(* not have to fall back on the last one.                                  *)
THEOREM MedianExists ==
    ASSUME NEW m, NEW configured, NEW given, NEW errorOf, Gathered(m, configured, given, errorOf),
           Usable(m, given, errorOf) # {}
    PROVE  Medians(given, Usable(m, given, errorOf)) # {}
<1> DEFINE usable == Usable(m, given, errorOf)
           w == Weights(given, usable)
           a == [t \in usable |-> given[t].value.amount]
           W == Total(w, usable)
           prefixes == {P \in SUBSET usable:
               /\ \A t \in P, u \in usable: a[u] < a[t] => u \in P
               /\ 2 * Total(w, P) >= W}
<1>1. /\ IsFiniteSet(usable) /\ usable \subseteq DOMAIN given /\ usable # {}
      /\ \A t \in usable: w[t] \in Nat \ {0}
  BY UsableFacts
<1>2. \A t \in usable: a[t] \in Nat /\ a[t] = given[t].value.amount
  BY <1>1 DEF Gathered
<1> HIDE DEF usable, w, a
<1>3. W \in Nat /\ W > 0
  <2>1. W \in Nat
    BY <1>1, TotalNat
  <2>2. Total(w, {}) = 0
    BY FS_EmptySet, TotalUnfolds
  <2>3. PICK t: t \in usable
    BY <1>1
  <2>4. Total(w, {}) + w[t] <= W
    BY <1>1, <2>3, TotalPart
  <2> QED
    BY <1>1, <2>1, <2>2, <2>3, <2>4
<1>4. usable \in prefixes
  BY <1>3
<1>5. PICK P \in prefixes: \A y \in prefixes: y \subseteq P => y = P
  <2>1. prefixes \in SUBSET SUBSET usable /\ prefixes # {}
    BY <1>4
  <2> HIDE DEF prefixes
  <2> QED
    BY <1>1, <2>1, SmallestSubset
<1>6. /\ P \in SUBSET usable /\ IsFiniteSet(P) /\ 2 * Total(w, P) >= W
      /\ \A t \in P, u \in usable: a[u] < a[t] => u \in P
  BY <1>1, <1>5, FS_Subset
<1>7. P # {}
  <2>1. Total(w, {}) = 0
    BY FS_EmptySet, TotalUnfolds
  <2> QED
    BY <1>3, <1>6, <2>1
<1>8. PICK s \in P: \A t \in P: a[t] <= a[s]
  BY <1>2, <1>6, <1>7, LargestAmount
<1> DEFINE R == P \ {s}
<1>9. /\ R \in SUBSET usable /\ R # P /\ R \subseteq P
      /\ \A t \in R, u \in usable: a[u] < a[t] => u \in R
  BY <1>2, <1>6, <1>8
<1>10. ~ (2 * Total(w, R) >= W)
  <2>1. R \notin prefixes
    BY <1>5, <1>9
  <2> HIDE DEF R
  <2> QED
    BY <1>9, <2>1
<1>11. Total(w, R) \in Nat /\ Total(w, P) = w[s] + Total(w, R)
  <2>1. Total(w, P) = w[s] + Total(w, R)
    BY <1>1, <1>6, <1>8, TotalRemove
  <2>2. Total(w, R) \in Nat
    BY <1>1, <1>9, TotalPart
  <2> QED
    BY <2>1, <2>2
<1> DEFINE below == {t \in usable: given[t].value.amount < given[s].value.amount}
           tied == {t \in usable \ {s}: given[t].value.amount = given[s].value.amount}
           before == R \ below
<1>12. s \in usable /\ before \in SUBSET tied /\ below \cup before = R
  BY <1>2, <1>6, <1>8
<1>13. /\ WeightOf(given, R) = Total(w, R) /\ WeightOf(given, usable) = W
       /\ EffectiveWeight(s, given[s]) = w[s]
  BY <1>1, <1>9, <1>12, WeightOfPart DEF w, Weights
<1> HIDE DEF R, below, tied, before, W
<1>14. /\ 2 * WeightOf(given, below \cup before) < WeightOf(given, usable)
       /\ 2 * (WeightOf(given, below \cup before) + EffectiveWeight(s, given[s]))
              >= WeightOf(given, usable)
  <2>1. /\ w[s] \in Nat /\ W \in Nat /\ Total(w, R) \in Nat
        /\ ~ (2 * Total(w, R) >= W) /\ 2 * Total(w, P) >= W
        /\ Total(w, P) = w[s] + Total(w, R)
    BY <1>1, <1>3, <1>6, <1>10, <1>11, <1>12 DEF W
  <2>2. 2 * Total(w, R) < W /\ 2 * (Total(w, R) + w[s]) >= W
    BY <2>1
  <2> QED
    BY <1>12, <1>13, <2>2
<1>15. s \in Medians(given, usable)
  BY <1>12, <1>14 DEF Medians, below, tied
<1> QED
  BY <1>15 DEF usable

(* A reconciliation returns a snapshot of any answers it is given.         *)
THEOREM ReconciliationReturns ==
    RefreshInv /\ phase = "collected" /\ job.metric \in Reconciled => Results # {}
<1> SUFFICES ASSUME RefreshInv, phase = "collected", job.metric \in Reconciled
             PROVE  Results # {}
  OBVIOUS
<1>1. Gathered(job.metric, job.sources, Observations, ErrorOf)
  BY GatheredHere DEF RefreshInv, Settled
<1>2. Given # {} => Medians(Observations, Given) # {}
  BY <1>1, MedianExists DEF Given
<1> QED
  BY <1>2 DEF Results, Reconcile, Given
=============================================================================

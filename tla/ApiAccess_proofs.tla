--------------------------- MODULE ApiAccess_proofs ---------------------------
(***************************************************************************)
(* Theorems of ApiAccess: a window grants its limit, and again for each    *)
(* time cleanup took its row while it was in use, and counters tell the    *)
(* grants, because a transaction holds the row it has counted itself into; *)
(* and every key ends once, as the audit says.                             *)
(***************************************************************************)
EXTENDS ApiAccess, FiniteSetTheorems, TLAPS

\* What a window in use has granted beyond what its row counts, cleanup took.
Tally ==
    \A kind \in Kind, w \in Time : InUse(kind, w) =>
        granted[kind][w] <= Limit(kind) * reopened[kind][w] + usage[kind][w]

\* Whoever holds a row found room in it, and holds it alone.
Room ==
    \A r \in Request, kind \in Kind :
        Holds(r, kind) => usage[kind][WindowOf(kind, request[r].at)] < Limit(kind)

Full == \A kind \in Kind, w \in Time : usage[kind][w] <= Limit(kind)

Alone ==
    \A r, q \in Request, kind \in Kind :
        /\ Holds(r, kind) /\ Holds(q, kind)
        /\ WindowOf(kind, request[r].at) = WindowOf(kind, request[q].at)
        => r = q

QuotaInv == /\ TypeOK /\ Room /\ Alone /\ CountersHonest
            /\ Tally /\ Full /\ NotOversubscribed

-----------------------------------------------------------------------------
(* Windows.                                                                *)

Width(kind) == IF kind = "sustained" THEN SustainedWindow ELSE BurstWindow

(* The window of a time is one of the table's windows.                     *)
LEMMA WindowType ==
    ASSUME NEW kind \in Kind, NEW t \in Time
    PROVE  WindowOf(kind, t) \in Time /\ Limit(kind) \in Nat \ {0}
<1>1. Width(kind) \in Nat \ {0} /\ WindowOf(kind, t) = t \div Width(kind)
  BY PlanAssumption DEF Width, WindowOf
<1>2. ASSUME NEW d \in Nat \ {0} PROVE t \div d \in Int /\ t \div d >= 0 /\ t \div d <= t
  BY TimeAssumption DEF Time
<1> QED BY <1>1, <1>2, TimeAssumption, PlanAssumption DEF Limit, Time

(* A window ends for good.                                                 *)
LEMMA WindowOrder ==
    ASSUME NEW kind \in Kind, NEW t \in Nat
    PROVE  WindowOf(kind, t) \in Nat /\ WindowOf(kind, t) <= WindowOf(kind, t + 1)
             /\ WindowOf(kind, t + 1) \in Nat
<1>1. /\ Width(kind) \in Nat \ {0} /\ WindowOf(kind, t) = t \div Width(kind)
      /\ WindowOf(kind, t + 1) = (t + 1) \div Width(kind)
  BY PlanAssumption DEF Width, WindowOf
<1>2. ASSUME NEW d \in Nat \ {0}
      PROVE  t \div d \in Nat /\ (t + 1) \div d \in Nat /\ t \div d <= (t + 1) \div d
  <2>1. t = d * (t \div d) + (t % d) /\ t % d \in 0..d-1 /\ t \div d \in Nat
    OBVIOUS
  <2>2. /\ t + 1 = d * ((t + 1) \div d) + ((t + 1) % d)
        /\ (t + 1) % d \in 0..d-1 /\ (t + 1) \div d \in Nat
    OBVIOUS
  <2> QED BY <2>1, <2>2
<1> QED BY <1>1, <1>2

(* The limit, and again for each cleanup of the window in use.             *)
LEMMA Product ==
    ASSUME NEW l \in Nat, NEW n \in Nat
    PROVE  /\ l * n \in Nat /\ l * (1 + n) \in Nat
           /\ l * (1 + n) = l * n + l /\ l * (n + 1) = l * n + l
OBVIOUS
-----------------------------------------------------------------------------
(* Requests.                                                               *)

(* A step of a transaction changes where its request stands, and no more.  *)
LEMMA StepFacts ==
    ASSUME TypeOK, NEW r \in Request,
           NEW step \in {"scope", "sustained", "burst", "grant"}, Step(r, step)
    PROVE  /\ request' \in [Request -> RequestState]
           /\ request'[r].step = step /\ request'[r].at = request[r].at
           /\ request'[r].key = request[r].key /\ request'[r].dead = request[r].dead
           /\ \A q \in Request : q # r => request'[q] = request[q]
<1>1. request \in [Request -> RequestState] BY DEF TypeOK
<1>2. [request[r] EXCEPT !.step = step] \in RequestState
  BY <1>1 DEF RequestState
<1>3. request' = [request EXCEPT ![r] = [request[r] EXCEPT !.step = step]]
  BY DEF Step
<1>4. ASSUME NEW x \in RequestState, x = [request[r] EXCEPT !.step = step]
      PROVE  x.step = step /\ x.at = request[r].at /\ x.key = request[r].key /\ x.dead = request[r].dead
  BY <1>1, <1>4 DEF RequestState
<1>5. ASSUME NEW x \in RequestState, request' = [request EXCEPT ![r] = x]
      PROVE  /\ request' \in [Request -> RequestState] /\ request'[r] = x
             /\ \A q \in Request : q # r => request'[q] = request[q]
  BY <1>1, <1>5
<1> QED BY <1>2, <1>3, <1>4, <1>5

LEMMA EndFacts ==
    ASSUME TypeOK, NEW r \in Request, End(r)
    PROVE  /\ request' \in [Request -> RequestState]
           /\ request'[r].step = "idle"
           /\ \A q \in Request : q # r => request'[q] = request[q]
<1>1. NoRequest \in RequestState /\ NoRequest.step = "idle"
  BY TimeAssumption DEF NoRequest, RequestState, Time
<1> QED BY <1>1 DEF TypeOK, End

(* Counting a grant.                                                       *)
LEMMA CountedFacts ==
    ASSUME NEW counts \in [Kind -> [Time -> Nat]], NEW t \in Time
    PROVE  /\ Counted(counts, t) \in [Kind -> [Time -> Nat]]
           /\ \A kind \in Kind, w \in Time :
                 Counted(counts, t)[kind][w] =
                     IF w = WindowOf(kind, t) THEN counts[kind][w] + 1 ELSE counts[kind][w]
<1>1. \A kind \in Kind : WindowOf(kind, t) \in Time BY WindowType
<1> QED BY <1>1 DEF Counted

-----------------------------------------------------------------------------
(* Types.                                                                  *)

LEMMA IssuedType ==
    ASSUME NEW e \in Later
    PROVE  Issued(e) \in KeyRow /\ Issued(e).issued /\ ~Issued(e).revoked
BY DEF Issued, KeyRow

LEMMA EventTypes ==
    ASSUME NEW k \in Key, NEW n \in Key
    PROVE  /\ Created(n) \in Event /\ Replaced(k, n) \in Event
           /\ [type |-> "revoked", key |-> k, related |-> NoKey] \in Event
BY KeyAssumption DEF Created, Replaced, Event

LEMMA InitType == Init => TypeOK
<1> SUFFICES ASSUME Init PROVE TypeOK OBVIOUS
<1>1. 0 \in Time BY TimeAssumption DEF Time
<1>2. Absent \in KeyRow BY DEF Absent, KeyRow, Later
<1>3. NoRequest \in RequestState BY <1>1 DEF NoRequest, RequestState
<1>4. NoUsage \in [Kind -> [Time -> Nat]] BY DEF NoUsage
<1> QED BY <1>1, <1>2, <1>3, <1>4 DEF Init, TypeOK

LEMMA TypeStep == TypeOK /\ [Next]_vars => TypeOK'
<1> SUFFICES ASSUME TypeOK, [Next]_vars PROVE TypeOK' OBVIOUS
<1> USE DEF keys, quota
<1>1. ASSUME NEW r \in Request, NEW k \in Key, Arrive(r, k) PROVE TypeOK'
  <2>1. [step |-> "lookup", at |-> now, key |-> k, dead |-> key[k].revoked] \in RequestState
    BY DEF TypeOK, RequestState, KeyRow
  <2> QED BY <1>1, <2>1 DEF Arrive, TypeOK
<1>2. ASSUME NEW r \in Request, Lookup(r) PROVE TypeOK'
  <2>1. request' \in [Request -> RequestState]
    BY <1>2, StepFacts, EndFacts DEF Lookup
  <2> QED BY <1>2, <2>1 DEF Lookup, TypeOK
<1>3. ASSUME NEW r \in Request, Scope(r) PROVE TypeOK'
  <2>1. request' \in [Request -> RequestState]
    BY <1>3, StepFacts, EndFacts DEF Scope
  <2> QED BY <1>3, <2>1 DEF Scope, TypeOK
<1>4. ASSUME NEW r \in Request, ConsumeSustained(r) \/ ConsumeBurst(r) PROVE TypeOK'
  <2>1. request' \in [Request -> RequestState]
    BY <1>4, StepFacts, EndFacts DEF ConsumeSustained, ConsumeBurst, Consume
  <2> QED BY <1>4, <2>1 DEF ConsumeSustained, ConsumeBurst, Consume, TypeOK
<1>5. ASSUME NEW r \in Request, Grant(r) PROVE TypeOK'
  <2>1. request[r].at \in Time BY DEF TypeOK, RequestState
  <2>2. usage' \in [Kind -> [Time -> Nat]] /\ granted' \in [Kind -> [Time -> Nat]]
    BY <1>5, <2>1, CountedFacts DEF Grant, TypeOK
  <2>3. request' \in [Request -> RequestState] BY <1>5, EndFacts DEF Grant
  <2> QED BY <1>5, <2>2, <2>3 DEF Grant, TypeOK
<1>6. ASSUME NEW r \in Request, Fail(r) PROVE TypeOK'
  <2>1. request' \in [Request -> RequestState] BY <1>6, EndFacts DEF Fail
  <2> QED BY <1>6, <2>1 DEF Fail, TypeOK
<1>7. ASSUME NEW n \in Key, NEW e \in Later, Create(n, e) PROVE TypeOK'
  <2>1. key' \in [Key -> KeyRow] BY <1>7, IssuedType DEF Create, TypeOK
  <2>2. audit' \subseteq Event BY <1>7, EventTypes DEF Create, TypeOK
  <2> QED BY <1>7, <2>1, <2>2 DEF Create, TypeOK
<1>8. ASSUME NEW o \in Operator, NEW k \in Key, NEW e \in Later, RotateRead(o, k, e) PROVE TypeOK'
  <2>1. [key |-> k, expires |-> e, at |-> now] \in RotationState
    BY DEF RotationState, TypeOK
  <2> QED BY <1>8, <2>1 DEF RotateRead, TypeOK
<1>9. ASSUME NEW o \in Operator, NEW n \in Key, RotateCommit(o, n) PROVE TypeOK'
  <2>2. PICK x \in RotationState : x = rotation[o] BY <1>9 DEF RotateCommit, TypeOK
  <2>3. x.expires \in Later BY <2>2 DEF RotationState
  <2>4. key' = [[key EXCEPT ![n] = Issued(x.expires)] EXCEPT ![x.key].revoked = TRUE]
    BY <1>9, <2>2 DEF RotateCommit
  <2>5. [key EXCEPT ![n] = Issued(x.expires)] \in [Key -> KeyRow]
    BY <2>3, IssuedType DEF TypeOK
  <2>6. ASSUME NEW f \in [Key -> KeyRow], NEW k PROVE [f EXCEPT ![k].revoked = TRUE] \in [Key -> KeyRow]
    <3>1. \A j \in Key : [f[j] EXCEPT !.revoked = TRUE] \in KeyRow BY DEF KeyRow
    <3> QED BY <3>1
  <2>7. key' \in [Key -> KeyRow] BY <2>4, <2>5, <2>6
  <2>8. audit' \subseteq Event
    <3>1. x.key \in Key BY <2>2 DEF RotationState
    <3>2. Created(n) \in Event BY EventTypes
    <3>3. Replaced(x.key, n) \in Event BY <3>1, EventTypes
    <3> QED BY <1>9, <2>2, <3>2, <3>3 DEF RotateCommit, TypeOK
  <2>9. rotation' \in [Operator -> RotationState \cup {NoRotation}]
    BY <1>9 DEF RotateCommit, TypeOK
  <2> QED BY <1>9, <2>7, <2>8, <2>9 DEF RotateCommit, TypeOK
<1>10. ASSUME NEW o \in Operator, RotateThrows(o) PROVE TypeOK'
  BY <1>10 DEF RotateThrows, TypeOK
<1>11. ASSUME NEW k \in Key, Revoke(k) PROVE TypeOK'
  <2>1. key' \in [Key -> KeyRow]
    <3>1. \A j \in Key : [key[j] EXCEPT !.revoked = TRUE] \in KeyRow BY DEF TypeOK, KeyRow
    <3> QED BY <1>11, <3>1 DEF Revoke, TypeOK
  <2>2. audit' \subseteq Event BY <1>11, EventTypes DEF Revoke, TypeOK
  <2> QED BY <1>11, <2>1, <2>2 DEF Revoke, TypeOK
<1>12. ASSUME NEW kind \in Kind, NEW w \in Time, Prune(kind, w) PROVE TypeOK'
  <2>1. usage' = [usage EXCEPT ![kind] = [usage[kind] EXCEPT ![w] = 0]]
    BY <1>12 DEF Prune
  <2>2. reopened' \in {reopened, [reopened EXCEPT ![kind] =
                                    [reopened[kind] EXCEPT ![w] = reopened[kind][w] + 1]]}
    BY <1>12 DEF Prune
  <2>3. /\ usage' \in [Kind -> [Time -> Nat]]
        /\ reopened' \in [Kind -> [Time -> Nat]]
    BY <2>1, <2>2 DEF TypeOK
  <2> QED BY <1>12, <2>3 DEF Prune, TypeOK
<1>13. ASSUME NEW p \in Policies, Administer(p) PROVE TypeOK'
  BY <1>13 DEF Administer, TypeOK
<1>14. CASE Tick
  BY <1>14, TimeAssumption DEF Tick, TypeOK, Time
<1>15. CASE UNCHANGED vars
  BY <1>15 DEF vars, TypeOK
<1> QED BY <1>1, <1>2, <1>3, <1>4, <1>5, <1>6, <1>7, <1>8, <1>9, <1>10, <1>11, <1>12,
           <1>13, <1>14, <1>15 DEF Next, Serve
-----------------------------------------------------------------------------
(* Quotas.                                                                 *)

LEMMA InitQuota == Init => QuotaInv
<1> SUFFICES ASSUME Init PROVE QuotaInv OBVIOUS
<1>1. TypeOK BY InitType
<1>2. \A r \in Request : request[r].step = "idle" BY DEF Init, NoRequest
<1>3. \A kind \in Kind, w \in Time :
         usage[kind][w] = 0 /\ granted[kind][w] = 0 /\ reopened[kind][w] = 0
  BY DEF Init, NoUsage
<1>4. \A kind \in Kind : Limit(kind) \in Nat \ {0} BY PlanAssumption DEF Limit
<1>5. Tally /\ Full
  <2>1. \A kind \in Kind : Limit(kind) * 0 = 0 BY <1>4
  <2> QED BY <1>3, <1>4, <2>1 DEF Tally, Full
<1>6. Room /\ Alone BY <1>2 DEF Room, Alone, Holds
<1>7. CountersHonest BY <1>3 DEF CountersHonest
<1>8. NotOversubscribed
  <2>1. \A kind \in Kind : Limit(kind) * (1 + 0) \in Nat BY <1>4
  <2> QED BY <1>3, <2>1 DEF NotOversubscribed
<1> QED BY <1>1, <1>5, <1>6, <1>7, <1>8 DEF QuotaInv

(* No request that was not holding rows holds any after such a step, and a *)
(* request that arrives falls into a window that has not ended.            *)
Before(q) ==
    \/ request'[q] = request[q]
    \/ request'[q].step = "idle"
    \/ request'[q].step = "lookup" /\ request'[q].at = now
    \/ /\ request[q].step # "idle" /\ request'[q].step \in {"scope", "sustained"}
       /\ request'[q].at = request[q].at

\* A request that is there was, at its time, or arrived now.
Came(q) ==
    request'[q].step # "idle" =>
        \/ request[q].step # "idle" /\ request'[q].at = request[q].at
        \/ request'[q].at = now

(* The windows in use were.                                                *)
LEMMA StillInUse ==
    ASSUME TypeOK, now' = now, \A q \in Request : Came(q),
           NEW kind \in Kind, NEW w \in Time, InUse(kind, w)'
    PROVE  InUse(kind, w)
<1>1. WindowOf(kind, now)' = WindowOf(kind, now) BY DEF WindowOf
<1>2. CASE WindowOf(kind, now) <= w BY <1>2 DEF InUse
<1>3. ASSUME NEW r \in Request, request'[r].step # "idle",
             WindowOf(kind, request'[r].at) = w
      PROVE  InUse(kind, w)
  <2>1. CASE request[r].step # "idle" /\ request'[r].at = request[r].at
    BY <1>3, <2>1 DEF InUse
  <2>2. CASE request'[r].at = now
    <3>1. WindowOf(kind, now) = w BY <1>3, <2>2
    <3>2. w <= w BY TimeAssumption DEF Time
    <3> QED BY <3>1, <3>2 DEF InUse
  <2> QED BY <1>3, <2>1, <2>2 DEF Came
<1> QED BY <1>1, <1>2, <1>3 DEF InUse, WindowOf

LEMMA QuietStep ==
    ASSUME QuotaInv, TypeOK', now' = now, UNCHANGED quota, \A q \in Request : Before(q)
    PROVE  QuotaInv'
<1> USE DEF quota, QuotaInv
<1>2. \A q \in Request, kind \in Kind :
          Holds(q, kind)' => Holds(q, kind) /\ request'[q].at = request[q].at
  BY DEF Before, Holds
<1>3. Room' BY <1>2 DEF Room, WindowOf, Limit
<1>4. Alone' BY <1>2 DEF Alone, WindowOf
<1>5. CountersHonest' BY DEF CountersHonest, Stale, WindowOf
<1>6. NotOversubscribed' /\ Full' BY DEF NotOversubscribed, Full, Limit
<1>7. \A q \in Request : Came(q) BY DEF Before, Came
<1>8. Tally' BY <1>7, StillInUse DEF Tally, Limit
<1> QED BY <1>3, <1>4, <1>5, <1>6, <1>8

(* A request that counts itself into a row had room there and is alone.    *)
LEMMA ConsumeStep ==
    ASSUME QuotaInv, TypeOK', NEW r \in Request, NEW kind \in Kind,
           NEW next \in {"burst", "grant"}, kind = "sustained" <=> next = "burst",
           Consume(r, kind, next)
    PROVE  QuotaInv'
<1> USE DEF quota, QuotaInv
<1> DEFINE w == WindowOf(kind, request[r].at)
<1>1. now' = now /\ UNCHANGED quota /\ request[r].step = kind /\ ~Held(kind, w)
  BY DEF Consume
<1>2. CASE usage[kind][w] >= Limit(kind)
  <2>1. End(r) BY <1>2, WindowType DEF Consume, TypeOK, RequestState
  <2>2. \A q \in Request : Before(q) BY <2>1, EndFacts DEF Before
  <2> QED BY <1>1, <2>2, QuietStep
<1>3. CASE usage[kind][w] < Limit(kind)
  <2>1. Step(r, next) BY <1>3 DEF Consume
  <2>2. /\ request'[r].step = next /\ request'[r].at = request[r].at
        /\ \A q \in Request : q # r => request'[q] = request[q]
    BY <2>1, StepFacts
  <2>3. request[r].step # "idle" BY <1>1 DEF Kind
  <2>4. \A q \in Request : Came(q)
    BY <2>2, <2>3 DEF Came
  <2>5. \A q \in Request : q # r => (\A k \in Kind : Holds(q, k)' <=> Holds(q, k))
    BY <2>2 DEF Holds
  <2>6. \A k \in Kind : Holds(r, k)' => Holds(r, k) \/ k = kind
    BY <1>1, <2>2 DEF Holds, Kind
  <2>7. Tally' BY <1>1, <2>4, StillInUse DEF Tally, Limit
  <2>8. Room'
    BY <1>1, <1>3, <2>2, <2>5, <2>6 DEF Room, WindowOf, Limit
  <2>9. Alone'
    <3>1. \A q \in Request : Holds(q, kind) => WindowOf(kind, request[q].at) # w
      BY <1>1 DEF Held
    <3>2. \A q \in Request, k \in Kind : WindowOf(k, request[q].at)' = WindowOf(k, request[q].at)
      BY <2>2 DEF WindowOf
    <3>3. ~Holds(r, kind) BY <3>1
    <3> QED BY <2>5, <2>6, <3>1, <3>2, <3>3 DEF Alone
  <2>10. CountersHonest' BY <1>1 DEF CountersHonest, Stale, WindowOf
  <2>11. NotOversubscribed' /\ Full' BY <1>1 DEF NotOversubscribed, Full, Limit
  <2> QED BY <2>7, <2>8, <2>9, <2>10, <2>11
<1>4. usage[kind][w] \in Nat /\ Limit(kind) \in Nat
  <2>1. request[r].at \in Time BY DEF TypeOK, RequestState
  <2>2. w \in Time BY <2>1, WindowType
  <2> QED BY <2>2, PlanAssumption DEF TypeOK, Limit
<1> QED BY <1>2, <1>3, <1>4

LEMMA GrantStep ==
    ASSUME QuotaInv, TypeOK', NEW r \in Request, Grant(r)
    PROVE  QuotaInv'
<1> USE DEF QuotaInv
<1> DEFINE w(kind) == WindowOf(kind, request[r].at)
<1>1. request[r].step = "grant" /\ now' = now /\ reopened' = reopened BY DEF Grant
<1>2. request[r].at \in Time BY DEF TypeOK, RequestState
<1>3. \A kind \in Kind : Holds(r, kind) /\ w(kind) \in Time /\ InUse(kind, w(kind))
  BY <1>1, <1>2, WindowType DEF Holds, Kind, InUse
<1>4. /\ request'[r].step = "idle"
      /\ \A q \in Request : q # r => request'[q] = request[q]
  BY EndFacts DEF Grant
<1>5. \A kind \in Kind, v \in Time :
         /\ usage'[kind][v] = IF v = w(kind) THEN usage[kind][v] + 1 ELSE usage[kind][v]
         /\ granted'[kind][v] = IF v = w(kind) THEN granted[kind][v] + 1 ELSE granted[kind][v]
  <2>1. usage' = Counted(usage, request[r].at) /\ granted' = Counted(granted, request[r].at)
    BY DEF Grant
  <2>2. usage \in [Kind -> [Time -> Nat]] /\ granted \in [Kind -> [Time -> Nat]]
    BY DEF TypeOK
  <2>3. \A kind \in Kind, v \in Time :
           Counted(usage, request[r].at)[kind][v] =
               IF v = w(kind) THEN usage[kind][v] + 1 ELSE usage[kind][v]
    BY <1>2, <2>2, CountedFacts
  <2>4. \A kind \in Kind, v \in Time :
           Counted(granted, request[r].at)[kind][v] =
               IF v = w(kind) THEN granted[kind][v] + 1 ELSE granted[kind][v]
    BY <1>2, <2>2, CountedFacts
  <2> QED BY <2>1, <2>3, <2>4
<1>7. \A q \in Request, kind \in Kind :
         Holds(q, kind)' => Holds(q, kind) /\ q # r /\ request'[q] = request[q]
  BY <1>4 DEF Holds
<1>8. Alone' BY <1>7 DEF Alone, WindowOf
<1>9. Room'
  <2> SUFFICES ASSUME NEW q \in Request, NEW kind \in Kind, Holds(q, kind)'
               PROVE  usage'[kind][WindowOf(kind, request[q].at)] < Limit(kind)
    BY <1>7 DEF Room, WindowOf, Limit
  <2>1. Holds(q, kind) /\ q # r BY <1>7
  <2>2. WindowOf(kind, request[q].at) # w(kind) BY <1>3, <2>1 DEF Alone
  <2>3. request[q].at \in Time BY DEF TypeOK, RequestState
  <2>4. WindowOf(kind, request[q].at) \in Time BY <2>3, WindowType
  <2> QED BY <1>5, <2>1, <2>2, <2>4 DEF Room
<1>10. CountersHonest'
  <2> SUFFICES ASSUME NEW kind \in Kind, NEW v \in Time
               PROVE  usage'[kind][v] = granted'[kind][v] \/ Stale(kind, v)
    BY <1>1 DEF CountersHonest, Stale, WindowOf
  <2>1. CASE v = w(kind) BY <1>3, <1>5, <2>1 DEF CountersHonest
  <2>2. CASE v # w(kind) BY <1>5, <2>2 DEF CountersHonest
  <2> QED BY <2>1, <2>2
<1>11. \A q \in Request : Came(q) BY <1>4 DEF Came
<1>12. ASSUME NEW kind \in Kind, NEW v \in Time
       PROVE  /\ usage'[kind][v] <= Limit(kind)
              /\ InUse(kind, v)' =>
                   granted'[kind][v] <= Limit(kind) * reopened[kind][v] + usage'[kind][v]
              /\ granted'[kind][v] <= Limit(kind) * (1 + reopened[kind][v])
  <2> DEFINE g == granted[kind][v]
             u == usage[kind][v]
             l == Limit(kind)
             n == reopened[kind][v]
  <2>1. g \in Nat /\ u \in Nat /\ l \in Nat /\ n \in Nat
    BY PlanAssumption DEF TypeOK, Limit
  <2>2. InUse(kind, v)' => InUse(kind, v) BY <1>1, <1>11, StillInUse
  <2>3. u <= l /\ g <= l * (1 + n) /\ (InUse(kind, v) => g <= l * n + u)
    BY DEF Full, NotOversubscribed, Tally
  <2>4. v = w(kind) => InUse(kind, v) /\ u < l BY <1>3 DEF Room
  <2>5. l * n \in Nat /\ l * (1 + n) = l * n + l BY <2>1, Product
  <2>6. /\ usage'[kind][v] = IF v = w(kind) THEN u + 1 ELSE u
        /\ granted'[kind][v] = IF v = w(kind) THEN g + 1 ELSE g
    BY <1>5
  <2> HIDE DEF g, u, l, n, w
  <2>7. PICK m \in Nat : m = l * n BY <2>5
  <2>8. CASE v = w(kind)
    <3>1. g <= m + u /\ u < l BY <2>3, <2>4, <2>7, <2>8
    <3>2. /\ u + 1 <= l /\ g + 1 <= m + (u + 1) /\ g + 1 <= m + l
      BY <2>1, <2>7, <3>1
    <3> QED BY <2>5, <2>6, <2>7, <2>8, <3>2 DEF l, n
  <2>9. CASE v # w(kind)
    BY <2>2, <2>3, <2>6, <2>9 DEF l, n
  <2> QED BY <2>8, <2>9
<1>13. Tally' /\ Full' /\ NotOversubscribed'
  BY <1>1, <1>12 DEF Tally, Full, NotOversubscribed, Limit
<1> QED BY <1>8, <1>9, <1>10, <1>13

LEMMA PruneStep ==
    ASSUME QuotaInv, TypeOK', NEW kind \in Kind, NEW w \in Time, Prune(kind, w)
    PROVE  QuotaInv'
<1> USE DEF QuotaInv
<1>1. /\ now' = now /\ request' = request /\ granted' = granted
      /\ Stale(kind, w) /\ ~Held(kind, w)
  BY DEF Prune
<1>2. \A k \in Kind, v \in Time :
         usage'[k][v] = IF k = kind /\ v = w THEN 0 ELSE usage[k][v]
  <2>1. usage' = [usage EXCEPT ![kind] = [usage[kind] EXCEPT ![w] = 0]] BY DEF Prune
  <2> QED BY <2>1 DEF TypeOK
<1>3. \A k \in Kind, v \in Time :
         reopened'[k][v] = IF k = kind /\ v = w /\ InUse(kind, w)
                           THEN reopened[k][v] + 1 ELSE reopened[k][v]
  <2>1. reopened' = IF InUse(kind, w)
                    THEN [reopened EXCEPT ![kind] =
                            [reopened[kind] EXCEPT ![w] = reopened[kind][w] + 1]]
                    ELSE reopened
    BY DEF Prune
  <2> QED BY <2>1 DEF TypeOK
<1>4. Alone' BY <1>1 DEF Alone, Holds, WindowOf
<1>5. Room'
  <2> SUFFICES ASSUME NEW q \in Request, NEW k \in Kind, Holds(q, k)
               PROVE  usage'[k][WindowOf(k, request[q].at)] < Limit(k)
    BY <1>1 DEF Room, Holds, WindowOf, Limit
  <2>1. request[q].at \in Time BY DEF TypeOK, RequestState
  <2>2. WindowOf(k, request[q].at) \in Time BY <2>1, WindowType
  <2>3. ~(k = kind /\ WindowOf(k, request[q].at) = w) BY <1>1 DEF Held
  <2> QED BY <1>2, <2>2, <2>3 DEF Room
<1>6. CountersHonest' BY <1>1, <1>2 DEF CountersHonest, Stale, WindowOf
<1>7. \A k \in Kind, v \in Time : InUse(k, v)' <=> InUse(k, v)
  BY <1>1 DEF InUse, WindowOf
<1>8. ASSUME NEW k \in Kind, NEW v \in Time
      PROVE  /\ usage'[k][v] <= Limit(k)
             /\ InUse(k, v) => granted[k][v] <= Limit(k) * reopened'[k][v] + usage'[k][v]
             /\ granted[k][v] <= Limit(k) * (1 + reopened'[k][v])
  <2> DEFINE g == granted[k][v]
             u == usage[k][v]
             l == Limit(k)
             n == reopened[k][v]
  <2>1. g \in Nat /\ u \in Nat /\ l \in Nat /\ n \in Nat
    BY PlanAssumption DEF TypeOK, Limit
  <2>2. u <= l /\ g <= l * (1 + n) /\ (InUse(k, v) => g <= l * n + u)
    BY DEF Full, NotOversubscribed, Tally
  <2>3. usage'[k][v] \in {u, 0} /\ reopened'[k][v] \in {n, n + 1}
    BY <1>2, <1>3
  <2>4. CASE k = kind /\ v = w /\ InUse(k, v)
    <3>1. usage'[k][v] = 0 /\ reopened'[k][v] = n + 1 BY <1>2, <1>3, <2>4
    <3>2. /\ l * (1 + n) = l * n + l /\ l * (n + 1) = l * n + l /\ l * n \in Nat
          /\ l * (1 + (n + 1)) = l * (n + 1) + l /\ l * (n + 1) \in Nat
      <4>1. n + 1 \in Nat BY <2>1
      <4> QED BY <2>1, <4>1, Product
    <3> HIDE DEF g, u, l, n
    <3>3. PICK m \in Nat : m = l * n BY <3>2
    <3>4. /\ g <= l * (n + 1) + 0 /\ g <= l * (1 + (n + 1)) /\ 0 <= l
      BY <2>1, <2>2, <3>2, <3>3
    <3> QED BY <3>1, <3>4 DEF g, l
  <2>5. CASE ~(k = kind /\ v = w /\ InUse(k, v))
    <3>1. reopened'[k][v] = n BY <1>3, <2>5
    <3>2. InUse(k, v) => usage'[k][v] = u BY <1>2, <2>5
    <3>3. 0 <= l BY <2>1
    <3> QED BY <2>2, <2>3, <3>1, <3>2, <3>3
  <2> QED BY <2>4, <2>5
<1>9. Tally' /\ Full' /\ NotOversubscribed'
  BY <1>1, <1>7, <1>8 DEF Tally, Full, NotOversubscribed, Limit
<1> QED BY <1>4, <1>5, <1>6, <1>9

LEMMA TickStep ==
    ASSUME QuotaInv, TypeOK', Tick
    PROVE  QuotaInv'
<1> USE DEF QuotaInv, quota
<1>1. now \in Nat /\ now' = now + 1
  BY TimeAssumption DEF Tick, TypeOK, Time
<1>2. /\ request' = request /\ granted' = granted /\ usage' = usage
      /\ reopened' = reopened
  BY DEF Tick
<1>3. Tally'
  <2>1. ASSUME NEW kind \in Kind, NEW w \in Time, InUse(kind, w)' PROVE InUse(kind, w)
    <3>1. /\ WindowOf(kind, now) \in Nat /\ WindowOf(kind, now') \in Nat
          /\ WindowOf(kind, now) <= WindowOf(kind, now')
      BY <1>1, WindowOrder
    <3>2. WindowOf(kind, now') <= w => WindowOf(kind, now) <= w
      BY <3>1, TimeAssumption DEF Time
    <3> QED BY <1>2, <2>1, <3>2 DEF InUse, WindowOf
  <2> QED BY <1>2, <2>1 DEF Tally, Limit
<1>4. Room' /\ Alone' BY <1>2 DEF Room, Alone, Holds, WindowOf, Limit
<1>5. NotOversubscribed' /\ Full' BY <1>2 DEF NotOversubscribed, Full, Limit
<1>6. CountersHonest'
  <2>1. ASSUME NEW kind \in Kind, NEW v \in Time, Stale(kind, v) PROVE Stale(kind, v)'
    <3>1. PICK t \in Time : WindowOf(kind, t) = v /\ t + Retention < now
      BY <2>1 DEF Stale
    <3>2. t + Retention < now'
      BY <1>1, <3>1, CleanupAssumption, TimeAssumption DEF Time
    <3> QED BY <3>1, <3>2 DEF Stale, WindowOf
  <2> QED BY <1>2, <2>1 DEF CountersHonest
<1> QED BY <1>3, <1>4, <1>5, <1>6

LEMMA QuotaStep == QuotaInv /\ [Next]_vars => QuotaInv'
<1> SUFFICES ASSUME QuotaInv, [Next]_vars PROVE QuotaInv' OBVIOUS
<1> USE DEF keys
<1>1. TypeOK' /\ TypeOK BY TypeStep DEF QuotaInv
<1>2. ASSUME NEW r \in Request, NEW k \in Key, Arrive(r, k) PROVE QuotaInv'
  <2>1. \A q \in Request : Before(q) BY <1>1, <1>2 DEF Arrive, Before, TypeOK
  <2> QED BY <1>1, <1>2, <2>1, QuietStep DEF Arrive
<1>3. ASSUME NEW r \in Request, Lookup(r) \/ Scope(r) \/ Fail(r) PROVE QuotaInv'
  <2>1. /\ request[r].step # "idle" /\ now' = now /\ UNCHANGED quota
        /\ End(r) \/ Step(r, "scope") \/ Step(r, "sustained")
    BY <1>3 DEF Lookup, Scope, Fail
  <2>2. \A q \in Request : Before(q)
    BY <1>1, <2>1, EndFacts, StepFacts DEF Before
  <2> QED BY <1>1, <2>1, <2>2, QuietStep
<1>4. ASSUME NEW r \in Request, ConsumeSustained(r) \/ ConsumeBurst(r) PROVE QuotaInv'
  <2>1. "sustained" \in Kind /\ "burst" \in Kind BY DEF Kind
  <2>2. CASE ConsumeSustained(r)
    <3>1. Consume(r, "sustained", "burst") BY <2>2 DEF ConsumeSustained
    <3>2. \A kind \in Kind, next \in {"burst", "grant"} :
             Consume(r, kind, next) /\ (kind = "sustained" <=> next = "burst") => QuotaInv'
      BY <1>1, ConsumeStep
    <3> QED BY <2>1, <3>1, <3>2
  <2>3. CASE ConsumeBurst(r)
    <3>1. Consume(r, "burst", "grant") BY <2>3 DEF ConsumeBurst
    <3>2. \A kind \in Kind, next \in {"burst", "grant"} :
             Consume(r, kind, next) /\ (kind = "sustained" <=> next = "burst") => QuotaInv'
      BY <1>1, ConsumeStep
    <3> QED BY <2>1, <3>1, <3>2
  <2> QED BY <1>4, <2>2, <2>3
<1>5. ASSUME NEW r \in Request, Grant(r) PROVE QuotaInv'
  BY <1>1, <1>5, GrantStep
<1>6. ASSUME now' = now, UNCHANGED quota, request' = request PROVE QuotaInv'
  BY <1>1, <1>6, QuietStep DEF Before
<1>7. ASSUME NEW n \in Key, NEW e \in Later, Create(n, e) PROVE QuotaInv'
  BY <1>6, <1>7 DEF Create
<1>8. ASSUME NEW o \in Operator, NEW k \in Key, NEW e \in Later, RotateRead(o, k, e) PROVE QuotaInv'
  BY <1>6, <1>8 DEF RotateRead
<1>9. ASSUME NEW o \in Operator, NEW n \in Key, RotateCommit(o, n) PROVE QuotaInv'
  BY <1>6, <1>9 DEF RotateCommit
<1>10. ASSUME NEW k \in Key, Revoke(k) PROVE QuotaInv'
  BY <1>6, <1>10 DEF Revoke
<1>11. ASSUME NEW kind \in Kind, NEW w \in Time, Prune(kind, w) PROVE QuotaInv'
  BY <1>1, <1>11, PruneStep
<1>12. ASSUME NEW p \in Policies, Administer(p) PROVE QuotaInv'
  BY <1>6, <1>12 DEF Administer
<1>13. CASE Tick BY <1>1, <1>13, TickStep
<1>14. CASE UNCHANGED vars BY <1>6, <1>14 DEF vars
<1>15. ASSUME NEW o \in Operator, RotateThrows(o) PROVE QuotaInv'
  BY <1>6, <1>15 DEF RotateThrows
<1> QED BY <1>2, <1>3, <1>4, <1>5, <1>7, <1>8, <1>9, <1>10, <1>11, <1>12, <1>13, <1>14,
           <1>15 DEF Next, Serve

(* QuotaInv holds in every reachable state, whatever the limits, windows,  *)
(* number of requests and retention.                                       *)
THEOREM QuotaInductive == Spec => []QuotaInv
<1>1. Init => QuotaInv BY InitQuota
<1>2. QuotaInv /\ [Next]_vars => QuotaInv' BY QuotaStep
<1> QED BY <1>1, <1>2, PTL DEF Spec

(* Every variable keeps its type, and every audit event passes the table's *)
(* checks.                                                                 *)
THEOREM AccessTypeCorrect == Spec => []TypeOK
<1>1. QuotaInv => TypeOK BY DEF QuotaInv
<1> QED BY <1>1, QuotaInductive, PTL

(* Whatever the windows and the retention, no window of either quota grants *)
(* more than its limit, and its limit again for each cleanup that took its *)
(* row while requests could still be counted into it.                      *)
THEOREM NotOversubscribedHolds == Spec => []NotOversubscribed
<1>1. QuotaInv => NotOversubscribed BY DEF QuotaInv
<1> QED BY <1>1, QuotaInductive, PTL

(* The counter of a window in use is the number of requests granted in it. *)
THEOREM CountersHonestHolds == Spec => []CountersHonest
<1>1. QuotaInv => CountersHonest BY DEF QuotaInv
<1> QED BY <1>1, QuotaInductive, PTL

-----------------------------------------------------------------------------
(* Keys.                                                                   *)

\* A key ends when it is revoked, by one event, and what a rotation has read
\* was issued.
KeyInv ==
    /\ TypeOK
    /\ \A k \in Key : key[k].issued <=> Created(k) \in audit
    /\ \A k \in Key : key[k].revoked => key[k].issued /\ (\E e \in Event : Ends(k) = {e})
    /\ \A k \in Key : ~key[k].revoked => Ends(k) = {}
    /\ \A e \in audit : e.type = "rotated" => key[e.related].issued
    /\ \A o \in Operator : rotation[o] # NoRotation => key[rotation[o].key].issued

(* What the events of the commands say.                                    *)
LEMMA EventFacts ==
    ASSUME NEW k \in Key, NEW n \in Key
    PROVE  /\ Created(n).type = "created" /\ Created(n).key = n
           /\ Replaced(k, n).type = "rotated" /\ Replaced(k, n).key = k
           /\ Replaced(k, n).related = n
           /\ Created(k) = Created(n) => k = n
BY DEF Created, Replaced

(* A key's end is appended, and nothing else happens to any key but n.     *)
LEMMA EndAppended ==
    ASSUME KeyInv, TypeOK', NEW k \in Key, key[k].issued, ~key[k].revoked,
           NEW end \in Event, end.key = k, end.type # "created",
           NEW new \in SUBSET Key, \A n \in new : ~key[n].issued,
           audit' = audit \cup {Created(n) : n \in new} \cup {end},
           end.type = "rotated" => end.related \in new,
           \A j \in Key : j # k /\ j \notin new => key'[j] = key[j],
           \A n \in new : key'[n].issued /\ ~key'[n].revoked,
           key'[k].issued /\ key'[k].revoked,
           \A o \in Operator : rotation'[o] # NoRotation => rotation'[o] = rotation[o]
    PROVE  KeyInv'
<1> USE DEF KeyInv
<1>1. \A j \in Key : key[j].issued => key'[j].issued /\ j \notin new
  OBVIOUS
<1>2. ASSUME NEW j \in Key PROVE key'[j].issued <=> Created(j) \in audit'
  <2>1. Created(j) # end BY EventFacts
  <2>2. Created(j) \in {Created(n) : n \in new} <=> j \in new BY EventFacts
  <2> QED BY <2>1, <2>2
<1>3. ASSUME NEW j \in Key
      PROVE  Ends(j)' = IF j = k THEN {end} ELSE Ends(j)
  <2>1. \A e \in {Created(n) : n \in new} : e.type = "created" BY EventFacts
  <2>2. \A e : e \in Ends(j)' <=> e \in Ends(j) \/ (e = end /\ j = k) BY <2>1 DEF Ends
  <2>3. CASE j = k
    <3>1. Ends(k) = {} OBVIOUS
    <3>2. \A e : e \in Ends(k)' <=> e = end BY <2>2, <2>3, <3>1
    <3>3. Ends(k)' = {end} BY <3>2
    <3> QED BY <2>3, <3>3
  <2>4. CASE j # k
    <3>1. \A e : e \in Ends(j)' <=> e \in Ends(j) BY <2>2, <2>4
    <3>2. Ends(j)' = Ends(j) BY <3>1
    <3> QED BY <2>4, <3>2
  <2> QED BY <2>3, <2>4
<1>4. ASSUME NEW j \in Key, key'[j].revoked
      PROVE  key'[j].issued /\ (\E e \in Event : Ends(j)' = {e})
  <2>1. CASE j = k BY <1>3, <2>1
  <2>2. CASE j # k BY <1>3, <1>4, <2>2
  <2> QED BY <2>1, <2>2
<1>5. ASSUME NEW j \in Key, ~key'[j].revoked PROVE Ends(j)' = {}
  <2>1. j # k BY <1>5
  <2>2. ~key[j].revoked BY <1>5, <2>1
  <2> QED BY <1>3, <2>1, <2>2
<1>6. ASSUME NEW e \in audit', e.type = "rotated" PROVE key'[e.related].issued
  <2>1. e \in Event /\ e.related \in Key BY <1>6, KeyAssumption DEF TypeOK, Event
  <2>2. CASE e = end BY <1>6, <2>2
  <2>3. CASE e \in audit BY <1>1, <1>6, <2>1, <2>3
  <2>4. \A c \in {Created(n) : n \in new} : c.type = "created" BY EventFacts
  <2> QED BY <1>6, <2>2, <2>3, <2>4
<1>7. ASSUME NEW o \in Operator, rotation'[o] # NoRotation PROVE key'[rotation'[o].key].issued
  <2>1. rotation[o].key \in Key BY <1>7 DEF TypeOK, RotationState
  <2> QED BY <1>1, <1>7, <2>1
<1> QED BY <1>2, <1>4, <1>5, <1>6, <1>7

LEMMA KeyStep == KeyInv /\ [Next]_vars => KeyInv'
<1> SUFFICES ASSUME KeyInv, [Next]_vars PROVE KeyInv' OBVIOUS
<1>1. TypeOK /\ TypeOK' BY TypeStep DEF KeyInv
<1>2. ASSUME UNCHANGED keys PROVE KeyInv'
  BY <1>1, <1>2 DEF keys, KeyInv, Ends
<1>3. ASSUME NEW n \in Key, NEW e \in Later, Create(n, e) PROVE KeyInv'
  <2>1. ~key[n].issued /\ rotation' = rotation /\ audit' = audit \cup {Created(n)}
    BY <1>3 DEF Create
  <2>2. /\ key'[n].issued /\ ~key'[n].revoked
        /\ \A j \in Key : j # n => key'[j] = key[j]
    BY <1>1, <1>3, IssuedType DEF Create, TypeOK
  <2>3. ASSUME NEW j \in Key PROVE Ends(j)' = Ends(j)
    BY <2>1, EventFacts DEF Ends
  <2>4. \A j \in Key : key'[j].issued <=> Created(j) \in audit'
    BY <2>1, <2>2, EventFacts DEF KeyInv
  <2>5. \A j \in Key : key'[j].revoked = key[j].revoked /\ (key[j].issued => key'[j].issued)
    <3>1. ~key[n].revoked
      <4>1. key[n].revoked => key[n].issued BY DEF KeyInv
      <4> QED BY <2>1, <4>1
    <3>2. key'[n].revoked = key[n].revoked
      <4>1. key[n].revoked \in BOOLEAN /\ key'[n].revoked \in BOOLEAN
        BY <1>1 DEF TypeOK, KeyRow
      <4> QED BY <2>2, <3>1, <4>1
    <3> QED BY <2>2, <3>2
  <2>6. ASSUME NEW x \in audit', x.type = "rotated" PROVE key'[x.related].issued
    <3>1. x \in audit BY <2>1, <2>6, EventFacts
    <3>2. x.related \in Key BY <1>1, <2>6, <3>1, KeyAssumption DEF TypeOK, Event
    <3> QED BY <2>5, <2>6, <3>1, <3>2 DEF KeyInv
  <2>7. ASSUME NEW o \in Operator, rotation'[o] # NoRotation
        PROVE  key'[rotation'[o].key].issued
    <3>1. rotation[o].key \in Key BY <1>1, <2>1, <2>7 DEF TypeOK, RotationState
    <3> QED BY <2>1, <2>5, <2>7, <3>1 DEF KeyInv
  <2>8. \A j \in Key : key'[j].revoked => key'[j].issued /\ (\E x \in Event : Ends(j)' = {x})
    BY <2>3, <2>5 DEF KeyInv
  <2>9. \A j \in Key : ~key'[j].revoked => Ends(j)' = {}
    BY <2>3, <2>5 DEF KeyInv
  <2> QED BY <1>1, <2>4, <2>6, <2>7, <2>8, <2>9 DEF KeyInv
<1>4. ASSUME NEW o \in Operator, NEW k \in Key, NEW e \in Later, RotateRead(o, k, e) PROVE KeyInv'
  <2>1. key' = key /\ audit' = audit /\ key[k].issued BY <1>4 DEF RotateRead
  <2>2. ASSUME NEW p \in Operator, rotation'[p] # NoRotation PROVE key[rotation'[p].key].issued
    <3>1. CASE p = o
      <4>1. rotation'[o] = [key |-> k, expires |-> e, at |-> now]
        BY <1>1, <1>4 DEF RotateRead, TypeOK
      <4> QED BY <2>1, <3>1, <4>1
    <3>2. CASE p # o
      <4>1. rotation'[p] = rotation[p] BY <1>1, <1>4, <3>2 DEF RotateRead, TypeOK
      <4> QED BY <2>2, <4>1 DEF KeyInv
    <3> QED BY <3>1, <3>2
  <2> QED BY <1>1, <2>1, <2>2 DEF KeyInv, Ends
<1>5. ASSUME NEW o \in Operator, NEW n \in Key, RotateCommit(o, n) PROVE KeyInv'
  <2>1. PICK x \in RotationState : x = rotation[o] /\ x # NoRotation
    BY <1>1, <1>5 DEF RotateCommit, TypeOK
  <2>2. x.key \in Key /\ x.expires \in Later BY <2>1 DEF RotationState
  <2>3. /\ ~key[n].issued /\ key[x.key].issued /\ ~key[x.key].revoked
        /\ audit' = audit \cup {Created(n), Replaced(x.key, n)}
        /\ rotation' = [rotation EXCEPT ![o] = NoRotation]
    BY <1>5, <2>1 DEF RotateCommit, KeyInv
  <2>4. x.key # n BY <2>3
  <2>5. key' = [[key EXCEPT ![n] = Issued(x.expires)] EXCEPT ![x.key].revoked = TRUE]
    BY <1>5, <2>1 DEF RotateCommit
  <2>6. PICK f \in [Key -> KeyRow] : f = [key EXCEPT ![n] = Issued(x.expires)]
    BY <1>1, <2>2, IssuedType DEF TypeOK
  <2>7. f[n] = Issued(x.expires) /\ \A j \in Key : j # n => f[j] = key[j]
    BY <1>1, <2>6 DEF TypeOK
  <2>8. /\ key'[x.key] = [f[x.key] EXCEPT !.revoked = TRUE]
        /\ \A j \in Key : j # x.key => key'[j] = f[j]
    BY <2>2, <2>5, <2>6
  <2>9. key'[x.key].issued /\ key'[x.key].revoked
    BY <2>2, <2>3, <2>4, <2>6, <2>7, <2>8 DEF KeyRow
  <2>10. key'[n].issued /\ ~key'[n].revoked
    BY <2>2, <2>4, <2>7, <2>8, IssuedType
  <2>11. \A j \in Key : j # x.key /\ j \notin {n} => key'[j] = key[j] BY <2>7, <2>8
  <2>12. audit' = audit \cup {Created(m) : m \in {n}} \cup {Replaced(x.key, n)} BY <2>3
  <2>13. \A p \in Operator : rotation'[p] # NoRotation => rotation'[p] = rotation[p]
    BY <1>1, <2>3 DEF TypeOK
  <2>14. PICK end \in Event : /\ end = Replaced(x.key, n) /\ end.key = x.key
                              /\ end.type = "rotated" /\ end.related = n
    <3>1. Replaced(x.key, n) \in Event BY <2>2, EventTypes
    <3>2. /\ Replaced(x.key, n).key = x.key
          /\ Replaced(x.key, n).type = "rotated" /\ Replaced(x.key, n).related = n
      BY <2>2, EventFacts
    <3> QED BY <3>1, <3>2
  <2>15. PICK new \in SUBSET Key : new = {n} OBVIOUS
  <2>16. /\ audit' = audit \cup {Created(m) : m \in new} \cup {end}
         /\ \A m \in new : ~key[m].issued /\ key'[m].issued /\ ~key'[m].revoked
         /\ \A j \in Key : j # x.key /\ j \notin new => key'[j] = key[j]
         /\ end.related \in new /\ end.type # "created"
    BY <2>3, <2>10, <2>11, <2>12, <2>14, <2>15
  <2> QED BY <1>1, <2>2, <2>3, <2>9, <2>13, <2>14, <2>16, EndAppended
<1>6. ASSUME NEW o \in Operator, RotateThrows(o) PROVE KeyInv'
  <2>1. \A p \in Operator : rotation'[p] # NoRotation => rotation'[p] = rotation[p]
    BY <1>1, <1>6 DEF RotateThrows, TypeOK
  <2>2. key' = key /\ audit' = audit BY <1>6 DEF RotateThrows
  <2>3. \A p \in Operator : rotation'[p] # NoRotation => key[rotation'[p].key].issued
    BY <2>1 DEF KeyInv
  <2> QED BY <1>1, <2>2, <2>3 DEF KeyInv, Ends
<1>7. ASSUME NEW k \in Key, Revoke(k) PROVE KeyInv'
  <2>1. /\ key[k].issued /\ ~key[k].revoked /\ rotation' = rotation
        /\ audit' = audit \cup {[type |-> "revoked", key |-> k, related |-> NoKey]}
    BY <1>7 DEF Revoke
  <2>2. /\ key'[k] = [key[k] EXCEPT !.revoked = TRUE]
        /\ \A j \in Key : j # k => key'[j] = key[j]
    BY <1>1, <1>7 DEF Revoke, TypeOK
  <2>3. key'[k].issued /\ key'[k].revoked BY <1>1, <2>1, <2>2 DEF TypeOK, KeyRow
  <2>4. PICK end \in Event : /\ end = [type |-> "revoked", key |-> k, related |-> NoKey]
                             /\ end.key = k /\ end.type = "revoked"
    BY EventTypes
  <2>5. PICK new \in SUBSET Key : new = {} OBVIOUS
  <2>6. /\ audit' = audit \cup {Created(m) : m \in new} \cup {end}
        /\ \A m \in new : ~key[m].issued /\ key'[m].issued /\ ~key'[m].revoked
        /\ \A j \in Key : j # k /\ j \notin new => key'[j] = key[j]
        /\ end.type # "rotated" /\ end.type # "created"
    BY <2>1, <2>2, <2>4, <2>5
  <2> QED BY <1>1, <2>1, <2>3, <2>4, <2>6, EndAppended
<1>8. ASSUME NEW r \in Request, Serve(r) \/ Fail(r) PROVE KeyInv'
  BY <1>2, <1>8 DEF Serve, Fail, Lookup, Scope, ConsumeSustained, ConsumeBurst, Consume, Grant
<1>9. ASSUME NEW r \in Request, NEW k \in Key, Arrive(r, k) PROVE KeyInv'
  BY <1>2, <1>9 DEF Arrive
<1>10. ASSUME NEW kind \in Kind, NEW w \in Time, Prune(kind, w) PROVE KeyInv'
  BY <1>2, <1>10 DEF Prune, keys
<1>11. ASSUME NEW p \in Policies, Administer(p) PROVE KeyInv'
  BY <1>2, <1>11 DEF Administer
<1>12. CASE Tick BY <1>2, <1>12 DEF Tick
<1>13. CASE UNCHANGED vars BY <1>2, <1>13 DEF vars
<1> QED BY <1>3, <1>4, <1>5, <1>6, <1>7, <1>8, <1>9, <1>10, <1>11, <1>12, <1>13 DEF Next

LEMMA InitKeys == Init => KeyInv
<1>1. Init => TypeOK BY InitType
<1> QED BY <1>1 DEF Init, KeyInv, Absent, Ends

(* A key ends at most once: two rotations of one key never both commit,    *)
(* and a rotation never commits on a revoked key.                          *)
THEOREM OneEndHolds == Spec => []OneEnd
<1>1. Init => KeyInv BY InitKeys
<1>2. KeyInv => OneEnd
  <2> SUFFICES ASSUME KeyInv, NEW k \in Key
               PROVE  /\ key[k].issued <=> Created(k) \in audit
                      /\ Cardinality(Ends(k)) = IF key[k].revoked THEN 1 ELSE 0
                      /\ \A e \in Ends(k) : e.type = "rotated" => key[e.related].issued
    BY DEF OneEnd
  <2>1. Cardinality({}) = 0 BY FS_EmptySet
  <2>2. \A e : Cardinality({e}) = 1 BY FS_Singleton
  <2>3. Ends(k) \subseteq audit BY DEF Ends
  <2>4. CASE key[k].revoked BY <2>2, <2>3, <2>4 DEF KeyInv
  <2>5. CASE ~key[k].revoked BY <2>1, <2>3, <2>5 DEF KeyInv
  <2> QED BY <2>4, <2>5
<1>3. KeyInv /\ [Next]_vars => KeyInv' BY KeyStep
<1> QED BY <1>1, <1>2, <1>3, PTL DEF Spec

-----------------------------------------------------------------------------
(* Who gets past the lookup.                                               *)

(* A key that was revoked when a request arrived stays revoked.            *)
Remembered ==
    \A r \in Request : request[r].step # "idle" =>
        request[r].key \in Key /\ (request[r].dead => key[request[r].key].revoked)

AdmitInv == KeyInv /\ Remembered /\ Admitted

(* Once issued a key keeps its expiry, and once revoked it stays revoked.  *)
LEMMA KeysKept ==
    ASSUME KeyInv, [Next]_vars, NEW k \in Key
    PROVE  /\ key[k].issued => key'[k].issued /\ key'[k].expires = key[k].expires
           /\ key[k].revoked => key'[k].revoked
<1> USE DEF KeyInv, TypeOK, KeyRow
<1>1. ASSUME NEW n \in Key, NEW e \in Later, Create(n, e)
      PROVE  k # n => key'[k] = key[k]
  BY <1>1 DEF Create
<1>2. ASSUME NEW n \in Key, NEW e \in Later, Create(n, e) PROVE ~key[n].issued /\ ~key[n].revoked
  BY <1>2 DEF Create
<1>3. ASSUME NEW o \in Operator, NEW n \in Key, RotateCommit(o, n)
      PROVE  /\ k # n => \/ key'[k] = key[k]
                         \/ key'[k] = [key[k] EXCEPT !.revoked = TRUE]
             /\ ~key[n].issued /\ ~key[n].revoked
  <2>1. ~key[n].issued /\ ~key[n].revoked BY <1>3 DEF RotateCommit
  <2>2. PICK j \in Key, e \in Later :
           key' = [[key EXCEPT ![n] = Issued(e)] EXCEPT ![j].revoked = TRUE]
    BY <1>3 DEF RotateCommit, RotationState
  <2>3. PICK f \in [Key -> KeyRow] : f = [key EXCEPT ![n] = Issued(e)]
    BY <2>2, IssuedType
  <2>4. k # n => f[k] = key[k] BY <2>3
  <2>5. key' = [f EXCEPT ![j].revoked = TRUE] BY <2>2, <2>3
  <2>6. key'[k] = f[k] \/ key'[k] = [f[k] EXCEPT !.revoked = TRUE] BY <2>5, <2>3
  <2> QED BY <2>1, <2>4, <2>6
<1>4. ASSUME NEW n \in Key, Revoke(n)
      PROVE  key'[k] = key[k] \/ key'[k] = [key[k] EXCEPT !.revoked = TRUE]
  BY <1>4 DEF Revoke
<1>5. CASE key' = key BY <1>5
<1>6. CASE key'[k] = [key[k] EXCEPT !.revoked = TRUE] BY <1>6
<1>7. ASSUME NEW r \in Request, Serve(r) \/ Fail(r) PROVE key' = key
  BY <1>7 DEF Serve, Fail, Lookup, Scope, ConsumeSustained, ConsumeBurst, Consume, Grant, keys
<1>8. \/ key' = key
      \/ \E n \in Key, e \in Later : Create(n, e)
      \/ \E o \in Operator, n \in Key : RotateCommit(o, n)
      \/ \E n \in Key : Revoke(n)
  BY <1>7 DEF Next, Arrive, RotateRead, RotateThrows, Prune, Administer, Tick, vars, keys
<1> QED BY <1>1, <1>2, <1>3, <1>4, <1>5, <1>6, <1>8

(* What a step makes of a request: nothing, a new one, its end, or one     *)
(* step on, and past the lookup only with a valid key.                     *)
LEMMA RequestMoves ==
    ASSUME TypeOK, [Next]_vars, NEW r \in Request
    PROVE  \/ request'[r] = request[r]
           \/ /\ request'[r].step = "lookup" /\ request'[r].key \in Key
              /\ request'[r].dead = key[request'[r].key].revoked /\ key' = key
           \/ request'[r].step = "idle"
           \/ /\ request[r].step # "idle" /\ key' = key
              /\ request'[r].key = request[r].key /\ request'[r].at = request[r].at
              /\ request'[r].dead = request[r].dead
              /\ request[r].step = "lookup" => Valid(request[r].key, request[r].at)
<1> DEFINE Moves(q) ==
        \/ request'[q] = request[q]
        \/ request'[q].step = "idle"
        \/ /\ request[q].step # "idle" /\ key' = key
           /\ request'[q].key = request[q].key /\ request'[q].at = request[q].at
           /\ request'[q].dead = request[q].dead
           /\ request[q].step = "lookup" => Valid(request[q].key, request[q].at)
<1>1. ASSUME NEW q \in Request, Serve(q) PROVE Moves(r)
  <2>1. CASE End(q) BY <2>1, EndFacts
  <2>2. ASSUME NEW step \in {"scope", "sustained", "burst", "grant"}, Step(q, step),
               request[q].step # "idle", key' = key,
               request[q].step = "lookup" => Valid(request[q].key, request[q].at)
        PROVE  Moves(r)
    BY <2>2, StepFacts
  <2>3. CASE Lookup(q) BY <2>1, <2>2, <2>3 DEF Lookup, keys
  <2>4. CASE Scope(q) BY <2>1, <2>2, <2>4 DEF Scope, keys
  <2>5. CASE ConsumeSustained(q) BY <2>1, <2>2, <2>5 DEF ConsumeSustained, Consume, keys
  <2>6. CASE ConsumeBurst(q) BY <2>1, <2>2, <2>6 DEF ConsumeBurst, Consume, keys
  <2>7. CASE Grant(q) BY <2>1, <2>7 DEF Grant
  <2> QED BY <1>1, <2>3, <2>4, <2>5, <2>6, <2>7 DEF Serve
<1>2. ASSUME NEW q \in Request, Fail(q) PROVE Moves(r)
  BY <1>2, EndFacts DEF Fail
<1>3. ASSUME NEW q \in Request, NEW k \in Key, Arrive(q, k)
      PROVE  \/ request'[r] = request[r]
             \/ /\ request'[r].step = "lookup" /\ request'[r].key \in Key
                /\ request'[r].dead = key[request'[r].key].revoked /\ key' = key
  <2>1. request' = [request EXCEPT ![q] = [step |-> "lookup", at |-> now, key |-> k,
                                           dead |-> key[k].revoked]]
    BY <1>3 DEF Arrive
  <2>2. key' = key BY <1>3 DEF Arrive, keys
  <2> QED BY <2>1, <2>2 DEF TypeOK
<1>4. CASE request' = request BY <1>4
<1>5. \/ \E q \in Request : Serve(q) \/ Fail(q) \/ \E k \in Key : Arrive(q, k)
      \/ request' = request
  BY DEF Next, Create, RotateRead, RotateCommit, RotateThrows, Revoke, Prune, Administer, Tick, vars
<1> QED BY <1>1, <1>2, <1>3, <1>4, <1>5

(* No request is granted, or counted, on a key that was unknown, revoked   *)
(* or expired when it arrived.                                             *)
THEOREM AdmittedHolds == Spec => []Admitted
<1>1. Init => AdmitInv
  <2>1. Init => KeyInv BY InitKeys
  <2> QED BY <2>1 DEF Init, AdmitInv, Remembered, Admitted, NoRequest
<1>2. AdmitInv /\ [Next]_vars => AdmitInv'
  <2> SUFFICES ASSUME AdmitInv, [Next]_vars PROVE AdmitInv' OBVIOUS
  <2>1. KeyInv /\ KeyInv' /\ TypeOK /\ TypeOK' BY KeyStep DEF AdmitInv, KeyInv
  <2>2. ASSUME NEW r \in Request, request'[r].step # "idle"
        PROVE  /\ request'[r].key \in Key
               /\ request'[r].dead => key'[request'[r].key].revoked
    BY <2>1, <2>2, KeysKept, RequestMoves DEF AdmitInv, Remembered
  <2>3. ASSUME NEW r \in Request, request'[r].step \notin {"idle", "lookup"}
        PROVE  /\ key'[request'[r].key].issued /\ ~request'[r].dead
               /\ After(key'[request'[r].key].expires, request'[r].at)
    <3>1. CASE request'[r] = request[r]
      <4>1. request[r].step \notin {"idle", "lookup"} /\ request[r].key \in Key
        BY <2>3, <3>1 DEF AdmitInv, Remembered
      <4>2. /\ key[request[r].key].issued /\ ~request[r].dead
            /\ After(key[request[r].key].expires, request[r].at)
        BY <4>1 DEF AdmitInv, Admitted
      <4> QED BY <2>1, <3>1, <4>1, <4>2, KeysKept
    <3>2. CASE /\ request[r].step # "idle" /\ key' = key
               /\ request'[r].key = request[r].key /\ request'[r].at = request[r].at
               /\ request'[r].dead = request[r].dead
               /\ request[r].step = "lookup" => Valid(request[r].key, request[r].at)
      <4>1. CASE request[r].step = "lookup"
        BY <2>1, <3>2, <4>1 DEF AdmitInv, Remembered, Valid
      <4>2. CASE request[r].step # "lookup"
        BY <3>2, <4>2 DEF AdmitInv, Admitted
      <4> QED BY <4>1, <4>2
    <3> QED BY <2>1, <2>3, <3>1, <3>2, RequestMoves
  <2> QED BY <2>1, <2>2, <2>3 DEF AdmitInv, Remembered, Admitted
<1>3. AdmitInv => Admitted BY DEF AdmitInv
<1> QED BY <1>1, <1>2, <1>3, PTL DEF Spec
=============================================================================

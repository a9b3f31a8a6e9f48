------------------------------ MODULE ApiAccess ------------------------------
(***************************************************************************)
(* API keys and quotas of one principal on one route: the transactions of  *)
(* authorizeAndConsume, statement by statement, at READ COMMITTED, beside  *)
(* the operator's createKey, rotateKey and revokeKey, the cleanup of old   *)
(* quota rows and changes of the principal, plan, route and scope.         *)
(*                                                                         *)
(* The upsert of a quota row locks it until its transaction ends, so a     *)
(* request holds the rows it has counted itself into.  Rows of other       *)
(* principals and routes have other primary keys and never meet these.     *)
(***************************************************************************)
EXTENDS Integers, FiniteSets

CONSTANTS
    Request,            \* the authorizations that may be in progress
    Operator,           \* the rotations that may be in progress
    Key,                \* the keys that may be issued
    NoKey,
    Never,              \* the expiry of a key that has none
    Expiry,             \* the expiry times operators choose from
    SustainedLimit, SustainedWindow,
    BurstLimit, BurstWindow,
    Policies,           \* the states administration leads to
    Retention,          \* API_QUOTA_RETENTION_HOURS
    MaxReopened,        \* bound on the cleanups of one window while it is in use
    MaxTime             \* bound on the clock

ASSUME PlanAssumption ==        \* api_plans_quota_check and its route sibling
    /\ SustainedLimit \in Nat \ {0} /\ SustainedWindow \in Nat \ {0}
    /\ BurstLimit \in Nat \ {0} /\ BurstWindow \in Nat \ {0}
ASSUME CleanupAssumption == Retention \in Nat \ {0} /\ MaxReopened \in Nat
ASSUME TimeAssumption == MaxTime \in Nat /\ Expiry \subseteq 0..MaxTime /\ Never \notin Int
ASSUME PolicyAssumption == Policies \subseteq {"allowed", "inactive", "closed", "unscoped"}
ASSUME KeyAssumption == NoKey \notin Key

Time == 0..MaxTime
Kind == {"sustained", "burst"}

VARIABLES
    now,
    policy,     \* what principal, plan, route and scope say
    key,        \* api_keys
    audit,      \* api_key_events
    usage,      \* api_quota_usage, committed counts, 0 without a row
    request,
    rotation,
    granted,    \* history: committed grants of each window, never pruned
    reopened    \* history: cleanups that took each window's row while in use

keys == <<key, audit, rotation>>
quota == <<usage, granted, reopened>>
vars == <<now, policy, keys, quota, request>>

Later == Expiry \cup {Never}
After(e, t) == e # Never => e > t

KeyRow == [issued : BOOLEAN, revoked : BOOLEAN, expires : Later]
Absent == [issued |-> FALSE, revoked |-> FALSE, expires |-> Never]

\* api_key_events, with api_key_events_rotation_relation_check.
Event == {e \in [type : {"created", "rotated", "revoked"}, key : Key,
                 related : Key \cup {NoKey}] : (e.type = "rotated") = (e.related # NoKey)}

RequestState == [step : {"idle", "lookup", "scope", "sustained", "burst", "grant"},
                 at : Time, key : Key \cup {NoKey}, dead : BOOLEAN]
NoRequest == [step |-> "idle", at |-> 0, key |-> NoKey, dead |-> FALSE]

RotationState == [key : Key, expires : Later, at : Time]
NoRotation == [key |-> NoKey, expires |-> Never, at |-> 0]

\* windowStart: the window of each kind a time falls into.
WindowOf(kind, t) == t \div (IF kind = "sustained" THEN SustainedWindow ELSE BurstWindow)
Limit(kind) == IF kind = "sustained" THEN SustainedLimit ELSE BurstLimit

NoUsage == [kind \in Kind |-> [w \in Time |-> 0]]

Init ==
    /\ now = 0
    /\ policy = "allowed"
    /\ key = [k \in Key |-> Absent]
    /\ audit = {}
    /\ usage = NoUsage
    /\ request = [r \in Request |-> NoRequest]
    /\ rotation = [o \in Operator |-> NoRotation]
    /\ granted = NoUsage
    /\ reopened = NoUsage

-----------------------------------------------------------------------------
(* authorizeAndConsume.                                                    *)

Step(r, step) == request' = [request EXCEPT ![r].step = step]
End(r) == request' = [request EXCEPT ![r] = NoRequest]

\* A request takes the time before its transaction begins.
Arrive(r, k) ==
    /\ request[r].step = "idle"
    /\ request' = [request EXCEPT ![r] = [step |-> "lookup", at |-> now, key |-> k,
                                          dead |-> key[k].revoked]]
    /\ UNCHANGED <<now, policy, keys, quota>>

\* Mutant: the lookup forgets isNull(revokedAt).
MutValid(k, t) == key[k].issued /\ After(key[k].expires, t)

Valid(k, t) == key[k].issued /\ ~key[k].revoked /\ After(key[k].expires, t)

\* 401 for an unknown, revoked or expired key or an inactive principal or
\* plan; 403 for a route the plan may not use.
Lookup(r) ==
    /\ request[r].step = "lookup"
    /\ \/ /\ Valid(request[r].key, request[r].at)
          /\ policy \in {"allowed", "unscoped"}
          /\ Step(r, "scope")
       \/ ~Valid(request[r].key, request[r].at) /\ End(r)
       \/ policy \in {"inactive", "closed"} /\ End(r)
    /\ UNCHANGED <<now, policy, keys, quota>>

\* 403 without the scope.
Scope(r) ==
    /\ request[r].step = "scope"
    /\ IF policy = "unscoped" THEN End(r) ELSE Step(r, "sustained")
    /\ UNCHANGED <<now, policy, keys, quota>>

\* The rows a transaction has counted itself into, which it holds.
Holds(q, kind) == IF kind = "sustained" THEN request[q].step \in {"burst", "grant"}
                  ELSE request[q].step = "grant"

\* Mutant: the count is read without locking its row.
MutHeld(kind, w) == FALSE

Held(kind, w) == \E q \in Request : Holds(q, kind) /\ WindowOf(kind, request[q].at) = w

\* Mutant: a refused burst is returned, not thrown, and the sustained count commits.
MutConsumeKeeps(r, kind, next) ==
    LET w == WindowOf(kind, request[r].at)
        s == WindowOf("sustained", request[r].at)
        refused == kind = "burst" /\ usage[kind][w] >= Limit(kind)
    IN  /\ request[r].step = kind
        /\ ~Held(kind, w)
        /\ IF usage[kind][w] < Limit(kind) THEN Step(r, next) ELSE End(r)
        /\ usage' = IF refused THEN [usage EXCEPT !["sustained"][s] = @ + 1] ELSE usage
        /\ UNCHANGED <<now, policy, keys, granted, reopened>>

\* consume: insert the row or count up while below the limit, after whoever
\* holds it; QuotaExceeded undoes the whole transaction.
Consume(r, kind, next) ==
    LET w == WindowOf(kind, request[r].at)
    IN  /\ request[r].step = kind
        /\ ~Held(kind, w)
        /\ IF usage[kind][w] < Limit(kind) THEN Step(r, next) ELSE End(r)
        /\ UNCHANGED <<now, policy, keys, quota>>

ConsumeSustained(r) == Consume(r, "sustained", "burst")
ConsumeBurst(r) == Consume(r, "burst", "grant")

\* lastUsedAt and the commit.
Counted(counts, t) ==
    [kind \in Kind |-> [counts[kind] EXCEPT ![WindowOf(kind, t)] = @ + 1]]

Grant(r) ==
    /\ request[r].step = "grant"
    /\ usage' = Counted(usage, request[r].at)
    /\ granted' = Counted(granted, request[r].at)
    /\ End(r)
    /\ UNCHANGED <<now, policy, keys, reopened>>

\* A statement throws or the server goes: the transaction is undone.
Fail(r) ==
    /\ request[r].step # "idle"
    /\ End(r)
    /\ UNCHANGED <<now, policy, keys, quota>>

-----------------------------------------------------------------------------
(* The operator's commands.                                                *)

Created(n) == [type |-> "created", key |-> n, related |-> NoKey]
Issued(e) == [issued |-> TRUE, revoked |-> FALSE, expires |-> e]

Create(n, e) ==
    /\ ~key[n].issued
    /\ After(e, now)
    /\ policy # "inactive"
    /\ key' = [key EXCEPT ![n] = Issued(e)]
    /\ audit' = audit \cup {Created(n)}
    /\ UNCHANGED <<now, policy, quota, request, rotation>>

\* rotateKey reads the current key, expired or not; without an expiry of its
\* own the replacement gets the old one's.
RotateRead(o, k, e) ==
    /\ rotation[o] = NoRotation
    /\ key[k].issued /\ ~key[k].revoked
    /\ policy # "inactive"
    /\ e = key[k].expires \/ After(e, now)
    /\ rotation' = [rotation EXCEPT ![o] = [key |-> k, expires |-> e, at |-> now]]
    /\ UNCHANGED <<now, policy, key, audit, quota, request>>

Replaced(k, n) == [type |-> "rotated", key |-> k, related |-> n]

\* Mutant: the update does not ask whether the old key is still unrevoked.
MutRotateCommit(o, n) ==
    LET x == rotation[o]
    IN  /\ x # NoRotation
        /\ ~key[n].issued
        /\ After(x.expires, x.at)
        /\ key' = [key EXCEPT ![n] = Issued(x.expires), ![x.key].revoked = TRUE]
        /\ audit' = audit \cup {Created(n), Replaced(x.key, n)}
        /\ rotation' = [rotation EXCEPT ![o] = NoRotation]
        /\ UNCHANGED <<now, policy, quota, request>>

\* The insert must pass api_keys_expiry_check, and the update must still find
\* the old key unrevoked; then both commit with their events.
RotateCommit(o, n) ==
    LET x == rotation[o]
    IN  /\ x # NoRotation
        /\ ~key[n].issued
        /\ After(x.expires, x.at)
        /\ ~key[x.key].revoked
        /\ key' = [key EXCEPT ![n] = Issued(x.expires), ![x.key].revoked = TRUE]
        /\ audit' = audit \cup {Created(n), Replaced(x.key, n)}
        /\ rotation' = [rotation EXCEPT ![o] = NoRotation]
        /\ UNCHANGED <<now, policy, quota, request>>

\* Rotated concurrently, refused by the constraint, or failed: nothing stays.
RotateThrows(o) ==
    /\ rotation[o] # NoRotation
    /\ rotation' = [rotation EXCEPT ![o] = NoRotation]
    /\ UNCHANGED <<now, policy, key, audit, quota, request>>

Revoke(k) ==
    /\ key[k].issued /\ ~key[k].revoked
    /\ key' = [key EXCEPT ![k].revoked = TRUE]
    /\ audit' = audit \cup {[type |-> "revoked", key |-> k, related |-> NoKey]}
    /\ UNCHANGED <<now, policy, quota, request, rotation>>

\* The window began before the retention boundary.
Stale(kind, w) == \E t \in Time : WindowOf(kind, t) = w /\ t + Retention < now

\* Requests may still be counted into a window: it has not ended, or one that
\* arrived in it is under way.
InUse(kind, w) ==
    \/ WindowOf(kind, now) <= w
    \/ \E r \in Request : request[r].step # "idle" /\ WindowOf(kind, request[r].at) = w

\* pruneQuotaUsage, row by row, once nobody holds the row.  It does not ask how
\* long the row's window is.
Prune(kind, w) ==
    /\ usage[kind][w] > 0
    /\ Stale(kind, w)
    /\ ~Held(kind, w)
    /\ InUse(kind, w) => reopened[kind][w] < MaxReopened
    /\ usage' = [usage EXCEPT ![kind][w] = 0]
    /\ reopened' = IF InUse(kind, w) THEN [reopened EXCEPT ![kind][w] = @ + 1]
                   ELSE reopened
    /\ UNCHANGED <<now, policy, keys, granted, request>>

\* Principal, plan, route and scope rows are edited.
Administer(p) ==
    /\ p # policy
    /\ policy' = p
    /\ UNCHANGED <<now, keys, quota, request>>

Tick ==
    /\ now < MaxTime
    /\ now' = now + 1
    /\ UNCHANGED <<policy, keys, quota, request>>

-----------------------------------------------------------------------------
Serve(r) == Lookup(r) \/ Scope(r) \/ ConsumeSustained(r) \/ ConsumeBurst(r) \/ Grant(r)

Next ==
    \/ \E r \in Request : Serve(r) \/ Fail(r) \/ \E k \in Key : Arrive(r, k)
    \/ \E n \in Key, e \in Later : Create(n, e)
    \/ \E o \in Operator, k \in Key, e \in Later : RotateRead(o, k, e)
    \/ \E o \in Operator, n \in Key : RotateCommit(o, n)
    \/ \E o \in Operator : RotateThrows(o)
    \/ \E k \in Key : Revoke(k)
    \/ \E kind \in Kind, w \in Time : Prune(kind, w)
    \/ \E p \in Policies : Administer(p)
    \/ Tick

Spec == Init /\ [][Next]_vars

-----------------------------------------------------------------------------
(* Properties.                                                             *)

TypeOK ==
    /\ now \in Time
    /\ policy \in Policies \cup {"allowed"}
    /\ key \in [Key -> KeyRow] /\ audit \subseteq Event
    /\ usage \in [Kind -> [Time -> Nat]] /\ granted \in [Kind -> [Time -> Nat]]
    /\ reopened \in [Kind -> [Time -> Nat]]
    /\ request \in [Request -> RequestState]
    /\ rotation \in [Operator -> RotationState \cup {NoRotation}]

\* "Atomic fixed-window quotas": however transactions and cleanups interleave,
\* a window of either kind grants no more than its limit, and no more than its
\* limit again for each time cleanup took its row while it was in use, as it may
\* where API_QUOTA_RETENTION_HOURS is less than the window and a request last.
NotOversubscribed ==
    \A kind \in Kind, w \in Time :
        granted[kind][w] <= Limit(kind) * (1 + reopened[kind][w])

\* The counter of a window that cleanup may not take is the number of requests
\* granted in it: a request refused by the burst quota, or undone, leaves no
\* trace in the sustained one.
CountersHonest ==
    \A kind \in Kind, w \in Time : usage[kind][w] = granted[kind][w] \/ Stale(kind, w)

\* Behind the lookup there are only requests whose key was issued, was not
\* revoked when they arrived and had not expired.
Admitted ==
    \A r \in Request : request[r].step \notin {"idle", "lookup"} =>
        LET k == request[r].key
        IN  key[k].issued /\ ~request[r].dead /\ After(key[k].expires, request[r].at)

Ends(k) == {e \in audit : e.key = k /\ e.type # "created"}

\* The audit tells each key's life once: its creation, and, when it is revoked,
\* the one rotation or revocation that ended it, with an issued successor.
OneEnd ==
    \A k \in Key :
        /\ key[k].issued <=> Created(k) \in audit
        /\ Cardinality(Ends(k)) = IF key[k].revoked THEN 1 ELSE 0
        /\ \A e \in Ends(k) : e.type = "rotated" => key[e.related].issued
=============================================================================

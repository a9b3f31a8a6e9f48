----------------------- MODULE LeaseScheduler_proofs -----------------------
(***************************************************************************)
(* Theorems about LeaseScheduler, for every number of subjects, processes, *)
(* consumers and boundaries, every clock skew and every bound.             *)
(***************************************************************************)
EXTENDS LeaseScheduler, TLAPS

-----------------------------------------------------------------------------
(* Types.                                                                  *)

\* Every fenced statement that ends a claim writes a row of the table.
LEMMA UnleasedRow ==
    ASSUME NEW r \in Row, NEW status \in Status
    PROVE  Unleased(r, status) \in Row
  BY DEF Unleased, Row

\* A heartbeat writes a row of the table.
LEMMA RenewedRow ==
    ASSUME NEW r \in Row, NEW t \in Nat
    PROVE  [r EXCEPT !.expires = t] \in Row
  BY DEF Row

\* A claim writes a row of the table, with the next token.
LEMMA ClaimedRowIsRow ==
    ASSUME NEW r \in Row, NEW w \in Worker, clock \in Nat
    PROVE  /\ ClaimedRow(r, w) \in Row
           /\ ClaimedRow(r, w).status = "running"
           /\ ClaimedRow(r, w).owner = w
           /\ ClaimedRow(r, w).token = r.token + 1
  <1>1. Time(w) + LeaseDuration \in Nat
    BY SkewAssumption, NatAssumption DEF Time
  <1>2. "running" \in Status
    BY DEF Status, Active
  <1>3. r.token + 1 \in Nat /\ r.attempts + 1 \in Nat
    BY DEF Row
  <1>4. QED
    BY <1>1, <1>2, <1>3 DEF ClaimedRow, Row

\* What Claim does, with the claimed key named.
LEMMA ClaimEffect ==
    ASSUME TypeOK, NEW c \in Consumer, Claim(c)
    PROVE  \E k \in Key :
              /\ row[k].status = "pending"
              /\ row' = [row EXCEPT ![k] = ClaimedRow(row[k], WorkerOf[c])]
              /\ lease' = [lease EXCEPT ![c] = [key |-> k, token |-> row[k].token + 1]]
  <1> DEFINE w == WorkerOf[c]
  <1>1. w \in Worker
    BY WorkerOfAssumption
  <1>2. PICK k \in Claimable(w) :
           /\ row' = [row EXCEPT ![k] = ClaimedRow(@, w)]
           /\ lease' = [lease EXCEPT ![c] = [key |-> k, token |-> ClaimedRow(row[k], w).token]]
    BY DEF Claim
  <1>3. k \in Key /\ row[k].status = "pending"
    BY DEF Claimable
  <1>4. ClaimedRow(row[k], w).token = row[k].token + 1
    BY <1>1, <1>3, ClaimedRowIsRow DEF TypeOK
  <1>5. QED
    BY <1>2, <1>3, <1>4

\* The initial state is well typed.
LEMMA TypeInit == Init => TypeOK
  BY NatAssumption
  DEF Init, TypeOK, AbsentRow, NoLease, NoVerdict, Row, Status, Phase, Verdict,
      ConsumerState, Working, Beating

\* Every step keeps the state well typed.
LEMMA TypeNext == TypeOK /\ [Next]_vars => TypeOK'
  <1> SUFFICES ASSUME TypeOK, [Next]_vars PROVE TypeOK'
    OBVIOUS
  <1> USE DEF vars, dbVars, passVars, consumerVars
  <1>1. CASE Tick
    BY <1>1 DEF TypeOK, Tick
  <1>2. ASSUME NEW w \in Worker, ReapScan(w) PROVE TypeOK'
    <2>1. Time(w) \in Nat
      BY SkewAssumption DEF TypeOK, Time
    <2>2. \A k \in Key : VerdictOn(k) \in Verdict
      BY DEF VerdictOn, Verdict
    <2>3. verdict' \in [Worker -> [Key -> Verdict]]
      BY <1>2, <2>2 DEF TypeOK, ReapScan, Verdict
    <2>4. QED
      BY <1>2, <2>1, <2>3 DEF TypeOK, ReapScan, Phase
  <1>3. ASSUME NEW w \in Worker, ReapCommit(w) PROVE TypeOK'
    <2>1. row' \in [Key -> Row]
      BY <1>3, UnleasedRow DEF TypeOK, ReapCommit, Verdict, Status, Active, Terminal
    <2>2. QED
      BY <1>3, <2>1 DEF TypeOK, ReapCommit, NoVerdict, Verdict, Phase
  <1>4. ASSUME NEW w \in Worker, NEW s \in Subject, Ensure(w, s) PROVE TypeOK'
    <2>1. [AbsentRow EXCEPT !.status = "pending"] \in Row
      BY DEF AbsentRow, Row, Status, Active
    <2>2. row' \in [Key -> Row]
      BY <1>4, <2>1 DEF TypeOK, Ensure
    <2>3. QED
      BY <1>4, <2>2 DEF TypeOK, Ensure
  <1>5. ASSUME NEW w \in Worker, StartConsumers(w) PROVE TypeOK'
    BY <1>5 DEF TypeOK, StartConsumers, ConsumerState, Working, Beating, Phase
  <1>6. ASSUME NEW w \in Worker, EndPass(w) PROVE TypeOK'
    BY <1>6 DEF TypeOK, EndPass, Phase
  <1>7. ASSUME NEW w \in Worker, Restart(w) PROVE TypeOK'
    BY <1>7 DEF TypeOK, Restart, Phase
  <1>8. ASSUME NEW w \in Worker, Stop(w) PROVE TypeOK'
    BY <1>8 DEF TypeOK, Stop, Fault
  <1>9. ASSUME NEW w \in Worker, Crash(w) PROVE TypeOK'
    BY <1>9
    DEF TypeOK, Crash, Fault, NoLease, NoVerdict, Verdict, ConsumerState, Working,
        Beating, Phase
  <1>10. ASSUME NEW c \in Consumer, Claim(c) PROVE TypeOK'
    <2>1. PICK k \in Key :
             /\ row' = [row EXCEPT ![k] = ClaimedRow(row[k], WorkerOf[c])]
             /\ lease' = [lease EXCEPT ![c] = [key |-> k, token |-> row[k].token + 1]]
      BY <1>10, ClaimEffect
    <2>2. ClaimedRow(row[k], WorkerOf[c]) \in Row
      BY ClaimedRowIsRow, WorkerOfAssumption DEF TypeOK
    <2>3. row[k].token + 1 \in Nat
      BY DEF TypeOK, Row
    <2>4. row' \in [Key -> Row] /\ lease' \in [Consumer -> [key : Key \cup {NoKey}, token : Nat]]
      BY <2>1, <2>2, <2>3 DEF TypeOK
    <2>5. pc' \in [Consumer -> ConsumerState]
      BY <1>10 DEF TypeOK, Claim, ConsumerState, Working, Beating
    <2>6. ASSUME NEW d \in Consumer, pc'[d] \in Working PROVE lease'[d].key \in Key
      BY <1>10, <2>1, <2>6 DEF TypeOK, Claim
    <2>7. QED
      BY <1>10, <2>4, <2>5, <2>6 DEF TypeOK, Claim
  <1>11. ASSUME NEW c \in Consumer, Return(c) PROVE TypeOK'
    BY <1>11 DEF TypeOK, Return, ConsumerState, Working, Beating
  <1>12. ASSUME NEW c \in Consumer, HandlerReturns(c) PROVE TypeOK'
    BY <1>12 DEF TypeOK, HandlerReturns, ConsumerState, Working, Beating
  <1>13. ASSUME NEW c \in Consumer, HandlerThrows(c) PROVE TypeOK'
    BY <1>13 DEF TypeOK, HandlerThrows, Caught, Threw, Fault, ConsumerState, Working, Beating
  <1>14. ASSUME NEW c \in Consumer, Persist(c) PROVE TypeOK'
    BY <1>14 DEF TypeOK, Persist, ConsumerState, Working, Beating
  <1>15. ASSUME NEW c \in Consumer, PersistThrows(c) PROVE TypeOK'
    BY <1>15 DEF TypeOK, PersistThrows, Caught, Threw, Fault, ConsumerState, Working, Beating
  <1>16. ASSUME NEW c \in Consumer, Acknowledge(c) PROVE TypeOK'
    <2>1. row' \in [Key -> Row]
      BY <1>16, UnleasedRow DEF TypeOK, Acknowledge, Acknowledged, Status, Terminal, Working, Beating
    <2>2. CASE Finished(c)
      BY <1>16, <2>1, <2>2 DEF TypeOK, Acknowledge, Finished, NoLease, ConsumerState, Working, Beating
    <2>3. CASE Caught(c) /\ UNCHANGED <<row, lease, aborted>>
      BY <1>16, <2>1, <2>3 DEF TypeOK, Acknowledge, Caught, ConsumerState, Working, Beating
    <2>4. QED
      BY <1>16, <2>2, <2>3 DEF Acknowledge
  <1>17. ASSUME NEW c \in Consumer, AcknowledgeThrows(c) PROVE TypeOK'
    <2>1. row' \in [Key -> Row]
      BY <1>17, UnleasedRow DEF TypeOK, AcknowledgeThrows, Acknowledged, Status, Terminal, Working, Beating
    <2>2. QED
      BY <1>17, <2>1 DEF TypeOK, AcknowledgeThrows, Caught, Threw, Fault, ConsumerState, Working, Beating
  <1>18. ASSUME NEW c \in Consumer, Release(c) PROVE TypeOK'
    <2>1. row' \in [Key -> Row]
      BY <1>18, UnleasedRow DEF TypeOK, Release, Status, Active, Working, Beating
    <2>2. QED
      BY <1>18, <2>1 DEF TypeOK, Release, Finished, NoLease, ConsumerState, Working, Beating
  <1>19. ASSUME NEW c \in Consumer, Fail(c) PROVE TypeOK'
    <2>1. row' \in [Key -> Row]
      BY <1>19, UnleasedRow DEF TypeOK, Fail, Status, Terminal, Working, Beating
    <2>2. QED
      BY <1>19, <2>1 DEF TypeOK, Fail, Finished, NoLease, ConsumerState, Working, Beating
  <1>20. ASSUME NEW c \in Consumer, Heartbeat(c) PROVE TypeOK'
    <2>1. Time(WorkerOf[c]) + LeaseDuration \in Nat
      BY SkewAssumption, NatAssumption, WorkerOfAssumption DEF TypeOK, Time
    <2>2. row' \in [Key -> Row]
      <3>1. lease[c].key \in Key
        BY <1>20 DEF TypeOK, Heartbeat, Working
      <3>2. [row[lease[c].key] EXCEPT !.expires = Time(WorkerOf[c]) + LeaseDuration] \in Row
        BY <2>1, <3>1, RenewedRow DEF TypeOK
      <3>3. QED
        BY <1>20, <3>1, <3>2 DEF TypeOK, Heartbeat
    <2>3. QED
      BY <1>20, <2>2 DEF TypeOK, Heartbeat
  <1>21. ASSUME NEW c \in Consumer, HeartbeatThrows(c) PROVE TypeOK'
    BY <1>21 DEF TypeOK, HeartbeatThrows, Fault
  <1>22. CASE UNCHANGED vars
    BY <1>22 DEF TypeOK
  <1>23. QED
    BY <1>1, <1>2, <1>3, <1>4, <1>5, <1>6, <1>7, <1>8, <1>9, <1>10, <1>11, <1>12,
       <1>13, <1>14, <1>15, <1>16, <1>17, <1>18, <1>19, <1>20, <1>21, <1>22
    DEF Next, PassStep, ConsumerStep

\* Every value the program writes to its rows, and every value a process or
\* consumer keeps of them, has its type.
THEOREM TypeCorrect == Spec => []TypeOK
  BY TypeInit, TypeNext, PTL DEF Spec

-----------------------------------------------------------------------------
(* The inductive invariant.                                                *)

\* A heartbeat changes nothing but an expiry.
LEMMA HeartbeatEffect ==
    ASSUME TypeOK, NEW c \in Consumer, Heartbeat(c), NEW k \in Key
    PROVE  /\ row'[k].status = row[k].status
           /\ row'[k].token = row[k].token
           /\ k # lease[c].key => row'[k] = row[k]
  <1>1. CASE UNCHANGED row
    BY <1>1
  <1>2. CASE row' = [row EXCEPT ![lease[c].key].expires = Time(WorkerOf[c]) + LeaseDuration]
    <2>1. lease[c].key \in Key
      BY DEF Heartbeat, TypeOK, Working
    <2>2. QED
      BY <1>2, <2>1 DEF TypeOK, Row
  <1>3. QED
    BY <1>1, <1>2 DEF Heartbeat

\* A step that leaves the table, the durable cycles, the locks and the claims
\* alone, and brings no consumer to work or to acknowledgement, keeps IInv.
Quiet ==
    /\ UNCHANGED <<row, finalized, verdict, lease>>
    /\ clock' \in Nat /\ clock' >= clock
    /\ \A c \in Consumer :
          /\ pc'[c] \in Working => pc[c] \in Working
          /\ pc'[c] = "acking" => pc[c] = "acking"

LEMMA QuietStep == IInv /\ TypeOK' /\ Quiet => IInv'
  BY SkewAssumption
  DEF IInv, Quiet, TypeOK, TokensIssued, TokensUnique, LocksSound, AckedDurable,
      CompletedIsDurable, OneActivePerSubject, Time, Row

\* Consumer c, which holds its claim on an unlocked row, gives the row its next
\* status; it may forget the claim or go on to the catch block.
ClaimEnds(c, status) ==
    LET k == lease[c].key
    IN  /\ k \in Key /\ pc[c] \in Working
        /\ Holds(c) /\ ~Locked(k)
        /\ row' = [row EXCEPT ![k] = Unleased(@, status)]
        /\ UNCHANGED <<clock, finalized, verdict>>
        /\ pc'[c] \notin {"acking"}
        /\ pc'[c] \in Working => lease'[c] = lease[c]
        /\ \A d \in Consumer : d # c => pc'[d] = pc[d] /\ lease'[d] = lease[d]

LEMMA ClaimEndsStep ==
    ASSUME IInv, TypeOK', NEW c \in Consumer, NEW status \in {"pending"} \cup Terminal,
           ClaimEnds(c, status), status = "completed" => lease[c].key \in finalized
    PROVE  IInv'
  <1> DEFINE k == lease[c].key
  <1>0. TypeOK
    BY DEF IInv
  <1>1. k \in Key /\ row[k].status = "running"
    BY DEF ClaimEnds, Holds
  <1>2. /\ row'[k].status = status /\ row'[k].token = row[k].token
        /\ \A j \in Key : j # k => row'[j] = row[j]
    BY <1>0, <1>1 DEF ClaimEnds, Unleased, TypeOK, Row
  <1>3. TokensIssued'
    <2>1. \A j \in Key : row'[j].token = row[j].token /\ (row'[j].status = "absent" => row[j].status = "absent")
      BY <1>1, <1>2 DEF Terminal
    <2>2. \A d \in Consumer : pc'[d] \in Working => pc[d] \in Working /\ lease'[d] = lease[d]
      BY DEF ClaimEnds
    <2>3. QED
      BY <1>0, <2>1, <2>2 DEF IInv, TypeOK, TokensIssued
  <1>4. TokensUnique' /\ AckedDurable'
    BY DEF IInv, TokensUnique, AckedDurable, ClaimEnds
  <1>5. LocksSound'
    BY <1>1, <1>2 DEF IInv, LocksSound, Locked, ClaimEnds, Time
  <1>6. CompletedIsDurable' /\ OneActivePerSubject'
    BY <1>1, <1>2 DEF IInv, CompletedIsDurable, OneActivePerSubject, ClaimEnds, Active
  <1>7. QED
    BY <1>3, <1>4, <1>5, <1>6 DEF IInv

\* A consumer that lost its claim forgets it: nothing else changes.
Forgets(c) ==
    /\ UNCHANGED <<clock, row, finalized, verdict>>
    /\ pc'[c] = "idle"
    /\ \A d \in Consumer : d # c => pc'[d] = pc[d] /\ lease'[d] = lease[d]

LEMMA ForgetStep ==
    ASSUME IInv, TypeOK', NEW c \in Consumer, Forgets(c)
    PROVE  IInv'
  <1>1. \A d \in Consumer : /\ pc'[d] \in Working => pc[d] \in Working /\ lease'[d] = lease[d]
                            /\ pc'[d] = "acking" => pc[d] = "acking"
    BY DEF Forgets, Working, Beating
  <1>2. TokensIssued' /\ TokensUnique' /\ AckedDurable'
    BY <1>1 DEF IInv, TypeOK, TokensIssued, TokensUnique, AckedDurable, Forgets, Working, Beating
  <1>3. LocksSound' /\ CompletedIsDurable' /\ OneActivePerSubject'
    BY DEF IInv, LocksSound, CompletedIsDurable, OneActivePerSubject, Forgets, Time
  <1>4. QED
    BY <1>2, <1>3 DEF IInv

LEMMA IndInit == Init => IInv
  <1> SUFFICES ASSUME Init PROVE IInv
    OBVIOUS
  <1>1. TypeOK
    BY TypeInit
  <1>2. QED
    BY <1>1
    DEF Init, IInv, TokensIssued, TokensUnique, LocksSound, AckedDurable,
        CompletedIsDurable, OneActivePerSubject, AbsentRow, NoVerdict, NoLease,
        Working, Beating, Active

LEMMA IndNext == IInv /\ [Next]_vars => IInv'
  <1> SUFFICES ASSUME IInv, [Next]_vars PROVE IInv'
    OBVIOUS
  <1>0. TypeOK /\ TypeOK'
    BY TypeNext DEF IInv
  <1> USE <1>0 DEF dbVars, passVars, consumerVars
  <1>1. CASE Tick
    BY <1>1, QuietStep DEF Tick, Quiet, TypeOK
  <1>5. ASSUME NEW w \in Worker, StartConsumers(w) PROVE IInv'
    BY <1>5, QuietStep DEF StartConsumers, Quiet, TypeOK, Working, Beating
  <1>6. ASSUME NEW w \in Worker, EndPass(w) PROVE IInv'
    BY <1>6, QuietStep DEF EndPass, Quiet, TypeOK
  <1>7. ASSUME NEW w \in Worker, Restart(w) PROVE IInv'
    BY <1>7, QuietStep DEF Restart, Quiet, TypeOK
  <1>8. ASSUME NEW w \in Worker, Stop(w) PROVE IInv'
    BY <1>8, QuietStep DEF Stop, Quiet, TypeOK
  <1>11. ASSUME NEW c \in Consumer, Return(c) PROVE IInv'
    BY <1>11, QuietStep DEF Return, Quiet, TypeOK, Working, Beating
  <1>12. ASSUME NEW c \in Consumer, HandlerReturns(c) PROVE IInv'
    BY <1>12, QuietStep DEF HandlerReturns, Quiet, TypeOK, Working, Beating
  <1>13. ASSUME NEW c \in Consumer, HandlerThrows(c) PROVE IInv'
    BY <1>13, QuietStep DEF HandlerThrows, Caught, Threw, Fault, Quiet, TypeOK, Working, Beating
  <1>2. ASSUME NEW w \in Worker, ReapScan(w) PROVE IInv'
    <2>1. LocksSound'
      <3>1. ASSUME NEW v \in Worker, NEW k \in Key, verdict'[v][k] # "none"
            PROVE  /\ row[k].status = "running" /\ row[k].expires <= Time(v)
                   /\ verdict'[v][k] = "completed" => k \in finalized
        <4>1. CASE v = w
          BY <1>2, <3>1, <4>1 DEF TypeOK, ReapScan, Expired, VerdictOn
        <4>2. CASE v # w
          BY <1>2, <3>1, <4>2 DEF IInv, TypeOK, LocksSound, ReapScan
        <4>3. QED
          BY <4>1, <4>2
      <3>2. ASSUME NEW u \in Worker, NEW v \in Worker, NEW k \in Key,
                   verdict'[u][k] # "none", verdict'[v][k] # "none"
            PROVE  u = v
        BY <1>2, <3>2 DEF IInv, TypeOK, LocksSound, ReapScan, Locked
      <3>3. QED
        BY <1>2, <3>1, <3>2 DEF LocksSound, ReapScan, Time
    <2>2. QED
      BY <1>2, <2>1
      DEF IInv, TokensIssued, TokensUnique, AckedDurable, CompletedIsDurable,
          OneActivePerSubject, ReapScan
  <1>3. ASSUME NEW w \in Worker, ReapCommit(w) PROVE IInv'
    <2>1. ASSUME NEW k \in Key
          PROVE  \/ row'[k] = row[k] /\ verdict[w][k] = "none"
                 \/ /\ row[k].status = "running"
                    /\ row'[k].status = verdict[w][k]
                    /\ verdict[w][k] \in {"completed", "abandoned", "pending"}
                    /\ row'[k].token = row[k].token
                    /\ verdict[w][k] = "completed" => k \in finalized
      <3>1. CASE verdict[w][k] = "none"
        BY <1>3, <3>1 DEF ReapCommit
      <3>2. CASE verdict[w][k] # "none"
        <4>1. row'[k] = Unleased(row[k], verdict[w][k])
          BY <1>3, <3>2 DEF ReapCommit
        <4>2. verdict[w][k] \in {"completed", "abandoned", "pending"}
          BY <3>2 DEF TypeOK, Verdict
        <4>3. QED
          BY <3>2, <4>1, <4>2 DEF IInv, LocksSound, Unleased, TypeOK, Row
      <3>3. QED
        BY <3>1, <3>2
    <2>2. TokensIssued'
      BY <1>3, <2>1 DEF IInv, TypeOK, TokensIssued, ReapCommit
    <2>3. TokensUnique' /\ AckedDurable'
      BY <1>3 DEF IInv, TokensUnique, AckedDurable, ReapCommit
    <2>4. LocksSound'
      BY <1>3, <2>1 DEF IInv, TypeOK, LocksSound, ReapCommit, NoVerdict, Time
    <2>5. CompletedIsDurable'
      BY <1>3, <2>1 DEF IInv, CompletedIsDurable, ReapCommit
    <2>6. OneActivePerSubject'
      BY <2>1 DEF IInv, OneActivePerSubject, Active
    <2>7. QED
      BY <2>2, <2>3, <2>4, <2>5, <2>6 DEF IInv
  <1>4. ASSUME NEW w \in Worker, NEW s \in Subject, Ensure(w, s) PROVE IInv'
    <2> DEFINE k == <<s, Boundary(w)>>
    <2>1. CASE row' = row
      BY <1>4, <2>1, QuietStep DEF Ensure, Quiet, TypeOK
    <2>2. CASE k \in Key /\ Insertable(k) /\ row' = [row EXCEPT ![k] = [AbsentRow EXCEPT !.status = "pending"]]
      <3>1. /\ row[k].status = "absent" /\ row'[k].status = "pending"
            /\ \A j \in Key : j # k => row'[j] = row[j]
        BY <2>2 DEF Insertable, TypeOK, AbsentRow
      <3>2. row[k].token = 0
        BY <2>2, <3>1 DEF IInv, TokensIssued, TypeOK, Row
      <3>3. TokensIssued'
        <4>1. row'[k].token = 0
          BY <2>2 DEF TypeOK, AbsentRow
        <4>2. \A c \in Consumer : pc[c] \in Working => lease[c].key # k
          <5> SUFFICES ASSUME NEW c \in Consumer, pc[c] \in Working, lease[c].key = k PROVE FALSE
            OBVIOUS
          <5>1. 0 < lease[c].token /\ lease[c].token <= row[k].token
            BY DEF IInv, TokensIssued
          <5>2. lease[c].token \in Nat
            BY DEF TypeOK
          <5>3. QED
            BY <3>2, <5>1, <5>2
        <4>3. QED
          BY <1>4, <2>2, <3>1, <4>1, <4>2 DEF IInv, TypeOK, TokensIssued, Ensure
      <3>4. TokensUnique' /\ AckedDurable'
        BY <1>4 DEF IInv, TokensUnique, AckedDurable, Ensure
      <3>5. LocksSound'
        BY <1>4, <2>2, <3>1 DEF IInv, LocksSound, Ensure, Time
      <3>6. CompletedIsDurable'
        BY <1>4, <2>2, <3>1 DEF IInv, CompletedIsDurable, Ensure
      <3>7. OneActivePerSubject'
        BY <2>2, <3>1 DEF IInv, OneActivePerSubject, Insertable
      <3>8. QED
        BY <3>3, <3>4, <3>5, <3>6, <3>7 DEF IInv
    <2>3. QED
      BY <1>4, <2>1, <2>2 DEF Ensure
  <1>9. ASSUME NEW w \in Worker, Crash(w) PROVE IInv'
    <2>1. TokensIssued' /\ TokensUnique' /\ AckedDurable'
      BY <1>9 DEF IInv, TypeOK, TokensIssued, TokensUnique, AckedDurable, Crash, Working, Beating
    <2>2. LocksSound'
      BY <1>9 DEF IInv, TypeOK, LocksSound, Crash, NoVerdict, Time
    <2>3. QED
      BY <1>9, <2>1, <2>2 DEF IInv, CompletedIsDurable, OneActivePerSubject, Crash
  <1>10. ASSUME NEW c \in Consumer, Claim(c) PROVE IInv'
    <2>1. PICK k \in Key :
             /\ row[k].status = "pending"
             /\ row' = [row EXCEPT ![k] = ClaimedRow(row[k], WorkerOf[c])]
             /\ lease' = [lease EXCEPT ![c] = [key |-> k, token |-> row[k].token + 1]]
      BY <1>10, ClaimEffect
    <2>2. /\ row'[k].status = "running" /\ row'[k].token = row[k].token + 1
          /\ \A j \in Key : j # k => row'[j] = row[j]
      <3>1. row[k] \in Row /\ clock \in Nat /\ WorkerOf[c] \in Worker
        BY WorkerOfAssumption DEF TypeOK
      <3>2. /\ ClaimedRow(row[k], WorkerOf[c]).status = "running"
            /\ ClaimedRow(row[k], WorkerOf[c]).token = row[k].token + 1
        BY <3>1, ClaimedRowIsRow
      <3>3. QED
        BY <2>1, <3>2 DEF TypeOK
    <2>3. /\ lease'[c].key = k /\ lease'[c].token = row[k].token + 1
          /\ row[k].token \in Nat
          /\ \A d \in Consumer : d # c => lease'[d] = lease[d]
      BY <2>1 DEF TypeOK, Row
    <2>4. /\ pc[c] = "idle" /\ pc'[c] \in {"handling", "rejecting"}
          /\ \A d \in Consumer : d # c => pc'[d] = pc[d]
      BY <1>10 DEF Claim, TypeOK
    <2>5. TokensIssued'
      <3>1. ASSUME NEW d \in Consumer, pc'[d] \in Working
            PROVE  0 < lease'[d].token /\ lease'[d].token <= row'[lease'[d].key].token
        <4>1. CASE d = c
          BY <2>2, <2>3, <4>1
        <4>2. CASE d # c
          <5>1. lease[d].key \in Key /\ lease[d].token \in Nat /\ lease'[d] = lease[d]
            BY <2>3, <2>4, <3>1, <4>2 DEF TypeOK
          <5>2. 0 < lease[d].token /\ lease[d].token <= row[lease[d].key].token
            BY <2>4, <3>1, <4>2 DEF IInv, TokensIssued
          <5>3. /\ row[lease[d].key].token \in Nat
                /\ row'[lease[d].key].token \in {row[lease[d].key].token, row[lease[d].key].token + 1}
            BY <2>2, <5>1 DEF TypeOK, Row
          <5>4. QED
            BY <5>1, <5>2, <5>3
        <4>3. QED
          BY <4>1, <4>2
      <3>2. QED
        BY <2>2, <3>1 DEF IInv, TokensIssued
    <2>6. TokensUnique'
      <3>1. ASSUME NEW d \in Consumer, d # c, pc[d] \in Working PROVE lease[d] # lease'[c]
        BY <2>3, <3>1 DEF IInv, TypeOK, TokensIssued, Row
      <3>2. QED
        BY <2>3, <2>4, <3>1 DEF IInv, TokensUnique
    <2>7. LocksSound'
      BY <1>10, <2>1, <2>2 DEF IInv, LocksSound, Claim, Time
    <2>8. AckedDurable'
      BY <1>10, <2>3, <2>4 DEF IInv, AckedDurable, Claim
    <2>9. CompletedIsDurable' /\ OneActivePerSubject'
      BY <1>10, <2>1, <2>2 DEF IInv, CompletedIsDurable, OneActivePerSubject, Active, Claim
    <2>10. QED
      BY <2>5, <2>6, <2>7, <2>8, <2>9 DEF IInv
  <1>14. ASSUME NEW c \in Consumer, Persist(c) PROVE IInv'
    <2>1. lease[c].key \in Key
      BY <1>14 DEF Persist, TypeOK, Working, Beating
    <2>2. \A d \in Consumer : pc'[d] \in Working => pc[d] \in Working
      BY <1>14 DEF Persist, TypeOK, Working, Beating
    <2>3. TokensIssued' /\ TokensUnique'
      BY <1>14, <2>2 DEF IInv, TokensIssued, TokensUnique, Persist
    <2>4. AckedDurable'
      BY <1>14 DEF IInv, TypeOK, AckedDurable, Persist
    <2>5. LocksSound'
      BY <1>14 DEF IInv, LocksSound, Persist, Time
    <2>6. QED
      BY <1>14, <2>3, <2>4, <2>5 DEF IInv, CompletedIsDurable, OneActivePerSubject, Persist
  <1>15. ASSUME NEW c \in Consumer, PersistThrows(c) PROVE IInv'
    <2>1. finalized \subseteq finalized'
      BY <1>15 DEF PersistThrows
    <2>2. \A d \in Consumer : /\ pc'[d] \in Working => pc[d] \in Working
                              /\ pc'[d] = "acking" => pc[d] = "acking"
      BY <1>15 DEF PersistThrows, Caught, Threw, Fault, TypeOK, Working, Beating
    <2>3. TokensIssued' /\ TokensUnique'
      BY <1>15, <2>2 DEF IInv, TokensIssued, TokensUnique, PersistThrows
    <2>4. AckedDurable'
      BY <1>15, <2>1, <2>2 DEF IInv, AckedDurable, PersistThrows
    <2>5. LocksSound'
      BY <1>15, <2>1 DEF IInv, LocksSound, PersistThrows, Time
    <2>6. QED
      BY <1>15, <2>1, <2>3, <2>4, <2>5
      DEF IInv, CompletedIsDurable, OneActivePerSubject, PersistThrows
  <1>16. ASSUME NEW c \in Consumer, Acknowledge(c) PROVE IInv'
    <2>1. CASE Holds(c) /\ lease[c].key \in finalized /\ Acknowledged(c) /\ Finished(c)
      <3>1. ClaimEnds(c, "completed")
        BY <1>16, <2>1 DEF Acknowledge, Acknowledged, Finished, ClaimEnds, Working, Beating, TypeOK
      <3>2. QED
        BY <3>1, <2>1, ClaimEndsStep, <1>16 DEF Terminal
    <2>2. CASE Caught(c) /\ UNCHANGED <<row, lease, aborted>>
      BY <1>16, <2>2, QuietStep DEF Acknowledge, Caught, Quiet, TypeOK, Working, Beating
    <2>3. QED
      BY <1>16, <2>1, <2>2 DEF Acknowledge
  <1>17. ASSUME NEW c \in Consumer, AcknowledgeThrows(c) PROVE IInv'
    <2>1. CASE UNCHANGED row
      BY <1>17, <2>1, QuietStep DEF AcknowledgeThrows, Caught, Threw, Fault, Quiet, TypeOK, Working, Beating
    <2>2. CASE ~Locked(lease[c].key) /\ Holds(c) /\ Acknowledged(c)
      <3>1. ClaimEnds(c, "completed")
        BY <1>17, <2>2 DEF AcknowledgeThrows, Caught, Threw, Fault, Acknowledged, ClaimEnds, Working, Beating, TypeOK
      <3>2. lease[c].key \in finalized
        BY <1>17 DEF IInv, AckedDurable, AcknowledgeThrows
      <3>3. QED
        BY <3>1, <3>2, ClaimEndsStep DEF Terminal
    <2>3. QED
      BY <1>17, <2>1, <2>2 DEF AcknowledgeThrows
  <1>18. ASSUME NEW c \in Consumer, Release(c) PROVE IInv'
    <2>1. CASE Holds(c)
      <3>1. ClaimEnds(c, "pending")
        BY <1>18, <2>1 DEF Release, Finished, ClaimEnds, Working, Beating, TypeOK
      <3>2. QED
        BY <3>1, ClaimEndsStep DEF Terminal
    <2>2. CASE ~Holds(c)
      BY <1>18, <2>2, ForgetStep DEF Release, Finished, Forgets, Working, Beating, TypeOK
    <2>3. QED
      BY <2>1, <2>2
  <1>19. ASSUME NEW c \in Consumer, Fail(c) PROVE IInv'
    <2>1. CASE Holds(c)
      <3>1. ClaimEnds(c, "failed")
        BY <1>19, <2>1 DEF Fail, Finished, ClaimEnds, Working, Beating, TypeOK
      <3>2. QED
        BY <3>1, ClaimEndsStep DEF Terminal
    <2>2. CASE ~Holds(c)
      BY <1>19, <2>2, ForgetStep DEF Fail, Finished, Forgets, Working, Beating, TypeOK
    <2>3. QED
      BY <2>1, <2>2
  <1>20. ASSUME NEW c \in Consumer, Heartbeat(c) PROVE IInv'
    <2>1. CASE UNCHANGED row
      BY <1>20, <2>1, QuietStep DEF Heartbeat, Quiet, TypeOK
    <2>2. CASE row' = [row EXCEPT ![lease[c].key].expires = Time(WorkerOf[c]) + LeaseDuration]
      <3>1. lease[c].key \in Key
        BY <1>20 DEF Heartbeat, TypeOK, Working
      <3>2. \A k \in Key : /\ row'[k].status = row[k].status
                           /\ row'[k].token = row[k].token
                           /\ k # lease[c].key => row'[k] = row[k]
        BY <1>20, HeartbeatEffect
      <3>3. LocksSound'
        BY <1>20, <3>1, <3>2 DEF IInv, LocksSound, Locked, Heartbeat, Time
      <3>4. TokensIssued' /\ TokensUnique' /\ AckedDurable'
        BY <1>20, <3>2 DEF IInv, TypeOK, TokensIssued, TokensUnique, AckedDurable, Heartbeat
      <3>5. CompletedIsDurable' /\ OneActivePerSubject'
        BY <1>20, <3>2 DEF IInv, CompletedIsDurable, OneActivePerSubject, Heartbeat
      <3>6. QED
        BY <3>3, <3>4, <3>5 DEF IInv
    <2>3. QED
      BY <1>20, <2>1, <2>2 DEF Heartbeat
  <1>21. ASSUME NEW c \in Consumer, HeartbeatThrows(c) PROVE IInv'
    BY <1>21, QuietStep DEF HeartbeatThrows, Quiet, TypeOK
  <1>22. CASE UNCHANGED vars
    BY <1>22, QuietStep DEF vars, Quiet, TypeOK
  <1>23. QED
    BY <1>1, <1>2, <1>3, <1>4, <1>5, <1>6, <1>7, <1>8, <1>9, <1>10, <1>11, <1>12,
       <1>13, <1>14, <1>15, <1>16, <1>17, <1>18, <1>19, <1>20, <1>21, <1>22
    DEF Next, PassStep, ConsumerStep

\* IInv holds in every reachable state.
THEOREM Inductive == Spec => []IInv
  BY IndInit, IndNext, PTL DEF Spec

-----------------------------------------------------------------------------
(* The safety properties.                                                  *)

\* No two consumers ever work on the same claim: the token fence of
\* claimNextCycle, whatever owner labels, clocks and reapers do.
THEOREM ExclusiveClaimHolds == Spec => []ExclusiveClaim
  <1>1. IInv => ExclusiveClaim
    BY DEF IInv, TokensUnique, ExclusiveClaim, Owns
  <1>2. QED
    BY <1>1, Inductive, PTL

\* A completed row has a durable cycle.
THEOREM CompletedIsDurableHolds == Spec => []CompletedIsDurable
  <1>1. IInv => CompletedIsDurable
    BY DEF IInv
  <1>2. QED
    BY <1>1, Inductive, PTL

\* A subject has at most one pending or running cycle.
THEOREM OneActivePerSubjectHolds == Spec => []OneActivePerSubject
  <1>1. IInv => OneActivePerSubject
    BY DEF IInv
  <1>2. QED
    BY <1>1, Inductive, PTL

\* A consumer whose fenced update matches owns the claim.
LEMMA HoldsOwns ==
    ASSUME TypeOK, NEW c \in Consumer, pc[c] \in Working, Holds(c)
    PROVE  Owns(c, lease[c].key)
  BY DEF Holds, Owns, TypeOK

\* Which steps end a running claim, and by whose hand.
LEMMA StolenStep ==
    ASSUME IInv, [Next]_vars, NEW k \in Key,
           row[k].status = "running", row'[k].status # "running"
    PROVE  \/ \E w \in Worker : row[k].expires <= Time(w)
           \/ \E c \in Consumer :
                 /\ Owns(c, k)
                 /\ pc[c] \in {"acking", "releasing", "failing", "rejecting"}
                 /\ pc'[c] # pc[c]
  <1>0. TypeOK
    BY DEF IInv
  <1> USE <1>0 DEF dbVars
  <1>1. row' # row
    OBVIOUS
  <1>2. ASSUME NEW w \in Worker, ReapCommit(w) PROVE row[k].expires <= Time(w)
    BY <1>2 DEF IInv, LocksSound, ReapCommit
  <1>3. ASSUME NEW w \in Worker, NEW s \in Subject, Ensure(w, s) PROVE FALSE
    BY <1>3 DEF Ensure, Insertable, TypeOK
  <1>4. ASSUME NEW c \in Consumer, Claim(c) PROVE FALSE
    <2>1. PICK j \in Key :
             /\ row[j].status = "pending"
             /\ row' = [row EXCEPT ![j] = ClaimedRow(row[j], WorkerOf[c])]
      BY <1>4, ClaimEffect
    <2>2. QED
      BY <2>1 DEF TypeOK
  <1>5. ASSUME NEW c \in Consumer, Acknowledge(c) \/ AcknowledgeThrows(c)
        PROVE  Owns(c, k) /\ pc[c] = "acking" /\ pc'[c] # pc[c]
    <2>1. pc[c] = "acking" /\ Holds(c) /\ lease[c].key = k
      BY <1>1, <1>5 DEF Acknowledge, AcknowledgeThrows, Acknowledged, TypeOK, Working, Beating
    <2>2. pc'[c] # "acking"
      BY <1>5 DEF Acknowledge, AcknowledgeThrows, Finished, Caught, Threw, Fault, TypeOK
    <2>3. QED
      BY <2>1, <2>2, HoldsOwns DEF Working, Beating
  <1>6. ASSUME NEW c \in Consumer, Release(c)
        PROVE  Owns(c, k) /\ pc[c] = "releasing" /\ pc'[c] # pc[c]
    <2>1. pc[c] = "releasing" /\ Holds(c) /\ lease[c].key = k /\ pc'[c] = "idle"
      BY <1>1, <1>6 DEF Release, Finished, TypeOK, Working, Beating
    <2>2. QED
      BY <2>1, HoldsOwns DEF Working, Beating
  <1>7. ASSUME NEW c \in Consumer, Fail(c)
        PROVE  Owns(c, k) /\ pc[c] \in {"failing", "rejecting"} /\ pc'[c] # pc[c]
    <2>1. pc[c] \in {"failing", "rejecting"} /\ Holds(c) /\ lease[c].key = k /\ pc'[c] = "idle"
      BY <1>1, <1>7 DEF Fail, Finished, TypeOK, Working, Beating
    <2>2. QED
      BY <2>1, HoldsOwns DEF Working, Beating
  <1>8. ASSUME NEW c \in Consumer, Heartbeat(c) PROVE FALSE
    BY <1>8, HeartbeatEffect
  <1>9. ASSUME NEW w \in Worker,
               \/ ReapScan(w) \/ StartConsumers(w) \/ EndPass(w) \/ Restart(w)
               \/ Stop(w) \/ Crash(w)
        PROVE  FALSE
    BY <1>1, <1>9 DEF ReapScan, StartConsumers, EndPass, Restart, Stop, Crash
  <1>10. ASSUME NEW c \in Consumer,
                \/ Return(c) \/ HandlerReturns(c) \/ HandlerThrows(c)
                \/ Persist(c) \/ PersistThrows(c) \/ HeartbeatThrows(c)
         PROVE  FALSE
    BY <1>1, <1>10
    DEF Return, HandlerReturns, HandlerThrows, Persist, PersistThrows, HeartbeatThrows
  <1>11. ~Tick /\ ~UNCHANGED vars
    BY <1>1 DEF Tick, vars
  <1>12. CASE \E w \in Worker : PassStep(w) \/ Stop(w) \/ Crash(w)
    BY <1>2, <1>3, <1>9, <1>12 DEF PassStep
  <1>13. CASE \E c \in Consumer : ConsumerStep(c) \/ Heartbeat(c) \/ HeartbeatThrows(c)
    <2>1. PICK c \in Consumer : ConsumerStep(c) \/ Heartbeat(c) \/ HeartbeatThrows(c)
      BY <1>13
    <2>2. \/ Acknowledge(c) \/ AcknowledgeThrows(c)
          \/ Release(c) \/ Fail(c)
      BY <2>1, <1>4, <1>8, <1>10 DEF ConsumerStep
    <2>3. QED
      BY <2>2, <1>5, <1>6, <1>7
  <1>14. QED
    BY <1>11, <1>12, <1>13 DEF Next

\* A running claim ends only by its owner, or once its lease has run out.
THEOREM LeaseNotStolenHolds == Spec => LeaseNotStolen
  <1>1. IInv /\ [Next]_vars =>
          [\A k \in Key :
             row[k].status = "running" /\ row'[k].status # "running" =>
                \/ \E w \in Worker : row[k].expires <= Time(w)
                \/ \E c \in Consumer :
                      /\ Owns(c, k)
                      /\ pc[c] \in {"acking", "releasing", "failing", "rejecting"}
                      /\ pc'[c] # pc[c]]_vars
    <2> SUFFICES ASSUME IInv, [Next]_vars, NEW k \in Key,
                        row[k].status = "running", row'[k].status # "running"
                 PROVE  \/ \E w \in Worker : row[k].expires <= Time(w)
                        \/ \E c \in Consumer :
                              /\ Owns(c, k)
                              /\ pc[c] \in {"acking", "releasing", "failing", "rejecting"}
                              /\ pc'[c] # pc[c]
      OBVIOUS
    <2>1. QED
      BY StolenStep
  <1>2. QED
    BY <1>1, Inductive, PTL DEF Spec, LeaseNotStolen

-----------------------------------------------------------------------------
(* The table implements the life cycle.                                    *)

StageOf(k) == CASE row[k].status = "absent" -> "unscheduled"
                [] row[k].status \in Active -> "open"
                [] OTHER -> row[k].status

\* The initial states map to the initial state.
LEMMA LifecycleInit == Init => Lifecycle!Init
  BY DEF Init, AbsentRow, Active, Lifecycle!Init, Lifecycle!Key, Key

\* A step that keeps every stage and the durable cycles is a stutter.
LEMMA LifecycleStutter ==
    ASSUME TypeOK, TypeOK', UNCHANGED finalized,
           \A k \in Key : \/ row'[k].status = row[k].status
                          \/ row'[k].status \in Active /\ row[k].status \in Active
    PROVE  UNCHANGED Lifecycle!vars
  BY DEF Lifecycle!vars, Active, TypeOK

\* A step that settles open cycles is a Settle step.
LEMMA LifecycleSettle ==
    ASSUME TypeOK, TypeOK', UNCHANGED finalized,
           \A k \in Key :
              \/ row'[k].status = row[k].status
              \/ row'[k].status \in Active /\ row[k].status \in Active
              \/ /\ row[k].status \in Active
                 /\ row'[k].status \in Terminal
                 /\ row'[k].status = "completed" => k \in finalized
    PROVE  Lifecycle!Settle
  BY DEF Lifecycle!Settle, Lifecycle!Key, Lifecycle!Stage, Lifecycle!Settled, Key,
         Active, Terminal, TypeOK, Row, Status

\* The fenced update that ends a held claim settles the cycle or leaves it open.
LEMMA SettledBy ==
    ASSUME TypeOK, TypeOK', NEW c \in Consumer, pc[c] \in Working, Holds(c),
           NEW status \in {"pending"} \cup Terminal,
           row' = [row EXCEPT ![lease[c].key] = Unleased(@, status)],
           UNCHANGED finalized,
           status = "completed" => lease[c].key \in finalized
    PROVE  [Lifecycle!Next]_(Lifecycle!vars)
  <1> DEFINE k == lease[c].key
  <1>1. k \in Key /\ row[k].status = "running"
    BY DEF TypeOK, Holds
  <1>2. row'[k].status = status /\ \A j \in Key : j # k => row'[j] = row[j]
    BY <1>1 DEF Unleased, TypeOK, Row
  <1>3. Lifecycle!Settle
    BY <1>1, <1>2, LifecycleSettle DEF Active
  <1>4. QED
    BY <1>3 DEF Lifecycle!Next

\* Scheduling an absent cycle of a subject without an active one opens it.
LEMMA LifecycleOpen ==
    ASSUME TypeOK, NEW k \in Key,
           row[k].status = "absent", row'[k].status = "pending",
           \A j \in Key : j # k => row'[j] = row[j],
           \A j \in Key : j[1] = k[1] => row[j].status \notin Active,
           UNCHANGED finalized
    PROVE  [Lifecycle!Next]_(Lifecycle!vars)
  <1> DEFINE stage == [j \in Key |-> StageOf(j)]
  <1>1. k \in Lifecycle!Key
    BY DEF Lifecycle!Key, Key
  <1>2. StageOf(k) = "unscheduled" /\ StageOf(k)' = "open"
    BY DEF StageOf, Active
  <1>3. \A j \in Key : j # k => StageOf(j)' = StageOf(j)
    BY DEF StageOf
  <1>4. \A j \in Key : j[1] = k[1] => StageOf(j) # "open"
    BY DEF StageOf, TypeOK, Row, Status, Terminal, Active
  <1>5. stage' = [stage EXCEPT ![k] = "open"]
    <2>1. stage' = [j \in Key |-> IF j = k THEN "open" ELSE StageOf(j)]
      BY <1>2, <1>3
    <2>2. [stage EXCEPT ![k] = "open"] = [j \in Key |-> IF j = k THEN "open" ELSE StageOf(j)]
      OBVIOUS
    <2>3. QED
      BY <2>1, <2>2
  <1>6. Lifecycle!Open(k)
    BY <1>1, <1>2, <1>4, <1>5 DEF Lifecycle!Open, Lifecycle!Key, Key, StageOf
  <1>7. \E i \in Lifecycle!Key : Lifecycle!Open(i)
    BY <1>1, <1>6
  <1>8. QED
    BY <1>7 DEF Lifecycle!Next

\* Every step maps to a step or a stutter of the life cycle.
LEMMA LifecycleNext ==
    ASSUME IInv, [Next]_vars
    PROVE  [Lifecycle!Next]_(Lifecycle!vars)
  <1>0. TypeOK /\ TypeOK'
    BY TypeNext DEF IInv
  <1> USE <1>0 DEF dbVars, passVars, consumerVars
  <1>1. ASSUME UNCHANGED <<row, finalized>> PROVE UNCHANGED Lifecycle!vars
    BY <1>1, LifecycleStutter
  <1>2. ASSUME NEW w \in Worker, ReapCommit(w) PROVE Lifecycle!Settle
    <2>1. ASSUME NEW k \in Key
          PROVE  \/ row'[k].status = row[k].status
                 \/ /\ row[k].status = "running"
                    /\ row'[k].status \in {"completed", "abandoned", "pending"}
                    /\ row'[k].status = "completed" => k \in finalized
      <3>1. CASE verdict[w][k] = "none"
        BY <1>2, <3>1 DEF ReapCommit
      <3>2. CASE verdict[w][k] # "none"
        <4>1. row'[k] = Unleased(row[k], verdict[w][k]) /\ row[k] \in Row
          BY <1>2, <3>2 DEF ReapCommit, TypeOK
        <4>2. row'[k].status = verdict[w][k]
          BY <4>1 DEF Unleased, Row
        <4>3. verdict[w][k] \in {"completed", "abandoned", "pending"}
          BY <3>2 DEF TypeOK, Verdict
        <4>4. QED
          BY <3>2, <4>2, <4>3 DEF IInv, LocksSound
      <3>3. QED
        BY <3>1, <3>2
    <2>2. QED
      BY <1>2, <2>1, LifecycleSettle DEF ReapCommit, Active, Terminal
  <1>3. ASSUME NEW w \in Worker, NEW s \in Subject, Ensure(w, s)
        PROVE  [Lifecycle!Next]_(Lifecycle!vars)
    <2> DEFINE k == <<s, Boundary(w)>>
    <2>1. CASE row' = row
      BY <1>1, <1>3, <2>1 DEF Ensure
    <2>2. CASE /\ k \in Key /\ Insertable(k)
               /\ row' = [row EXCEPT ![k] = [AbsentRow EXCEPT !.status = "pending"]]
      <3>1. \A j \in Key : j[1] = k[1] => row[j].status \notin Active
        BY <2>2 DEF Insertable, SubjectOf
      <3>2. /\ row[k].status = "absent" /\ row'[k].status = "pending"
            /\ \A j \in Key : j # k => row'[j] = row[j]
        BY <2>2 DEF Insertable, AbsentRow, TypeOK
      <3>3. k \in Key /\ UNCHANGED finalized
        BY <1>3, <2>2 DEF Ensure
      <3>4. QED
        <4> HIDE DEF k
        <4>1. QED
          BY <3>1, <3>2, <3>3, LifecycleOpen
    <2>3. QED
      BY <1>3, <2>1, <2>2 DEF Ensure
  <1>4. ASSUME NEW c \in Consumer, Claim(c) PROVE UNCHANGED Lifecycle!vars
    <2>1. PICK k \in Key :
             /\ row[k].status = "pending"
             /\ row' = [row EXCEPT ![k] = ClaimedRow(row[k], WorkerOf[c])]
      BY <1>4, ClaimEffect
    <2>2. row[k] \in Row /\ clock \in Nat /\ WorkerOf[c] \in Worker
      BY WorkerOfAssumption DEF TypeOK
    <2>3. ClaimedRow(row[k], WorkerOf[c]).status = "running"
      BY <2>2, ClaimedRowIsRow
    <2>4. \A j \in Key : \/ row'[j].status = row[j].status
                         \/ row'[j].status \in Active /\ row[j].status \in Active
      BY <2>1, <2>3 DEF TypeOK, Active
    <2>5. QED
      BY <1>4, <2>4, LifecycleStutter DEF Claim
  <1>5. ASSUME NEW c \in Consumer, UNCHANGED row, pc[c] \in Working,
               finalized' \in {finalized, finalized \cup {lease[c].key}}
        PROVE  [Lifecycle!Next]_(Lifecycle!vars)
    <2> DEFINE k == lease[c].key
    <2>1. CASE finalized' = finalized
      BY <1>1, <1>5, <2>1
    <2>2. CASE k \notin finalized /\ finalized' = finalized \cup {k}
      <3>1. k \in Key /\ row[k].status # "absent"
        <4>1. k \in Key /\ lease[c].token \in Nat /\ row[k].token \in Nat
          BY <1>5 DEF TypeOK, Row
        <4>2. 0 < lease[c].token /\ lease[c].token <= row[k].token
          BY <1>5 DEF IInv, TokensIssued
        <4>3. QED
          BY <4>1, <4>2 DEF IInv, TokensIssued
      <3>2. StageOf(k) # "unscheduled"
        BY <3>1 DEF StageOf, TypeOK, Row, Status, Terminal
      <3>3. Lifecycle!Commit(k)
        BY <1>5, <2>2, <3>1, <3>2 DEF Lifecycle!Commit, Lifecycle!Key, Key, StageOf
      <3>4. QED
        BY <3>1, <3>3 DEF Lifecycle!Next, Lifecycle!Key, Key
    <2>3. QED
      BY <1>5, <2>1, <2>2
  <1>6. ASSUME NEW c \in Consumer, Acknowledge(c) PROVE [Lifecycle!Next]_(Lifecycle!vars)
    <2>1. CASE UNCHANGED row
      BY <1>1, <1>6, <2>1 DEF Acknowledge
    <2>2. CASE Holds(c) /\ lease[c].key \in finalized /\ Acknowledged(c)
      BY <1>6, <2>2, SettledBy DEF Acknowledge, Acknowledged, Working, Beating, Terminal
    <2>3. QED
      BY <1>6, <2>1, <2>2 DEF Acknowledge
  <1>7. ASSUME NEW c \in Consumer, AcknowledgeThrows(c) PROVE [Lifecycle!Next]_(Lifecycle!vars)
    <2>1. CASE UNCHANGED row
      BY <1>1, <1>7, <2>1 DEF AcknowledgeThrows
    <2>2. CASE Holds(c) /\ Acknowledged(c)
      <3>1. lease[c].key \in finalized
        BY <1>7 DEF IInv, AckedDurable, AcknowledgeThrows
      <3>2. QED
        BY <1>7, <2>2, <3>1, SettledBy DEF AcknowledgeThrows, Acknowledged, Working, Beating, Terminal
    <2>3. QED
      BY <1>7, <2>1, <2>2 DEF AcknowledgeThrows
  <1>8. ASSUME NEW c \in Consumer, Release(c) PROVE [Lifecycle!Next]_(Lifecycle!vars)
    <2>1. CASE Holds(c)
      <3>1. /\ pc[c] \in Working
            /\ row' = [row EXCEPT ![lease[c].key] = Unleased(@, "pending")]
            /\ UNCHANGED finalized
        BY <1>8, <2>1 DEF Release, Working, Beating
      <3>2. "pending" \in {"pending"} \cup Terminal /\ "pending" # "completed"
        BY DEF Terminal
      <3>3. QED
        BY <2>1, <3>1, <3>2, SettledBy
    <2>2. CASE ~Holds(c)
      BY <1>1, <1>8, <2>2 DEF Release
    <2>3. QED
      BY <2>1, <2>2
  <1>9. ASSUME NEW c \in Consumer, Fail(c) PROVE [Lifecycle!Next]_(Lifecycle!vars)
    <2>1. CASE Holds(c)
      <3>1. /\ pc[c] \in Working
            /\ row' = [row EXCEPT ![lease[c].key] = Unleased(@, "failed")]
            /\ UNCHANGED finalized
        BY <1>9, <2>1 DEF Fail, Working, Beating
      <3>2. "failed" \in {"pending"} \cup Terminal /\ "failed" # "completed"
        BY DEF Terminal
      <3>3. QED
        BY <2>1, <3>1, <3>2, SettledBy
    <2>2. CASE ~Holds(c)
      BY <1>1, <1>9, <2>2 DEF Fail
    <2>3. QED
      BY <2>1, <2>2
  <1>10. ASSUME NEW c \in Consumer, Heartbeat(c) PROVE UNCHANGED Lifecycle!vars
    <2>1. \A k \in Key : row'[k].status = row[k].status
      BY <1>10, HeartbeatEffect
    <2>2. QED
      BY <1>10, <2>1, LifecycleStutter DEF Heartbeat
  <1>11. ASSUME NEW c \in Consumer, Persist(c) \/ PersistThrows(c)
         PROVE  [Lifecycle!Next]_(Lifecycle!vars)
    BY <1>5, <1>11 DEF Persist, PersistThrows, Working, Beating
  <1>12. QED
    BY <1>1, <1>2, <1>3, <1>4, <1>6, <1>7, <1>8, <1>9, <1>10, <1>11
    DEF Next, PassStep, ConsumerStep, vars, Tick, ReapScan, StartConsumers, EndPass,
        Restart, Stop, Crash, Return, HandlerReturns, HandlerThrows, HeartbeatThrows,
        Lifecycle!Next

\* The lease table, under any interleaving of crashes, shutdowns, stalls and
\* lost acknowledgements, is a CycleLifecycle: it completes a cycle only on
\* durable evidence, commits that once, and never reopens a settled cycle.
THEOREM Refinement == Spec => ImplementsLifecycle
  <1>1. IInv /\ [Next]_vars => [Lifecycle!Next]_(Lifecycle!vars)
    BY LifecycleNext
  <1>2. QED
    BY <1>1, LifecycleInit, Inductive, PTL DEF Spec, ImplementsLifecycle, Lifecycle!Spec

-----------------------------------------------------------------------------
(* The budget of attempts.                                                 *)

\* Where a consumer stands after a step, and whether it is aborted.
LEMMA SeatedNext ==
    ASSUME TypeOK, Seated, [Next]_vars
    PROVE  Seated'
  <1> USE DEF dbVars, passVars, consumerVars
  <1>1. CASE Tick
    BY <1>1 DEF Tick, Seated, Aborted
  <1>2. ASSUME NEW w \in Worker, ReapScan(w) PROVE Seated'
    BY <1>2 DEF ReapScan, Seated, Aborted, TypeOK
  <1>3. ASSUME NEW w \in Worker, ReapCommit(w) PROVE Seated'
    BY <1>3 DEF ReapCommit, Seated, Aborted, TypeOK
  <1>4. ASSUME NEW w \in Worker, NEW s \in Subject, Ensure(w, s) PROVE Seated'
    BY <1>4 DEF Ensure, Seated, Aborted
  <1>5. ASSUME NEW w \in Worker, StartConsumers(w) PROVE Seated'
    BY <1>5, WorkerOfAssumption DEF StartConsumers, Seated, Aborted, TypeOK, Working, Beating
  <1>6. ASSUME NEW w \in Worker, EndPass(w) PROVE Seated'
    BY <1>6, WorkerOfAssumption DEF EndPass, Seated, Aborted, TypeOK, Working, Beating
  <1>7. ASSUME NEW w \in Worker, Restart(w) PROVE Seated'
    BY <1>7 DEF Restart, Seated, Aborted, TypeOK
  <1>8. ASSUME NEW w \in Worker, Stop(w) PROVE Seated'
    BY <1>8 DEF Stop, Seated, Aborted
  <1>9. ASSUME NEW w \in Worker, Crash(w) PROVE Seated'
    BY <1>9, WorkerOfAssumption DEF Crash, Seated, Aborted, TypeOK, Working, Beating
  <1>10. ASSUME NEW c \in Consumer, Claim(c) PROVE Seated'
    BY <1>10 DEF Claim, Seated, Aborted, TypeOK, Working, Beating
  <1>11. ASSUME NEW c \in Consumer, Return(c) PROVE Seated'
    BY <1>11 DEF Return, Seated, Aborted, TypeOK, Working, Beating
  <1>12. ASSUME NEW c \in Consumer, HandlerReturns(c) PROVE Seated'
    BY <1>12 DEF HandlerReturns, Seated, Aborted, TypeOK, Working, Beating
  <1>13. ASSUME NEW c \in Consumer, HandlerThrows(c) PROVE Seated'
    BY <1>13 DEF HandlerThrows, Caught, Threw, Fault, Seated, Aborted, TypeOK, Working, Beating
  <1>14. ASSUME NEW c \in Consumer, Persist(c) PROVE Seated'
    BY <1>14 DEF Persist, Seated, Aborted, TypeOK, Working, Beating
  <1>15. ASSUME NEW c \in Consumer, PersistThrows(c) PROVE Seated'
    BY <1>15 DEF PersistThrows, Caught, Threw, Fault, Seated, Aborted, TypeOK, Working, Beating
  <1>16. ASSUME NEW c \in Consumer, Acknowledge(c) PROVE Seated'
    <2>1. CASE Finished(c)
      BY <1>16, <2>1 DEF Acknowledge, Finished, Seated, Aborted, TypeOK, Working, Beating
    <2>2. CASE Caught(c) /\ UNCHANGED <<row, lease, aborted>>
      BY <1>16, <2>2 DEF Acknowledge, Caught, Seated, Aborted, TypeOK, Working, Beating
    <2>3. QED
      BY <1>16, <2>1, <2>2 DEF Acknowledge
  <1>17. ASSUME NEW c \in Consumer, AcknowledgeThrows(c) PROVE Seated'
    BY <1>17 DEF AcknowledgeThrows, Caught, Threw, Fault, Seated, Aborted, TypeOK, Working, Beating
  <1>18. ASSUME NEW c \in Consumer, Release(c) \/ Fail(c) PROVE Seated'
    BY <1>18 DEF Release, Fail, Finished, Seated, Aborted, TypeOK, Working, Beating
  <1>20. ASSUME NEW c \in Consumer, Heartbeat(c) PROVE Seated'
    BY <1>20 DEF Heartbeat, Seated, Aborted, TypeOK, Working, Beating
  <1>21. ASSUME NEW c \in Consumer, HeartbeatThrows(c) PROVE Seated'
    BY <1>21 DEF HeartbeatThrows, Seated, Aborted, TypeOK, Working, Beating
  <1>22. CASE UNCHANGED vars
    BY <1>22 DEF vars, Seated, Aborted
  <1>23. QED
    BY <1>1, <1>2, <1>3, <1>4, <1>5, <1>6, <1>7, <1>8, <1>9, <1>10, <1>11, <1>12,
       <1>13, <1>14, <1>15, <1>16, <1>17, <1>18, <1>20, <1>21, <1>22
    DEF Next, PassStep, ConsumerStep

\* What a step makes of a row: nothing, or an expiry; it is scheduled; it is
\* claimed, which counts; or its claim ends, and retries only within the budget
\* or for an owner that was aborted.
Left(k) ==
    /\ row'[k].status = row[k].status /\ row'[k].owner = row[k].owner
    /\ row'[k].token = row[k].token /\ row'[k].attempts = row[k].attempts
Scheduled(k) ==
    row[k].status = "absent" /\ row'[k].status = "pending" /\ row'[k].attempts = 0
ClaimedBy(c, k) ==
    /\ row[k].status = "pending" /\ row'[k].status = "running"
    /\ row'[k].owner = WorkerOf[c]
    /\ row'[k].token = row[k].token + 1 /\ row'[k].attempts = row[k].attempts + 1
Ended(k) ==
    /\ row[k].status = "running" /\ row'[k].status \notin {"absent", "running"}
    /\ row'[k].attempts = row[k].attempts
    /\ row'[k].status = "pending" =>
          (\E w \in Worker : verdict[w][k] = "pending") \/ Doomed(k)

\* The claim of consumer c on its row ends.
LEMMA EndsRow ==
    ASSUME TypeOK, NEW c \in Consumer, pc[c] \in Working, Holds(c), NEW status \in Status,
           status \notin {"absent", "running"}, status = "pending" => Quitting(c),
           row' = [row EXCEPT ![lease[c].key] = Unleased(@, status)],
           NEW k \in Key
    PROVE  Left(k) \/ Ended(k)
  <1>1. lease[c].key \in Key /\ Owns(c, lease[c].key) /\ row[lease[c].key].status = "running"
    BY HoldsOwns DEF TypeOK, Holds
  <1>2. CASE k # lease[c].key
    BY <1>1, <1>2 DEF Left, TypeOK
  <1>3. CASE k = lease[c].key
    <2>1. row'[k] = Unleased(row[k], status) /\ row[k] \in Row
      BY <1>1, <1>3 DEF TypeOK
    <2>2. row'[k].status = status /\ row'[k].attempts = row[k].attempts
      BY <2>1 DEF Unleased, Row
    <2>3. QED
      BY <1>1, <1>3, <2>2 DEF Ended, Doomed
  <1>4. QED
    BY <1>2, <1>3

\* Every step makes one of these of every row.
LEMMA RowStep ==
    ASSUME IInv, Seated, [Next]_vars, NEW k \in Key
    PROVE  \/ Left(k) \/ Scheduled(k) \/ Ended(k)
           \/ \E c \in Consumer : Claim(c) /\ ClaimedBy(c, k)
  <1> USE DEF dbVars, passVars, consumerVars
  <1>0. TypeOK /\ (row' = row => Left(k))
    BY DEF Left, IInv
  <1>1. ASSUME NEW w \in Worker, ReapCommit(w) PROVE Left(k) \/ Ended(k)
    <2>1. CASE verdict[w][k] = "none"
      BY <1>1, <2>1 DEF ReapCommit, Left
    <2>2. CASE verdict[w][k] # "none"
      <3>1. row'[k] = Unleased(row[k], verdict[w][k]) /\ row[k] \in Row
            /\ row[k].status = "running"
        BY <1>0, <1>1, <2>2 DEF ReapCommit, TypeOK, IInv, LocksSound
      <3>2. row'[k].status = verdict[w][k] /\ row'[k].attempts = row[k].attempts
        BY <3>1 DEF Unleased, Row
      <3>3. verdict[w][k] \notin {"absent", "running"}
        BY <1>0 DEF TypeOK, Verdict
      <3>4. QED
        BY <3>1, <3>2, <3>3 DEF Ended
    <2>3. QED
      BY <2>1, <2>2
  <1>2. ASSUME NEW w \in Worker, NEW s \in Subject, Ensure(w, s)
        PROVE  Left(k) \/ Scheduled(k)
    <2>1. CASE UNCHANGED row
      BY <2>1 DEF Left
    <2>2. ASSUME NEW j \in Key, Insertable(j), j # k,
                 row' = [row EXCEPT ![j] = [AbsentRow EXCEPT !.status = "pending"]]
          PROVE  Left(k)
      BY <1>0, <2>2 DEF Left, TypeOK
    <2>3. ASSUME Insertable(k), row' = [row EXCEPT ![k] = [AbsentRow EXCEPT !.status = "pending"]]
          PROVE  Scheduled(k)
      BY <1>0, <2>3 DEF Scheduled, Insertable, AbsentRow, TypeOK
    <2>4. QED
      BY <1>2, <2>1, <2>2, <2>3 DEF Ensure
  <1>3. ASSUME NEW c \in Consumer, Claim(c)
        PROVE  Left(k) \/ ClaimedBy(c, k)
    <2>1. PICK j \in Key :
             /\ row[j].status = "pending"
             /\ row' = [row EXCEPT ![j] = ClaimedRow(row[j], WorkerOf[c])]
      BY <1>0, <1>3, ClaimEffect
    <2>2. CASE j # k
      BY <1>0, <2>1, <2>2 DEF Left, TypeOK
    <2>3. CASE j = k
      <3>1. row'[k] = ClaimedRow(row[k], WorkerOf[c]) /\ row[k] \in Row
        BY <1>0, <2>1, <2>3 DEF TypeOK
      <3>2. /\ row'[k].status = "running" /\ row'[k].owner = WorkerOf[c]
            /\ row'[k].token = row[k].token + 1 /\ row'[k].attempts = row[k].attempts + 1
        BY <3>1 DEF ClaimedRow, Row
      <3>3. QED
        BY <2>1, <2>3, <3>2 DEF ClaimedBy
    <2>4. QED
      BY <2>2, <2>3
  <1>4. ASSUME NEW c \in Consumer, Acknowledge(c) \/ AcknowledgeThrows(c)
        PROVE  Left(k) \/ Ended(k)
    <2>1. pc[c] \in Working /\ "completed" \in Status
      BY <1>4 DEF Acknowledge, AcknowledgeThrows, Working, Beating, Status, Terminal
    <2>2. row' = row \/ (Holds(c) /\ row' = [row EXCEPT ![lease[c].key] = Unleased(@, "completed")])
      BY <1>4 DEF Acknowledge, AcknowledgeThrows, Acknowledged
    <2>3. QED
      BY <1>0, <2>1, <2>2, EndsRow
  <1>5. ASSUME NEW c \in Consumer, Release(c)
        PROVE  Left(k) \/ Ended(k)
    <2>1. pc[c] \in Working /\ "pending" \in Status /\ Quitting(c)
      BY <1>5 DEF Release, Working, Beating, Status, Active, Quitting
    <2>2. row' = row \/ (Holds(c) /\ row' = [row EXCEPT ![lease[c].key] = Unleased(@, "pending")])
      BY <1>5 DEF Release
    <2>3. QED
      BY <1>0, <2>1, <2>2, EndsRow
  <1>6. ASSUME NEW c \in Consumer, Fail(c)
        PROVE  Left(k) \/ Ended(k)
    <2>1. pc[c] \in Working /\ "failed" \in Status
      BY <1>6 DEF Fail, Working, Beating, Status, Terminal
    <2>2. row' = row \/ (Holds(c) /\ row' = [row EXCEPT ![lease[c].key] = Unleased(@, "failed")])
      BY <1>6 DEF Fail
    <2>3. QED
      BY <1>0, <2>1, <2>2, EndsRow
  <1>7. ASSUME NEW c \in Consumer, Heartbeat(c)
        PROVE  Left(k)
    <2>1. CASE UNCHANGED row
      BY <2>1 DEF Left
    <2>2. CASE row' = [row EXCEPT ![lease[c].key].expires = Time(WorkerOf[c]) + LeaseDuration]
      <3>1. lease[c].key \in Key
        BY <1>0, <1>7 DEF Heartbeat, TypeOK, Working
      <3>2. QED
        BY <1>0, <2>2, <3>1 DEF TypeOK, Row, Left
    <2>3. QED
      BY <1>7, <2>1, <2>2 DEF Heartbeat
  <1>8. \/ \E w \in Worker : ReapCommit(w)
        \/ \E w \in Worker, s \in Subject : Ensure(w, s)
        \/ \E c \in Consumer : \/ Claim(c) \/ Acknowledge(c) \/ AcknowledgeThrows(c)
                               \/ Release(c) \/ Fail(c) \/ Heartbeat(c)
        \/ row' = row
    BY DEF Next, PassStep, ConsumerStep, vars, Tick, ReapScan, StartConsumers, EndPass,
           Restart, Stop, Crash, Return, HandlerReturns, HandlerThrows, Persist,
           PersistThrows, HeartbeatThrows
  <1>9. QED
    BY <1>0, <1>1, <1>2, <1>3, <1>4, <1>5, <1>6, <1>7, <1>8

\* A consumer at work after a step has kept its claim or just taken it.
LEMMA LeaseKept ==
    ASSUME TypeOK, [Next]_vars, NEW c \in Consumer, pc'[c] \in Working
    PROVE  Claim(c) \/ (pc[c] \in Working /\ lease'[c] = lease[c])
  <1> USE DEF passVars, consumerVars
  <1>1. ASSUME NEW d \in Consumer, Claim(d), ~Claim(c)
        PROVE  pc'[c] = pc[c] /\ lease'[c] = lease[c]
    <2>1. c # d
      BY <1>1
    <2>2. QED
      BY <1>1, <2>1, ClaimEffect DEF TypeOK, Claim
  <1>2. ASSUME NEW w \in Worker, StartConsumers(w) \/ Crash(w)
        PROVE  pc[c] \in Working /\ lease'[c] = lease[c]
    BY <1>2 DEF StartConsumers, Crash, Working, Beating
  <1>3. ASSUME NEW d \in Consumer,
               \/ Return(d) \/ HandlerReturns(d) \/ HandlerThrows(d) \/ Persist(d)
               \/ PersistThrows(d) \/ AcknowledgeThrows(d)
        PROVE  pc[c] \in Working /\ lease'[c] = lease[c]
    BY <1>3 DEF TypeOK, Return, HandlerReturns, HandlerThrows, Persist, PersistThrows,
                AcknowledgeThrows, Caught, Threw, Fault, Working, Beating
  <1>4. ASSUME NEW d \in Consumer, Acknowledge(d)
        PROVE  pc[c] \in Working /\ lease'[c] = lease[c]
    BY <1>4 DEF TypeOK, Acknowledge, Caught, Finished, Working, Beating
  <1>5. ASSUME NEW d \in Consumer, Release(d) \/ Fail(d)
        PROVE  pc[c] \in Working /\ lease'[c] = lease[c]
    BY <1>5 DEF TypeOK, Release, Fail, Finished, Working, Beating
  <1>6. \/ \E w \in Worker : StartConsumers(w) \/ Crash(w)
        \/ \E d \in Consumer :
              \/ Claim(d) \/ Return(d) \/ HandlerReturns(d) \/ HandlerThrows(d)
              \/ Persist(d) \/ PersistThrows(d) \/ Acknowledge(d) \/ AcknowledgeThrows(d)
              \/ Release(d) \/ Fail(d)
        \/ pc' = pc /\ lease' = lease
    BY DEF Next, PassStep, ConsumerStep, vars, Tick, ReapScan, ReapCommit, Ensure, EndPass,
           Restart, Stop, Heartbeat, HeartbeatThrows
  <1>7. QED
    BY <1>1, <1>2, <1>3, <1>4, <1>5, <1>6

\* A claim that a consumer works on after a step is one it had, or one it has
\* just taken, before any signal reaches it.
LEMMA ClaimStep ==
    ASSUME IInv, Seated, [Next]_vars, NEW c \in Consumer, NEW k \in Key, Owns(c, k)'
    PROVE  \/ Owns(c, k) /\ Left(k)
           \/ ClaimedBy(c, k) /\ ~Quitting(c)'
  <1>0. TypeOK
    BY DEF IInv
  <1>1. /\ pc'[c] \in Working /\ row'[k].status = "running"
        /\ lease'[c] = [key |-> k, token |-> row'[k].token]
    BY DEF Owns
  <1>2. CASE pc[c] \in Working /\ lease'[c] = lease[c]
    <2>1. lease[c].key = k /\ lease[c].token = row'[k].token
      BY <1>1, <1>2
    <2>2. lease[c].token <= row[k].token /\ row[k].token \in Nat
      BY <1>0, <1>2, <2>1 DEF IInv, TokensIssued, TypeOK, Row
    <2>3. ASSUME NEW d \in Consumer PROVE ~ClaimedBy(d, k)
      BY <2>1, <2>2 DEF ClaimedBy
    <2>4. Left(k)
      BY <1>1, <2>3, RowStep DEF Scheduled, Ended
    <2>5. Owns(c, k)
      BY <1>1, <1>2, <2>4 DEF Left, Owns
    <2>6. QED
      BY <2>4, <2>5
  <1>3. CASE Claim(c)
    <2>1. PICK j \in Key :
             /\ row[j].status = "pending"
             /\ row' = [row EXCEPT ![j] = ClaimedRow(row[j], WorkerOf[c])]
             /\ lease' = [lease EXCEPT ![c] = [key |-> j, token |-> row[j].token + 1]]
      BY <1>0, <1>3, ClaimEffect
    <2>2. j = k
      BY <1>0, <1>1, <2>1 DEF TypeOK
    <2>3. row'[k] = ClaimedRow(row[k], WorkerOf[c]) /\ row[k] \in Row
      BY <1>0, <2>1, <2>2 DEF TypeOK
    <2>4. ClaimedBy(c, k)
      <3>1. row[k].status = "pending"
        BY <2>1, <2>2
      <3>2. /\ row'[k].status = "running" /\ row'[k].owner = WorkerOf[c]
            /\ row'[k].token = row[k].token + 1 /\ row'[k].attempts = row[k].attempts + 1
        BY <2>3 DEF ClaimedRow, Row
      <3>3. QED
        BY <3>1, <3>2 DEF ClaimedBy
    <2>5. ~aborted[c]
      BY <1>3 DEF Claim, Seated, Working, Beating
    <2>6. aborted' = aborted /\ stopping' = stopping /\ WorkerOf[c] \notin stopping
      BY <1>3 DEF Claim
    <2>7. pc'[c] # "releasing"
      BY <1>0, <1>3 DEF Claim, TypeOK
    <2>8. QED
      BY <2>4, <2>5, <2>6, <2>7 DEF Aborted, Quitting
  <1>4. QED
    BY <1>0, <1>1, <1>2, <1>3, LeaseKept

\* The row of a claim names the process that took it.
LEMMA OwnersNamedNext ==
    ASSUME IInv, Seated, OwnersNamed, [Next]_vars
    PROVE  OwnersNamed'
  <1> SUFFICES ASSUME NEW c \in Consumer, NEW k \in Key, Owns(c, k)'
               PROVE  row'[k].owner = WorkerOf[c]
    BY DEF OwnersNamed
  <1>1. CASE Owns(c, k) /\ Left(k)
    BY <1>1 DEF OwnersNamed, Left
  <1>2. CASE ClaimedBy(c, k)
    BY <1>2 DEF ClaimedBy
  <1>3. QED
    BY <1>1, <1>2, ClaimStep

\* Without a fault nobody who owns a claim comes to release it: a heartbeat
\* that finds the lease lost is not the owner's.
LEMMA AbortedStep ==
    ASSUME TypeOK, OwnersNamed, [Next]_vars, faults' = faults,
           NEW c \in Consumer, NEW k \in Key, Owns(c, k), Aborted(c)'
    PROVE  Aborted(c)
  <1> USE DEF passVars, consumerVars, dbVars
  <1>1. ~Fault
    BY DEF Fault, TypeOK
  <1>2. Holds(c)
    BY DEF OwnersNamed, Owns, Holds
  <1>3. ASSUME NEW d \in Consumer, Heartbeat(d)
        PROVE  Aborted(c)
    BY <1>2, <1>3 DEF Heartbeat, Aborted, TypeOK
  <1>4. ASSUME NEW d \in Consumer, Acknowledge(d) \/ Release(d) \/ Fail(d)
        PROVE  Aborted(c)
    BY <1>4 DEF Acknowledge, Release, Fail, Finished, Caught, Aborted, TypeOK
  <1>5. ASSUME NEW w \in Worker, EndPass(w)
        PROVE  Aborted(c)
    BY <1>5 DEF EndPass, Aborted
  <1>6. \/ \E d \in Consumer : Heartbeat(d) \/ Acknowledge(d) \/ Release(d) \/ Fail(d)
        \/ \E w \in Worker : EndPass(w)
        \/ aborted' = aborted /\ stopping' = stopping
    BY <1>1 DEF Next, PassStep, ConsumerStep, vars, Tick, ReapScan, ReapCommit, Ensure,
           StartConsumers, Restart, Stop, Crash, HeartbeatThrows, Claim, Return,
           HandlerReturns, HandlerThrows, Persist, PersistThrows, AcknowledgeThrows
  <1>7. QED
    BY <1>3, <1>4, <1>5, <1>6 DEF Aborted

\* Without a fault only an aborted job is released.
LEMMA QuittingStep ==
    ASSUME TypeOK, OwnersNamed, [Next]_vars, faults' = faults,
           NEW c \in Consumer, NEW k \in Key, Owns(c, k), Quitting(c)'
    PROVE  Quitting(c)
  <1> USE DEF passVars, consumerVars, dbVars
  <1> SUFFICES ASSUME pc'[c] = "releasing", pc[c] # "releasing" PROVE Aborted(c)
    BY AbortedStep DEF Quitting
  <1>1. ~Fault
    BY DEF Fault, TypeOK
  <1>2. ASSUME NEW w \in Worker, StartConsumers(w) \/ Crash(w) PROVE FALSE
    BY <1>2 DEF StartConsumers, Crash, TypeOK
  <1>3. ASSUME NEW d \in Consumer,
               \/ Claim(d) \/ Return(d) \/ Persist(d) \/ Release(d) \/ Fail(d)
        PROVE  FALSE
    BY <1>3 DEF Claim, Return, Persist, Release, Fail, Finished, TypeOK
  <1>4. ASSUME NEW d \in Consumer, HandlerReturns(d) PROVE Aborted(c)
    BY <1>4 DEF HandlerReturns, TypeOK
  <1>5. ASSUME NEW d \in Consumer, HandlerThrows(d) \/ PersistThrows(d) \/ AcknowledgeThrows(d)
        PROVE  Aborted(c)
    <2>1. Caught(d)
      BY <1>1, <1>5 DEF HandlerThrows, PersistThrows, AcknowledgeThrows, Threw
    <2>2. QED
      BY <2>1 DEF Caught, TypeOK
  <1>6. ASSUME NEW d \in Consumer, Acknowledge(d) PROVE Aborted(c)
    BY <1>6 DEF Acknowledge, Caught, Finished, TypeOK
  <1>7. pc' # pc
    OBVIOUS
  <1>8. \/ \E w \in Worker : StartConsumers(w) \/ Crash(w)
        \/ \E d \in Consumer :
              \/ Claim(d) \/ Return(d) \/ HandlerReturns(d) \/ HandlerThrows(d)
              \/ Persist(d) \/ PersistThrows(d) \/ Acknowledge(d) \/ AcknowledgeThrows(d)
              \/ Release(d) \/ Fail(d)
    BY <1>7 DEF Next, PassStep, ConsumerStep, vars, Tick, ReapScan, ReapCommit, Ensure, EndPass,
           Restart, Stop, Heartbeat, HeartbeatThrows
  <1>9. QED
    BY <1>2, <1>3, <1>4, <1>5, <1>6, <1>8

\* Every claim is charged to the budget or to a fault.
LEMMA RetriesNext ==
    ASSUME IInv, IInv', RetryInv, [Next]_vars
    PROVE  RetriesCharged'
  <1>0. /\ TypeOK /\ TypeOK' /\ Seated /\ OwnersNamed /\ RetriesCharged
        /\ faults \in Nat /\ faults' \in Nat /\ MaxAttempts \in Nat /\ MaxAttempts > 0
    BY NatAssumption DEF IInv, RetryInv, TypeOK
  <1>1. faults' = faults \/ faults' = faults + 1
    BY DEF Next, PassStep, ConsumerStep, vars, Tick, ReapScan, ReapCommit, Ensure, EndPass,
           StartConsumers, Restart, Stop, Crash, HeartbeatThrows, Claim, Return, Fault,
           HandlerReturns, HandlerThrows, Persist, PersistThrows, AcknowledgeThrows, Threw,
           Acknowledge, Release, Fail, Heartbeat
  <1> SUFFICES ASSUME NEW k \in Key
               PROVE  /\ row'[k].attempts <= MaxAttempts + faults'
                      /\ row'[k].status = "pending" \/ Doomed(k)' =>
                            row'[k].attempts < MaxAttempts + faults'
                      /\ \A w \in Worker : verdict'[w][k] = "pending" =>
                            row'[k].attempts < MaxAttempts
    BY DEF RetriesCharged
  <1>2. /\ row[k].attempts \in Nat /\ row'[k].attempts \in Nat
        /\ row[k].attempts <= MaxAttempts + faults
        /\ row[k].status = "pending" \/ Doomed(k) => row[k].attempts < MaxAttempts + faults
        /\ \A w \in Worker : verdict[w][k] = "pending" => row[k].attempts < MaxAttempts
    BY <1>0 DEF RetriesCharged, TypeOK, Row
  <1>3. row'[k].attempts <= MaxAttempts + faults
    <2>1. CASE Left(k) \/ Scheduled(k) \/ Ended(k)
      BY <1>0, <1>2, <2>1 DEF Left, Scheduled, Ended
    <2>2. ASSUME NEW c \in Consumer, ClaimedBy(c, k)
          PROVE  row'[k].attempts <= MaxAttempts + faults
      BY <1>0, <1>2, <2>2 DEF ClaimedBy
    <2>3. QED
      BY <1>0, <2>1, <2>2, RowStep
  <1>4. ASSUME row'[k].status = "pending" \/ Doomed(k)', faults' = faults
        PROVE  row'[k].attempts < MaxAttempts + faults
    <2>1. CASE row'[k].status = "pending"
      <3>1. CASE Left(k) \/ Scheduled(k)
        BY <1>0, <1>2, <2>1, <3>1 DEF Left, Scheduled
      <3>2. CASE Ended(k)
        <4>1. (\E w \in Worker : verdict[w][k] = "pending") \/ Doomed(k)
          BY <2>1, <3>2 DEF Ended
        <4>2. row[k].attempts < MaxAttempts + faults
          BY <1>0, <1>2, <4>1
        <4>3. QED
          BY <3>2, <4>2 DEF Ended
      <3>3. \A c \in Consumer : ~ClaimedBy(c, k)
        BY <2>1 DEF ClaimedBy
      <3>4. QED
        BY <1>0, <3>1, <3>2, <3>3, RowStep
    <2>2. CASE Doomed(k)'
      <3>1. PICK c \in Consumer : Owns(c, k)' /\ Quitting(c)'
        BY <2>2 DEF Doomed
      <3>2. Owns(c, k) /\ Left(k)
        BY <1>0, <3>1, ClaimStep
      <3>3. Quitting(c)
        BY <1>0, <1>4, <3>1, <3>2, QuittingStep
      <3>4. QED
        BY <1>2, <3>2, <3>3 DEF Doomed, Left
    <2>3. QED
      BY <1>4, <2>1, <2>2
  <1>5. ASSUME NEW w \in Worker, verdict'[w][k] = "pending"
        PROVE  row'[k].attempts < MaxAttempts
    <2>1. row'[k].status = "running"
      BY <1>5 DEF IInv, LocksSound
    <2>2. CASE verdict[w][k] = "pending"
      <3>1. row[k].status = "running"
        BY <2>2 DEF IInv, LocksSound
      <3>2. Left(k)
        BY <1>0, <2>1, <3>1, RowStep DEF Scheduled, Ended, ClaimedBy
      <3>3. QED
        BY <1>2, <2>2, <3>2 DEF Left
    <2>3. CASE verdict[w][k] # "pending"
      <3>1. \E v \in Worker : ReapScan(v) \/ ReapCommit(v) \/ Crash(v)
        BY <1>5, <2>3 DEF Next, PassStep, ConsumerStep, vars, passVars, Tick, Ensure, EndPass,
             StartConsumers, Restart, Stop, HeartbeatThrows, Claim, Return,
             HandlerReturns, HandlerThrows, Persist, PersistThrows, AcknowledgeThrows,
             Acknowledge, Release, Fail, Heartbeat
      <3>2. PICK v \in Worker : ReapScan(v)
        BY <1>0, <1>5, <2>3, <3>1 DEF ReapCommit, Crash, NoVerdict, TypeOK
      <3>3. VerdictOn(k) = "pending" /\ row' = row
        BY <1>0, <1>5, <2>3, <3>2 DEF ReapScan, TypeOK, dbVars
      <3>4. QED
        BY <1>0, <1>2, <3>3 DEF VerdictOn
    <2>4. QED
      BY <2>2, <2>3
  <1>6. QED
    BY <1>0, <1>1, <1>2, <1>3, <1>4, <1>5

\* The attempts of every row stay charged: RetryInv holds in every reachable
\* state.
THEOREM RetryInductive == Spec => []RetryInv
  <1>1. Init => RetryInv
    <2> SUFFICES ASSUME Init PROVE RetryInv
      OBVIOUS
    <2>1. Seated /\ OwnersNamed
      BY DEF Init, Seated, OwnersNamed, Owns, Working, Beating
    <2>2. RetriesCharged
      BY NatAssumption DEF Init, RetriesCharged, Doomed, Owns, AbsentRow, NoVerdict, Working, Beating
    <2>3. QED
      BY <2>1, <2>2 DEF RetryInv
  <1>2. IInv /\ IInv' /\ RetryInv /\ [Next]_vars => RetryInv'
    <2> SUFFICES ASSUME IInv, IInv', RetryInv, [Next]_vars PROVE RetryInv'
      OBVIOUS
    <2>1. TypeOK /\ Seated /\ OwnersNamed
      BY DEF IInv, RetryInv
    <2>2. QED
      BY <2>1, SeatedNext, OwnersNamedNext, RetriesNext DEF RetryInv
  <1>3. QED
    BY <1>1, <1>2, Inductive, PTL DEF Spec

\* No cycle is claimed more often than the budget and the faults allow: the
\* safety half of its settling, whatever crashes, shutdowns, lost heartbeats and
\* clock skews the processes meet.
THEOREM AttemptsBoundedHolds == Spec => []AttemptsBounded
  <1>1. RetryInv => AttemptsBounded
    BY DEF RetryInv, RetriesCharged, AttemptsBounded
  <1>2. QED
    BY <1>1, RetryInductive, PTL

-----------------------------------------------------------------------------
(* Passes end: what PassesRecur says without the fairness it assumes.      *)

\* The steps consume() has still to take for the claim in hand.
Stage(step) ==
    CASE step = "out" -> 0
      [] step = "idle" -> 1
      [] step \in {"rejecting", "failing", "releasing"} -> 2
      [] step = "acking" -> 3
      [] step = "persisting" -> 4
      [] step = "handling" -> 5

\* Attempts only grow, and a consumer goes on only towards its return, unless
\* its pass starts or it claims a row, which spends an attempt of it.
PassShrinks ==
    /\ \A k \in Key : row'[k].attempts >= row[k].attempts
    /\ \A c \in Consumer :
          /\ ConsumerStep(c) => pc'[c] # pc[c]
          /\ pc'[c] # pc[c] =>
                \/ Stage(pc'[c]) < Stage(pc[c])
                \/ phase[WorkerOf[c]] = "scheduling" /\ phase'[WorkerOf[c]] = "consuming"
                \/ \E k \in Key : row'[k].attempts = row[k].attempts + 1 /\ Owns(c, k)'

\* A row that was never scheduled has spent nothing.
Unspent == \A k \in Key : row[k].status = "absent" => row[k].attempts = 0

LEMMA UnspentNext ==
    ASSUME IInv, Seated, Unspent, [Next]_vars
    PROVE  Unspent'
  <1> SUFFICES ASSUME NEW k \in Key, row'[k].status = "absent"
               PROVE  row'[k].attempts = 0
    BY DEF Unspent
  <1>1. Left(k)
    BY RowStep DEF Scheduled, Ended, ClaimedBy
  <1>2. QED
    BY <1>1 DEF Unspent, Left

\* Nothing gives an attempt back.
LEMMA AttemptsGrow ==
    ASSUME IInv, Seated, Unspent, [Next]_vars, NEW k \in Key
    PROVE  row'[k].attempts >= row[k].attempts
  <1>1. row[k].attempts \in Nat
    BY DEF IInv, TypeOK, Row
  <1>2. CASE Left(k) \/ Ended(k)
    BY <1>1, <1>2 DEF Left, Ended
  <1>3. CASE Scheduled(k)
    BY <1>3 DEF Scheduled, Unspent
  <1>4. ASSUME NEW c \in Consumer, ClaimedBy(c, k)
        PROVE  row'[k].attempts >= row[k].attempts
    BY <1>1, <1>4 DEF ClaimedBy
  <1>5. QED
    BY <1>2, <1>3, <1>4, RowStep

\* A consumer's own step moves it, and a claim spends an attempt of its row.
LEMMA ConsumerMoves ==
    ASSUME TypeOK, NEW c \in Consumer, ConsumerStep(c)
    PROVE  /\ pc'[c] # pc[c]
           /\ \/ Stage(pc'[c]) < Stage(pc[c])
              \/ \E k \in Key : row'[k].attempts = row[k].attempts + 1 /\ Owns(c, k)'
  <1>1. CASE Claim(c)
    <2>1. PICK k \in Key :
             /\ row' = [row EXCEPT ![k] = ClaimedRow(row[k], WorkerOf[c])]
             /\ lease' = [lease EXCEPT ![c] = [key |-> k, token |-> row[k].token + 1]]
      BY <1>1, ClaimEffect
    <2>2. /\ row'[k].status = "running" /\ row'[k].token = row[k].token + 1
          /\ row'[k].attempts = row[k].attempts + 1
      <3>1. row'[k] = ClaimedRow(row[k], WorkerOf[c]) /\ row[k] \in Row
        BY <2>1 DEF TypeOK
      <3>2. QED
        BY <3>1 DEF ClaimedRow, Row
    <2>3. lease'[c] = [key |-> k, token |-> row[k].token + 1]
      BY <2>1 DEF TypeOK
    <2>4. pc[c] = "idle" /\ pc'[c] \in {"handling", "rejecting"}
      BY <1>1 DEF Claim, TypeOK
    <2>5. Owns(c, k)'
      BY <2>2, <2>3, <2>4 DEF Owns, Working, Beating
    <2>6. QED
      BY <2>2, <2>4, <2>5
  <1>2. CASE Return(c)
    BY <1>2 DEF Return, TypeOK, Stage
  <1>3. CASE HandlerReturns(c) \/ HandlerThrows(c)
    BY <1>3 DEF HandlerReturns, HandlerThrows, Caught, Threw, Fault, TypeOK, Stage
  <1>4. CASE Persist(c) \/ PersistThrows(c)
    BY <1>4 DEF Persist, PersistThrows, Caught, Threw, Fault, TypeOK, Stage
  <1>5. CASE Acknowledge(c) \/ AcknowledgeThrows(c)
    BY <1>5 DEF Acknowledge, AcknowledgeThrows, Finished, Caught, Threw, Fault, TypeOK, Stage
  <1>6. CASE Release(c) \/ Fail(c)
    BY <1>6 DEF Release, Fail, Finished, TypeOK, Stage
  <1>7. QED
    BY <1>1, <1>2, <1>3, <1>4, <1>5, <1>6 DEF ConsumerStep

\* Another's step leaves a consumer where it stands, or starts or ends its pass.
LEMMA OthersMove ==
    ASSUME TypeOK, Seated, [Next]_vars, NEW c \in Consumer, ~ConsumerStep(c), pc'[c] # pc[c]
    PROVE  \/ Stage(pc'[c]) < Stage(pc[c])
           \/ phase[WorkerOf[c]] = "scheduling" /\ phase'[WorkerOf[c]] = "consuming"
  <1> USE DEF passVars, consumerVars
  <1>1. ASSUME NEW d \in Consumer, ConsumerStep(d)
        PROVE  FALSE
    <2>1. c # d
      BY <1>1
    <2>2. pc'[c] = pc[c]
      BY <1>1, <2>1 DEF ConsumerStep, Claim, Return, HandlerReturns, HandlerThrows, Persist,
         PersistThrows, Acknowledge, AcknowledgeThrows, Release, Fail, Finished, Caught, Threw, Fault, TypeOK
    <2>3. QED
      BY <2>2
  <1>2. ASSUME NEW w \in Worker, StartConsumers(w)
        PROVE  phase[WorkerOf[c]] = "scheduling" /\ phase'[WorkerOf[c]] = "consuming"
    BY <1>2, WorkerOfAssumption DEF StartConsumers, TypeOK
  <1>3. ASSUME NEW w \in Worker, Crash(w)
        PROVE  Stage(pc'[c]) < Stage(pc[c])
    <2>1. pc'[c] = "out" /\ pc[c] # "out" /\ pc[c] \in ConsumerState
      BY <1>3 DEF Crash, TypeOK
    <2>2. QED
      BY <2>1 DEF Stage, ConsumerState, Working, Beating
  <1>4. \/ \E d \in Consumer : ConsumerStep(d)
        \/ \E w \in Worker : StartConsumers(w) \/ Crash(w)
        \/ pc' = pc
    BY DEF Next, PassStep, vars, Tick, ReapScan, ReapCommit, Ensure, EndPass,
           Restart, Stop, Heartbeat, HeartbeatThrows
  <1>5. QED
    BY <1>1, <1>2, <1>3, <1>4

\* Every consumer returns after finitely many steps of a pass: each step brings
\* it nearer to its return or spends one of the attempts that AttemptsBounded
\* counts, so that with fair processes no pass goes on for ever.
THEOREM PassShrinksHolds == Spec => [][PassShrinks]_vars
  <1>1. Init => Unspent
    BY DEF Init, Unspent, AbsentRow
  <1>2. IInv /\ RetryInv /\ Unspent /\ [Next]_vars => Unspent'
    BY UnspentNext DEF RetryInv
  <1>3. IInv /\ RetryInv /\ Unspent /\ [Next]_vars => [PassShrinks]_vars
    <2> SUFFICES ASSUME IInv, RetryInv, Unspent, [Next]_vars
                 PROVE  PassShrinks
      OBVIOUS
    <2>1. TypeOK /\ Seated
      BY DEF IInv, RetryInv
    <2>2. \A k \in Key : row'[k].attempts >= row[k].attempts
      BY <2>1, AttemptsGrow
    <2>3. ASSUME NEW c \in Consumer
          PROVE  /\ ConsumerStep(c) => pc'[c] # pc[c]
                 /\ pc'[c] # pc[c] =>
                       \/ Stage(pc'[c]) < Stage(pc[c])
                       \/ phase[WorkerOf[c]] = "scheduling" /\ phase'[WorkerOf[c]] = "consuming"
                       \/ \E k \in Key : row'[k].attempts = row[k].attempts + 1 /\ Owns(c, k)'
      BY <2>1, ConsumerMoves, OthersMove
    <2>4. QED
      BY <2>2, <2>3 DEF PassShrinks
  <1>4. QED
    BY <1>1, <1>2, <1>3, Inductive, RetryInductive, PTL DEF Spec
=============================================================================

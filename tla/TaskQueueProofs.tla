--------------------------- MODULE TaskQueueProofs ---------------------------
(***************************************************************************)
(* Theorems about TaskQueue, for any number of tasks and processes, any    *)
(* assignment of types, keys and pids, and any of the switches ClaimRace,  *)
(* ForcedRls and MayOverrun.                                               *)
(***************************************************************************)
EXTENDS TaskQueue, TLAPS

(***************************************************************************)
(* The two shapes an UPDATE gives a row keep its type, and leave the lock  *)
(* columns set exactly when the new status is "processing".                *)
(***************************************************************************)
LEMMA NoRowShape ==
  ASSUME NEW s \in Status \ {"processing"}
  PROVE  NoRow(s) \in Row /\ LockColumns(NoRow(s))
BY DEF NoRow, Row, LockColumns, Status

LEMMA LockedShape ==
  ASSUME NEW r \in Row, NEW a \in Actor
  PROVE  /\ Locked(r, a) \in Row
         /\ LockColumns(Locked(r, a))
         /\ Locked(r, a).status = "processing"
         /\ Locked(r, a).lockedBy = a
         /\ Locked(r, a).attempts = r.attempts
BY ZenonT(30), NoOneAssumption DEF Locked, Row, LockColumns, Status

LEMMA UnlockedShape ==
  ASSUME NEW r \in Row, NEW s \in Status \ {"processing"}, NEW d \in BOOLEAN
  PROVE  /\ Unlocked(r, s, d) \in Row
         /\ LockColumns(Unlocked(r, s, d))
         /\ Unlocked(r, s, d).status = s
         /\ Unlocked(r, s, d).lockedBy = NoOne
         /\ Unlocked(r, s, d).attempts = r.attempts
BY ZenonT(30) DEF Unlocked, Row, LockColumns, Status

LEMMA AttemptsShape ==
  ASSUME NEW r \in Row, LockColumns(r), NEW k \in Nat
  PROVE  /\ [r EXCEPT !.attempts = k] \in Row
         /\ LockColumns([r EXCEPT !.attempts = k])
BY DEF Row, LockColumns

(***************************************************************************)
(* The part of TypeOK about the table, as a predicate of its contents, and *)
(* what the update of one row does to it.                                  *)
(***************************************************************************)
GoodTable(f) == f \in [Task -> Row] /\ \A t \in Task : LockColumns(f[t])

LEMMA UpdateOne ==
  ASSUME NEW f, GoodTable(f), NEW t \in Task, NEW r \in Row, LockColumns(r)
  PROVE  /\ GoodTable([f EXCEPT ![t] = r])
         /\ [f EXCEPT ![t] = r][t] = r
         /\ \A u \in Task \ {t} : [f EXCEPT ![t] = r][u] = f[u]
BY DEF GoodTable

LEMMA UpdateMany ==
  ASSUME NEW f, GoodTable(f), NEW g,
         \A t \in Task : g[t] \in Row /\ LockColumns(g[t]),
         NEW S
  PROVE  GoodTable([t \in Task |-> IF t \in S THEN g[t] ELSE f[t]])
BY DEF GoodTable

(***************************************************************************)
(* Initially nothing is enqueued and both threads of each process idle.    *)
(***************************************************************************)
LEMMA InitTypeOK == Init => TypeOK
<1> SUFFICES ASSUME Init PROVE TypeOK
  OBVIOUS
<1>1. NoRow("absent") \in Row /\ LockColumns(NoRow("absent"))
  BY NoRowShape, Zenon DEF Status
<1>2. TableTypeOK /\ \A t \in Task : LockColumns(row[t])
  BY <1>1, Zenon DEF Init, TableInit, TableTypeOK
<1>3. proc \in [Process -> ProcState] /\ tw \in [Process -> WorkerState]
  BY Zenon DEF Init, ProcState, WorkerState, IdleProcessor, IdleWorker
<1>4. \A n \in Process : proc[n].pc = "idle" /\ tw[n].pc = "idle"
  BY Zenon DEF Init, IdleProcessor, IdleWorker
<1> QED
  BY <1>2, <1>3, <1>4, FaultsAssumption DEF Init, TypeOK

(***************************************************************************)
(* TypeOK, with the table, the processors and the TaskWorkers apart: most  *)
(* steps leave two of the three alone.                                     *)
(***************************************************************************)
ProcTypeOK ==
  /\ proc \in [Process -> ProcState]
  /\ \A n \in Process : proc[n].pc # "idle" =>
       proc[n].task \in Task /\ TypeOf[proc[n].task] \in HandlerTypes

WorkerTypeOK ==
  /\ tw \in [Process -> WorkerState]
  /\ \A n \in Process : /\ tw[n].pc \notin {"idle", "polling"} => tw[n].task \in Task
                        /\ tw[n].pc \in {"running", "returned", "raised"} =>
                             TypeOf[tw[n].task] \in RegisteredTypes
                        /\ tw[n].pc = "foreign" =>
                             TypeOf[tw[n].task] \notin RegisteredTypes

CountersOK ==
  /\ failed \in [Task -> Nat]
  /\ lost \in [Task -> Nat]
  /\ stage \in [Process -> {"up", "draining", "stopped"}]
  /\ faults \in 0..MaxFaults

LEMMA TypeOKParts ==
  TypeOK <=> GoodTable(row) /\ CountersOK /\ ProcTypeOK /\ WorkerTypeOK
BY Zenon DEF TypeOK, TableTypeOK, GoodTable, CountersOK, ProcTypeOK, WorkerTypeOK

LEMMA TypeOKPartsPrime ==
  TypeOK' <=> GoodTable(row') /\ CountersOK' /\ ProcTypeOK' /\ WorkerTypeOK'
BY Zenon DEF TypeOK, TableTypeOK, GoodTable, CountersOK, ProcTypeOK, WorkerTypeOK

(***************************************************************************)
(* The steps of the table keep the types.                                  *)
(***************************************************************************)
LEMMA TableStepTypeOK == TypeOK /\ TableStep => TypeOK'
<1> SUFFICES ASSUME TypeOK, TableStep PROVE TypeOK'
  BY Zenon
<1> USE TypeOKParts
<1>p. GoodTable(row) /\ CountersOK /\ ProcTypeOK /\ WorkerTypeOK
  BY Zenon
<1>k. ProcTypeOK' /\ WorkerTypeOK' /\ faults' = faults
  BY <1>p, Zenon DEF TableStep, ProcTypeOK, WorkerTypeOK
<1>1. ASSUME NEW t \in Task, EnqueueTask(t)
      PROVE  GoodTable(row') /\ CountersOK'
  <2>1. PICK d \in BOOLEAN :
          row' = [row EXCEPT ![t] = [NoRow("pending") EXCEPT !.due = d]]
    BY ZenonT(30), <1>1 DEF EnqueueTask
  <2>2. /\ [NoRow("pending") EXCEPT !.due = d] \in Row
        /\ LockColumns([NoRow("pending") EXCEPT !.due = d])
    BY DEF NoRow, Row, LockColumns, Status
  <2>3. GoodTable(row')
    BY ZenonT(30), <1>p, <2>1, <2>2, UpdateOne
  <2> QED
    BY <1>1, <1>p, <1>k, <2>3, Zenon DEF EnqueueTask, CountersOK
<1>2. ASSUME NEW t \in Task, UpsertDrillRow(t)
      PROVE  GoodTable(row') /\ CountersOK'
  <2>1. NoRow("completed") \in Row /\ LockColumns(NoRow("completed"))
    BY NoRowShape, Zenon DEF Status
  <2>2. GoodTable(row')
    BY ZenonT(30), <1>2, <1>p, <2>1, UpdateOne DEF UpsertDrillRow
  <2> QED
    BY <1>2, <1>p, <1>k, <2>2, Zenon DEF UpsertDrillRow, CountersOK
<1>3. ASSUME NEW t \in Task, BecomeDue(t)
      PROVE  GoodTable(row') /\ CountersOK'
  <2>1. row' = [row EXCEPT ![t] = [row[t] EXCEPT !.due = TRUE]]
    BY <1>3, Zenon DEF BecomeDue
  <2>2. row[t] \in Row /\ LockColumns(row[t])
    BY <1>p DEF GoodTable
  <2>3. [row[t] EXCEPT !.due = TRUE] \in Row
    BY ZenonT(30), <2>2 DEF Row
  <2>4. LockColumns([row[t] EXCEPT !.due = TRUE])
    BY <2>2, Zenon DEF Row, LockColumns
  <2>5. GoodTable(row')
    BY ZenonT(30), <1>p, <2>1, <2>3, <2>4, UpdateOne
  <2> QED
    BY <1>3, <1>k, <2>5, Zenon DEF BecomeDue, CountersOK
<1>4. ASSUME NEW S \in SUBSET Task, ReplayDeadTasks(S)
      PROVE  GoodTable(row') /\ CountersOK'
  <2> DEFINE r == [NoRow("pending") EXCEPT !.due = TRUE]
  <2>1. r \in Row /\ LockColumns(r)
    BY ZenonT(30) DEF NoRow, Row, LockColumns, Status
  <2>2. row' = [t \in Task |-> IF t \in S THEN r ELSE row[t]]
    BY <1>4, Zenon DEF ReplayDeadTasks
  <2> HIDE DEF r
  <2>3. GoodTable(row')
    BY <1>p, <2>1, <2>2, Zenon DEF GoodTable
  <2> QED
    BY <1>4, <1>p, <1>k, <2>3, Zenon DEF ReplayDeadTasks, CountersOK
<1>5. ASSUME NEW S \in SUBSET Task, PurgeOldTasks(S)
      PROVE  GoodTable(row') /\ CountersOK'
  <2>1. NoRow("purged") \in Row /\ LockColumns(NoRow("purged"))
    BY NoRowShape, Zenon DEF Status
  <2>2. GoodTable(row')
    BY <1>5, <1>p, <2>1, Zenon DEF PurgeOldTasks, GoodTable
  <2> QED
    BY <1>5, <1>p, <1>k, <2>2, Zenon DEF PurgeOldTasks, CountersOK
<1> QED
  BY <1>k, <1>1, <1>2, <1>3, <1>4, <1>5, TypeOKPartsPrime, Zenon DEF TableStep

(***************************************************************************)
(* The steps of a task_processor thread keep the types.                    *)
(***************************************************************************)
LEMMA ProcessorStepTypeOK ==
  ASSUME TypeOK, NEW n \in Process,
         ProcessorStep(n) \/ StopTaskWorker(n) \/ ResultLost(n),
         UNCHANGED tw, faults' \in 0..MaxFaults
  PROVE  TypeOK'
<1>p. GoodTable(row) /\ CountersOK /\ ProcTypeOK /\ WorkerTypeOK
  BY TypeOKParts, Zenon
<1>k. WorkerTypeOK'
  BY <1>p, Zenon DEF WorkerTypeOK
<1>a. Processor(n) \in Actor
  BY Zenon DEF Actor, Processors
<1>i. ASSUME GoIdle(n) PROVE ProcTypeOK'
  BY <1>i, <1>p, Zenon DEF GoIdle, ProcTypeOK, ProcState, IdleProcessor
<1>r. row \in [Task -> Row] /\ \A t \in Task : row[t].due \in BOOLEAN
  BY <1>p, Zenon DEF GoodTable, Row
<1>1. ASSUME NEW t \in Task, ClaimTask(n, t)
      PROVE  GoodTable(row') /\ CountersOK' /\ ProcTypeOK'
  <2>2. ClaimedRow(row[t], n) \in Row /\ LockColumns(ClaimedRow(row[t], n))
    BY <1>a, <1>r, LockedShape, AttemptsShape DEF ClaimedRow, Row
  <2>3. row' = [row EXCEPT ![t] = ClaimedRow(row[t], n)]
    BY <1>1, Zenon DEF ClaimTask
  <2>4. GoodTable(row')
    BY ZenonT(30), <1>p, <2>2, <2>3, UpdateOne
  <2>5. CountersOK'
    BY <1>1, <1>p DEF ClaimTask, CountersOK
  <2>6. row[t].attempts + 1 \in Nat
    BY <1>r DEF Row
  <2>7. ProcTypeOK'
    BY <1>1, <1>p, <2>6, Zenon DEF ClaimTask, Claimable, ProcTypeOK, ProcState
  <2> QED
    BY <2>4, <2>5, <2>7, Zenon
<1>2. CASE StartHandler(n) \/ EndHandler(n)
  <2>1. row' = row /\ CountersOK'
    BY <1>2, <1>p, Zenon DEF StartHandler, EndHandler, tableVars, CountersOK
  <2>2. ProcTypeOK'
    BY <1>2, <1>p DEF StartHandler, EndHandler, ProcTypeOK, ProcState
  <2> QED
    BY <2>1, <2>2, <1>k, <1>p, TypeOKPartsPrime, Zenon
<1>3. CASE HeartbeatExtend(n)
  <2> DEFINE t == proc[n].task
  <2>1. t \in Task /\ row[t].lockedBy # NoOne
    BY <1>3, <1>p, NoOneAssumption, Zenon
    DEF HeartbeatExtend, LockedByMe, ProcTypeOK, Actor, Processors
  <2>2. row' = [row EXCEPT ![t] = [row[t] EXCEPT !.lease = "live"]]
    BY <1>3, <1>r, Zenon DEF HeartbeatExtend
  <2>3. /\ [row[t] EXCEPT !.lease = "live"] \in Row
        /\ LockColumns([row[t] EXCEPT !.lease = "live"])
    BY <1>p, <2>1 DEF GoodTable, Row, LockColumns
  <2> HIDE DEF t
  <2>4. GoodTable(row')
    BY ZenonT(30), <1>p, <2>1, <2>2, <2>3, UpdateOne
  <2> QED
    BY <1>3, <1>k, <1>p, <2>4, TypeOKPartsPrime, Zenon
    DEF HeartbeatExtend, CountersOK, ProcTypeOK
<1>4. CASE CompleteTask(n)
  <2> DEFINE t == proc[n].task
  <2>1. t \in Task
    BY <1>4, <1>p, Zenon DEF CompleteTask, ProcTypeOK
  <2>2. \/ row' = row
        \/ row' = [row EXCEPT ![t] = Unlocked(row[t], "completed", row[t].due)]
    BY <1>4, Zenon DEF CompleteTask
  <2>3. /\ Unlocked(row[t], "completed", row[t].due) \in Row
        /\ LockColumns(Unlocked(row[t], "completed", row[t].due))
    BY <2>1, <1>r, UnlockedShape, Zenon DEF Status
  <2> HIDE DEF t
  <2>4. GoodTable(row')
    BY <1>p, <2>1, <2>2, <2>3, UpdateOne
  <2> QED
    BY <1>4, <1>i, <1>k, <1>p, <2>4, TypeOKPartsPrime, Zenon DEF CompleteTask, CountersOK
<1>5. CASE FailTask(n)
  <2> DEFINE t == proc[n].task
             r == FailedRow(row[t], proc[n].attempts)
  <2>1. t \in Task
    BY <1>5, <1>p, Zenon DEF FailTask, ProcTypeOK
  <2>2. row' = row \/ row' = [row EXCEPT ![t] = r]
    BY <1>5, Zenon DEF FailTask
  <2>3. r \in Row /\ LockColumns(r)
    BY ZenonT(30), <2>1, <1>r, UnlockedShape DEF FailedRow, Status
  <2>4. failed' \in [Task -> Nat]
    BY <1>5, <1>p DEF FailTask, CountersOK
  <2> HIDE DEF t, r
  <2>5. GoodTable(row')
    BY <1>p, <2>1, <2>2, <2>3, UpdateOne
  <2> QED
    BY <1>5, <1>i, <1>k, <1>p, <2>4, <2>5, TypeOKPartsPrime, Zenon DEF FailTask, CountersOK
<1>6. CASE ReleaseAbandonedTaskLock(n)
  <2> DEFINE t == proc[n].task
  <2>1. \/ row' = row
        \/ t \in Task /\ row' = [row EXCEPT ![t] = RefundedRow(row[t])]
    BY <1>6, <1>p, Zenon DEF ReleaseAbandonedTaskLock, ProcTypeOK
  <2>2. ASSUME t \in Task
        PROVE  RefundedRow(row[t]) \in Row /\ LockColumns(RefundedRow(row[t]))
    <3>1. (IF row[t].attempts > 0 THEN row[t].attempts - 1 ELSE 0) \in Nat
      BY <1>r, <2>2 DEF Row
    <3> QED
      BY <1>r, <2>2, <3>1, UnlockedShape, AttemptsShape, Zenon DEF RefundedRow, Status
  <2>3. t \in Task => RefundedRow(row[t]) \in Row /\ LockColumns(RefundedRow(row[t]))
    BY <2>2, Zenon
  <2> HIDE DEF t
  <2>4. GoodTable(row')
    BY <1>p, <2>1, <2>3, UpdateOne
  <2> QED
    BY <1>6, <1>k, <1>p, <2>4, TypeOKPartsPrime, Zenon
    DEF ReleaseAbandonedTaskLock, CountersOK, ProcTypeOK
<1>7. CASE StopTaskWorker(n)
  BY <1>7, <1>k, <1>p, TypeOKPartsPrime, Zenon
  DEF StopTaskWorker, tableVars, CountersOK, ProcTypeOK
<1>8. CASE ResultLost(n)
  BY <1>8, <1>i, <1>k, <1>p, TypeOKPartsPrime, Zenon DEF ResultLost, tableVars, CountersOK
<1> QED
  BY <1>1, <1>2, <1>3, <1>4, <1>5, <1>6, <1>7, <1>8, <1>k, TypeOKPartsPrime, Zenon
  DEF ProcessorStep

(***************************************************************************)
(* The steps of a TaskWorker thread keep the types.                        *)
(***************************************************************************)
LEMMA WorkerStepTypeOK ==
  ASSUME TypeOK, NEW n \in Process,
         WorkerStep(n) \/ MarkLost(n),
         UNCHANGED proc, faults' \in 0..MaxFaults
  PROVE  TypeOK'
<1>p. GoodTable(row) /\ CountersOK /\ ProcTypeOK /\ WorkerTypeOK
  BY TypeOKParts, Zenon
<1>k. ProcTypeOK'
  BY <1>p, Zenon DEF ProcTypeOK
<1>a. Worker(n) \in Actor
  BY Zenon DEF Actor, Workers
<1>i. ASSUME WorkerIdle(n) PROVE WorkerTypeOK'
  BY <1>i, <1>p, Zenon DEF WorkerIdle, WorkerTypeOK, WorkerState, IdleWorker
<1>r. /\ row \in [Task -> Row]
      /\ \A t \in Task : row[t].due \in BOOLEAN /\ row[t].attempts \in Nat
  BY <1>p, Zenon DEF GoodTable, Row
<1>1. CASE ReleaseStaleLocks(n)
  <2>1. \A t \in Task : /\ Unlocked(row[t], "pending", TRUE) \in Row
                       /\ LockColumns(Unlocked(row[t], "pending", TRUE))
    BY ZenonT(30), <1>r, UnlockedShape DEF Status
  <2>2. GoodTable(row')
    BY ZenonT(30), <1>1, <1>p, <2>1 DEF ReleaseStaleLocks, GoodTable
  <2>3. CountersOK'
    BY <1>1, <1>p DEF ReleaseStaleLocks, CountersOK
  <2>4. WorkerTypeOK'
    BY <1>1, <1>p, Zenon DEF ReleaseStaleLocks, WorkerTypeOK, WorkerState
  <2> QED
    BY <1>k, <2>2, <2>3, <2>4, TypeOKPartsPrime, Zenon
<1>2. ASSUME NEW t \in Task, TakeRow(n, t)
      PROVE  TypeOK'
  <2>1. /\ Locked(row[t], Worker(n)) \in Row
        /\ LockColumns(Locked(row[t], Worker(n)))
    BY <1>a, <1>r, LockedShape, Zenon
  <2>2. GoodTable(row')
    BY ZenonT(30), <1>2, <1>p, <2>1, UpdateOne DEF TakeRow
  <2>3. CountersOK'
    BY <1>2, <1>p DEF TakeRow, CountersOK
  <2>4. WorkerTypeOK'
    BY <1>2, <1>p, <1>r, Zenon DEF TakeRow, WorkerTypeOK, WorkerState
  <2> QED
    BY <1>k, <2>2, <2>3, <2>4, TypeOKPartsPrime, Zenon
<1>3. ASSUME NEW t \in Task, PickWinner(n, t)
      PROVE  TypeOK'
  <2>1. WorkerTypeOK'
    BY <1>3, <1>p, Zenon DEF PickWinner, WorkerTypeOK, WorkerState
  <2> QED
    BY <1>3, <1>k, <1>p, <2>1, TypeOKPartsPrime, Zenon DEF PickWinner, tableVars, CountersOK
<1>4. CASE LockWinner(n)
  BY <1>4, <1>2, <1>p, Zenon DEF LockWinner, WorkerTypeOK
<1>5. CASE NothingClaimed(n) \/ MarkLost(n)
  BY <1>5, <1>i, <1>k, <1>p, TypeOKPartsPrime, Zenon
  DEF NothingClaimed, MarkLost, tableVars, CountersOK
<1>6. CASE HandlerDone(n)
  <2>1. WorkerTypeOK'
    BY <1>6, <1>p DEF HandlerDone, WorkerTypeOK, WorkerState
  <2> QED
    BY <1>6, <1>k, <1>p, <2>1, TypeOKPartsPrime, Zenon DEF HandlerDone, tableVars, CountersOK
<1>7. CASE ReleaseClaim(n)
  <2> DEFINE t == tw[n].task
             r == Unlocked(row[t], "pending", FALSE)
  <2>1. t \in Task
    BY <1>7, <1>p, Zenon DEF ReleaseClaim, WorkerTypeOK
  <2>2. row' = row \/ row' = [row EXCEPT ![t] = r]
    BY <1>7, Zenon DEF ReleaseClaim
  <2>3. r \in Row /\ LockColumns(r)
    BY ZenonT(30), <2>1, <1>r, UnlockedShape DEF Status
  <2> HIDE DEF t, r
  <2>4. GoodTable(row')
    BY <1>p, <2>1, <2>2, <2>3, UpdateOne
  <2> QED
    BY <1>7, <1>i, <1>k, <1>p, <2>4, TypeOKPartsPrime, Zenon DEF ReleaseClaim, CountersOK
<1>8. CASE MarkCompleted(n)
  <2> DEFINE t == tw[n].task
  <2>1. t \in Task
    BY <1>8, <1>p, Zenon DEF MarkCompleted, WorkerTypeOK
  <2>2. \/ row' = row
        \/ row' = [row EXCEPT ![t] = Unlocked(row[t], "completed", row[t].due)]
    BY <1>8, Zenon DEF MarkCompleted
  <2>3. /\ Unlocked(row[t], "completed", row[t].due) \in Row
        /\ LockColumns(Unlocked(row[t], "completed", row[t].due))
    BY <2>1, <1>r, UnlockedShape, Zenon DEF Status
  <2> HIDE DEF t
  <2>4. GoodTable(row')
    BY <1>p, <2>1, <2>2, <2>3, UpdateOne
  <2> QED
    BY <1>8, <1>i, <1>k, <1>p, <2>4, TypeOKPartsPrime, Zenon DEF MarkCompleted, CountersOK
<1>9. CASE MarkFailed(n)
  <2> DEFINE t == tw[n].task
             k == tw[n].attempts + 1
  <2>1. t \in Task /\ k \in Nat
    BY <1>9, <1>p DEF MarkFailed, WorkerTypeOK, WorkerState
  <2>2. row' = row \/ row' = [row EXCEPT ![t] = MarkedRow(row[t], k)]
    BY <1>9 DEF MarkFailed
  <2>3. MarkedRow(row[t], k) \in Row /\ LockColumns(MarkedRow(row[t], k))
    BY ZenonT(30), <2>1, <1>r, UnlockedShape, AttemptsShape DEF MarkedRow, Status
  <2>4. CountersOK'
    BY <1>9, <1>p DEF MarkFailed, CountersOK
  <2> HIDE DEF t, k
  <2>5. GoodTable(row')
    BY <1>p, <2>1, <2>2, <2>3, UpdateOne
  <2> QED
    BY <1>9, <1>i, <1>k, <2>4, <2>5, TypeOKPartsPrime, Zenon DEF MarkFailed
<1> QED
  BY <1>1, <1>2, <1>3, <1>4, <1>5, <1>6, <1>7, <1>8, <1>9, Zenon DEF WorkerStep, ClaimOne

(***************************************************************************)
(* The clock and the restart of a process keep the types.                  *)
(***************************************************************************)
LEMMA ClockTypeOK ==
  ASSUME TypeOK, NEW t \in Task, LeaseExpires(t)
  PROVE  TypeOK'
<1>p. GoodTable(row) /\ CountersOK /\ ProcTypeOK /\ WorkerTypeOK
  BY TypeOKParts, Zenon
<1>1. GoodTable(row')
  BY <1>p DEF LeaseExpires, GoodTable, Row, LockColumns
<1> QED
  BY <1>p, <1>1, TypeOKPartsPrime, Zenon
  DEF LeaseExpires, CountersOK, ProcTypeOK, WorkerTypeOK

LEMMA ResetTypeOK ==
  ASSUME TypeOK, NEW n \in Process, Reset(n), faults' \in 0..MaxFaults
  PROVE  TypeOK'
<1>p. GoodTable(row) /\ CountersOK /\ ProcTypeOK /\ WorkerTypeOK
  BY TypeOKParts, Zenon
<1>1. ProcTypeOK'
  BY <1>p, Zenon DEF Reset, ProcTypeOK, ProcState, IdleProcessor
<1>2. WorkerTypeOK'
  BY <1>p, Zenon DEF Reset, WorkerTypeOK, WorkerState, IdleWorker
<1> QED
  BY <1>p, <1>1, <1>2, TypeOKPartsPrime, Zenon DEF Reset, tableVars, CountersOK

LEMMA NextTypeOK == TypeOK /\ [Next]_vars => TypeOK'
<1> SUFFICES ASSUME TypeOK, [Next]_vars PROVE TypeOK'
  BY Zenon
<1>f. Fault => faults' \in 0..MaxFaults
  BY SMTT(60), FaultsAssumption DEF Fault, TypeOK
<1>u. faults \in 0..MaxFaults
  BY Zenon DEF TypeOK
<1>1. CASE TableStep
  BY <1>1, TableStepTypeOK, Zenon
<1>2. CASE \E t \in Task : LeaseExpires(t)
  BY <1>2, ClockTypeOK, Zenon
<1>3. ASSUME NEW n \in Process, ProcessorStep(n) /\ UNCHANGED <<tw, faults>>
      PROVE  TypeOK'
  BY <1>3, <1>u, ProcessorStepTypeOK, Zenon
<1>4. ASSUME NEW n \in Process, WorkerStep(n) /\ UNCHANGED <<proc, faults>>
      PROVE  TypeOK'
  BY <1>4, <1>u, WorkerStepTypeOK, Zenon
<1>5. ASSUME NEW n \in Process,
             (StopTaskWorker(n) \/ ResultLost(n)) /\ Fault /\ UNCHANGED tw
      PROVE  TypeOK'
  BY <1>5, <1>f, ProcessorStepTypeOK, Zenon
<1>6. ASSUME NEW n \in Process, MarkLost(n) /\ Fault /\ UNCHANGED proc
      PROVE  TypeOK'
  BY <1>6, <1>f, WorkerStepTypeOK, Zenon
<1>7. ASSUME NEW n \in Process, Crash(n) \/ ExitAndRestart(n)
      PROVE  TypeOK'
  BY <1>7, <1>f, <1>u, ResetTypeOK, Zenon DEF Crash, ExitAndRestart
<1>8. CASE UNCHANGED vars
  BY <1>8, Zenon DEF vars, TypeOK, TableTypeOK
<1> QED
  BY <1>1, <1>2, <1>3, <1>4, <1>5, <1>6, <1>7, <1>8, Zenon DEF Next

(***************************************************************************)
(* In every reachable state the table and the threads are well-typed and   *)
(* the lock columns are set exactly while a row is processing: no guarded  *)
(* or unguarded UPDATE of either worker leaves half a lock behind.         *)
(***************************************************************************)
THEOREM TypeCorrect == Spec => []TypeOK
<1>1. Init => TypeOK
  BY InitTypeOK, Zenon
<1>2. TypeOK /\ [Next]_vars => TypeOK'
  BY NextTypeOK, Zenon
<1> QED
  BY <1>1, <1>2, PTL DEF Spec
-----------------------------------------------------------------------------
(***************************************************************************)
(* Accounting of attempts.  Charges and discharges are both decided by     *)
(* OpenClaim; the inductive invariant adds that a row nobody enqueued yet  *)
(* starts at zero, which is where the INSERT puts it.                      *)
(***************************************************************************)
Balanced(t) ==
  /\ row[t].attempts = failed[t] + lost[t] + IF OpenClaim(t) THEN 1 ELSE 0
  /\ row[t].status = "absent" => row[t].attempts = 0

Accounts == \A t \in Task : TypeOf[t] \in HandlerTypes => Balanced(t)

(***************************************************************************)
(* A row whose status, holder and attempts stay is balanced as before.     *)
(***************************************************************************)
LEMMA BalanceFrame ==
  ASSUME NEW t, Balanced(t),
         row'[t].status = row[t].status, row'[t].lockedBy = row[t].lockedBy,
         row'[t].attempts = row[t].attempts,
         failed'[t] = failed[t], lost'[t] = lost[t]
  PROVE  Balanced(t)'
BY Zenon DEF Balanced, OpenClaim

LEMMA TableStepAccounted ==
  ASSUME TypeOK, Accounts, TableStep
  PROVE  Accounts'
<1> SUFFICES ASSUME NEW u \in Task, TypeOf[u] \in HandlerTypes
             PROVE  Balanced(u)'
  BY Zenon DEF Accounts
<1>b. Balanced(u)
  BY Zenon DEF Accounts
<1>t. /\ row \in [Task -> Row] /\ failed \in [Task -> Nat] /\ lost \in [Task -> Nat]
  BY Zenon DEF TypeOK, TableTypeOK
<1>1. ASSUME NEW t \in Task, EnqueueTask(t) \/ UpsertDrillRow(t) \/ BecomeDue(t)
      PROVE  Balanced(u)'
  <2>1. CASE u # t
    BY <1>1, <1>b, <1>t, <2>1, BalanceFrame, Zenon DEF EnqueueTask, UpsertDrillRow, BecomeDue
  <2>2. CASE u = t
    BY <1>1, <1>b, <1>t, <2>2, TypesAssumption
    DEF EnqueueTask, UpsertDrillRow, BecomeDue, Balanced, OpenClaim, NoRow, Row
  <2> QED
    BY <2>1, <2>2, Zenon
<1>2. ASSUME NEW S \in SUBSET Task, ReplayDeadTasks(S) \/ PurgeOldTasks(S)
      PROVE  Balanced(u)'
  <2>1. CASE u \notin S
    BY <1>2, <1>b, <2>1, BalanceFrame DEF ReplayDeadTasks, PurgeOldTasks
  <2>2. CASE u \in S
    BY <1>2, <2>2 DEF ReplayDeadTasks, PurgeOldTasks, Balanced, OpenClaim, NoRow
  <2> QED
    BY <2>1, <2>2, Zenon
<1> QED
  BY <1>1, <1>2, Zenon DEF TableStep

(***************************************************************************)
(* A guarded UPDATE of the processor finds a row it has an open claim on.  *)
(***************************************************************************)
LEMMA StillMineIsOpen ==
  ASSUME TypeOK, NEW n \in Process, proc[n].pc # "idle", StillMine(n, proc[n].task)
  PROVE  OpenClaim(proc[n].task) /\ proc[n].task \in Task
BY Zenon DEF TypeOK, StillMine, LockedByMe, OpenClaim, Processors

LEMMA ProcessorStepAccounted ==
  ASSUME TypeOK, Accounts, NEW n \in Process,
         ProcessorStep(n) \/ StopTaskWorker(n) \/ ResultLost(n)
  PROVE  Accounts'
<1> SUFFICES ASSUME NEW u \in Task, TypeOf[u] \in HandlerTypes
             PROVE  Balanced(u)'
  BY DEF Accounts
<1>b. Balanced(u)
  BY Zenon DEF Accounts
<1>t. /\ row \in [Task -> Row] /\ failed \in [Task -> Nat] /\ lost \in [Task -> Nat]
  BY Zenon DEF TypeOK, TableTypeOK
<1>1. ASSUME NEW t \in Task, ClaimTask(n, t)
      PROVE  Balanced(u)'
  <2>1. CASE u # t
    BY SMTT(30), <1>1, <1>b, <1>t, <2>1, BalanceFrame DEF ClaimTask
  <2>2. CASE u = t
    <3>1. /\ row'[u].status = "processing" /\ row'[u].lockedBy \in Processors
          /\ row'[u].attempts = row[u].attempts + 1
      BY <1>1, <1>t, <2>2 DEF ClaimTask, ClaimedRow, Locked, Processors, Row
    <3>2. /\ failed'[u] = failed[u]
          /\ lost'[u] = lost[u] + IF OpenClaim(u) THEN 1 ELSE 0
      BY <1>1, <1>t, <2>2, Zenon DEF ClaimTask
    <3>3. row[u].attempts \in Nat /\ failed[u] \in Nat /\ lost[u] \in Nat
      BY <1>t, Zenon DEF Row
    <3> QED
      BY SMTT(60), <1>b, <3>1, <3>2, <3>3 DEF Balanced, OpenClaim
  <2> QED
    BY <2>1, <2>2, Zenon
<1>2. CASE StartHandler(n) \/ EndHandler(n) \/ StopTaskWorker(n) \/ ResultLost(n)
  BY <1>2, <1>b, BalanceFrame, Zenon
  DEF StartHandler, EndHandler, StopTaskWorker, ResultLost, tableVars
<1>3. CASE HeartbeatExtend(n)
  BY <1>3, <1>b, <1>t, BalanceFrame DEF HeartbeatExtend, Row
<1>4. CASE CompleteTask(n)
  <2>1. CASE ~StillMine(n, proc[n].task) \/ u # proc[n].task
    BY <1>4, <1>b, <1>t, <2>1, BalanceFrame, Zenon DEF CompleteTask
  <2>2. CASE StillMine(n, proc[n].task) /\ u = proc[n].task
    <3>1. OpenClaim(u)
      BY <1>4, <2>2, StillMineIsOpen, Zenon DEF CompleteTask
    <3>2. /\ row'[u].status = "completed" /\ row'[u].attempts = row[u].attempts
          /\ failed'[u] = failed[u] /\ lost'[u] = lost[u]
      BY <1>4, <1>t, <2>2 DEF CompleteTask, Unlocked, Row
    <3> QED
      BY <1>b, <3>1, <3>2, Zenon DEF Balanced, OpenClaim
  <2> QED
    BY SMTT(30), <2>1, <2>2
<1>5. CASE FailTask(n)
  <2>1. CASE ~StillMine(n, proc[n].task) \/ u # proc[n].task
    BY <1>5, <1>b, <1>t, <2>1, BalanceFrame, Zenon DEF FailTask
  <2>2. CASE StillMine(n, proc[n].task) /\ u = proc[n].task
    <3>1. OpenClaim(u)
      BY <1>5, <2>2, StillMineIsOpen, Zenon DEF FailTask
    <3>2. /\ row'[u].status \in {"dead", "pending"}
          /\ row'[u].attempts = row[u].attempts
      <4>1. row' = [row EXCEPT ![u] = FailedRow(row[u], proc[n].attempts)]
        BY <1>5, <2>2, Zenon DEF FailTask
      <4>2. /\ FailedRow(row[u], proc[n].attempts).status \in {"dead", "pending"}
            /\ FailedRow(row[u], proc[n].attempts).attempts = row[u].attempts
        BY <1>t DEF FailedRow, Unlocked, Row
      <4> QED
        BY <1>t, <4>1, <4>2, Zenon
    <3>3. failed'[u] = failed[u] + 1 /\ lost'[u] = lost[u]
      BY <1>5, <1>t, <2>2, Zenon DEF FailTask
    <3>4. row[u].attempts \in Nat /\ failed[u] \in Nat /\ lost[u] \in Nat
      BY <1>t, Zenon DEF Row
    <3> QED
      BY SMTT(60), <1>b, <3>1, <3>2, <3>3, <3>4 DEF Balanced, OpenClaim
  <2> QED
    BY <2>1, <2>2
<1>6. CASE ReleaseAbandonedTaskLock(n)
  <2>1. CASE \/ ~(proc[n].pc = "running" /\ StillMine(n, proc[n].task))
             \/ u # proc[n].task
    BY <1>6, <1>b, <1>t, <2>1, BalanceFrame, Zenon DEF ReleaseAbandonedTaskLock
  <2>2. CASE proc[n].pc = "running" /\ StillMine(n, proc[n].task) /\ u = proc[n].task
    <3>1. OpenClaim(u)
      BY <2>2, StillMineIsOpen, Zenon
    <3>2. row[u].attempts \in Nat /\ failed[u] \in Nat /\ lost[u] \in Nat
      BY <1>t DEF Row
    <3>3. row[u].attempts = failed[u] + lost[u] + 1
      BY <1>b, <3>1, Zenon DEF Balanced
    <3>4. row' = [row EXCEPT ![u] = RefundedRow(row[u])]
      BY <1>6, <2>2, Zenon DEF ReleaseAbandonedTaskLock
    <3>5. row'[u].status = "pending" /\ row'[u].attempts = row[u].attempts - 1
      BY <1>t, <3>2, <3>3, <3>4 DEF RefundedRow, Unlocked, Row
    <3>6. failed'[u] = failed[u] /\ lost'[u] = lost[u]
      BY SMTT(30), <1>6 DEF ReleaseAbandonedTaskLock
    <3> QED
      BY SMTT(60), <3>2, <3>3, <3>5, <3>6 DEF Balanced, OpenClaim
  <2> QED
    BY <2>1, <2>2, Zenon
<1> QED
  BY <1>1, <1>2, <1>3, <1>4, <1>5, <1>6, Zenon DEF ProcessorStep

LEMMA WorkerStepAccounted ==
  ASSUME TypeOK, Accounts, NEW n \in Process, WorkerStep(n) \/ MarkLost(n)
  PROVE  Accounts'
<1> SUFFICES ASSUME NEW u \in Task, TypeOf[u] \in HandlerTypes
             PROVE  Balanced(u)'
  BY DEF Accounts
<1>b. Balanced(u)
  BY Zenon DEF Accounts
<1>t. /\ row \in [Task -> Row] /\ failed \in [Task -> Nat] /\ lost \in [Task -> Nat]
  BY Zenon DEF TypeOK, TableTypeOK
<1>n. row[u].attempts \in Nat /\ failed[u] \in Nat /\ lost[u] \in Nat
  BY <1>t, Zenon DEF Row
<1>w. \A m \in Process : Worker(m) \notin Processors
  BY Zenon DEF Worker, Processors, Processor
<1>o. ASSUME row'[u].status = "processing", row'[u].lockedBy \notin Processors
      PROVE  ~OpenClaim(u)'
  BY <1>o, Zenon DEF OpenClaim
<1>1. CASE ReleaseStaleLocks(n)
  <2>1. CASE ~Stale(u)
    BY ZenonT(30), <1>1, <1>b, <2>1, BalanceFrame DEF ReleaseStaleLocks
  <2>2. CASE Stale(u)
    <3>1. row'[u].status = "pending" /\ row'[u].attempts = row[u].attempts
      BY ZenonT(30), <1>1, <1>t, <2>2 DEF ReleaseStaleLocks, Unlocked, Row
    <3>2. /\ failed'[u] = failed[u]
          /\ lost'[u] = IF OpenClaim(u) THEN lost[u] + 1 ELSE lost[u]
      BY <1>1, <2>2 DEF ReleaseStaleLocks
    <3> QED
      BY <1>b, <1>n, <3>1, <3>2 DEF Balanced, OpenClaim
  <2> QED
    BY <2>1, <2>2, Zenon
<1>2. ASSUME NEW t \in Task, TakeRow(n, t)
      PROVE  Balanced(u)'
  <2>1. CASE u # t
    BY SMTT(30), <1>2, <1>b, <1>t, <2>1, BalanceFrame DEF TakeRow
  <2>2. CASE u = t
    <3>1. /\ row'[u].status = "processing" /\ row'[u].lockedBy = Worker(n)
          /\ row'[u].attempts = row[u].attempts
      BY <1>2, <1>t, <2>2 DEF TakeRow, Locked, Row
    <3>2. /\ failed'[u] = failed[u]
          /\ lost'[u] = lost[u] + IF OpenClaim(u) THEN 1 ELSE 0
      BY <1>2, <1>t, <2>2, Zenon DEF TakeRow
    <3>3. ~OpenClaim(u)'
      BY <1>o, <1>w, <3>1, Zenon
    <3>4. /\ row[u].attempts = failed[u] + lost[u] + IF OpenClaim(u) THEN 1 ELSE 0
          /\ row'[u].status # "absent"
      BY <1>b, <3>1, Zenon DEF Balanced
    <3>5. row'[u].attempts = failed'[u] + lost'[u]
      <4>1. CASE OpenClaim(u)
        BY <1>n, <3>1, <3>2, <3>4, <4>1
      <4>2. CASE ~OpenClaim(u)
        BY <1>n, <3>1, <3>2, <3>4, <4>2
      <4> QED
        BY <4>1, <4>2, Zenon
    <3>6. failed'[u] + lost'[u] + 0 = failed'[u] + lost'[u]
      <4>1. failed'[u] \in Nat /\ lost'[u] \in Nat
        BY <1>n, <3>2
      <4> QED
        BY <4>1
    <3> QED
      BY <3>3, <3>4, <3>5, <3>6, Zenon DEF Balanced
  <2> QED
    BY <2>1, <2>2
<1>3. CASE LockWinner(n)
  BY <1>2, <1>3, Zenon DEF LockWinner, TypeOK
<1>4. CASE \/ \E t \in Task : PickWinner(n, t)
           \/ NothingClaimed(n) \/ HandlerDone(n) \/ MarkLost(n)
  BY <1>4, <1>b, BalanceFrame, Zenon
  DEF PickWinner, NothingClaimed, HandlerDone, MarkLost, tableVars
<1>5. CASE ReleaseClaim(n)
  <2>1. CASE row' = row \/ u # tw[n].task
    BY ZenonT(30), <1>5, <1>b, <1>t, <2>1, BalanceFrame DEF ReleaseClaim
  <2>2. CASE row' # row /\ u = tw[n].task
    <3>1. /\ row[u].status = "processing" /\ row[u].lockedBy = Worker(n)
          /\ row'[u].status = "pending" /\ row'[u].attempts = row[u].attempts
      BY <1>5, <1>t, <2>2 DEF ReleaseClaim, Unlocked, Row
    <3>2. ~OpenClaim(u) /\ ~OpenClaim(u)'
      BY <1>w, <3>1, ZenonT(60) DEF OpenClaim
    <3> QED
      BY ZenonT(30), <1>5, <1>b, <3>1, <3>2 DEF Balanced, ReleaseClaim
  <2> QED
    BY <2>1, <2>2, Zenon
<1>6. CASE MarkCompleted(n) \/ MarkFailed(n)
  <2>1. u # tw[n].task
    BY <1>6, TypesAssumption, Zenon DEF TypeOK, MarkCompleted, MarkFailed
  <2> QED
    BY SMTT(30), <1>6, <1>b, <1>t, <2>1, BalanceFrame DEF MarkCompleted, MarkFailed
<1> QED
  BY <1>1, <1>2, <1>3, <1>4, <1>5, <1>6, Zenon DEF WorkerStep, ClaimOne

(***************************************************************************)
(* AttemptsAccounted for every set of tasks and processes, with the claim  *)
(* race and overruns allowed, and even when replicas share a WORKER_ID: an *)
(* attempt of a processor row is a recorded failure, a lost claim or the   *)
(* open claim, and the refund of _release_abandoned_task_lock never takes  *)
(* back more than its claim charged.                                       *)
(***************************************************************************)
THEOREM AttemptsAreAccounted == Spec => []AttemptsAccounted
<1>1. Init => Accounts
  BY DEF Init, TableInit, NoRow, Accounts, Balanced, OpenClaim
<1>2. TypeOK /\ Accounts /\ [Next]_vars => Accounts'
  <2> SUFFICES ASSUME TypeOK, Accounts, [Next]_vars PROVE Accounts'
    BY Zenon
  <2>f. ASSUME UNCHANGED tableVars PROVE Accounts'
    BY <2>f, BalanceFrame, Zenon DEF Accounts, tableVars
  <2>1. CASE \E t \in Task : LeaseExpires(t)
    <3>1. PICK t \in Task : LeaseExpires(t)
      BY <2>1, Zenon
    <3>2. \A u \in Task : /\ row'[u].status = row[u].status
                         /\ row'[u].lockedBy = row[u].lockedBy
                         /\ row'[u].attempts = row[u].attempts
      BY <3>1, Zenon DEF LeaseExpires, TypeOK, TableTypeOK, Row
    <3> QED
      BY <3>1, <3>2, BalanceFrame, Zenon DEF Accounts, LeaseExpires
  <2>2. ASSUME NEW n \in Process, Crash(n) \/ ExitAndRestart(n)
        PROVE  Accounts'
    BY <2>2, <2>f, Zenon DEF Crash, ExitAndRestart, Reset
  <2>3. CASE UNCHANGED vars
    BY <2>3, <2>f, Zenon DEF vars, tableVars
  <2> QED
    BY <2>1, <2>2, <2>3, TableStepAccounted, ProcessorStepAccounted,
       WorkerStepAccounted, Zenon DEF Next
<1>3. Accounts => AttemptsAccounted
  BY Zenon DEF Accounts, Balanced, AttemptsAccounted
<1> QED
  BY <1>1, <1>2, <1>3, TypeCorrect, PTL DEF Spec
-----------------------------------------------------------------------------
(***************************************************************************)
(* Evidence.  A row of a protected type is only ever inserted as completed *)
(* and no thread has such a row in hand, not even as the winner it picked  *)
(* in an old snapshot.                                                     *)
(***************************************************************************)
EvidenceParked ==
  /\ \A t \in Task : TypeOf[t] \in Protected => row[t].status \in {"absent", "completed"}
  /\ \A n \in Process : tw[n].pc \notin {"idle", "polling"} =>
                          TypeOf[tw[n].task] \notin Protected

Parked(t) ==
  \/ row'[t] = row[t]
  \/ row[t].status = "absent" /\ row'[t].status = "completed"

LEMMA EvidenceRows ==
  ASSUME TypeOK, EvidenceParked, [Next]_vars,
         NEW u \in Task, TypeOf[u] \in Protected
  PROVE  Parked(u)
<1>t. row \in [Task -> Row]
  BY Zenon DEF TypeOK, TableTypeOK
<1>u. row[u].status \in {"absent", "completed"}
  BY Zenon DEF EvidenceParked
<1>h. /\ TypeOf[u] \notin HandlerTypes /\ TypeOf[u] \notin RegisteredTypes
      /\ TypeOf[u] \notin Purgeable
  BY TypesAssumption, Zenon
<1>1. CASE TableStep
  <2>1. ASSUME NEW t \in Task, EnqueueTask(t) \/ UpsertDrillRow(t) \/ BecomeDue(t)
        PROVE  Parked(u)
    BY <2>1, <1>t, <1>u DEF EnqueueTask, UpsertDrillRow, BecomeDue, NoRow, Parked
  <2>2. ASSUME NEW S \in SUBSET Task, ReplayDeadTasks(S) \/ PurgeOldTasks(S)
        PROVE  Parked(u)
    BY <2>2, <1>h, <1>u, Zenon DEF ReplayDeadTasks, PurgeOldTasks, IsPurgeable, Parked
  <2> QED
    BY <1>1, <2>1, <2>2, Zenon DEF TableStep
<1>2. CASE \E t \in Task : LeaseExpires(t)
  BY <1>2, <1>t, <1>u, Zenon DEF LeaseExpires, Parked
<1>3. ASSUME NEW n \in Process, ProcessorStep(n) \/ StopTaskWorker(n) \/ ResultLost(n)
      PROVE  Parked(u)
  <2>1. proc[n].pc # "idle" => proc[n].task # u
    BY <1>h, Zenon DEF TypeOK
  <2>2. CASE \E t \in Task : ClaimTask(n, t)
    BY <2>2, <1>h, <1>t, Zenon DEF ClaimTask, Claimable, Parked
  <2>3. CASE \/ StartHandler(n) \/ EndHandler(n) \/ StopTaskWorker(n) \/ ResultLost(n)
    BY <2>3, Zenon DEF StartHandler, EndHandler, StopTaskWorker, ResultLost, tableVars, Parked
  <2>4. CASE HeartbeatExtend(n) \/ CompleteTask(n) \/ FailTask(n)
    BY SMTT(30), <2>4, <2>1, <1>t DEF HeartbeatExtend, CompleteTask, FailTask, Parked
  <2>5. CASE ReleaseAbandonedTaskLock(n)
    BY <2>5, <2>1, <1>t, Zenon DEF ReleaseAbandonedTaskLock, Parked
  <2> QED
    BY <1>3, <2>2, <2>3, <2>4, <2>5, Zenon DEF ProcessorStep
<1>4. ASSUME NEW n \in Process, WorkerStep(n) \/ MarkLost(n)
      PROVE  Parked(u)
  <2>1. tw[n].pc \notin {"idle", "polling"} => tw[n].task # u
    BY Zenon DEF EvidenceParked
  <2>2. CASE ReleaseStaleLocks(n)
    BY ZenonT(30), <2>2, <1>u DEF ReleaseStaleLocks, Stale, Parked
  <2>3. CASE \E t \in Task : ClaimOne(n, t)
    BY <2>3, <1>t, <1>u, Zenon DEF ClaimOne, Eligible, TakeRow, Parked
  <2>4. CASE \/ \E t \in Task : PickWinner(n, t)
             \/ NothingClaimed(n) \/ HandlerDone(n) \/ MarkLost(n)
    BY <2>4, Zenon DEF PickWinner, NothingClaimed, HandlerDone, MarkLost, tableVars, Parked
  <2>5. CASE LockWinner(n)
    BY <2>5, <2>1, <1>t, Zenon DEF LockWinner, TakeRow, Parked
  <2>6. CASE ReleaseClaim(n) \/ MarkCompleted(n) \/ MarkFailed(n)
    BY ZenonT(30), <2>6, <2>1, <1>t DEF ReleaseClaim, MarkCompleted, MarkFailed, Parked
  <2> QED
    BY <1>4, <2>2, <2>3, <2>4, <2>5, <2>6, Zenon DEF WorkerStep
<1>5. ASSUME NEW n \in Process, Crash(n) \/ ExitAndRestart(n)
      PROVE  Parked(u)
  BY <1>5, Zenon DEF Crash, ExitAndRestart, Reset, tableVars, Parked
<1>6. CASE UNCHANGED vars
  BY <1>6, Zenon DEF vars, Parked
<1> QED
  BY <1>1, <1>2, <1>3, <1>4, <1>5, <1>6, Zenon DEF Next

LEMMA EvidenceThreads ==
  ASSUME TypeOK, EvidenceParked, [Next]_vars, NEW m \in Process
  PROVE  tw'[m].pc \notin {"idle", "polling"} => TypeOf[tw'[m].task] \notin Protected
<1>t. tw \in [Process -> WorkerState]
  BY Zenon DEF TypeOK
<1>u. /\ tw[m].pc \notin {"idle", "polling"} => TypeOf[tw[m].task] \notin Protected
      /\ \A t \in Task : Eligible(t) => TypeOf[t] \notin Protected
  BY Zenon DEF EvidenceParked, Eligible
<1>1. CASE UNCHANGED tw
  BY <1>1, <1>u, Zenon
<1>2. ASSUME NEW n \in Process, WorkerStep(n) \/ MarkLost(n)
      PROVE  tw'[m].pc \notin {"idle", "polling"} => TypeOf[tw'[m].task] \notin Protected
  <2>1. CASE n # m
    BY ZenonT(30), <1>2, <1>t, <1>u, <2>1
    DEF WorkerStep, ReleaseStaleLocks, ClaimOne, PickWinner, LockWinner, TakeRow,
        NothingClaimed, ReleaseClaim, HandlerDone, MarkCompleted, MarkFailed, MarkLost,
        WorkerIdle
  <2>2. CASE n = m
    <3>1. CASE \E t \in Task : ClaimOne(n, t) \/ PickWinner(n, t)
      BY SMTT(60), <3>1, <1>t, <1>u, <2>2 DEF ClaimOne, TakeRow, PickWinner
    <3>2. CASE LockWinner(n) \/ HandlerDone(n)
      BY <3>2, <1>t, <1>u, <2>2 DEF LockWinner, TakeRow, HandlerDone, WorkerState
    <3>3. CASE ReleaseStaleLocks(n)
      BY <3>3, <1>t, <2>2, Zenon DEF ReleaseStaleLocks, WorkerState
    <3>4. CASE WorkerIdle(n)
      BY <3>4, <1>t, <2>2, Zenon DEF WorkerIdle, IdleWorker
    <3> QED
      BY ZenonT(30), <1>2, <3>1, <3>2, <3>3, <3>4
      DEF WorkerStep, NothingClaimed, ReleaseClaim, MarkCompleted, MarkFailed, MarkLost
  <2> QED
    BY <2>1, <2>2, Zenon
<1>3. ASSUME NEW n \in Process, Reset(n)
      PROVE  tw'[m].pc \notin {"idle", "polling"} => TypeOf[tw'[m].task] \notin Protected
  BY <1>3, <1>t, <1>u, Zenon DEF Reset, IdleWorker
<1> QED
  BY <1>1, <1>2, <1>3, Zenon DEF Next, TableStep, LeaseExpires, Crash, ExitAndRestart, vars

(***************************************************************************)
(* EvidenceKept for every instance, with every race and overrun allowed: a *)
(* recall drill stored in the queue table is never claimed, released,      *)
(* replayed or purged, and its row never changes.                          *)
(***************************************************************************)
THEOREM EvidenceIsKept == Spec => EvidenceKept
<1>1. Init => EvidenceParked
  BY DEF Init, TableInit, NoRow, IdleWorker, EvidenceParked
<1>2. TypeOK /\ EvidenceParked /\ [Next]_vars => EvidenceParked'
  <2> SUFFICES ASSUME TypeOK, EvidenceParked, [Next]_vars PROVE EvidenceParked'
    OBVIOUS
  <2>1. \A t \in Task : TypeOf[t] \in Protected => row'[t].status \in {"absent", "completed"}
    BY EvidenceRows, Zenon DEF EvidenceParked, Parked
  <2> QED
    BY <2>1, EvidenceThreads, Zenon DEF EvidenceParked
<1>3. TypeOK /\ EvidenceParked /\ [Next]_vars =>
        [\A t \in Task : TypeOf[t] \in Protected /\ row[t].status = "completed"
           => row'[t] = row[t]]_vars
  BY EvidenceRows, Zenon DEF Parked
<1> QED
  BY <1>1, <1>2, <1>3, TypeCorrect, PTL DEF Spec, EvidenceKept
-----------------------------------------------------------------------------
(***************************************************************************)
(* Death.  _fail_task compares max_attempts with the attempts it read when *)
(* it claimed the row, which may be old.  When WORKER_ID tells processes   *)
(* apart, the predicate of the UPDATE makes sure that it is not.           *)
(***************************************************************************)
UniqueIds == \A n, m \in Process : LockId[n] = LockId[m] => n = m

SnapshotCurrent ==
  \A n \in Process :
    proc[n].pc # "idle" /\ row[proc[n].task].lockedBy = Processor(n)
      => proc[n].attempts = row[proc[n].task].attempts

LEMMA UniqueHolder ==
  ASSUME UniqueIds, TypeOK, NEW n \in Process, NEW t \in Task, StillMine(n, t)
  PROVE  row[t].lockedBy = Processor(n)
BY Zenon DEF StillMine, LockedByMe, UniqueIds

(***************************************************************************)
(* What a step may do to a row, as far as its death is concerned.          *)
(***************************************************************************)
SameRow(t) ==
  /\ row'[t].status = row[t].status /\ row'[t].lockedBy = row[t].lockedBy
  /\ row'[t].attempts = row[t].attempts /\ failed'[t] = failed[t]

Dropped(t) == row'[t].lockedBy \notin Processors /\ row'[t].status # "dead"

Buried(t) ==
  /\ row'[t].lockedBy \notin Processors /\ row'[t].status = "dead"
  /\ row'[t].attempts >= MaxAttempts /\ failed'[t] > 0

LEMMA NoOneIsNoProcessor == NoOne \notin Processors /\ \A n \in Process : Worker(n) \notin Processors
BY NoOneAssumption, Zenon DEF Actor, Processors, Processor, Worker

LEMMA RowFate ==
  ASSUME UniqueIds, TypeOK, SnapshotCurrent, [Next]_vars, NEW u \in Task
  PROVE  SameRow(u) \/ Dropped(u) \/ Buried(u) \/ \E n \in Process : ClaimTask(n, u)
<1>t. row \in [Task -> Row] /\ failed \in [Task -> Nat]
  BY Zenon DEF TypeOK, TableTypeOK
<1>n. NoOne \notin Processors /\ \A n \in Process : Worker(n) \notin Processors
  BY NoOneIsNoProcessor, Zenon
<1>1. CASE TableStep
  <2>1. ASSUME NEW t \in Task, EnqueueTask(t) \/ UpsertDrillRow(t) \/ BecomeDue(t)
        PROVE  SameRow(u) \/ Dropped(u)
    BY <2>1, <1>t, <1>n
    DEF EnqueueTask, UpsertDrillRow, BecomeDue, NoRow, SameRow, Dropped, Row
  <2>2. ASSUME NEW S \in SUBSET Task, ReplayDeadTasks(S) \/ PurgeOldTasks(S)
        PROVE  SameRow(u) \/ Dropped(u)
    BY <2>2, <1>n DEF ReplayDeadTasks, PurgeOldTasks, NoRow, SameRow, Dropped
  <2> QED
    BY <1>1, <2>1, <2>2, Zenon DEF TableStep
<1>2. CASE \E t \in Task : LeaseExpires(t)
  BY <1>2, <1>t DEF LeaseExpires, SameRow, Row
<1>3. ASSUME NEW n \in Process, ProcessorStep(n) \/ StopTaskWorker(n) \/ ResultLost(n)
      PROVE  SameRow(u) \/ Dropped(u) \/ Buried(u) \/ ClaimTask(n, u)
  <2> DEFINE t == proc[n].task
  <2>1. ASSUME NEW v \in Task, ClaimTask(n, v)
        PROVE  SameRow(u) \/ ClaimTask(n, u)
    BY ZenonT(30), <2>1, <1>t DEF ClaimTask, SameRow
  <2>2. CASE \/ StartHandler(n) \/ EndHandler(n) \/ StopTaskWorker(n) \/ ResultLost(n)
    BY <2>2, Zenon DEF StartHandler, EndHandler, StopTaskWorker, ResultLost, tableVars, SameRow
  <2>3. CASE HeartbeatExtend(n)
    BY <2>3, <1>t DEF HeartbeatExtend, SameRow, Row
  <2>4. CASE CompleteTask(n)
    BY <2>4, <1>t, <1>n DEF CompleteTask, Unlocked, SameRow, Dropped, Row
  <2>5. CASE ReleaseAbandonedTaskLock(n)
    BY <2>5, <1>t, <1>n
    DEF ReleaseAbandonedTaskLock, RefundedRow, Unlocked, SameRow, Dropped, Row
  <2>6. CASE FailTask(n)
    <3>1. CASE ~StillMine(n, t) \/ u # t
      BY <2>6, <3>1, <1>t, Zenon DEF FailTask, SameRow
    <3>2. CASE StillMine(n, t) /\ u = t
      <4>1. row' = [row EXCEPT ![u] = FailedRow(row[u], proc[n].attempts)]
        BY <2>6, <3>2, Zenon DEF FailTask
      <4>2. failed'[u] > 0
        BY <2>6, <3>2, <1>t DEF FailTask
      <4>3. proc[n].attempts = row[u].attempts
        BY ZenonT(30), <2>6, <3>2, UniqueHolder DEF FailTask, SnapshotCurrent, TypeOK
      <4>4. row[u].attempts \in Nat
        BY <1>t, Zenon DEF Row
      <4>5. CASE proc[n].attempts >= MaxAttempts
        BY <4>1, <4>2, <4>3, <4>5, <1>t, <1>n DEF FailedRow, Unlocked, Buried, Row
      <4>6. CASE ~(proc[n].attempts >= MaxAttempts)
        BY <4>1, <4>6, <1>t, <1>n, Zenon DEF FailedRow, Unlocked, Dropped, Row
      <4> QED
        BY <4>5, <4>6, Zenon
    <3> QED
      BY SMTT(30), <3>1, <3>2
  <2> QED
    BY <1>3, <2>1, <2>2, <2>3, <2>4, <2>5, <2>6, Zenon DEF ProcessorStep
<1>4. ASSUME NEW n \in Process, WorkerStep(n) \/ MarkLost(n)
      PROVE  SameRow(u) \/ Dropped(u) \/ Buried(u)
  <2> DEFINE k == tw[n].attempts + 1
  <2>1. CASE ReleaseStaleLocks(n)
    BY ZenonT(30), <2>1, <1>t, <1>n DEF ReleaseStaleLocks, Unlocked, SameRow, Dropped, Row
  <2>2. ASSUME NEW t \in Task, TakeRow(n, t)
        PROVE  SameRow(u) \/ Dropped(u)
    BY <2>2, <1>t, <1>n DEF TakeRow, Locked, SameRow, Dropped, Row
  <2>3. CASE LockWinner(n)
    BY ZenonT(30), <2>2, <2>3 DEF LockWinner, TypeOK
  <2>4. CASE \/ \E t \in Task : PickWinner(n, t)
             \/ NothingClaimed(n) \/ HandlerDone(n) \/ MarkLost(n)
    BY <2>4 DEF PickWinner, NothingClaimed, HandlerDone, MarkLost, tableVars, SameRow
  <2>5. CASE ReleaseClaim(n)
    BY SMTT(60), <2>5, <1>t, <1>n DEF ReleaseClaim, Unlocked, SameRow, Dropped, Row
  <2>7. CASE MarkCompleted(n)
    BY <2>7, <1>t, <1>n DEF MarkCompleted, Unlocked, SameRow, Dropped, Row
  <2>6. CASE MarkFailed(n)
    <3>1. CASE ~Exists(tw[n].task) \/ u # tw[n].task
      BY <2>6, <3>1, <1>t, Zenon DEF MarkFailed, SameRow
    <3>2. CASE Exists(tw[n].task) /\ u = tw[n].task
      <4>1. row' = [row EXCEPT ![u] = MarkedRow(row[u], k)] /\ failed'[u] > 0
        BY SMTT(60), <2>6, <3>2, <1>t DEF MarkFailed
      <4>2. k \in Nat
        BY DEF TypeOK, WorkerState
      <4> HIDE DEF k
      <4>3. CASE k >= MaxAttempts
        BY <4>1, <4>2, <4>3, <1>t, <1>n, Zenon DEF MarkedRow, Unlocked, Buried, Row
      <4>4. CASE ~(k >= MaxAttempts)
        BY <4>1, <4>2, <4>4, <1>t, <1>n, ZenonT(60) DEF MarkedRow, Unlocked, Dropped, Row
      <4> QED
        BY SMTT(30), <4>3, <4>4
    <3> QED
      BY SMTT(30), <3>1, <3>2
  <2> QED
    BY ZenonT(30), <1>4, <2>1, <2>2, <2>3, <2>4, <2>5, <2>6, <2>7 DEF WorkerStep, ClaimOne
<1>5. ASSUME NEW n \in Process, Crash(n) \/ ExitAndRestart(n)
      PROVE  SameRow(u)
  BY <1>5, Zenon DEF Crash, ExitAndRestart, Reset, tableVars, SameRow
<1>6. CASE UNCHANGED vars
  BY <1>6, Zenon DEF vars, SameRow
<1> QED
  BY <1>1, <1>2, <1>3, <1>4, <1>5, <1>6, Zenon DEF Next

LEMMA ClaimTaskEffect ==
  ASSUME TypeOK, NEW n \in Process, NEW t \in Task, ClaimTask(n, t)
  PROVE  /\ row'[t].status = "processing" /\ row'[t].lockedBy = Processor(n)
         /\ row'[t].attempts = row[t].attempts + 1
BY DEF ClaimTask, ClaimedRow, Locked, TypeOK, TableTypeOK, Row

LEMMA SnapshotStep ==
  ASSUME UniqueIds, TypeOK, SnapshotCurrent, [Next]_vars
  PROVE  SnapshotCurrent'
<1> SUFFICES ASSUME NEW m \in Process, proc'[m].pc # "idle",
                    row'[proc'[m].task].lockedBy = Processor(m)
             PROVE  proc'[m].attempts = row'[proc'[m].task].attempts
  BY SMTT(30) DEF SnapshotCurrent
<1> DEFINE u == proc'[m].task
<1>p. proc \in [Process -> ProcState] /\ row \in [Task -> Row]
  BY Zenon DEF TypeOK, TableTypeOK
<1>u. u \in Task
  BY ZenonT(30), NextTypeOK DEF TypeOK
<1>m. Processor(m) \in Processors
  BY Zenon DEF Processors
<1>1. CASE \E t \in Task : ClaimTask(m, t)
  BY <1>1, <1>p DEF ClaimTask, ClaimedRow, Locked, Row
<1>2. CASE ~\E t \in Task : ClaimTask(m, t)
  <2>1. /\ proc[m].pc # "idle" /\ proc[m].task = u /\ proc[m].attempts = proc'[m].attempts
    <3>1. CASE UNCHANGED proc
      BY <3>1, Zenon
    <3>2. ASSUME NEW n \in Process, ProcessorStep(n) \/ StopTaskWorker(n) \/ ResultLost(n)
          PROVE  /\ proc[m].pc # "idle" /\ proc[m].task = u
                 /\ proc[m].attempts = proc'[m].attempts
      BY <1>2, <1>p, <3>2
      DEF ProcessorStep, StopTaskWorker, ResultLost, ClaimTask, StartHandler, EndHandler,
          HeartbeatExtend, CompleteTask, FailTask, ReleaseAbandonedTaskLock, GoIdle,
          IdleProcessor, ProcState
    <3>3. ASSUME NEW n \in Process, Reset(n)
          PROVE  /\ proc[m].pc # "idle" /\ proc[m].task = u
                 /\ proc[m].attempts = proc'[m].attempts
      BY <1>p, <3>3, Zenon DEF Reset, IdleProcessor
    <3> QED
      BY <3>1, <3>2, <3>3, Zenon DEF Next, TableStep, LeaseExpires, Crash, ExitAndRestart, vars
  <2>2. ~\E n \in Process : ClaimTask(n, u)
    BY <1>2, <1>u, ClaimTaskEffect DEF Processor
  <2>3. SameRow(u)
    BY <1>u, <1>m, <2>2, RowFate, Zenon DEF Dropped, Buried
  <2> QED
    BY ZenonT(30), <2>1, <2>3 DEF SameRow, SnapshotCurrent
<1> QED
  BY <1>1, <1>2, Zenon

(***************************************************************************)
(* DeadMeansExhausted whenever the processes' WORKER_IDs differ, over      *)
(* crashes, thefts and the claim race: a row is dead only after a recorded *)
(* failure and with max_attempts used up (_fail_task_inner, _mark_failed). *)
(***************************************************************************)
THEOREM DeathIsEarned == ASSUME UniqueIds PROVE Spec => []DeadMeansExhausted
<1> DEFINE Inv == SnapshotCurrent /\ DeadMeansExhausted
<1>1. Init => Inv
  BY SMTT(60) DEF Init, TableInit, NoRow, IdleProcessor, SnapshotCurrent, DeadMeansExhausted
<1>2. TypeOK /\ Inv /\ [Next]_vars => Inv'
  <2> SUFFICES ASSUME TypeOK, Inv, [Next]_vars, NEW u \in Task, row'[u].status = "dead"
               PROVE  row'[u].attempts >= MaxAttempts /\ failed'[u] > 0
    BY SnapshotStep, Zenon DEF DeadMeansExhausted
  <2>1. ~\E n \in Process : ClaimTask(n, u)
    BY ClaimTaskEffect, Zenon
  <2> QED
    BY SMTT(30), <2>1, RowFate DEF SameRow, Dropped, Buried, DeadMeansExhausted
<1> QED
  BY <1>1, <1>2, TypeCorrect, PTL DEF Spec
-----------------------------------------------------------------------------
(***************************************************************************)
(* Finality.  _mark_completed, _mark_failed and _mark_dead update by id    *)
(* alone.  That is sound as long as a TaskWorker that has a row in hand    *)
(* still holds it, which follows when the claim statement is atomic and    *)
(* handlers of the TaskWorker finish within their lease.                   *)
(***************************************************************************)
LeasesSuffice == ~ClaimRace /\ "worker" \notin MayOverrun

InHand(n) == tw[n].pc \in {"foreign", "running", "returned", "raised"}

Holds(n, t) ==
  row[t].status = "processing" /\ row[t].lockedBy = Worker(n) /\ row[t].lease = "live"

SafeHands(n) == tw[n].pc # "picked" /\ (InHand(n) => Holds(n, tw[n].task))

WorkerHolds == \A n \in Process : SafeHands(n)

LEMMA WorkersDiffer ==
  ASSUME NEW n, NEW m
  PROVE  Worker(n) # Processor(m) /\ (Worker(n) = Worker(m) => n = m)
BY Zenon DEF Worker, Processor

LEMMA HeldRow ==
  ASSUME LeasesSuffice, TypeOK, WorkerHolds, [Next]_vars,
         NEW m \in Process, InHand(m), NEW u, u = tw[m].task
  PROVE  row'[u] = row[u] \/ (WorkerStep(m) /\ tw'[m] = IdleWorker)
<1>t. row \in [Task -> Row] /\ tw \in [Process -> WorkerState] /\ u \in Task
  BY Zenon DEF TypeOK, TableTypeOK, InHand
<1>h. Holds(m, u)
  BY SMTT(30) DEF WorkerHolds, SafeHands
<1>1. CASE TableStep
  <2>1. ASSUME NEW t \in Task, EnqueueTask(t) \/ UpsertDrillRow(t) \/ BecomeDue(t)
        PROVE  row'[u] = row[u]
    BY <2>1, <1>t, <1>h, Zenon DEF EnqueueTask, UpsertDrillRow, BecomeDue, Holds
  <2>2. ASSUME NEW S \in SUBSET Task, ReplayDeadTasks(S) \/ PurgeOldTasks(S)
        PROVE  row'[u] = row[u]
    BY <2>2, <1>t, <1>h DEF ReplayDeadTasks, PurgeOldTasks, IsPurgeable, Holds
  <2> QED
    BY <1>1, <2>1, <2>2, Zenon DEF TableStep
<1>2. CASE \E t \in Task : LeaseExpires(t)
  <2>1. WorkerAtWork(u)
    BY SMTT(30), <1>h DEF WorkerAtWork, Holds, InHand
  <2> QED
    BY <1>2, <1>t, <2>1, Zenon DEF LeaseExpires, LeasesSuffice
<1>3. ASSUME NEW n \in Process, ProcessorStep(n) \/ StopTaskWorker(n) \/ ResultLost(n)
      PROVE  row'[u] = row[u]
  <2>1. ~LockedByMe(n, u) /\ ~StillMine(n, u) /\ ~Claimable(u)
    BY <1>h, WorkersDiffer, Zenon DEF StillMine, LockedByMe, Claimable, Holds
  <2> QED
    BY <1>3, <1>t, <2>1, Zenon
    DEF ProcessorStep, StopTaskWorker, ResultLost, ClaimTask, StartHandler, EndHandler,
        HeartbeatExtend, CompleteTask, FailTask, ReleaseAbandonedTaskLock, tableVars
<1>4. ASSUME NEW n \in Process, WorkerStep(n) \/ MarkLost(n)
      PROVE  row'[u] = row[u] \/ (WorkerStep(m) /\ tw'[m] = IdleWorker)
  <2>1. ~Eligible(u) /\ ~Stale(u) /\ tw[n].pc # "picked"
    BY <1>h, Zenon DEF Eligible, Stale, Holds, WorkerHolds, SafeHands
  <2>2. CASE ReleaseStaleLocks(n)
    BY <2>1, <2>2, <1>t, Zenon DEF ReleaseStaleLocks
  <2>3. CASE \E t \in Task : ClaimOne(n, t) \/ PickWinner(n, t)
    BY <2>1, <2>3, <1>t, Zenon DEF ClaimOne, TakeRow, PickWinner, LeasesSuffice
  <2>4. CASE LockWinner(n) \/ NothingClaimed(n) \/ HandlerDone(n) \/ MarkLost(n)
    BY <2>1, <2>4, Zenon DEF LockWinner, NothingClaimed, HandlerDone, MarkLost, tableVars
  <2>5. CASE ReleaseClaim(n) \/ MarkCompleted(n) \/ MarkFailed(n)
    <3>1. InHand(n) /\ WorkerIdle(n)
      BY ZenonT(30), <2>5 DEF ReleaseClaim, MarkCompleted, MarkFailed, InHand
    <3>2. CASE n # m
      <4>1. tw[n].task # u
        <5>1. Holds(n, tw[n].task)
          BY <3>1, Zenon DEF WorkerHolds, SafeHands
        <5>2. Worker(n) # Worker(m)
          BY SMTT(30), <3>2, WorkersDiffer
        <5> QED
          BY <5>1, <5>2, <1>h, Zenon DEF Holds
      <4> QED
        BY ZenonT(30), <4>1, <2>5, <1>t DEF ReleaseClaim, MarkCompleted, MarkFailed
    <3>3. CASE n = m
      BY SMTT(30), <3>1, <3>3, <2>5, <1>t DEF WorkerIdle, WorkerStep
    <3> QED
      BY <3>2, <3>3, Zenon
  <2> QED
    BY ZenonT(30), <1>4, <2>2, <2>3, <2>4, <2>5 DEF WorkerStep
<1>5. ASSUME NEW n \in Process, Crash(n) \/ ExitAndRestart(n)
      PROVE  row'[u] = row[u]
  BY <1>5, Zenon DEF Crash, ExitAndRestart, Reset, tableVars
<1>6. CASE UNCHANGED vars
  BY <1>6, Zenon DEF vars
<1> QED
  BY ZenonT(30), <1>1, <1>2, <1>3, <1>4, <1>5, <1>6 DEF Next

LEMMA WorkerHoldsStep ==
  ASSUME LeasesSuffice, TypeOK, WorkerHolds, [Next]_vars
  PROVE  WorkerHolds'
<1> SUFFICES ASSUME NEW m \in Process
             PROVE  SafeHands(m)'
  BY Zenon DEF WorkerHolds
<1>t. row \in [Task -> Row] /\ tw \in [Process -> WorkerState]
  BY Zenon DEF TypeOK, TableTypeOK
<1>m. tw[m].pc # "picked"
  BY Zenon DEF WorkerHolds, SafeHands
<1>f. ASSUME tw'[m].pc # "picked", InHand(m)' => InHand(m) /\ tw'[m].task = tw[m].task
      PROVE  SafeHands(m)'
  <2> SUFFICES ASSUME InHand(m)' PROVE Holds(m, tw[m].task)'
    BY <1>f, Zenon DEF SafeHands
  <2>1. Holds(m, tw[m].task) /\ tw'[m].task = tw[m].task
    BY <1>f, ZenonT(60) DEF WorkerHolds, SafeHands
  <2>2. tw'[m] # IdleWorker
    BY SMTT(30) DEF InHand, IdleWorker
  <2>3. row'[tw[m].task] = row[tw[m].task]
    BY <1>f, <2>2, HeldRow, Zenon
  <2> QED
    BY <2>1, <2>3, Zenon DEF Holds
<1>1. CASE UNCHANGED tw
  BY <1>1, <1>f, <1>m, Zenon DEF InHand
<1>2. ASSUME NEW n \in Process, WorkerStep(n) \/ MarkLost(n)
      PROVE  SafeHands(m)'
  <2>1. CASE n # m
    <3>1. tw'[m] = tw[m]
      BY ZenonT(30), <1>2, <1>t, <2>1
      DEF WorkerStep, ReleaseStaleLocks, ClaimOne, PickWinner, LockWinner, TakeRow,
          NothingClaimed, ReleaseClaim, HandlerDone, MarkCompleted, MarkFailed, MarkLost,
          WorkerIdle
    <3> QED
      BY <1>f, <1>m, <3>1, Zenon DEF InHand
  <2>2. CASE n = m
    <3>1. ASSUME NEW t \in Task, ClaimOne(m, t)
          PROVE  SafeHands(m)'
      BY <3>1, <1>t DEF ClaimOne, TakeRow, Locked, Holds, InHand, SafeHands, Row
    <3>2. CASE HandlerDone(m)
      BY <3>2, <1>f, <1>t, Zenon DEF HandlerDone, WorkerState, InHand
    <3>3. CASE ReleaseStaleLocks(m)
      BY <3>3, <1>t, Zenon DEF ReleaseStaleLocks, WorkerState, InHand, SafeHands
    <3>4. CASE WorkerIdle(m)
      BY <3>4, <1>t, Zenon DEF WorkerIdle, IdleWorker, InHand, SafeHands
    <3> QED
      BY ZenonT(30), <1>2, <1>m, <2>2, <3>1, <3>2, <3>3, <3>4
      DEF WorkerStep, PickWinner, LockWinner, LeasesSuffice, NothingClaimed, ReleaseClaim,
          MarkCompleted, MarkFailed, MarkLost
  <2> QED
    BY <2>1, <2>2, Zenon
<1>3. ASSUME NEW n \in Process, Reset(n)
      PROVE  SafeHands(m)'
  <2>1. CASE n = m
    BY <1>3, <1>t, <2>1, Zenon DEF Reset, IdleWorker, InHand, SafeHands
  <2>2. CASE n # m
    BY <1>3, <1>f, <1>m, <1>t, <2>2, Zenon DEF Reset, InHand
  <2> QED
    BY <2>1, <2>2, Zenon
<1> QED
  BY <1>1, <1>2, <1>3, Zenon DEF Next, TableStep, LeaseExpires, Crash, ExitAndRestart, vars

LEMMA WorkerHoldsAlways == ASSUME LeasesSuffice PROVE Spec => []WorkerHolds
<1>1. Init => WorkerHolds
  BY DEF Init, IdleWorker, WorkerHolds, SafeHands, InHand
<1>2. TypeOK /\ WorkerHolds /\ [Next]_vars => WorkerHolds'
  BY SMTT(30), WorkerHoldsStep
<1> QED
  BY <1>1, <1>2, TypeCorrect, PTL DEF Spec

LEMMA FinalRow ==
  ASSUME LeasesSuffice, TypeOK, WorkerHolds, [Next]_vars,
         NEW u \in Task, row[u].status \in {"completed", "dead"}
  PROVE  \/ row'[u] = row[u]
         \/ row'[u].status = "purged"
         \/ /\ row[u].status = "dead"
            /\ row'[u].status = "pending" /\ row'[u].attempts = 0
<1> DEFINE Final == \/ row'[u] = row[u]
                    \/ row'[u].status = "purged"
                    \/ /\ row[u].status = "dead"
                       /\ row'[u].status = "pending" /\ row'[u].attempts = 0
<1>t. row \in [Task -> Row] /\ row[u].lockedBy = NoOne
  BY SMTT(30) DEF TypeOK, TableTypeOK, LockColumns
<1>1. CASE TableStep
  <2>1. ASSUME NEW t \in Task, EnqueueTask(t) \/ UpsertDrillRow(t) \/ BecomeDue(t)
        PROVE  row'[u] = row[u]
    BY <2>1, <1>t, Zenon DEF EnqueueTask, UpsertDrillRow, BecomeDue
  <2>2. ASSUME NEW S \in SUBSET Task, ReplayDeadTasks(S) \/ PurgeOldTasks(S)
        PROVE  Final
    BY <2>2 DEF ReplayDeadTasks, PurgeOldTasks, NoRow
  <2> QED
    BY <1>1, <2>1, <2>2, Zenon DEF TableStep
<1>2. CASE \E t \in Task : LeaseExpires(t)
  BY <1>2, <1>t, Zenon DEF LeaseExpires
<1>3. ASSUME NEW n \in Process, ProcessorStep(n) \/ StopTaskWorker(n) \/ ResultLost(n)
      PROVE  row'[u] = row[u]
  <2>1. ~LockedByMe(n, u) /\ ~StillMine(n, u) /\ ~Claimable(u)
    BY <1>t, NoOneIsNoProcessor, Zenon DEF StillMine, LockedByMe, Claimable, Processors
  <2> QED
    BY <1>3, <1>t, <2>1, Zenon
    DEF ProcessorStep, StopTaskWorker, ResultLost, ClaimTask, StartHandler, EndHandler,
        HeartbeatExtend, CompleteTask, FailTask, ReleaseAbandonedTaskLock, tableVars
<1>4. ASSUME NEW n \in Process, WorkerStep(n) \/ MarkLost(n)
      PROVE  row'[u] = row[u]
  <2>1. ~Eligible(u) /\ ~Stale(u) /\ tw[n].pc # "picked"
    BY Zenon DEF Eligible, Stale, WorkerHolds, SafeHands
  <2>2. InHand(n) => tw[n].task # u
    BY Zenon DEF WorkerHolds, SafeHands, Holds
  <2> QED
    BY ZenonT(30), <1>4, <1>t, <2>1, <2>2
    DEF WorkerStep, ReleaseStaleLocks, ClaimOne, PickWinner, LockWinner, TakeRow,
        NothingClaimed, ReleaseClaim, HandlerDone, MarkCompleted, MarkFailed, MarkLost,
        InHand, LeasesSuffice, tableVars
<1>5. ASSUME NEW n \in Process, Crash(n) \/ ExitAndRestart(n)
      PROVE  row'[u] = row[u]
  BY <1>5, Zenon DEF Crash, ExitAndRestart, Reset, tableVars
<1>6. CASE UNCHANGED vars
  BY <1>6, Zenon DEF vars
<1> QED
  BY SMTT(30), <1>1, <1>2, <1>3, <1>4, <1>5, <1>6 DEF Next

(***************************************************************************)
(* OutcomeFinal for every instance in which the claim statement is atomic  *)
(* and the leases of TaskWorker suffice: a completed row only disappears   *)
(* in the purge, a dead one only there or in a replay, although the _mark_ *)
(* methods check nothing and the processor's leases may run out.           *)
(***************************************************************************)
THEOREM OutcomesAreFinal == ASSUME LeasesSuffice PROVE Spec => OutcomeFinal
<1>1. TypeOK /\ WorkerHolds /\ [Next]_vars =>
        [\A t \in Task :
           /\ row[t].status = "completed" => row'[t].status \in {"completed", "purged"}
           /\ row[t].status = "dead" =>
                \/ row'[t].status \in {"dead", "purged"}
                \/ row'[t].status = "pending" /\ row'[t].attempts = 0]_vars
  BY FinalRow, Zenon
<1> QED
  BY <1>1, WorkerHoldsAlways, TypeCorrect, PTL DEF Spec, OutcomeFinal
-----------------------------------------------------------------------------
(***************************************************************************)
(* Live claims.  The step that takes the lock off a row whose lease is     *)
(* live is a step of the thread that has that row in hand.                 *)
(***************************************************************************)
EndedByProcessor(n, t) ==
  /\ row[t].lockedBy = Processor(n)
  /\ proc[n].pc # "idle" /\ proc[n].task = t
  /\ proc'[n] # proc[n] \/ stage'[n] # stage[n]

EndedByWorker(n, t) ==
  row[t].lockedBy = Worker(n) /\ tw[n].task = t /\ tw'[n] # tw[n]

\* A processor's result reaches the row it has in hand, and no other.
LEMMA ResultReaches ==
  ASSUME row \in [Task -> Row], NEW n \in Process, CompleteTask(n) \/ FailTask(n),
         NEW u \in Task, row'[u] # row[u]
  PROVE  u = proc[n].task /\ StillMine(n, u) /\ proc[n].pc # "idle" /\ GoIdle(n)
<1>1. proc[n].pc # "idle" /\ GoIdle(n)
  BY Zenon DEF CompleteTask, FailTask
<1>2. PICK t : t = proc[n].task
  BY Zenon
<1>3. row' = row \/ (StillMine(n, t) /\ \E r : row' = [row EXCEPT ![t] = r])
  <2>1. CASE CompleteTask(n)
    BY <1>2, <2>1, ZenonT(60) DEF CompleteTask
  <2>2. CASE FailTask(n)
    BY <1>2, <2>2, Zenon DEF FailTask
  <2> QED
    BY <2>1, <2>2, Zenon
<1>4. StillMine(n, t) /\ u = t
  BY <1>3, Zenon
<1> QED
  BY <1>1, <1>2, <1>4, Zenon

LEMMA LiveRow ==
  ASSUME LeasesSuffice, UniqueIds, TypeOK, WorkerHolds, [Next]_vars,
         NEW u \in Task, row[u].lease = "live", row'[u].lockedBy # row[u].lockedBy
  PROVE  \E n \in Process : EndedByProcessor(n, u) \/ EndedByWorker(n, u)
<1>t. row \in [Task -> Row] /\ tw \in [Process -> WorkerState]
  BY Zenon DEF TypeOK, TableTypeOK
<1>u. row[u].status = "processing" /\ row'[u] # row[u]
  BY Zenon DEF TypeOK, LockColumns
<1>1. CASE TableStep
  <2>1. ASSUME NEW t \in Task, EnqueueTask(t) \/ UpsertDrillRow(t) \/ BecomeDue(t)
        PROVE  FALSE
    BY <2>1, <1>t, <1>u, Zenon DEF EnqueueTask, UpsertDrillRow, BecomeDue
  <2>2. ASSUME NEW S \in SUBSET Task, ReplayDeadTasks(S) \/ PurgeOldTasks(S)
        PROVE  FALSE
    BY <2>2, <1>u, Zenon DEF ReplayDeadTasks, PurgeOldTasks, IsPurgeable
  <2> QED
    BY <1>1, <2>1, <2>2, Zenon DEF TableStep
<1>2. CASE \E t \in Task : LeaseExpires(t)
  BY <1>2, <1>t DEF LeaseExpires, Row
<1>3. ASSUME NEW n \in Process, ProcessorStep(n) \/ StopTaskWorker(n) \/ ResultLost(n)
      PROVE  EndedByProcessor(n, u)
  <2>1. CASE \E t \in Task : ClaimTask(n, t)
    BY <2>1, <1>t, <1>u, Zenon DEF ClaimTask, Claimable
  <2>2. CASE \/ StartHandler(n) \/ EndHandler(n) \/ StopTaskWorker(n) \/ ResultLost(n)
    BY <2>2, <1>u, Zenon DEF StartHandler, EndHandler, StopTaskWorker, ResultLost, tableVars
  <2>3. CASE HeartbeatExtend(n)
    BY <2>3, <1>t, Zenon DEF HeartbeatExtend, Row
  <2>4. CASE CompleteTask(n) \/ FailTask(n)
    <3>1. u = proc[n].task /\ StillMine(n, u) /\ proc[n].pc # "idle" /\ GoIdle(n)
      BY <2>4, <1>t, <1>u, ResultReaches, Zenon
    <3>2. proc'[n] # proc[n]
      <4>1. proc'[n] = IdleProcessor
        BY <3>1, Zenon DEF GoIdle, TypeOK
      <4>2. IdleProcessor.pc = "idle"
        BY Zenon DEF IdleProcessor
      <4> QED
        BY <3>1, <4>1, <4>2, Zenon
    <3> QED
      BY <3>1, <3>2, UniqueHolder, Zenon DEF EndedByProcessor
  <2>5. CASE ReleaseAbandonedTaskLock(n)
    <3>1. u = proc[n].task /\ StillMine(n, u) /\ proc[n].pc # "idle"
      BY <2>5, <1>t, <1>u, ZenonT(60) DEF ReleaseAbandonedTaskLock
    <3>2. stage'[n] # stage[n]
      BY <2>5, Zenon DEF ReleaseAbandonedTaskLock, TypeOK, TableTypeOK
    <3> QED
      BY <3>1, <3>2, UniqueHolder, Zenon DEF EndedByProcessor
  <2> QED
    BY <1>3, <2>1, <2>2, <2>3, <2>4, <2>5, Zenon DEF ProcessorStep
<1>4. ASSUME NEW n \in Process, WorkerStep(n) \/ MarkLost(n)
      PROVE  EndedByWorker(n, u)
  <2>1. ~Eligible(u) /\ ~Stale(u) /\ tw[n].pc # "picked"
    BY <1>u, Zenon DEF Eligible, Stale, WorkerHolds, SafeHands
  <2>2. CASE ReleaseStaleLocks(n)
    BY <2>1, <2>2, <1>t, <1>u, Zenon DEF ReleaseStaleLocks
  <2>3. CASE \E t \in Task : ClaimOne(n, t) \/ PickWinner(n, t)
    BY <2>1, <2>3, <1>t, <1>u, Zenon DEF ClaimOne, TakeRow, PickWinner, LeasesSuffice
  <2>4. CASE LockWinner(n) \/ NothingClaimed(n) \/ HandlerDone(n) \/ MarkLost(n)
    BY <2>1, <2>4, <1>u, ZenonT(60) DEF LockWinner, NothingClaimed, HandlerDone, MarkLost, tableVars
  <2>5. CASE ReleaseClaim(n) \/ MarkCompleted(n) \/ MarkFailed(n)
    <3>1. u = tw[n].task
      BY ZenonT(30), <2>5, <1>t, <1>u DEF ReleaseClaim, MarkCompleted, MarkFailed
    <3>2. InHand(n) /\ WorkerIdle(n)
      BY ZenonT(30), <2>5 DEF ReleaseClaim, MarkCompleted, MarkFailed, InHand
    <3>3. row[u].lockedBy = Worker(n)
      BY <3>1, <3>2, Zenon DEF WorkerHolds, SafeHands, Holds
    <3>4. tw'[n] # tw[n]
      BY <1>t, <3>2 DEF WorkerIdle, IdleWorker, InHand
    <3> QED
      BY <3>1, <3>3, <3>4, Zenon DEF EndedByWorker
  <2> QED
    BY ZenonT(30), <1>4, <2>2, <2>3, <2>4, <2>5 DEF WorkerStep
<1>5. ASSUME NEW n \in Process, Crash(n) \/ ExitAndRestart(n)
      PROVE  FALSE
  BY <1>5, <1>u, Zenon DEF Crash, ExitAndRestart, Reset, tableVars
<1>6. CASE UNCHANGED vars
  BY <1>6, <1>u, Zenon DEF vars
<1> QED
  BY ZenonT(30), <1>1, <1>2, <1>3, <1>4, <1>5, <1>6 DEF Next

(***************************************************************************)
(* LiveClaimEndsOnlyByHolder for every instance in which WORKER_ID tells   *)
(* processes apart and the leases of TaskWorker suffice.                   *)
(***************************************************************************)
THEOREM LiveClaimsAreTheirHolders ==
  ASSUME LeasesSuffice, UniqueIds PROVE Spec => LiveClaimEndsOnlyByHolder
<1> DEFINE A == \A t \in Task, n \in Process :
       /\ EndsClaim(t, Processor(n)) =>
            /\ proc[n].pc # "idle" /\ proc[n].task = t
            /\ proc'[n] # proc[n] \/ stage'[n] # stage[n]
       /\ EndsClaim(t, Worker(n)) => tw[n].task = t /\ tw'[n] # tw[n]
<1>1. TypeOK /\ WorkerHolds /\ [Next]_vars => A
  <2> SUFFICES ASSUME TypeOK, WorkerHolds, [Next]_vars, NEW t \in Task, NEW n \in Process
               PROVE  /\ EndsClaim(t, Processor(n)) =>
                           /\ proc[n].pc # "idle" /\ proc[n].task = t
                           /\ proc'[n] # proc[n] \/ stage'[n] # stage[n]
                      /\ EndsClaim(t, Worker(n)) => tw[n].task = t /\ tw'[n] # tw[n]
    BY Zenon
  <2>d. \A m \in Process : /\ Processor(m) = Processor(n) => m = n
                           /\ Worker(m) = Worker(n) => m = n
                           /\ Worker(m) # Processor(n) /\ Processor(m) # Worker(n)
    BY Zenon DEF Processor, Worker
  <2>1. ASSUME EndsClaim(t, Processor(n)) \/ EndsClaim(t, Worker(n))
        PROVE  \E m \in Process : EndedByProcessor(m, t) \/ EndedByWorker(m, t)
    BY <2>1, LiveRow, Zenon DEF EndsClaim
  <2> QED
    BY <2>d, <2>1, ZenonT(60) DEF EndsClaim, EndedByProcessor, EndedByWorker
<1>2. TypeOK /\ WorkerHolds /\ [Next]_vars => [A]_vars
  BY <1>1, Zenon
<1> QED
  BY <1>2, WorkerHoldsAlways, TypeCorrect, PTL DEF Spec, LiveClaimEndsOnlyByHolder
-----------------------------------------------------------------------------
(***************************************************************************)
(* Keys.  A row comes into being only by an INSERT: no UPDATE, guarded or  *)
(* not, revives a row that was purged or was never enqueued.               *)
(***************************************************************************)
LEMMA OnlyInsertsAppear ==
  ASSUME TypeOK, [Next]_vars, NEW u \in Task, ~Exists(u), Exists(u)'
  PROVE  TableStep /\ (EnqueueTask(u) \/ UpsertDrillRow(u))
<1>t. row \in [Task -> Row]
  BY Zenon DEF TypeOK, TableTypeOK
<1>u. row[u].status \in {"absent", "purged"} /\ row'[u] # row[u]
  BY Zenon DEF Exists
<1>1. CASE TableStep
  <2>1. ASSUME NEW t \in Task, t # u, EnqueueTask(t) \/ UpsertDrillRow(t)
        PROVE  FALSE
    BY <2>1, <1>t, <1>u, Zenon DEF EnqueueTask, UpsertDrillRow
  <2>2. ASSUME NEW t \in Task, BecomeDue(t)
        PROVE  FALSE
    BY <2>2, <1>t, <1>u, Zenon DEF BecomeDue
  <2>3. ASSUME NEW S \in SUBSET Task, ReplayDeadTasks(S)
        PROVE  FALSE
    BY <2>3, <1>u, Zenon DEF ReplayDeadTasks
  <2>4. ASSUME NEW S \in SUBSET Task, PurgeOldTasks(S)
        PROVE  FALSE
    BY <2>4, <1>u, Zenon DEF PurgeOldTasks, IsPurgeable
  <2> QED
    BY <1>1, <2>1, <2>2, <2>3, <2>4, Zenon DEF TableStep
<1>2. CASE \E t \in Task : LeaseExpires(t)
  BY <1>2, <1>t, <1>u, Zenon DEF LeaseExpires
<1>3. ASSUME NEW n \in Process, ProcessorStep(n) \/ StopTaskWorker(n) \/ ResultLost(n)
      PROVE  FALSE
  <2>1. CASE \E t \in Task : ClaimTask(n, t)
    BY <2>1, <1>t, <1>u, Zenon DEF ClaimTask, Claimable
  <2>2. CASE \/ StartHandler(n) \/ EndHandler(n) \/ StopTaskWorker(n) \/ ResultLost(n)
    BY <2>2, <1>u, Zenon DEF StartHandler, EndHandler, StopTaskWorker, ResultLost, tableVars
  <2>3. CASE HeartbeatExtend(n)
    <3>1. row[proc[n].task].status = "processing"
      BY <2>3, NoOneAssumption
      DEF HeartbeatExtend, LockedByMe, TypeOK, LockColumns, Actor, Processors
    <3> QED
      BY <2>3, <3>1, <1>t, <1>u, Zenon DEF HeartbeatExtend
  <2>4. CASE CompleteTask(n) \/ FailTask(n)
    BY <2>4, <1>t, <1>u, ResultReaches, Zenon DEF StillMine
  <2>5. CASE ReleaseAbandonedTaskLock(n)
    BY <2>5, <1>t, <1>u, Zenon DEF ReleaseAbandonedTaskLock, StillMine
  <2> QED
    BY <1>3, <2>1, <2>2, <2>3, <2>4, <2>5, ZenonT(60) DEF ProcessorStep
<1>4. ASSUME NEW n \in Process, WorkerStep(n) \/ MarkLost(n)
      PROVE  FALSE
  <2>1. CASE ReleaseStaleLocks(n)
    BY ZenonT(30), <2>1, <1>u DEF ReleaseStaleLocks, Stale
  <2>2. CASE \E t \in Task : ClaimOne(n, t)
    BY <2>2, <1>t, <1>u, Zenon DEF ClaimOne, Eligible, TakeRow
  <2>3. CASE \/ \E t \in Task : PickWinner(n, t)
             \/ NothingClaimed(n) \/ HandlerDone(n) \/ MarkLost(n)
    BY <2>3, <1>u, Zenon DEF PickWinner, NothingClaimed, HandlerDone, MarkLost, tableVars
  <2>4. CASE LockWinner(n)
    BY <2>4, <1>t, <1>u, Zenon DEF LockWinner, TakeRow, Exists
  <2>5. CASE ReleaseClaim(n)
    BY <2>5, <1>t, <1>u, Zenon DEF ReleaseClaim
  <2>6. CASE MarkCompleted(n) \/ MarkFailed(n)
    BY SMTT(30), <2>6, <1>t, <1>u DEF MarkCompleted, MarkFailed, Exists
  <2> QED
    BY <1>4, <2>1, <2>2, <2>3, <2>4, <2>5, <2>6, Zenon DEF WorkerStep
<1>5. ASSUME NEW n \in Process, Crash(n) \/ ExitAndRestart(n)
      PROVE  FALSE
  BY <1>5, <1>u, Zenon DEF Crash, ExitAndRestart, Reset, tableVars
<1>6. CASE UNCHANGED vars
  BY <1>6, <1>u, Zenon DEF vars
<1> QED
  BY <1>1, <1>2, <1>3, <1>4, <1>5, <1>6, Zenon DEF Next

(***************************************************************************)
(* OneRowPerKey for every instance: the unique key of enqueue_task holds   *)
(* over late results, steals, replays and purges, because none of them     *)
(* brings a purged row back next to the one that took over its key.        *)
(***************************************************************************)
THEOREM EnqueueIsIdempotent == Spec => []OneRowPerKey
<1>1. Init => OneRowPerKey
  BY DEF Init, TableInit, NoRow, Exists, OneRowPerKey
<1>2. TypeOK /\ OneRowPerKey /\ [Next]_vars => OneRowPerKey'
  <2> SUFFICES ASSUME TypeOK, OneRowPerKey, [Next]_vars,
                      NEW t \in Task, NEW u \in Task,
                      t # u, Exists(t)', Exists(u)', KeyOf[t] = KeyOf[u], KeyOf[t] # NoKey
               PROVE  FALSE
    BY ZenonT(60) DEF OneRowPerKey
  <2>t. row \in [Task -> Row]
    BY Zenon DEF TypeOK, TableTypeOK
  <2>1. ASSUME NEW a \in Task, NEW b \in Task, a # b, ~Exists(a), Exists(a)', Exists(b)',
               KeyOf[a] = KeyOf[b], KeyOf[a] # NoKey
        PROVE  FALSE
    <3>1. EnqueueTask(a)
      BY <2>1, OnlyInsertsAppear, DrillKeyAssumption, Zenon DEF UpsertDrillRow
    <3>2. row'[b] = row[b]
      BY <2>1, <2>t, <3>1, Zenon DEF EnqueueTask
    <3> QED
      BY <2>1, <3>1, <3>2, ZenonT(60) DEF EnqueueTask, KeyTaken, Exists
  <2>2. Exists(t) /\ Exists(u)
    BY <2>1, Zenon
  <2> QED
    BY <2>2, Zenon DEF OneRowPerKey
<1> QED
  BY <1>1, <1>2, TypeCorrect, PTL DEF Spec
-----------------------------------------------------------------------------
(***************************************************************************)
(* What the documentation says, as far as it holds.  Three of the runs     *)
(* that contradict it turn a switch on; with the switch off the statement  *)
(* is a theorem, so the switch is the whole reason.  The fourth            *)
(* (queue_crash_loop) needs only a crash; its excess is bounded below.     *)
(***************************************************************************)
NoPick == \A n \in Process : tw[n].pc # "picked"

LEMMA NoPickAlways == ASSUME ~ClaimRace PROVE Spec => []NoPick
<1>1. Init => NoPick
  BY DEF Init, IdleWorker, NoPick
<1>2. TypeOK /\ NoPick /\ [Next]_vars => NoPick'
  <2> SUFFICES ASSUME TypeOK, NoPick, [Next]_vars, NEW m \in Process, tw'[m].pc = "picked"
               PROVE  FALSE
    BY Zenon DEF NoPick
  <2>t. tw \in [Process -> WorkerState] /\ tw[m].pc # "picked"
    BY Zenon DEF TypeOK, NoPick
  <2>1. CASE UNCHANGED tw
    BY <2>1, <2>t, Zenon
  <2>2. ASSUME NEW n \in Process, Reset(n) PROVE FALSE
    BY <2>2, <2>t, Zenon DEF Reset, IdleWorker
  <2>3. ASSUME NEW n \in Process, WorkerIdle(n) PROVE FALSE
    BY <2>3, <2>t, Zenon DEF WorkerIdle, IdleWorker
  <2>4. ASSUME NEW n \in Process, ReleaseStaleLocks(n) \/ HandlerDone(n) PROVE FALSE
    BY <2>4, <2>t, ZenonT(60) DEF ReleaseStaleLocks, HandlerDone, WorkerState
  <2>5. ASSUME NEW n \in Process, NEW t \in Task, TakeRow(n, t) PROVE FALSE
    BY <2>5, <2>t DEF TakeRow
  <2>6. ASSUME NEW n \in Process, WorkerStep(n) \/ MarkLost(n) PROVE FALSE
    <3>1. ~LockWinner(n)
      BY Zenon DEF NoPick, LockWinner
    <3> QED
      BY <2>3, <2>4, <2>5, <2>6, <3>1, Zenon
      DEF WorkerStep, ClaimOne, PickWinner, NothingClaimed, ReleaseClaim, MarkCompleted,
          MarkFailed, MarkLost
  <2> QED
    BY <2>1, <2>2, <2>6, Zenon DEF Next, TableStep, LeaseExpires, Crash, ExitAndRestart, vars
<1> QED
  BY <1>1, <1>2, TypeCorrect, PTL DEF Spec

(***************************************************************************)
(* Only the claim statement of a TaskWorker writes its name into a row.    *)
(***************************************************************************)
LEMMA WorkerNameAppears ==
  ASSUME TypeOK, [Next]_vars, NEW u \in Task, NEW m \in Process,
         row'[u].lockedBy = Worker(m), row[u].lockedBy # Worker(m)
  PROVE  (\E t \in Task : ClaimOne(m, t) /\ t = u) \/ \E n \in Process : LockWinner(n)
<1>t. row \in [Task -> Row] /\ NoOne # Worker(m)
  BY NoOneAssumption DEF TypeOK, TableTypeOK, Actor, Workers
<1>w. \A n \in Process : Processor(n) # Worker(m) /\ (Worker(n) = Worker(m) => n = m)
  BY WorkersDiffer
<1>s. ASSUME row'[u] = row[u] PROVE FALSE
  BY <1>s, Zenon
<1>u. ASSUME NEW s, NEW d PROVE Unlocked(row[u], s, d).lockedBy = NoOne
  BY <1>t, Zenon DEF Unlocked, Row
<1>1. CASE TableStep
  <2>1. ASSUME NEW t \in Task, EnqueueTask(t) \/ UpsertDrillRow(t) \/ BecomeDue(t) PROVE FALSE
    BY <2>1, <1>t DEF EnqueueTask, UpsertDrillRow, BecomeDue, NoRow, Row
  <2>2. ASSUME NEW S \in SUBSET Task, ReplayDeadTasks(S) \/ PurgeOldTasks(S) PROVE FALSE
    BY <2>2, <1>t DEF ReplayDeadTasks, PurgeOldTasks, NoRow
  <2> QED
    BY <1>1, <2>1, <2>2, Zenon DEF TableStep
<1>2. CASE \E t \in Task : LeaseExpires(t)
  BY <1>2, <1>t DEF LeaseExpires, Row
<1>3. ASSUME NEW n \in Process, ProcessorStep(n) \/ StopTaskWorker(n) \/ ResultLost(n)
      PROVE  FALSE
  <2>1. ASSUME NEW t \in Task, ClaimTask(n, t) PROVE FALSE
    <3>1. CASE t # u
      BY <1>s, <1>t, <2>1, <3>1, Zenon DEF ClaimTask
    <3>2. CASE t = u
      BY <1>w, <2>1, <3>2, ClaimTaskEffect, Zenon
    <3> QED BY <3>1, <3>2, Zenon
  <2>2. CASE \/ StartHandler(n) \/ EndHandler(n) \/ StopTaskWorker(n) \/ ResultLost(n)
    BY <1>s, <2>2, Zenon DEF StartHandler, EndHandler, StopTaskWorker, ResultLost, tableVars
  <2>3. CASE HeartbeatExtend(n)
    BY <2>3, <1>t DEF HeartbeatExtend, Row
  <2>4. CASE CompleteTask(n)
    BY <2>4, <1>t DEF CompleteTask, Unlocked, Row
  <2>5. CASE FailTask(n)
    <3>1. row'[u] = row[u] \/ row'[u] = FailedRow(row[u], proc[n].attempts)
      BY <2>5, <1>t, Zenon DEF FailTask
    <3> QED
      BY <1>s, <1>u, <1>t, <3>1, Zenon DEF FailedRow
  <2>6. CASE ReleaseAbandonedTaskLock(n)
    BY <2>6, <1>t DEF ReleaseAbandonedTaskLock, RefundedRow, Unlocked, Row
  <2> QED
    BY <1>3, <2>1, <2>2, <2>3, <2>4, <2>5, <2>6, Zenon DEF ProcessorStep
<1>4. ASSUME NEW n \in Process, NEW t \in Task, ClaimOne(n, t)
      PROVE  n = m /\ t = u
  <2>1. row' = [row EXCEPT ![t] = Locked(row[t], Worker(n))]
    BY <1>4, Zenon DEF ClaimOne, TakeRow
  <2>2. t = u
    BY <1>s, <1>t, <2>1, Zenon
  <2>3. Locked(row[t], Worker(n)).lockedBy = Worker(n)
    BY <1>t, Zenon DEF Locked, Row
  <2> QED BY <1>t, <1>w, <2>1, <2>2, <2>3, Zenon
<1>5. ASSUME NEW n \in Process, WorkerStep(n) \/ MarkLost(n),
             ~LockWinner(n), ~\E t \in Task : ClaimOne(n, t)
      PROVE  FALSE
  <2>1. CASE ReleaseStaleLocks(n)
    BY <1>s, <1>t, <1>u, <2>1, Zenon DEF ReleaseStaleLocks
  <2>2. CASE \/ \E t \in Task : PickWinner(n, t)
             \/ NothingClaimed(n) \/ HandlerDone(n) \/ MarkLost(n)
    BY <1>s, <2>2, Zenon DEF PickWinner, NothingClaimed, HandlerDone, MarkLost, tableVars
  <2>3. CASE ReleaseClaim(n)
    BY <2>3, <1>t DEF ReleaseClaim, Unlocked, Row
  <2>4. CASE MarkCompleted(n)
    BY <2>4, <1>t DEF MarkCompleted, Unlocked, Row
  <2>5. CASE MarkFailed(n)
    <3>1. row'[u] = row[u] \/ row'[u] = MarkedRow(row[u], tw[n].attempts + 1)
      BY <2>5, <1>t, Zenon DEF MarkFailed
    <3>2. MarkedRow(row[u], tw[n].attempts + 1).lockedBy = NoOne
      BY <1>t, Zenon DEF MarkedRow, Unlocked, Row
    <3> QED
      BY <1>s, <1>t, <3>1, <3>2, Zenon
  <2> QED
    BY <1>5, <2>1, <2>2, <2>3, <2>4, <2>5, Zenon DEF WorkerStep
<1>6. ASSUME NEW n \in Process, Crash(n) \/ ExitAndRestart(n) PROVE FALSE
  BY <1>s, <1>6, Zenon DEF Crash, ExitAndRestart, Reset, tableVars
<1>7. CASE UNCHANGED vars
  BY <1>7, <1>s, Zenon DEF vars
<1> QED
  BY <1>1, <1>2, <1>3, <1>4, <1>5, <1>6, <1>7, Zenon DEF Next

(***************************************************************************)
(* ClaimsOnlyPending when the claim of a TaskWorker is one step: the       *)
(* comment of _claim_one fails by its snapshot alone (queue_claim_race).   *)
(***************************************************************************)
THEOREM AtomicClaimsTakePending == ASSUME ~ClaimRace PROVE Spec => ClaimsOnlyPending
<1>1. ASSUME TypeOK, NoPick, [Next]_vars
      PROVE  [\A t \in Task, n \in Process :
                row'[t].lockedBy = Worker(n) /\ row[t].lockedBy # Worker(n)
                  => row[t].status = "pending"]_vars
  <2>1. \A n \in Process : ~LockWinner(n)
    BY <1>1, Zenon DEF NoPick, LockWinner
  <2> QED
    BY <1>1, <2>1, WorkerNameAppears, Zenon DEF ClaimOne, Eligible
<1> QED
  BY <1>1, TypeCorrect, NoPickAlways, PTL DEF Spec, ClaimsOnlyPending
(***************************************************************************)
(* LateResultIgnored when WORKER_ID tells the processes apart: the comment *)
(* of stop_task_worker fails by a shared pid alone (queue_shared_pid).     *)
(***************************************************************************)
THEOREM UniqueIdsIgnoreLateResults == ASSUME UniqueIds PROVE Spec => LateResultIgnored
<1>1. ASSUME TypeOK, [Next]_vars, NEW m \in Process,
             proc[m].pc \in {"returned", "raised"}, proc'[m].pc = "idle",
             row[proc[m].task].lockedBy # Processor(m)
      PROVE  row' = row
  <2>t. proc \in [Process -> ProcState] /\ proc[m].pc # "idle" /\ proc[m].task \in Task
    BY <1>1, Zenon DEF TypeOK
  <2>m. ~StillMine(m, proc[m].task)
    BY <1>1, <2>t, UniqueHolder, Zenon
  <2>1. CASE UNCHANGED proc
    BY <2>1, <2>t, <1>1, Zenon
  <2>2. ASSUME NEW n \in Process, ProcessorStep(n) \/ ResultLost(n) PROVE row' = row
    <3>1. ASSUME NEW t \in Task, ClaimTask(n, t) PROVE FALSE
      BY <1>1, <2>t, <3>1, Zenon DEF ClaimTask
    <3>2. CASE StartHandler(n) \/ EndHandler(n) \/ ResultLost(n)
      BY <3>2, Zenon DEF StartHandler, EndHandler, ResultLost, tableVars
    <3>3. CASE HeartbeatExtend(n) \/ ReleaseAbandonedTaskLock(n)
      BY <2>1, <3>3, Zenon DEF HeartbeatExtend, ReleaseAbandonedTaskLock
    <3>4. CASE CompleteTask(n) \/ FailTask(n)
      <4>1. n = m
        BY <1>1, <2>t, <3>4, Zenon DEF CompleteTask, FailTask, GoIdle
      <4> QED
        BY <2>m, <3>4, <4>1, Zenon DEF CompleteTask, FailTask
    <3> QED
      BY <2>2, <3>1, <3>2, <3>3, <3>4, Zenon DEF ProcessorStep
  <2>3. ASSUME NEW n \in Process, Crash(n) \/ ExitAndRestart(n) PROVE row' = row
    BY <2>3, Zenon DEF Crash, ExitAndRestart, Reset, tableVars
  <2>4. CASE UNCHANGED vars
    BY <2>4, Zenon DEF vars
  <2> QED
    BY <1>1, <2>1, <2>2, <2>3, <2>4, Zenon
    DEF Next, TableStep, LeaseExpires, StopTaskWorker
<1>2. ASSUME TypeOK, [Next]_vars
      PROVE  [\A n \in Process :
                /\ proc[n].pc \in {"returned", "raised"} /\ proc'[n].pc = "idle"
                /\ row[proc[n].task].lockedBy # Processor(n)
                => row' = row]_vars
  BY <1>1, <1>2, Zenon
<1> QED
  BY <1>2, TypeCorrect, PTL DEF Spec, LateResultIgnored

(***************************************************************************)
(* ForeignClaimReleased when the table's row level security does not bind  *)
(* the worker's role: the module comment of task_queue.py fails by the     *)
(* unarmed transaction of _release_claim alone (queue_forced_rls).         *)
(***************************************************************************)
THEOREM VisibleForeignClaimsAreReleased ==
  ASSUME ~ForcedRls PROVE Spec => ForeignClaimReleased
<1>1. ASSUME TypeOK, [Next]_vars, NEW m \in Process,
             tw[m].pc = "foreign", tw'[m].pc = "idle",
             faults' = faults, stage' = stage, row[tw[m].task].lockedBy = Worker(m)
      PROVE  row'[tw[m].task].status = "pending"
  <2>t. /\ tw \in [Process -> WorkerState] /\ tw[m].task \in Task
        /\ tw[m].pc \notin {"idle", "polling", "picked", "running", "returned", "raised"}
        /\ row \in [Task -> Row] /\ LockColumns(row[tw[m].task]) /\ Worker(m) # NoOne
    BY <1>1, NoOneAssumption, Zenon DEF TypeOK, TableTypeOK, Actor, Workers
  <2>s. row[tw[m].task].status = "processing"
    BY <1>1, <2>t, Zenon DEF LockColumns
  <2>1. ASSUME tw'[m] = tw[m] PROVE FALSE
    BY <1>1, <2>t, <2>1, Zenon
  <2>2. ASSUME NEW n \in Process, Reset(n), Crash(n) \/ ExitAndRestart(n) PROVE FALSE
    <3>1. CASE Crash(n)
      <4>1. faults' = faults + 1 /\ faults' = faults /\ faults \in 0..MaxFaults
        BY <1>1, <3>1, Zenon DEF Crash, Fault, TypeOK
      <4> QED BY <4>1
    <3>2. CASE ExitAndRestart(n)
      <4>1. stage[n] = "stopped" /\ stage'[n] = "up" /\ stage' = stage
        BY <1>1, <3>2, Zenon DEF ExitAndRestart, Reset, TypeOK, TableTypeOK
      <4> QED BY <4>1, Zenon
    <3> QED BY <2>2, <3>1, <3>2, Zenon
  <2>3. ASSUME NEW n \in Process, WorkerStep(n) \/ MarkLost(n), n # m PROVE FALSE
    BY <2>1, <2>3, <2>t, Zenon
    DEF WorkerStep, ReleaseStaleLocks, ClaimOne, PickWinner, LockWinner, TakeRow, NothingClaimed,
        ReleaseClaim, HandlerDone, MarkCompleted, MarkFailed, MarkLost, WorkerIdle
  <2>4. CASE WorkerStep(m) \/ MarkLost(m)
    <3>1. ReleaseClaim(m)
      BY <2>4, <2>t, Zenon
      DEF WorkerStep, ReleaseStaleLocks, ClaimOne, PickWinner, LockWinner, NothingClaimed,
          HandlerDone, MarkCompleted, MarkFailed, MarkLost
    <3>2. row'[tw[m].task] = Unlocked(row[tw[m].task], "pending", FALSE)
      BY <1>1, <2>s, <2>t, <3>1, Zenon DEF ReleaseClaim
    <3> QED
      BY <2>t, <3>2 DEF Unlocked, Row
  <2> QED
    BY <1>1, <2>1, <2>2, <2>3, <2>4, Zenon
    DEF Next, TableStep, LeaseExpires, Crash, ExitAndRestart, vars
<1>2. ASSUME TypeOK, [Next]_vars
      PROVE  [\A n \in Process :
                /\ tw[n].pc = "foreign" /\ tw'[n].pc = "idle"
                /\ faults' = faults /\ stage' = stage
                /\ row[tw[n].task].lockedBy = Worker(n)
                => row'[tw[n].task].status = "pending"]_vars
  BY <1>1, <1>2, Zenon
<1> QED
  BY <1>2, TypeCorrect, PTL DEF Spec, ForeignClaimReleased

(***************************************************************************)
(* How far attempts may pass max_attempts.  The failures a processor row   *)
(* records stop at max_attempts, and a row that is not dead has one left:  *)
(* so the excess that queue_crash_loop shows is made of lost claims alone. *)
(***************************************************************************)
FailuresWithin ==
  \A t \in Task : TypeOf[t] \in HandlerTypes =>
    /\ failed[t] <= MaxAttempts
    /\ row[t].status # "dead" => failed[t] < MaxAttempts

Quiet(t) ==
  /\ failed'[t] = failed[t]
  /\ row[t].status = "dead" => row'[t].status = "dead"

Rejected(t) ==
  /\ row[t].status = "processing" /\ row[t].lockedBy \in Processors
  /\ failed'[t] = failed[t] + 1
  /\ row'[t].status = "dead" \/ row[t].attempts < MaxAttempts

LEMMA FailureFate ==
  ASSUME UniqueIds, TypeOK, SnapshotCurrent, NoPick, [Next]_vars,
         NEW u \in Task, TypeOf[u] \in HandlerTypes
  PROVE  Quiet(u) \/ failed'[u] = 0 \/ Rejected(u)
<1>t. row \in [Task -> Row] /\ failed \in [Task -> Nat]
  BY Zenon DEF TypeOK, TableTypeOK
<1>q. ASSUME UNCHANGED failed, row[u].status # "dead" \/ row'[u].status = row[u].status
      PROVE  Quiet(u)
  BY <1>q, Zenon DEF Quiet
<1>1. CASE TableStep
  <2>1. ASSUME NEW t \in Task, EnqueueTask(t) \/ UpsertDrillRow(t) \/ BecomeDue(t)
        PROVE  Quiet(u)
    BY <2>1, <1>t, Zenon DEF EnqueueTask, UpsertDrillRow, BecomeDue, NoRow, Quiet, Row
  <2>2. ASSUME NEW S \in SUBSET Task, ReplayDeadTasks(S) \/ PurgeOldTasks(S)
        PROVE  Quiet(u) \/ failed'[u] = 0
    BY <2>2, <1>t, Zenon DEF ReplayDeadTasks, PurgeOldTasks, Quiet
  <2> QED
    BY <1>1, <2>1, <2>2, Zenon DEF TableStep
<1>2. CASE \E t \in Task : LeaseExpires(t)
  BY <1>2, <1>t, Zenon DEF LeaseExpires, Quiet, Row
<1>3. ASSUME NEW n \in Process, ProcessorStep(n) \/ StopTaskWorker(n) \/ ResultLost(n)
      PROVE  Quiet(u) \/ Rejected(u)
  <2> DEFINE t == proc[n].task
  <2>1. ASSUME NEW v \in Task, ClaimTask(n, v) PROVE Quiet(u)
    <3>1. row[v].status # "dead"
      BY <2>1, Zenon DEF ClaimTask, Claimable
    <3> QED
      BY <1>q, <1>t, <2>1, <3>1, ZenonT(60) DEF ClaimTask
  <2>2. CASE \/ StartHandler(n) \/ EndHandler(n) \/ StopTaskWorker(n) \/ ResultLost(n)
    BY <1>q, <2>2, Zenon DEF StartHandler, EndHandler, StopTaskWorker, ResultLost, tableVars
  <2>3. CASE HeartbeatExtend(n)
    BY <2>3, <1>t, Zenon DEF HeartbeatExtend, Quiet, Row
  <2>d. StillMine(n, t) => row[t].status # "dead"
    BY Zenon DEF StillMine
  <2>4. CASE CompleteTask(n) \/ ReleaseAbandonedTaskLock(n)
    BY <1>q, <1>t, <2>4, <2>d, Zenon DEF CompleteTask, ReleaseAbandonedTaskLock
  <2>6. CASE FailTask(n)
    <3>1. CASE ~StillMine(n, t) \/ u # t
      BY <2>6, <3>1, <1>t, Zenon DEF FailTask, Quiet
    <3>2. CASE StillMine(n, t) /\ u = t
      <4>1. /\ row'[u] = FailedRow(row[u], proc[n].attempts)
            /\ failed'[u] = failed[u] + 1 /\ proc[n].pc # "idle"
        BY <1>t, <2>6, <3>2, Zenon DEF FailTask
      <4>2. row[u].lockedBy = Processor(n) /\ row[u].status = "processing"
        BY <3>2, UniqueHolder, Zenon DEF StillMine
      <4>3. proc[n].attempts = row[u].attempts /\ row[u].attempts \in Nat
        BY <1>t, <3>2, <4>1, <4>2, Zenon DEF SnapshotCurrent, Row
      <4>4. CASE proc[n].attempts >= MaxAttempts
        <5>1. row'[u].status = "dead"
          BY <1>t, <4>1, <4>4, Zenon DEF FailedRow, Unlocked, Row
        <5> QED
          BY <4>1, <4>2, <5>1, Zenon DEF Rejected, Processors
      <4>5. CASE ~(proc[n].attempts >= MaxAttempts)
        <5>1. row[u].attempts < MaxAttempts
          BY <4>3, <4>5, MaxAttemptsAssumption
        <5> QED
          BY <4>1, <4>2, <5>1, Zenon DEF Rejected, Processors
      <4> QED
        BY <4>4, <4>5, Zenon
    <3> QED
      BY <3>1, <3>2, Zenon
  <2> QED
    BY <1>3, <2>1, <2>2, <2>3, <2>4, <2>6, Zenon DEF ProcessorStep
<1>4. ASSUME NEW n \in Process, WorkerStep(n) \/ MarkLost(n)
      PROVE  Quiet(u)
  <2>1. CASE ReleaseStaleLocks(n)
    <3>1. Stale(u) => row[u].status # "dead"
      BY Zenon DEF Stale
    <3> QED
      BY <1>q, <2>1, <3>1, Zenon DEF ReleaseStaleLocks
  <2>2. ASSUME NEW t \in Task, ClaimOne(n, t) PROVE Quiet(u)
    <3>1. row[t].status # "dead"
      BY <2>2, Zenon DEF ClaimOne, Eligible
    <3> QED
      BY <1>q, <1>t, <2>2, <3>1, Zenon DEF ClaimOne, TakeRow
  <2>3. CASE LockWinner(n)
    BY <2>3, Zenon DEF LockWinner, NoPick
  <2>4. CASE \/ \E t \in Task : PickWinner(n, t)
             \/ NothingClaimed(n) \/ HandlerDone(n) \/ MarkLost(n)
    BY <1>q, <2>4, Zenon DEF PickWinner, NothingClaimed, HandlerDone, MarkLost, tableVars
  <2>5. CASE ReleaseClaim(n)
    <3>1. row[tw[n].task].status = "processing" => row[tw[n].task].status # "dead"
      BY Zenon
    <3> QED
      BY <1>q, <1>t, <2>5, <3>1, Zenon DEF ReleaseClaim
  <2>6. CASE MarkCompleted(n) \/ MarkFailed(n)
    <3>1. u # tw[n].task
      BY <2>6, TypesAssumption, Zenon DEF TypeOK, MarkCompleted, MarkFailed
    <3> QED
      BY <1>t, <2>6, <3>1, ZenonT(60) DEF MarkCompleted, MarkFailed, Quiet
  <2> QED
    BY <1>4, <2>1, <2>2, <2>3, <2>4, <2>5, <2>6, Zenon DEF WorkerStep
<1>5. ASSUME NEW n \in Process, Crash(n) \/ ExitAndRestart(n)
      PROVE  Quiet(u)
  BY <1>q, <1>5, Zenon DEF Crash, ExitAndRestart, Reset, tableVars
<1>6. CASE UNCHANGED vars
  BY <1>6, Zenon DEF vars, Quiet
<1> QED
  BY <1>1, <1>2, <1>3, <1>4, <1>5, <1>6, Zenon DEF Next

(***************************************************************************)
(* "after max_attempts the row goes to status dead" (queue_crash_loop),    *)
(* as far as it holds: attempts pass max_attempts by one for each claim    *)
(* that a crash, an overrun or a theft took away, and by nothing else.     *)
(***************************************************************************)
ExcessIsLost ==
  \A t \in Task : TypeOf[t] \in HandlerTypes =>
    row[t].attempts <= MaxAttempts + lost[t]

(***************************************************************************)
(* ExcessIsLost when WORKER_IDs differ and the claim is one step: attempts *)
(* pass max_attempts only by claims that a crash, an overrun or a theft    *)
(* took away, one for each.                                                *)
(***************************************************************************)
THEOREM ExcessAttemptsAreLost ==
  ASSUME UniqueIds, ~ClaimRace PROVE Spec => []ExcessIsLost
<1>1. Init => FailuresWithin
  BY MaxAttemptsAssumption DEF Init, TableInit, FailuresWithin
<1>2. ASSUME TypeOK, SnapshotCurrent, NoPick, AttemptsAccounted, FailuresWithin, [Next]_vars
      PROVE  FailuresWithin'
  <2> SUFFICES ASSUME NEW u \in Task, TypeOf[u] \in HandlerTypes
               PROVE  /\ failed'[u] <= MaxAttempts
                      /\ row'[u].status # "dead" => failed'[u] < MaxAttempts
    BY Zenon DEF FailuresWithin
  <2>n. /\ failed[u] \in Nat /\ lost[u] \in Nat /\ row[u].attempts \in Nat
    BY <1>2, Zenon DEF TypeOK, TableTypeOK, Row
  <2>f. failed[u] <= MaxAttempts /\ (row[u].status # "dead" => failed[u] < MaxAttempts)
    BY <1>2, Zenon DEF FailuresWithin
  <2>1. CASE Quiet(u)
    BY <2>1, <2>f, Zenon DEF Quiet
  <2>2. CASE failed'[u] = 0
    BY <2>2, MaxAttemptsAssumption
  <2>3. CASE Rejected(u)
    <3>1. row[u].status # "dead" /\ OpenClaim(u)
      BY <2>3, Zenon DEF Rejected, OpenClaim
    <3>2. row[u].attempts = failed[u] + lost[u] + 1
      BY <1>2, <3>1, Zenon DEF AttemptsAccounted
    <3> QED
      BY <2>3, <2>n, <2>f, <3>1, <3>2, MaxAttemptsAssumption DEF Rejected
  <2> QED
    BY <1>2, <2>1, <2>2, <2>3, FailureFate, Zenon
<1>3. ASSUME TypeOK, AttemptsAccounted, FailuresWithin PROVE ExcessIsLost
  <2> SUFFICES ASSUME NEW u \in Task, TypeOf[u] \in HandlerTypes
               PROVE  row[u].attempts <= MaxAttempts + lost[u]
    BY Zenon DEF ExcessIsLost
  <2>n. /\ failed[u] \in Nat /\ lost[u] \in Nat
    BY <1>3, Zenon DEF TypeOK, TableTypeOK
  <2>1. failed[u] <= MaxAttempts /\ (row[u].status # "dead" => failed[u] < MaxAttempts)
    BY <1>3, Zenon DEF FailuresWithin
  <2>2. OpenClaim(u) => row[u].status # "dead"
    BY Zenon DEF OpenClaim
  <2>3. row[u].attempts = failed[u] + lost[u] + IF OpenClaim(u) THEN 1 ELSE 0
    BY <1>3, Zenon DEF AttemptsAccounted
  <2> QED
    BY <2>n, <2>1, <2>2, <2>3, MaxAttemptsAssumption
<1>4. Init => SnapshotCurrent
  BY DEF Init, IdleProcessor, SnapshotCurrent
<1>5. ASSUME TypeOK, SnapshotCurrent, [Next]_vars PROVE SnapshotCurrent'
  BY <1>5, SnapshotStep, Zenon
<1> QED
  BY <1>1, <1>2, <1>3, <1>4, <1>5, TypeCorrect, NoPickAlways, AttemptsAreAccounted, PTL DEF Spec
=============================================================================

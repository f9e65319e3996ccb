------------------------------ MODULE TaskTable ------------------------------
(***************************************************************************)
(* The table fsma.task_queue, on which two different workers poll, and the *)
(* operations on it that belong to neither: enqueueing, the replay of dead *)
(* rows by an operator and the retention purge of the scheduler.           *)
(*                                                                         *)
(* Time is abstracted to what the SQL compares it with: "lease" says       *)
(* whether locked_until lies in the future ("live") or in the past         *)
(* ("expired"), "due" whether scheduled_at <= NOW().  The order in which a *)
(* claim scans the eligible rows (scheduled_at, priority, created_at) is   *)
(* left open: SKIP LOCKED lets a claim take any eligible row.              *)
(***************************************************************************)
EXTENDS Naturals

CONSTANTS
  Task,             \* the ids BIGSERIAL hands out
  Process,          \* the gunicorn worker processes, over all replicas
  NoOne,            \* locked_by IS NULL
  TypeOf,           \* the task_type a row is enqueued with
  KeyOf,            \* its (tenant_id, idempotency_key), or NoKey
  NoKey,
  HandlerTypes,     \* task_processor.TASK_HANDLERS
  RegisteredTypes,  \* task_queue.TASK_HANDLERS, filled by server/main.py
  Purgeable,        \* task_types.PURGEABLE_TASK_TYPES
  Protected,        \* task_types.NON_WORKER_TASK_TYPES
  MaxAttempts       \* the column max_attempts

(***************************************************************************)
(* Every process runs one thread of each worker: a lock is taken by the    *)
(* process's task_processor or by its TaskWorker.                          *)
(***************************************************************************)
Processor(n) == <<"processor", n>>
Worker(n) == <<"worker", n>>
Processors == {Processor(n) : n \in Process}
Workers == {Worker(n) : n \in Process}
Actor == Processors \cup Workers

ASSUME NoOneAssumption == NoOne \notin Actor
ASSUME MaxAttemptsAssumption == MaxAttempts \in Nat \ {0}

(***************************************************************************)
(* The two registries are disjoint and no handler exists for an evidence   *)
(* type; task_types.py raises at import when a type is both purgeable and  *)
(* protected.                                                              *)
(***************************************************************************)
ASSUME TypesAssumption ==
  /\ HandlerTypes \cap RegisteredTypes = {}
  /\ Protected \cap (HandlerTypes \cup RegisteredTypes \cup Purgeable) = {}

\* the INSERT of _upsert_drill_row gives no idempotency_key
ASSUME DrillKeyAssumption == \A t \in Task : TypeOf[t] \in Protected => KeyOf[t] = NoKey

VARIABLES
  row,     \* the table
  failed,  \* history: handler failures recorded in the row since it was
           \* enqueued or replayed
  lost,    \* history: claims of the processor that ended without a result
  stage    \* lifecycle of each process: "up", "draining", "stopped"

tableVars == <<row, failed, lost>>

Status == {"absent", "pending", "processing", "completed", "dead", "purged"}

Row == [status : Status, lockedBy : Actor \cup {NoOne},
        lease : {"none", "live", "expired"}, due : BOOLEAN, attempts : Nat]

NoRow(s) == [status |-> s, lockedBy |-> NoOne, lease |-> "none",
             due |-> FALSE, attempts |-> 0]

TableInit ==
  /\ row = [t \in Task |-> NoRow("absent")]
  /\ failed = [t \in Task |-> 0]
  /\ lost = [t \in Task |-> 0]
  /\ stage = [n \in Process |-> "up"]

(***************************************************************************)
(* The two assignments every UPDATE of the table is made of: take the lock *)
(* columns, or clear them while the status moves on.                       *)
(***************************************************************************)
Locked(r, a) ==
  [r EXCEPT !.status = "processing", !.lockedBy = a, !.lease = "live"]

Unlocked(r, s, d) ==
  [r EXCEPT !.status = s, !.lockedBy = NoOne, !.lease = "none", !.due = d]

Exists(t) == row[t].status \notin {"absent", "purged"}

(***************************************************************************)
(* A row the processor has claimed and whose claim has not been settled,   *)
(* or that it completed: its last increment of attempts is still open.     *)
(***************************************************************************)
OpenClaim(t) ==
  /\ TypeOf[t] \in HandlerTypes
  /\ \/ row[t].status = "processing" /\ row[t].lockedBy \in Processors
     \/ row[t].status = "completed"

(***************************************************************************)
(* enqueue_task: INSERT ... ON CONFLICT (tenant_id, idempotency_key) DO    *)
(* NOTHING.  On a conflict the id of the existing row is returned and      *)
(* nothing changes.  scheduled_at may lie in the future.                   *)
(***************************************************************************)
MutKeyTakenPendingOnly(t) ==
  /\ KeyOf[t] # NoKey
  /\ \E u \in Task \ {t} : row[u].status = "pending" /\ KeyOf[u] = KeyOf[t]

KeyTaken(t) ==
  /\ KeyOf[t] # NoKey
  /\ \E u \in Task \ {t} : Exists(u) /\ KeyOf[u] = KeyOf[t]

EnqueueTask(t) ==
  /\ row[t].status = "absent"
  /\ TypeOf[t] \notin Protected
  /\ ~KeyTaken(t)
  /\ \E d \in BOOLEAN :
       row' = [row EXCEPT ![t] = [NoRow("pending") EXCEPT !.due = d]]
  /\ UNCHANGED <<failed, lost, stage>>

(***************************************************************************)
(* _upsert_drill_row: a recall drill is evidence that lives in the queue   *)
(* table with status 'completed', so that no worker takes it.              *)
(***************************************************************************)
UpsertDrillRow(t) ==
  /\ row[t].status = "absent"
  /\ TypeOf[t] \in Protected
  /\ row' = [row EXCEPT ![t] = NoRow("completed")]
  /\ UNCHANGED <<failed, lost, stage>>

(***************************************************************************)
(* replay_dead_tasks: one transaction resets the chosen dead rows.         *)
(***************************************************************************)
ReplayDeadTasks(S) ==
  /\ S # {}
  /\ \A t \in S : row[t].status = "dead"
  /\ row' = [t \in Task |-> IF t \in S THEN [NoRow("pending") EXCEPT !.due = TRUE]
                                       ELSE row[t]]
  /\ failed' = [t \in Task |-> IF t \in S THEN 0 ELSE failed[t]]
  /\ lost' = [t \in Task |-> IF t \in S THEN 0 ELSE lost[t]]
  /\ UNCHANGED stage

(***************************************************************************)
(* purge_old_tasks: one DELETE of the terminal rows of a purgeable type    *)
(* that are older than 30 days (any of them may be).                       *)
(***************************************************************************)
MutIsPurgeableAnyType(t) == row[t].status \in {"completed", "dead"}

IsPurgeable(t) ==
  /\ row[t].status \in {"completed", "dead"}
  /\ TypeOf[t] \in Purgeable
  /\ TypeOf[t] \notin Protected

PurgeOldTasks(S) ==
  /\ S # {}
  /\ \A t \in S : IsPurgeable(t)
  /\ row' = [t \in Task |-> IF t \in S THEN NoRow("purged") ELSE row[t]]
  /\ failed' = [t \in Task |-> IF t \in S THEN 0 ELSE failed[t]]
  /\ lost' = [t \in Task |-> IF t \in S THEN 0 ELSE lost[t]]
  /\ UNCHANGED stage

(***************************************************************************)
(* The clock passes scheduled_at.                                          *)
(***************************************************************************)
BecomeDue(t) ==
  /\ row[t].status = "pending" /\ ~row[t].due
  /\ row' = [row EXCEPT ![t].due = TRUE]
  /\ UNCHANGED <<failed, lost, stage>>

TableTypeOK ==
  /\ row \in [Task -> Row]
  /\ failed \in [Task -> Nat]
  /\ lost \in [Task -> Nat]
  /\ stage \in [Process -> {"up", "draining", "stopped"}]
=============================================================================

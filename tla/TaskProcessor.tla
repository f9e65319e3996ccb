---------------------------- MODULE TaskProcessor ----------------------------
(***************************************************************************)
(* server/workers/task_processor.py: the daemon thread that claims a row,  *)
(* runs its handler under a heartbeat and records the outcome.  Every      *)
(* UPDATE after the claim carries "locked_by = :worker", where :worker is  *)
(* WORKER_ID, "worker-<pid>".                                              *)
(***************************************************************************)
EXTENDS TaskTable

CONSTANTS
  LockId,       \* WORKER_ID of a process: a pid, which replicas may share
  AttemptsCap   \* bound of the model: no claim beyond this many attempts

VARIABLE proc   \* per process: where its loop is, the claim it works on

NoTask == "no task"

IdleProcessor == [pc |-> "idle", task |-> NoTask, attempts |-> 0]

ProcState == [pc : {"idle", "claimed", "running", "returned", "raised"},
              task : Task \cup {NoTask}, attempts : Nat]

(***************************************************************************)
(* WHERE id = :id AND locked_by = :worker: the database compares ids, not  *)
(* processes.                                                              *)
(***************************************************************************)
LockedByMe(n, t) ==
  \E m \in Process : row[t].lockedBy = Processor(m) /\ LockId[m] = LockId[n]

MutStillMineById(n, t) == Exists(t)

StillMine(n, t) == row[t].status = "processing" /\ LockedByMe(n, t)

GoIdle(n) == proc' = [proc EXCEPT ![n] = IdleProcessor]

(***************************************************************************)
(* _claim_task / _execute_claim: one UPDATE takes a due row, or steals one *)
(* whose lock expired, and counts the attempt at once.                     *)
(***************************************************************************)
MutClaimableLive(t) ==
  /\ TypeOf[t] \in HandlerTypes
  /\ (row[t].status = "pending" /\ row[t].due) \/ row[t].status = "processing"

Claimable(t) ==
  /\ TypeOf[t] \in HandlerTypes
  /\ \/ row[t].status = "pending" /\ row[t].due
     \/ row[t].status = "processing" /\ row[t].lease = "expired"

ClaimedRow(r, n) ==
  [Locked(r, Processor(n)) EXCEPT !.attempts = r.attempts + 1]

ClaimTask(n, t) ==
  /\ proc[n].pc = "idle" /\ stage[n] = "up"
  /\ Claimable(t)
  /\ row[t].attempts < AttemptsCap
  /\ row' = [row EXCEPT ![t] = ClaimedRow(row[t], n)]
  /\ proc' = [proc EXCEPT ![n] = [pc |-> "claimed", task |-> t,
                                  attempts |-> row[t].attempts + 1]]
  /\ lost' = [lost EXCEPT ![t] = @ + IF OpenClaim(t) THEN 1 ELSE 0]
  /\ UNCHANGED <<failed, stage>>

(***************************************************************************)
(* _run_handler_with_heartbeat: start the heartbeat, publish the in-flight *)
(* marker, call the handler.  "running" is the span in which the marker is *)
(* set; it is cleared when the handler returns or raises.                  *)
(***************************************************************************)
StartHandler(n) ==
  /\ proc[n].pc = "claimed"
  /\ proc' = [proc EXCEPT ![n].pc = "running"]
  /\ UNCHANGED <<tableVars, stage>>

EndHandler(n) ==
  /\ proc[n].pc = "running"
  /\ \E outcome \in {"returned", "raised"} :
       proc' = [proc EXCEPT ![n].pc = outcome]
  /\ UNCHANGED <<tableVars, stage>>

(***************************************************************************)
(* _heartbeat_extend, from the heartbeat thread.  When no row matches, the *)
(* thread exits and nothing changes.                                       *)
(***************************************************************************)
MutHeartbeatExtendAnyRow(n) ==
  /\ proc[n].pc = "running"
  /\ row' = [row EXCEPT ![proc[n].task].lease = "live"]
  /\ UNCHANGED <<proc, failed, lost, stage>>

HeartbeatExtend(n) ==
  /\ proc[n].pc = "running"
  /\ LockedByMe(n, proc[n].task)
  /\ row' = [row EXCEPT ![proc[n].task].lease = "live"]
  /\ UNCHANGED <<proc, failed, lost, stage>>

(***************************************************************************)
(* _complete_task: a completion whose lock is gone matches no row.         *)
(***************************************************************************)
CompleteTask(n) ==
  /\ proc[n].pc = "returned"
  /\ GoIdle(n)
  /\ row' = IF StillMine(n, proc[n].task)
              THEN [row EXCEPT ![proc[n].task] = Unlocked(@, "completed", @.due)]
              ELSE row
  /\ UNCHANGED <<failed, lost, stage>>

(***************************************************************************)
(* _fail_task_inner: dead when the attempts of the claim are used up, else *)
(* pending with scheduled_at in the future.                                *)
(***************************************************************************)
MutFailedRowTooSoon(r, attempts) ==
  IF attempts + 1 >= MaxAttempts THEN Unlocked(r, "dead", r.due)
                                 ELSE Unlocked(r, "pending", FALSE)

FailedRow(r, attempts) ==
  IF attempts >= MaxAttempts THEN Unlocked(r, "dead", r.due)
                             ELSE Unlocked(r, "pending", FALSE)

FailTask(n) ==
  LET t == proc[n].task IN
  /\ proc[n].pc = "raised"
  /\ GoIdle(n)
  /\ \/ /\ StillMine(n, t)
        /\ row' = [row EXCEPT ![t] = FailedRow(@, proc[n].attempts)]
        /\ failed' = [failed EXCEPT ![t] = @ + 1]
     \/ ~StillMine(n, t) /\ UNCHANGED <<row, failed>>
  /\ UNCHANGED <<lost, stage>>

(***************************************************************************)
(* The UPDATE itself fails: _worker_loop logs it and polls on, and the row *)
(* keeps its lock until locked_until passes.                               *)
(***************************************************************************)
ResultLost(n) ==
  /\ proc[n].pc \in {"returned", "raised"}
  /\ GoIdle(n)
  /\ UNCHANGED <<tableVars, stage>>

(***************************************************************************)
(* stop_task_worker, first half: the shutdown event.  No claim follows.    *)
(***************************************************************************)
StopTaskWorker(n) ==
  /\ stage[n] = "up"
  /\ stage' = [stage EXCEPT ![n] = "draining"]
  /\ UNCHANGED <<tableVars, proc>>

(***************************************************************************)
(* stop_task_worker, second half: after the join, a handler that is still  *)
(* in flight has its row handed back and its attempt refunded              *)
(* (_release_abandoned_task_lock).  The handler itself runs on.            *)
(***************************************************************************)
MutRefundedRowKeepsAttempts(r) == Unlocked(r, "pending", r.due)

RefundedRow(r) ==
  [Unlocked(r, "pending", r.due) EXCEPT
     !.attempts = IF r.attempts > 0 THEN r.attempts - 1 ELSE 0]

ReleaseAbandonedTaskLock(n) ==
  LET t == proc[n].task IN
  /\ stage[n] = "draining"
  /\ stage' = [stage EXCEPT ![n] = "stopped"]
  /\ row' = IF proc[n].pc = "running" /\ StillMine(n, t)
              THEN [row EXCEPT ![t] = RefundedRow(row[t])]
              ELSE row
  /\ UNCHANGED <<proc, failed, lost>>

ProcessorStep(n) ==
  \/ \E t \in Task : ClaimTask(n, t)
  \/ StartHandler(n)
  \/ EndHandler(n)
  \/ HeartbeatExtend(n)
  \/ CompleteTask(n)
  \/ FailTask(n)
  \/ ReleaseAbandonedTaskLock(n)
=============================================================================

------------------------------ MODULE TaskQueue ------------------------------
(***************************************************************************)
(* The background work of the monolith: every process started by           *)
(* server/main.py runs a task_processor thread and a TaskWorker thread     *)
(* over one table, next to the request handlers that enqueue, the operator *)
(* who replays and the scheduler that purges.                              *)
(***************************************************************************)
EXTENDS TaskProcessor, TaskWorker

CONSTANTS
  MayOverrun,  \* the kinds of worker whose handler may outlive its lease
  MaxFaults    \* bound of the model: crashes, shutdowns and lost results

ASSUME FaultsAssumption == MaxFaults \in Nat

VARIABLE faults

vars == <<row, failed, lost, stage, proc, tw, faults>>

Init ==
  /\ TableInit
  /\ proc = [n \in Process |-> IdleProcessor]
  /\ tw = [n \in Process |-> IdleWorker]
  /\ faults = 0

(***************************************************************************)
(* The holder of the lock on t is working on it.                           *)
(***************************************************************************)
ProcessorAtWork(t) ==
  \E n \in Process : /\ row[t].lockedBy = Processor(n)
                     /\ proc[n].pc # "idle" /\ proc[n].task = t

WorkerAtWork(t) ==
  \E n \in Process : /\ row[t].lockedBy = Worker(n)
                     /\ tw[n].pc \notin {"idle", "polling", "picked"}
                     /\ tw[n].task = t

(***************************************************************************)
(* The clock passes locked_until.  A lease runs out because its holder is  *)
(* gone, or because a handler outlives it (or its heartbeat stalls).       *)
(***************************************************************************)
LeaseExpires(t) ==
  /\ row[t].status = "processing" /\ row[t].lease = "live"
  /\ "processor" \notin MayOverrun => ~ProcessorAtWork(t)
  /\ "worker" \notin MayOverrun => ~WorkerAtWork(t)
  /\ row' = [row EXCEPT ![t].lease = "expired"]
  /\ UNCHANGED <<failed, lost, stage, proc, tw, faults>>

Fault == faults < MaxFaults /\ faults' = faults + 1

(***************************************************************************)
(* A process dies, or exits once its shutdown is done, and is started      *)
(* again: both threads are back at the top of their loops, the table is    *)
(* untouched.                                                              *)
(***************************************************************************)
Reset(n) ==
  /\ stage' = [stage EXCEPT ![n] = "up"]
  /\ proc' = [proc EXCEPT ![n] = IdleProcessor]
  /\ tw' = [tw EXCEPT ![n] = IdleWorker]
  /\ UNCHANGED tableVars

Crash(n) == Fault /\ Reset(n)

ExitAndRestart(n) == stage[n] = "stopped" /\ Reset(n) /\ UNCHANGED faults

TableStep ==
  /\ \/ \E t \in Task : EnqueueTask(t) \/ UpsertDrillRow(t) \/ BecomeDue(t)
     \/ \E S \in SUBSET Task : ReplayDeadTasks(S) \/ PurgeOldTasks(S)
  /\ UNCHANGED <<proc, tw, faults>>

Next ==
  \/ TableStep
  \/ \E t \in Task : LeaseExpires(t)
  \/ \E n \in Process :
       \/ ProcessorStep(n) /\ UNCHANGED <<tw, faults>>
       \/ WorkerStep(n) /\ UNCHANGED <<proc, faults>>
       \/ StopTaskWorker(n) /\ Fault /\ UNCHANGED tw
       \/ ResultLost(n) /\ Fault /\ UNCHANGED tw
       \/ MarkLost(n) /\ Fault /\ UNCHANGED proc
       \/ Crash(n)
       \/ ExitAndRestart(n)

Spec == Init /\ [][Next]_vars

-----------------------------------------------------------------------------
(***************************************************************************)
(* Fairness.  A loop that can take its next step takes it; a handler ends; *)
(* clocks advance; a process whose shutdown is done is replaced.  A claim  *)
(* is strongly fair: a due row can be taken away by the other worker for a *)
(* while, but the processor polls twice a second while a TaskWorker that   *)
(* met a foreign row sleeps two seconds, and a TaskWorker takes the oldest *)
(* best row.                                                               *)
(***************************************************************************)
Fairness ==
  /\ \A n \in Process :
       /\ WF_vars((StartHandler(n) \/ EndHandler(n) \/ CompleteTask(n) \/ FailTask(n))
                   /\ UNCHANGED <<tw, faults>>)
       /\ WF_vars(ReleaseAbandonedTaskLock(n) /\ UNCHANGED <<tw, faults>>)
       /\ WF_vars(ExitAndRestart(n))
       /\ WF_vars((ReleaseStaleLocks(n) \/ NothingClaimed(n) \/ LockWinner(n)
                    \/ ReleaseClaim(n) \/ HandlerDone(n) \/ MarkCompleted(n)
                    \/ MarkFailed(n)) /\ UNCHANGED <<proc, faults>>)
  /\ \A t \in Task :
       /\ WF_vars(BecomeDue(t) /\ UNCHANGED <<proc, tw, faults>>)
       /\ WF_vars(LeaseExpires(t))
       /\ SF_vars(\E n \in Process : ClaimTask(n, t) /\ UNCHANGED <<tw, faults>>)
       /\ SF_vars(\E n \in Process : ClaimOne(n, t) /\ UNCHANGED <<proc, faults>>)

FairSpec == Spec /\ Fairness
-----------------------------------------------------------------------------
(***************************************************************************)
(* Types, and the shape every UPDATE keeps: the lock columns are set       *)
(* exactly while a row is processing.                                      *)
(***************************************************************************)
LockColumns(r) ==
  /\ r.status = "processing" <=> r.lockedBy # NoOne
  /\ r.status = "processing" <=> r.lease # "none"

TypeOK ==
  /\ TableTypeOK
  /\ proc \in [Process -> ProcState]
  /\ \A n \in Process : proc[n].pc # "idle" =>
       proc[n].task \in Task /\ TypeOf[proc[n].task] \in HandlerTypes
  /\ tw \in [Process -> WorkerState]
  /\ \A n \in Process : /\ tw[n].pc \notin {"idle", "polling"} => tw[n].task \in Task
                        /\ tw[n].pc \in {"running", "returned", "raised"} =>
                             TypeOf[tw[n].task] \in RegisteredTypes
                        /\ tw[n].pc = "foreign" =>
                             TypeOf[tw[n].task] \notin RegisteredTypes
  /\ faults \in 0..MaxFaults
  /\ \A t \in Task : LockColumns(row[t])

(***************************************************************************)
(* Every unit of attempts of a processor row is paid for: by a failure its *)
(* handler reported and the row recorded, by a claim that was lost (crash, *)
(* overrun, theft), or by the claim in progress.  A graceful hand-over at  *)
(* shutdown costs nothing: _release_abandoned_task_lock refunds exactly    *)
(* what _execute_claim charged, however steals, heartbeats, stale-lock     *)
(* releases and foreign claims interleave with it.                         *)
(***************************************************************************)
AttemptsAccounted ==
  \A t \in Task : TypeOf[t] \in HandlerTypes =>
    row[t].attempts = failed[t] + lost[t] + IF OpenClaim(t) THEN 1 ELSE 0

(***************************************************************************)
(* "dead" means that a handler rejected the row and that its attempts are  *)
(* used up, never that the wrong worker saw it first (_fail_task_inner,    *)
(* _mark_failed, _dispatch).                                               *)
(***************************************************************************)
DeadMeansExhausted ==
  \A t \in Task : row[t].status = "dead" =>
    row[t].attempts >= MaxAttempts /\ failed[t] > 0

(***************************************************************************)
(* A recall drill parked in the table by _upsert_drill_row is never        *)
(* touched again: no claim, no stale release, no replay, no purge.         *)
(***************************************************************************)
EvidenceKept ==
  [][\A t \in Task : TypeOf[t] \in Protected /\ row[t].status = "completed"
       => row'[t] = row[t]]_vars

(***************************************************************************)
(* An outcome is final: a completed row only ever disappears in the purge, *)
(* a dead one only there or in a replay, which starts at zero attempts     *)
(* (_complete_task, _fail_task_inner, _mark_completed, _mark_dead against  *)
(* late results of workers that lost the row).                             *)
(***************************************************************************)
OutcomeFinal ==
  [][\A t \in Task :
       /\ row[t].status = "completed" => row'[t].status \in {"completed", "purged"}
       /\ row[t].status = "dead" =>
            \/ row'[t].status \in {"dead", "purged"}
            \/ row'[t].status = "pending" /\ row'[t].attempts = 0]_vars

(***************************************************************************)
(* A claim whose lease is live is ended by nobody but the thread that took *)
(* it and is still working on that row: the predicates of _complete_task,  *)
(* _fail_task_inner and _release_abandoned_task_lock, and the lease that   *)
(* the unguarded _mark_* of TaskWorker rely on.                            *)
(***************************************************************************)
EndsClaim(t, a) ==
  row[t].lease = "live" /\ row[t].lockedBy = a /\ row'[t].lockedBy # a

LiveClaimEndsOnlyByHolder ==
  [][\A t \in Task, n \in Process :
       /\ EndsClaim(t, Processor(n)) =>
            /\ proc[n].pc # "idle" /\ proc[n].task = t
            /\ proc'[n] # proc[n] \/ stage'[n] # stage[n]
       /\ EndsClaim(t, Worker(n)) => tw[n].task = t /\ tw'[n] # tw[n]]_vars

(***************************************************************************)
(* Every task with a handler somewhere is eventually completed, dead (or   *)
(* already purged), over crashes, shutdowns, lost results and foreign      *)
(* claims that _release_claim fails to give back: it is not pending or     *)
(* processing for ever, and a row once written is never absent again.      *)
(***************************************************************************)
EventuallySettled ==
  \A t \in Task : TypeOf[t] \in HandlerTypes \cup RegisteredTypes =>
    []<>(row[t].status \notin {"pending", "processing"})

(***************************************************************************)
(* Idempotent enqueue: two rows with the same (tenant_id, idempotency_key) *)
(* never exist together, over completions, deaths, replays and purges of   *)
(* the first one (enqueue_task against purge_old_tasks).                   *)
(***************************************************************************)
OneRowPerKey ==
  \A t, u \in Task :
    t # u /\ Exists(t) /\ Exists(u) /\ KeyOf[t] = KeyOf[u] => KeyOf[t] = NoKey
-----------------------------------------------------------------------------
(***************************************************************************)
(* What the documentation says of the workers, for the configurations in   *)
(* which the code does something else.                                     *)
(***************************************************************************)

(***************************************************************************)
(* task_queue.py:723, _claim_one: "Atomically claim the highest-priority   *)
(* eligible pending row."                                                  *)
(***************************************************************************)
ClaimsOnlyPending ==
  [][\A t \in Task, n \in Process :
       row'[t].lockedBy = Worker(n) /\ row[t].lockedBy # Worker(n)
         => row[t].status = "pending"]_vars

(***************************************************************************)
(* ASYNC_PROCESSES.md:37: "after max_attempts the row goes to status       *)
(* dead": no claim is made beyond max_attempts.                            *)
(***************************************************************************)
AttemptsWithinMax == \A t \in Task : row[t].attempts <= MaxAttempts

(***************************************************************************)
(* task_processor.py:637: "the handler continues to run but its results    *)
(* will be ignored by _complete_task if the lock was re-claimed."          *)
(***************************************************************************)
LateResultIgnored ==
  [][\A n \in Process :
       /\ proc[n].pc \in {"returned", "raised"} /\ proc'[n].pc = "idle"
       /\ row[proc[n].task].lockedBy # Processor(n)
       => row' = row]_vars

(***************************************************************************)
(* task_queue.py:37: a row without a handler here "is released back to     *)
(* pending (attempts untouched) so the worker that does own that type can  *)
(* pick it up."                                                            *)
(***************************************************************************)
ForeignClaimReleased ==
  [][\A n \in Process :
       /\ tw[n].pc = "foreign" /\ tw'[n].pc = "idle"
       /\ faults' = faults /\ stage' = stage
       /\ row[tw[n].task].lockedBy = Worker(n)
       => row'[tw[n].task].status = "pending"]_vars
=============================================================================

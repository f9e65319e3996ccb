------------------------------ MODULE TaskWorker ------------------------------
(***************************************************************************)
(* services/shared/task_queue.py: class TaskWorker, the second thread that *)
(* polls the table.  It is started without a task_types filter, so it also *)
(* claims rows that are not its own and hands them back.  It has no        *)
(* heartbeat, it counts an attempt when a handler fails, and it records an *)
(* outcome with "WHERE id = :id" alone.                                    *)
(***************************************************************************)
EXTENDS TaskTable

CONSTANTS
  ClaimRace,  \* may another commit fall between the snapshot in which the
              \* claim statement picks its winner and the lock it then takes?
  ForcedRls   \* is row level security forced on the table (migration v111)?

ASSUME WorkerSwitchesAssumption == ClaimRace \in BOOLEAN /\ ForcedRls \in BOOLEAN

VARIABLE tw   \* per process: where its TaskWorker is, the claim it works on

NoClaim == "no claim"

IdleWorker == [pc |-> "idle", task |-> NoClaim, attempts |-> 0]

WorkerState == [pc : {"idle", "polling", "picked", "foreign", "running",
                      "returned", "raised"},
                task : Task \cup {NoClaim}, attempts : Nat]

WorkerIdle(n) == tw' = [tw EXCEPT ![n] = IdleWorker]

(***************************************************************************)
(* _release_stale_locks: the top of the run loop returns every row whose   *)
(* lock expired to pending, whichever worker held it.                      *)
(***************************************************************************)
Stale(t) == row[t].status = "processing" /\ row[t].lease = "expired"

ReleaseStaleLocks(n) ==
  /\ tw[n].pc = "idle" /\ stage[n] # "stopped"
  /\ tw' = [tw EXCEPT ![n].pc = "polling"]
  /\ row' = [t \in Task |-> IF Stale(t) THEN Unlocked(row[t], "pending", TRUE)
                                        ELSE row[t]]
  /\ lost' = [t \in Task |-> IF Stale(t) /\ OpenClaim(t) THEN lost[t] + 1
                                                         ELSE lost[t]]
  /\ UNCHANGED <<failed, stage>>

(***************************************************************************)
(* _claim_one.  The winner is chosen among the pending rows that are due,  *)
(* in the snapshot of the statement; then that row is locked by id, FOR    *)
(* UPDATE SKIP LOCKED, and updated.  The second part repeats none of the   *)
(* conditions of the first.  _dispatch finds a handler for the row or not. *)
(***************************************************************************)
MutEligibleTooEarly(t) == row[t].status = "pending" /\ ~row[t].due

Eligible(t) == row[t].status = "pending" /\ row[t].due

TakeRow(n, t) ==
  /\ row' = [row EXCEPT ![t] = Locked(@, Worker(n))]
  /\ lost' = [lost EXCEPT ![t] = @ + IF OpenClaim(t) THEN 1 ELSE 0]
  /\ tw' = [tw EXCEPT ![n] =
              [pc |-> IF TypeOf[t] \in RegisteredTypes THEN "running" ELSE "foreign",
               task |-> t, attempts |-> row[t].attempts]]
  /\ UNCHANGED <<failed, stage>>

ClaimOne(n, t) ==
  /\ tw[n].pc = "polling"
  /\ Eligible(t)
  /\ TakeRow(n, t)

(***************************************************************************)
(* The same statement, with a commit of another session inside it.         *)
(***************************************************************************)
PickWinner(n, t) ==
  /\ ClaimRace
  /\ tw[n].pc = "polling"
  /\ Eligible(t)
  /\ tw' = [tw EXCEPT ![n] = [pc |-> "picked", task |-> t, attempts |-> 0]]
  /\ UNCHANGED <<tableVars, stage>>

LockWinner(n) ==
  /\ tw[n].pc = "picked"
  /\ Exists(tw[n].task)
  /\ TakeRow(n, tw[n].task)

(***************************************************************************)
(* Nothing eligible, or the winner is locked or deleted by now: the worker *)
(* sleeps a poll interval.                                                 *)
(***************************************************************************)
NothingClaimed(n) ==
  /\ tw[n].pc \in {"polling", "picked"}
  /\ WorkerIdle(n)
  /\ UNCHANGED <<tableVars, stage>>

(***************************************************************************)
(* _release_claim, for a row without a handler here: back to pending,      *)
(* deferred by a second.  The transaction does not arm the sysadmin        *)
(* setting that the policy on the table asks for, so under forced row      *)
(* level security the UPDATE sees no row.                                  *)
(***************************************************************************)
ReleaseClaim(n) ==
  LET t == tw[n].task IN
  /\ tw[n].pc = "foreign"
  /\ WorkerIdle(n)
  /\ row' = IF ~ForcedRls /\ row[t].status = "processing" /\ row[t].lockedBy = Worker(n)
              THEN [row EXCEPT ![t] = Unlocked(@, "pending", FALSE)]
              ELSE row
  /\ UNCHANGED <<failed, lost, stage>>

(***************************************************************************)
(* _dispatch: the handler returns or raises.                               *)
(***************************************************************************)
HandlerDone(n) ==
  /\ tw[n].pc = "running"
  /\ \E outcome \in {"returned", "raised"} :
       tw' = [tw EXCEPT ![n].pc = outcome]
  /\ UNCHANGED <<tableVars, stage>>

(***************************************************************************)
(* _mark_completed, _mark_failed and _mark_dead: UPDATE ... WHERE id = :id *)
(* touches the row in whatever state it is, if it still exists.            *)
(***************************************************************************)
MarkCompleted(n) ==
  LET t == tw[n].task IN
  /\ tw[n].pc = "returned"
  /\ WorkerIdle(n)
  /\ row' = IF Exists(t) THEN [row EXCEPT ![t] = Unlocked(@, "completed", @.due)]
                         ELSE row
  /\ UNCHANGED <<failed, lost, stage>>

MarkedRow(r, newAttempts) ==
  [(IF newAttempts >= MaxAttempts THEN Unlocked(r, "dead", r.due)
                                  ELSE Unlocked(r, "pending", FALSE))
   EXCEPT !.attempts = newAttempts]

MarkFailed(n) ==
  LET t == tw[n].task IN
  /\ tw[n].pc = "raised"
  /\ WorkerIdle(n)
  /\ \/ /\ Exists(t)
        /\ row' = [row EXCEPT ![t] = MarkedRow(row[t], tw[n].attempts + 1)]
        /\ failed' = [failed EXCEPT ![t] = @ + 1]
     \/ ~Exists(t) /\ UNCHANGED <<row, failed>>
  /\ UNCHANGED <<lost, stage>>

(***************************************************************************)
(* The UPDATE itself fails: run() logs it and polls on.                    *)
(***************************************************************************)
MarkLost(n) ==
  /\ tw[n].pc \in {"returned", "raised"}
  /\ WorkerIdle(n)
  /\ UNCHANGED <<tableVars, stage>>

WorkerStep(n) ==
  \/ ReleaseStaleLocks(n)
  \/ \E t \in Task : ClaimOne(n, t) \/ PickWinner(n, t)
  \/ LockWinner(n)
  \/ NothingClaimed(n)
  \/ ReleaseClaim(n)
  \/ HandlerDone(n)
  \/ MarkCompleted(n)
  \/ MarkFailed(n)
=============================================================================

----------------------------- MODULE Leadership -----------------------------
(***************************************************************************)
(* Which process runs the scheduler: the embedded runner of every process  *)
(* (embedded_scheduler.py), its election by a PostgreSQL advisory lock and *)
(* the heartbeat thread that watches the lock (distributed.py), and the    *)
(* workload of the leader with the hook that stops it (service.py).        *)
(*                                                                         *)
(* A node has two threads: the runner's, whose place is pc, and while it   *)
(* leads the heartbeat's, whose place is hb.  They share the _is_leader    *)
(* flag and the APScheduler, which shutdown() can only stop once it runs.  *)
(***************************************************************************)
EXTENDS Naturals

CONSTANTS
  Node,         \* the processes that run an embedded scheduler
  NoNode,       \* the advisory lock when no session holds it
  MaxFailures,  \* heartbeat_max_failures
  Sources,      \* how many sources run_initial_scrape goes through
  MaxLosses     \* bound: failures of the database, of a process or of a setup

ASSUME NodeAssumption == NoNode \notin Node
ASSUME HeartbeatAssumption ==
  MaxFailures \in Nat \ {0} /\ Sources \in Nat /\ MaxLosses \in Nat

VARIABLES
  leaderLock,  \* whose session holds SCHEDULER_LEADER_LOCK_ID
  node,        \* the runner, the heartbeat and what they share
  losses       \* failures so far

leadershipVars == <<leaderLock, node, losses>>

(***************************************************************************)
(* isLeader is _is_leader, told an accepted scheduler.shutdown(), misses   *)
(* the heartbeat's consecutive_failures, left the sources still to scrape. *)
(***************************************************************************)
Standby ==
  [pc |-> "standby", isLeader |-> FALSE, hb |-> "none", misses |-> 0,
   told |-> FALSE, left |-> 0]

LeadershipInit ==
  /\ leaderLock = NoNode
  /\ node = [n \in Node |-> Standby]
  /\ losses = 0

Loss == losses < MaxLosses /\ losses' = losses + 1
-----------------------------------------------------------------------------
(***************************************************************************)
(* wait_for_leadership: pg_try_advisory_lock succeeds, _is_leader is set   *)
(* and the heartbeat starts, unless the backend pid could not be read:     *)
(* then the workload runs with no heartbeat.                               *)
(***************************************************************************)
WinLock(n) ==
  /\ node[n].pc = "standby" /\ leaderLock = NoNode
  /\ leaderLock' = n
  /\ \/ /\ node' = [node EXCEPT ![n] = [Standby EXCEPT
                      !.pc = "scheduling", !.isLeader = TRUE, !.hb = "beating"]]
        /\ UNCHANGED losses
     \/ /\ Loss
        /\ node' = [node EXCEPT ![n] = [Standby EXCEPT
                      !.pc = "scheduling", !.isLeader = TRUE]]

(***************************************************************************)
(* _run_scheduler_workload: the jobs are scheduled and the leader flag is  *)
(* read; an exception from the scheduling unwinds the callback.            *)
(***************************************************************************)
ScheduleJobs(n) ==
  /\ node[n].pc = "scheduling"
  /\ \/ /\ node' = [node EXCEPT
              ![n].pc = IF node[n].isLeader THEN "scraping" ELSE "leaving",
              ![n].left = Sources]
        /\ UNCHANGED losses
     \/ Loss /\ node' = [node EXCEPT ![n].pc = "leaving"]
  /\ UNCHANGED leaderLock

(***************************************************************************)
(* run_initial_scrape: the flag is read before every source; an exception  *)
(* of one scraper is logged and the loop goes on.                          *)
(***************************************************************************)
ScrapeSource(n) ==
  /\ node[n].pc = "scraping" /\ node[n].left > 0
  /\ node' = [node EXCEPT
       ![n].left = IF node[n].isLeader THEN node[n].left - 1 ELSE 0]
  /\ UNCHANGED <<leaderLock, losses>>

\* the check between the initial scrape and scheduler.start()
CheckBeforeStart(n) ==
  /\ node[n].pc = "scraping" /\ node[n].left = 0
  /\ node' = [node EXCEPT
       ![n].pc = IF node[n].isLeader THEN "starting" ELSE "leaving"]
  /\ UNCHANGED <<leaderLock, losses>>

\* scheduler.start() blocks in the main loop
StartScheduler(n) ==
  /\ node[n].pc = "starting"
  /\ node' = [node EXCEPT ![n].pc = "mainloop"]
  /\ UNCHANGED <<leaderLock, losses>>

\* start() returns once shutdown() was accepted
MainLoopReturns(n) ==
  /\ node[n].pc = "mainloop" /\ node[n].told
  /\ node' = [node EXCEPT ![n].pc = "leaving"]
  /\ UNCHANGED <<leaderLock, losses>>

(***************************************************************************)
(* The finally block of wait_for_leadership: the heartbeat is stopped and  *)
(* joined, the flag is cleared, the lock released.  When the unlock fails  *)
(* the pooled session keeps the lock until _retire_service disposes of it. *)
(***************************************************************************)
Unlocked(n) == IF leaderLock = n THEN NoNode ELSE leaderLock

Leave(n) ==
  /\ node[n].pc = "leaving"
  /\ node' = [node EXCEPT ![n] = [Standby EXCEPT !.pc = "rejoining"]]
  /\ \/ leaderLock' = Unlocked(n) /\ UNCHANGED losses
     \/ Loss /\ UNCHANGED leaderLock

(***************************************************************************)
(* EmbeddedSchedulerRunner._run, after its pause: the old service is       *)
(* retired and its engines disposed, a new one is built and joins the      *)
(* election; if it cannot be built the thread ends for good.               *)
(***************************************************************************)
MutKeepsTheEngine(n) ==
  /\ node[n].pc = "rejoining"
  /\ node' = [node EXCEPT ![n].pc = "standby"]
  /\ UNCHANGED <<leaderLock, losses>>

Rejoin(n) ==
  /\ node[n].pc = "rejoining"
  /\ leaderLock' = Unlocked(n)
  /\ \/ node' = [node EXCEPT ![n].pc = "standby"] /\ UNCHANGED losses
     \/ Loss /\ node' = [node EXCEPT ![n].pc = "exited"]
-----------------------------------------------------------------------------
(***************************************************************************)
(* _run_heartbeat: a probe on a connection of its own.  It fails when the  *)
(* lock is not there or the database cannot be reached; the MaxFailures-th *)
(* failure in a row clears the flag (_signal_leadership_lost) ...          *)
(***************************************************************************)
MutMissedEndsQuietly(n) ==
  node' = [node EXCEPT ![n] =
    IF node[n].misses + 1 >= MaxFailures
      THEN [node[n] EXCEPT !.misses = MaxFailures, !.hb = "ended"]
      ELSE [node[n] EXCEPT !.misses = @ + 1]]

Missed(n) ==
  node' = [node EXCEPT ![n] =
    IF node[n].misses + 1 >= MaxFailures
      THEN [node[n] EXCEPT !.misses = MaxFailures, !.isLeader = FALSE,
                           !.hb = "signalling"]
      ELSE [node[n] EXCEPT !.misses = @ + 1]]

Probe(n) ==
  /\ node[n].hb = "beating"
  /\ \/ leaderLock = n /\ node' = [node EXCEPT ![n].misses = 0] /\ UNCHANGED losses
     \/ leaderLock # n /\ Missed(n) /\ UNCHANGED losses
     \/ leaderLock = n /\ Loss /\ Missed(n)
  /\ UNCHANGED leaderLock

(***************************************************************************)
(* ... and then calls _on_leadership_lost: scheduler.shutdown(wait=False), *)
(* which raises SchedulerNotRunningError unless the scheduler runs; the    *)
(* exception is logged and the thread ends all the same.                   *)
(***************************************************************************)
MutSignalLostIgnored(n) ==
  /\ node[n].hb = "signalling"
  /\ node' = [node EXCEPT ![n].hb = "ended"]
  /\ UNCHANGED <<leaderLock, losses>>

SignalLost(n) ==
  /\ node[n].hb = "signalling"
  /\ node' = [node EXCEPT
       ![n].told = node[n].pc = "mainloop",
       ![n].hb = IF node[n].pc = "mainloop" THEN "ended" ELSE "refused"]
  /\ UNCHANGED <<leaderLock, losses>>

\* the database ends the session that holds the lock
DropSession ==
  /\ leaderLock # NoNode /\ Loss
  /\ leaderLock' = NoNode
  /\ UNCHANGED node

\* a process ends, by a crash or by stop(), and another takes its place
Replace(n) ==
  /\ Loss
  /\ node' = [node EXCEPT ![n] = Standby]
  /\ leaderLock' = Unlocked(n)
-----------------------------------------------------------------------------
RunnerStep(n) ==
  \/ WinLock(n) \/ ScheduleJobs(n) \/ ScrapeSource(n) \/ CheckBeforeStart(n)
  \/ StartScheduler(n) \/ MainLoopReturns(n) \/ Leave(n) \/ Rejoin(n)

HeartbeatStep(n) == Probe(n) \/ SignalLost(n)

LeadershipNext ==
  \/ \E n \in Node : RunnerStep(n) \/ HeartbeatStep(n) \/ Replace(n)
  \/ DropSession

LeadershipSpec == LeadershipInit /\ [][LeadershipNext]_leadershipVars

\* the operating system keeps running both threads of a node
LeadershipFairness ==
  \A n \in Node : /\ WF_leadershipVars(RunnerStep(n))
                  /\ WF_leadershipVars(HeartbeatStep(n))
-----------------------------------------------------------------------------
Places ==
  {"standby", "scheduling", "scraping", "starting", "mainloop", "leaving",
   "rejoining", "exited"}

Working(n) == node[n].pc \in {"scheduling", "scraping", "starting", "mainloop"}

\* no heartbeat was started: the pid could not be read
Blind(n) == node[n].isLeader /\ node[n].hb = "none"

(***************************************************************************)
(* The heartbeat cleared the flag after its last check and called          *)
(* shutdown() before the scheduler ran.                                    *)
(***************************************************************************)
Escaped(n) == node[n].pc \in {"starting", "mainloop"} /\ node[n].hb = "refused"

LeadershipTypeOK ==
  /\ leaderLock \in Node \cup {NoNode}
  /\ losses \in 0..MaxLosses
  /\ node \in [Node -> [pc : Places, isLeader : BOOLEAN,
                        hb : {"none", "beating", "signalling", "ended", "refused"},
                        misses : 0..MaxFailures, told : BOOLEAN,
                        left : 0..Sources]]

(***************************************************************************)
(* A node that takes itself for the leader after its lock is gone, as      *)
(* is_leader() and _holds_leadership() report it to the jobs, is watched   *)
(* by a heartbeat that has not given up, or never had one; and the lock of *)
(* a node that no longer works is not kept from the others for longer than *)
(* its way out (distributed.py: "no subsequent is_leader() call should     *)
(* incorrectly report True").                                              *)
(***************************************************************************)
StaleLeaderWatched ==
  \A n \in Node :
    /\ node[n].isLeader /\ leaderLock # n =>
         node[n].hb = "beating" \/ Blind(n)
    /\ leaderLock = n => Working(n) \/ node[n].pc \in {"leaving", "rejoining"}

(***************************************************************************)
(* A leader whose lock is gone stops working: its heartbeat counts the     *)
(* failures and shuts the scheduler down ("a zombie leader keeps running   *)
(* scrapers after a standby has already taken over", service.py:1407).     *)
(* The two that do not: one that never had a heartbeat, and one whose flag *)
(* is cleared between the last check and scheduler.start().                *)
(***************************************************************************)
LostLeaderStops ==
  \A n \in Node :
    Working(n) /\ leaderLock # n ~> ~Working(n) \/ Blind(n) \/ Escaped(n)

(***************************************************************************)
(* Once a node has led, some node leads in the end with the lock in its    *)
(* hands, whatever failed before, unless every thread has ended or still   *)
(* works without the lock (the runner's "Rejoin the standby pool after a   *)
(* pause").                                                                *)
(***************************************************************************)
LeaderElected ==
  leaderLock # NoNode ~>
    [](\/ \E n \in Node : leaderLock = n /\ node[n].pc = "mainloop"
       \/ \A n \in Node : node[n].pc = "exited" \/ Blind(n) \/ Escaped(n))
=============================================================================

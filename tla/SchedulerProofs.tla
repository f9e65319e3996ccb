-------------------------- MODULE SchedulerProofs ---------------------------
(***************************************************************************)
(* Proofs about the parts of the scheduler, for any value of their constants:*)
(* Leadership, the scrapes (Scraping), and the remediation cases whose     *)
(* notifications it sends (Remediation).                                   *)
(***************************************************************************)
EXTENDS Leadership, Scraping, Remediation, TLAPS

\* The flag is up only while the heartbeat beats or was never started, and
\* only a node that works or is on its way out has the lock.
LeadershipInvariant ==
  /\ LeadershipTypeOK
  /\ \A n \in Node :
       /\ node[n].isLeader => node[n].hb \in {"beating", "none"}
       /\ leaderLock = n => Working(n) \/ node[n].pc \in {"leaving", "rejoining"}

NodeRecord ==
  [pc : Places, isLeader : BOOLEAN,
   hb : {"none", "beating", "signalling", "ended", "refused"},
   misses : 0..MaxFailures, told : BOOLEAN, left : 0..Sources]

LEMMA StandbyTyped == Standby \in NodeRecord
BY HeartbeatAssumption DEF Standby, NodeRecord, Places

LEMMA LeadershipInitial == LeadershipInit => LeadershipInvariant
<1> SUFFICES ASSUME LeadershipInit PROVE LeadershipInvariant
    OBVIOUS
<1>1. LeadershipTypeOK
    BY StandbyTyped, HeartbeatAssumption DEF LeadershipInit, LeadershipTypeOK, NodeRecord
<1>2. \A n \in Node : node[n].isLeader = FALSE /\ leaderLock # n
    BY NodeAssumption, Zenon DEF LeadershipInit, Standby
<1> QED BY <1>1, <1>2 DEF LeadershipInvariant

\* A step of one node that ends in an allowed record, and takes the lock only
\* for itself.
LEMMA NodeStep ==
  ASSUME LeadershipInvariant, NEW n \in Node, NEW d \in NodeRecord,
         node' = [node EXCEPT ![n] = d], losses' \in 0..MaxLosses,
         leaderLock' \in {leaderLock, NoNode, n},
         d.isLeader => d.hb \in {"beating", "none"},
         leaderLock' = n =>
           d.pc \in {"scheduling", "scraping", "starting", "mainloop", "leaving", "rejoining"}
  PROVE  LeadershipInvariant'
<1> USE DEF LeadershipInvariant
<1>1. node'[n] = d /\ \A m \in Node : m # n => node'[m] = node[m]
    BY DEF LeadershipTypeOK
<1>2. LeadershipTypeOK'
  <2>1. leaderLock' \in Node \cup {NoNode}
    BY DEF LeadershipTypeOK
  <2>2. node' \in [Node -> NodeRecord]
    BY DEF LeadershipTypeOK, NodeRecord
  <2> QED BY <2>1, <2>2 DEF LeadershipTypeOK, NodeRecord
<1>3. \A m \in Node : leaderLock' = m => m = n \/ leaderLock = m
    BY NodeAssumption, Zenon
<1> QED BY <1>1, <1>2, <1>3 DEF Working

LEMMA RunnerKeeps ==
  ASSUME LeadershipInvariant, NEW n \in Node, RunnerStep(n)
  PROVE  LeadershipInvariant'
<1> USE DEF LeadershipInvariant
<1>t. /\ node[n] \in NodeRecord /\ losses \in 0..MaxLosses
      /\ node[n].isLeader => node[n].hb \in {"beating", "none"}
      /\ leaderLock = n => Working(n) \/ node[n].pc \in {"leaving", "rejoining"}
      /\ Sources \in 0..Sources /\ 0 \in 0..Sources
    BY HeartbeatAssumption DEF LeadershipTypeOK, NodeRecord
<1>l. losses' \in 0..MaxLosses
    BY <1>t, HeartbeatAssumption DEF RunnerStep, WinLock, ScheduleJobs, ScrapeSource, CheckBeforeStart,
       StartScheduler, MainLoopReturns, Leave, Rejoin, Loss
<1>1. CASE WinLock(n)
  <2> DEFINE e == [Standby EXCEPT !.pc = "scheduling", !.isLeader = TRUE, !.hb = "beating"]
             f == [Standby EXCEPT !.pc = "scheduling", !.isLeader = TRUE]
  <2>1. e \in NodeRecord /\ e.hb = "beating" /\ e.pc = "scheduling"
    BY StandbyTyped, Zenon DEF Standby, NodeRecord, Places
  <2>2. f \in NodeRecord /\ f.hb = "none" /\ f.pc = "scheduling"
    BY StandbyTyped, Zenon DEF Standby, NodeRecord, Places
  <2>3. leaderLock' = n /\ \E d \in {e, f} : node' = [node EXCEPT ![n] = d]
    BY <1>1 DEF WinLock
  <2> HIDE DEF e, f
  <2> QED BY <1>l, <2>1, <2>2, <2>3, NodeStep, Zenon
<1>2. ASSUME NEW pc \in Places, NEW left \in 0..Sources,
             node' = [node EXCEPT ![n] = [node[n] EXCEPT !.pc = pc, !.left = left]],
             leaderLock' = leaderLock,
             pc \in {"scraping", "starting", "mainloop", "leaving"}
      PROVE  LeadershipInvariant'
  <2> DEFINE d == [node[n] EXCEPT !.pc = pc, !.left = left]
  <2>1. d \in NodeRecord /\ d.pc = pc /\ d.isLeader = node[n].isLeader /\ d.hb = node[n].hb
    BY <1>t, Zenon DEF NodeRecord
  <2> HIDE DEF d
  <2> QED BY <1>t, <1>l, <1>2, <2>1, NodeStep, Zenon DEF d
<1>s. /\ node[n] = [node[n] EXCEPT !.left = node[n].left] /\ node[n].left \in 0..Sources
      /\ node[n] = [node[n] EXCEPT !.pc = node[n].pc] /\ node[n].pc \in Places
      /\ \A p : [node[n] EXCEPT !.pc = p] = [node[n] EXCEPT !.pc = p, !.left = node[n].left]
      /\ \A k : [node[n] EXCEPT !.left = k] = [node[n] EXCEPT !.pc = node[n].pc, !.left = k]
    BY <1>t, Zenon DEF NodeRecord
<1>p. {"scraping", "starting", "mainloop", "leaving", "rejoining", "standby", "exited"} \subseteq Places
    BY DEF Places
<1>3. CASE ScheduleJobs(n)
  <2>1. leaderLock' = leaderLock /\ node[n].pc = "scheduling"
    BY <1>3 DEF ScheduleJobs
  <2>2. CASE node' = [node EXCEPT ![n].pc = "leaving"]
    BY <1>2, <1>s, <1>p, <2>1, <2>2, Zenon
  <2>3. CASE node' = [node EXCEPT ![n].pc = IF node[n].isLeader THEN "scraping" ELSE "leaving",
                                  ![n].left = Sources]
    BY <1>2, <1>t, <1>p, <2>1, <2>3, Zenon
  <2> QED BY <1>3, <2>2, <2>3 DEF ScheduleJobs
<1>4. CASE ScrapeSource(n)
  <2>1. PICK left \in 0..Sources : node' = [node EXCEPT ![n].left = left]
    <3>1. node[n].left - 1 \in 0..Sources
      <4>1. node[n].left \in 0..Sources /\ node[n].left > 0
        BY <1>4, <1>s, Zenon DEF ScrapeSource
      <4> HIDE DEF LeadershipInvariant
      <4> QED BY <4>1, HeartbeatAssumption
    <3> QED BY <1>4, <1>t, <3>1, Zenon DEF ScrapeSource
  <2>2. leaderLock' = leaderLock /\ node[n].pc = "scraping"
    BY <1>4 DEF ScrapeSource
  <2>3. node' = [node EXCEPT ![n] = [node[n] EXCEPT !.pc = node[n].pc, !.left = left]]
    BY <1>s, <2>1, Zenon
  <2> QED BY <1>2, <1>s, <2>2, <2>3, Zenon
<1>5. CASE CheckBeforeStart(n) \/ StartScheduler(n) \/ MainLoopReturns(n)
  <2>1. PICK pc \in {"starting", "leaving", "mainloop"} : node' = [node EXCEPT ![n].pc = pc]
    BY <1>5 DEF CheckBeforeStart, StartScheduler, MainLoopReturns
  <2>2. leaderLock' = leaderLock
    BY <1>5 DEF CheckBeforeStart, StartScheduler, MainLoopReturns
  <2>3. node' = [node EXCEPT ![n] = [node[n] EXCEPT !.pc = pc, !.left = node[n].left]]
    BY <1>s, <2>1, Zenon
  <2> QED BY <1>2, <1>s, <1>p, <2>2, <2>3, Zenon
<1>6. CASE Leave(n)
  <2> DEFINE d == [Standby EXCEPT !.pc = "rejoining"]
  <2>1. d \in NodeRecord /\ d.pc = "rejoining" /\ ~d.isLeader
    BY <1>p, StandbyTyped, Zenon DEF Standby, NodeRecord
  <2>2. node' = [node EXCEPT ![n] = d] /\ leaderLock' \in {leaderLock, NoNode}
    BY <1>6 DEF Leave, Unlocked
  <2> HIDE DEF d
  <2> QED BY <1>l, <2>1, <2>2, NodeStep, Zenon
<1>7. CASE Rejoin(n)
  <2>1. PICK pc \in {"standby", "exited"} : node' = [node EXCEPT ![n] = [node[n] EXCEPT !.pc = pc]]
    BY <1>7 DEF Rejoin
  <2> DEFINE d == [node[n] EXCEPT !.pc = pc]
  <2>2. d \in NodeRecord /\ d.isLeader = node[n].isLeader /\ d.hb = node[n].hb
    BY <1>t, <1>p DEF NodeRecord
  <2>3. leaderLock' \in {leaderLock, NoNode} /\ leaderLock' # n
    BY <1>7, NodeAssumption DEF Rejoin, Unlocked
  <2> HIDE DEF d
  <2> QED BY <1>l, <1>t, <2>1, <2>2, <2>3, NodeStep, Zenon DEF d
<1> QED BY <1>1, <1>3, <1>4, <1>5, <1>6, <1>7 DEF RunnerStep

LEMMA HeartbeatKeeps ==
  ASSUME LeadershipInvariant, NEW n \in Node, HeartbeatStep(n)
  PROVE  LeadershipInvariant'
<1> USE DEF LeadershipInvariant
<1>t. /\ node[n] \in NodeRecord /\ losses \in 0..MaxLosses
      /\ node[n].isLeader => node[n].hb \in {"beating", "none"}
      /\ leaderLock = n => Working(n) \/ node[n].pc \in {"leaving", "rejoining"}
    BY DEF LeadershipTypeOK, NodeRecord
<1>l. losses' \in 0..MaxLosses /\ leaderLock' = leaderLock
    BY <1>t, HeartbeatAssumption DEF HeartbeatStep, Probe, SignalLost, Loss
<1>w. leaderLock = n => node[n].pc \in
           {"scheduling", "scraping", "starting", "mainloop", "leaving", "rejoining"}
    BY <1>t DEF Working
<1>1. PICK d \in NodeRecord : /\ node' = [node EXCEPT ![n] = d] /\ d.pc = node[n].pc
                              /\ d.isLeader => d.hb \in {"beating", "none"}
  <2>1. CASE node' = [node EXCEPT ![n].misses = 0]
    <3>1. [node[n] EXCEPT !.misses = 0] \in NodeRecord
      BY <1>t, HeartbeatAssumption DEF NodeRecord
    <3> QED BY <1>t, <2>1, <3>1, Zenon DEF NodeRecord
  <2>2. CASE Missed(n)
    <3>1. CASE node[n].misses + 1 >= MaxFailures
      <4> DEFINE e == [node[n] EXCEPT !.misses = MaxFailures, !.isLeader = FALSE,
                                      !.hb = "signalling"]
      <4>1. node' = [node EXCEPT ![n] = e]
        BY <2>2, <3>1, Zenon DEF Missed
      <4>2. e \in NodeRecord /\ e.pc = node[n].pc /\ ~e.isLeader
        <5>1. MaxFailures \in 0..MaxFailures
          BY HeartbeatAssumption
        <5> QED BY <1>t, <5>1, Zenon DEF NodeRecord
      <4> HIDE DEF e
      <4> QED BY <4>1, <4>2, Zenon
    <3>2. CASE ~(node[n].misses + 1 >= MaxFailures)
      <4> DEFINE e == [node[n] EXCEPT !.misses = node[n].misses + 1]
      <4>1. node' = [node EXCEPT ![n] = e]
        BY <2>2, <3>2, Zenon DEF Missed
      <4>2. node[n].misses + 1 \in 0..MaxFailures
        BY <1>t, <3>2, HeartbeatAssumption DEF NodeRecord
      <4>3. e \in NodeRecord /\ e.pc = node[n].pc /\ e.isLeader = node[n].isLeader
            /\ e.hb = node[n].hb
        BY <1>t, <4>2 DEF NodeRecord
      <4> HIDE DEF e
      <4> QED BY <1>t, <4>1, <4>3, Zenon
    <3> QED BY <3>1, <3>2
  <2>3. CASE SignalLost(n)
    <3> DEFINE told == node[n].pc = "mainloop"
               hb == IF node[n].pc = "mainloop" THEN "ended" ELSE "refused"
               e == [node[n] EXCEPT !.told = told, !.hb = hb]
    <3>1. told \in BOOLEAN /\ hb \in {"ended", "refused"} /\ ~node[n].isLeader
      BY <1>t, <2>3 DEF SignalLost
    <3>2. node' = [node EXCEPT ![n] = e]
      BY <2>3, Zenon DEF SignalLost
    <3> HIDE DEF told, hb
    <3>3. e \in NodeRecord /\ e.pc = node[n].pc /\ e.isLeader = node[n].isLeader
      BY <1>t, <3>1, Zenon DEF NodeRecord
    <3> HIDE DEF e
    <3> QED BY <3>1, <3>2, <3>3, Zenon
  <2> QED BY <2>1, <2>2, <2>3 DEF HeartbeatStep, Probe
<1> QED BY <1>1, <1>l, <1>w, NodeStep, Zenon

LEMMA LeadershipStep ==
  ASSUME LeadershipInvariant, [LeadershipNext]_leadershipVars
  PROVE  LeadershipInvariant'
<1>1. ASSUME NEW n \in Node, Replace(n) PROVE LeadershipInvariant'
  <2>1. Standby \in NodeRecord /\ ~Standby.isLeader
    BY StandbyTyped DEF Standby
  <2>2. node' = [node EXCEPT ![n] = Standby]
        /\ leaderLock' \in {leaderLock, NoNode} /\ leaderLock' # n
    BY <1>1, NodeAssumption DEF Replace, Unlocked
  <2>3. losses' \in 0..MaxLosses
    BY <1>1, HeartbeatAssumption DEF Replace, Loss, LeadershipInvariant, LeadershipTypeOK
  <2> QED BY <2>1, <2>2, <2>3, NodeStep, Zenon
<1>2. CASE DropSession
    BY <1>2, NodeAssumption, HeartbeatAssumption
       DEF DropSession, Loss, LeadershipInvariant, LeadershipTypeOK, Working
<1>3. CASE UNCHANGED leadershipVars
    BY <1>3 DEF leadershipVars, LeadershipInvariant, LeadershipTypeOK, Working
<1> QED BY <1>1, <1>2, <1>3, RunnerKeeps, HeartbeatKeeps DEF LeadershipNext

\* No node takes itself for the leader without its lock and without a
\* heartbeat that will notice, and no idle node keeps the lock.
THEOREM StaleLeaderIsWatched == LeadershipSpec => []StaleLeaderWatched
<1>1. LeadershipInvariant => StaleLeaderWatched
    BY Zenon DEF LeadershipInvariant, StaleLeaderWatched, Blind
<1> QED BY <1>1, LeadershipInitial, LeadershipStep, PTL DEF LeadershipSpec
-----------------------------------------------------------------------------
(***************************************************************************)
(* The scrapes.  A run that is about to acknowledge its batch has emitted  *)
(* and alerted it, and its notification is delivered, kept for the drain or*)
(* overwritten by it; every line the drain read is delivered, kept, or     *)
(* still to be looked at.                                                  *)
(***************************************************************************)
RunRecord ==
  [pc : {"idle", "scraping", "emitting", "notifying", "alerting", "acking"},
   batch : SUBSET Item, before : Nat, emitOk : BOOLEAN, withheld : BOOLEAN]

DrainRecord ==
  [pc : {"idle", "delivering"}, todo : Seq(Line), remaining : Seq(Line), read : Nat]

BreakerRecord ==
  [state : {"closed", "open", "half_open"}, halfOpenCalls : 0..(HalfOpenMax - 1),
   streak : 0..(FailureThreshold - 1)]

\* where an item whose notification is owed can be
Handled == delivered \cup ItemsOf(outbox) \cup overwritten

\* What a thread's record promises of its batch at each place.
RunSound(d) ==
  /\ d.pc = "emitting" => ~d.emitOk
  /\ d.pc = "notifying" => d.before <= unpersisted
  /\ d.pc \in {"notifying", "alerting"} /\ d.emitOk => d.batch \subseteq emitted
  /\ d.pc = "alerting" /\ ~d.withheld => d.batch \subseteq Handled
  /\ d.pc = "acking" => d.batch \subseteq emitted \cap alerted \cap Handled

\* Every line the drain read is delivered, kept or still to be looked at.
DrainSound ==
  drain.pc = "delivering" =>
    /\ drain.read <= Len(outbox)
    /\ \A k \in 1..drain.read :
         outbox[k].batch \subseteq
           ItemsOf(drain.todo) \cup ItemsOf(drain.remaining) \cup delivered

ScrapingInvariant ==
  /\ ScrapingTypeOK
  /\ \A r \in Run : RunSound(run[r])
  /\ DrainSound
  /\ AckedIsHandled

-----------------------------------------------------------------------------
LEMMA ItemsOfEmpty == ItemsOf(<<>>) = {}
BY DEF ItemsOf

LEMMA ItemsOfAppend ==
  ASSUME NEW s \in Seq(Line), NEW e \in Line
  PROVE  ItemsOf(Append(s, e)) = ItemsOf(s) \cup e.batch
<1>1. /\ Len(Append(s, e)) = Len(s) + 1 /\ Append(s, e)[Len(s) + 1] = e
      /\ \A k \in 1..Len(s) : Append(s, e)[k] = s[k]
      /\ DOMAIN Append(s, e) = 1..(Len(s) + 1) /\ DOMAIN s = 1..Len(s)
      /\ Len(s) \in Nat
    OBVIOUS
<1>2. ASSUME NEW x \in ItemsOf(Append(s, e)) PROVE x \in ItemsOf(s) \cup e.batch
  <2>1. PICK k \in 1..(Len(s) + 1) : x \in Append(s, e)[k].batch
      BY <1>1, <1>2 DEF ItemsOf
  <2>2. CASE k = Len(s) + 1
      BY <2>1, <2>2, <1>1
  <2>3. CASE k \in 1..Len(s)
      BY <2>1, <2>3, <1>1 DEF ItemsOf
  <2> QED BY <2>2, <2>3, <1>1
<1>3. ASSUME NEW x \in ItemsOf(s) PROVE x \in ItemsOf(Append(s, e))
  <2>1. PICK k \in 1..Len(s) : x \in s[k].batch
      BY <1>1, <1>3 DEF ItemsOf
  <2>2. k \in 1..(Len(s) + 1) /\ x \in Append(s, e)[k].batch
      BY <2>1, <1>1
  <2> QED BY <2>2, <1>1 DEF ItemsOf
<1>4. ASSUME NEW x \in e.batch PROVE x \in ItemsOf(Append(s, e))
  <2>1. Len(s) + 1 \in 1..(Len(s) + 1) /\ x \in Append(s, e)[Len(s) + 1].batch
      BY <1>4, <1>1
  <2> QED BY <2>1, <1>1 DEF ItemsOf
<1> QED BY <1>2, <1>3, <1>4

LEMMA ItemsOfTail ==
  ASSUME NEW s \in Seq(Line), s # <<>>
  PROVE  ItemsOf(s) \subseteq Head(s).batch \cup ItemsOf(Tail(s))
<1>1. /\ Len(Tail(s)) = Len(s) - 1 /\ Head(s) = s[1]
      /\ \A k \in 1..(Len(s) - 1) : Tail(s)[k] = s[k + 1]
      /\ DOMAIN Tail(s) = 1..(Len(s) - 1) /\ DOMAIN s = 1..Len(s)
      /\ Len(s) \in Nat
    OBVIOUS
<1> SUFFICES ASSUME NEW x \in ItemsOf(s) PROVE x \in Head(s).batch \cup ItemsOf(Tail(s))
    OBVIOUS
<1>2. PICK k \in 1..Len(s) : x \in s[k].batch
    BY <1>1 DEF ItemsOf
<1>3. CASE k = 1
    BY <1>2, <1>3, <1>1
<1>4. CASE k # 1
  <2>1. k - 1 \in 1..(Len(s) - 1) /\ x \in Tail(s)[k - 1].batch
      BY <1>1, <1>2, <1>4
  <2> QED BY <2>1, <1>1, Zenon DEF ItemsOf
<1> QED BY <1>3, <1>4

LEMMA NoRunSound == NoRun \in RunRecord /\ RunSound(NoRun)
BY DEF NoRun, RunRecord, RunSound

LEMMA ScrapingInitial == ScrapingInit => ScrapingInvariant
<1> SUFFICES ASSUME ScrapingInit PROVE ScrapingInvariant
    OBVIOUS
<1>1. ScrapingTypeOK
  <2>1. NoRun \in RunRecord /\ NoDrain \in DrainRecord /\ ClosedBreaker \in BreakerRecord
      BY ScrapingAssumption
      DEF NoRun, NoDrain, ClosedBreaker, RunRecord, DrainRecord, BreakerRecord
  <2> QED BY <2>1, ScrapingAssumption
          DEF ScrapingInit, ScrapingTypeOK, RunRecord, DrainRecord, BreakerRecord
<1>2. \A r \in Run : RunSound(run[r])
    BY NoRunSound, Zenon DEF ScrapingInit
<1>3. DrainSound /\ AckedIsHandled
    BY DEF ScrapingInit, DrainSound, AckedIsHandled, NoDrain
<1> QED BY <1>1, <1>2, <1>3 DEF ScrapingInvariant

\* What a step may not take back: an item that was emitted, alerted or
\* handled stays so, and the count of lost dead letters does not fall.
Grows ==
  /\ emitted \subseteq emitted' /\ alerted \subseteq alerted'
  /\ Handled \subseteq Handled' /\ unpersisted <= unpersisted'

\* A step of one thread.
Moves(r, d) ==
  /\ ScrapingInvariant /\ Grows /\ unpersisted' \in Nat
  /\ d \in RunRecord /\ run' = [run EXCEPT ![r] = d]
  /\ RunSound(d)'

LEMMA RunMoves ==
  ASSUME NEW r \in Run, NEW d, Moves(r, d)
  PROVE  /\ run' \in [Run -> RunRecord]
         /\ \A q \in Run : RunSound(run[q])'
<1> USE DEF Moves
<1>1. run \in [Run -> RunRecord] /\ unpersisted \in Nat
    BY DEF ScrapingInvariant, ScrapingTypeOK, RunRecord
<1>2. run' \in [Run -> RunRecord]
    BY <1>1
<1>3. ASSUME NEW q \in Run PROVE RunSound(run[q])'
  <2>1. CASE q = r
    <3>1. run'[q] = d
        BY <1>1, <2>1, Zenon
    <3> QED BY <3>1 DEF RunSound, Handled
  <2>2. CASE q # r
    <3>1. run'[q] = run[q]
        BY <1>1, <2>2
    <3>2. RunSound(run[q]) /\ run[q].before \in Nat
        BY <1>1, Zenon DEF ScrapingInvariant, RunRecord
    <3> QED BY <3>1, <3>2, <1>1 DEF Grows, RunSound
  <2> QED BY <2>1, <2>2, Zenon
<1> QED BY <1>2, <1>3

\* A step that leaves the threads alone.
LEMMA RunsRest ==
  ASSUME ScrapingInvariant, Grows, unpersisted' \in Nat, UNCHANGED run
  PROVE  \A q \in Run : RunSound(run[q])'
<1> SUFFICES ASSUME NEW q \in Run PROVE RunSound(run[q])'
    OBVIOUS
<1>1. RunSound(run[q]) /\ run[q].before \in Nat /\ unpersisted \in Nat
    BY DEF ScrapingInvariant, ScrapingTypeOK
<1> QED BY <1>1 DEF Grows, RunSound

\* Acks of items that were handled before the step, or are now.
LEMMA AcksStay ==
  ASSUME ScrapingInvariant, Grows,
         \A i \in seen' \ seen : i \in emitted /\ i \in alerted /\ i \in Handled
  PROVE  AckedIsHandled'
<1> SUFFICES ASSUME NEW i \in seen' PROVE i \in emitted' /\ i \in alerted' /\ i \in Handled'
    BY DEF AckedIsHandled, Handled
<1>1. CASE i \in seen
    BY <1>1 DEF ScrapingInvariant, AckedIsHandled, Grows, Handled
<1>2. CASE i \notin seen
    BY <1>2 DEF Grows
<1> QED BY <1>1, <1>2

\* The breaker stays within its bounds.
LEMMA BreakerTyped ==
  ASSUME NEW b \in BreakerRecord
  PROVE  RecordSuccess(b) \in BreakerRecord /\ RecordFailure(b) \in BreakerRecord
<1>1. ClosedBreaker \in BreakerRecord /\ OpenBreaker \in BreakerRecord
    BY ScrapingAssumption DEF ClosedBreaker, OpenBreaker, BreakerRecord
<1>2. RecordSuccess(b) \in BreakerRecord
  <2>1. CASE b.state = "half_open" /\ b.halfOpenCalls + 1 >= HalfOpenMax
      BY <2>1, <1>1, ScrapingAssumption DEF RecordSuccess, BreakerRecord
  <2>2. CASE b.state = "half_open" /\ b.halfOpenCalls + 1 < HalfOpenMax
    <3>1. RecordSuccess(b) = [b EXCEPT !.halfOpenCalls = @ + 1, !.streak = 0]
        BY <2>2, ScrapingAssumption DEF RecordSuccess, BreakerRecord
    <3>2. /\ b.halfOpenCalls + 1 \in 0..(HalfOpenMax - 1) /\ 0 \in 0..(FailureThreshold - 1)
          /\ b.state \in {"closed", "open", "half_open"}
        BY <2>2, ScrapingAssumption DEF BreakerRecord
    <3>3. RecordSuccess(b) =
            [state |-> b.state, halfOpenCalls |-> b.halfOpenCalls + 1, streak |-> 0]
        BY <3>1, Zenon DEF BreakerRecord
    <3> QED BY <3>2, <3>3 DEF BreakerRecord
  <2>3. CASE b.state # "half_open"
    <3>1. RecordSuccess(b) = [b EXCEPT !.streak = 0]
        BY <2>3, ScrapingAssumption DEF RecordSuccess, BreakerRecord
    <3> QED BY <3>1, ScrapingAssumption DEF BreakerRecord
  <2> QED BY <2>1, <2>2, <2>3, ScrapingAssumption DEF BreakerRecord
<1>3. RecordFailure(b) \in BreakerRecord
    BY <1>1, ScrapingAssumption DEF RecordFailure, BreakerRecord
<1> QED BY <1>2, <1>3

LEMMA ScrapingStep ==
  ASSUME ScrapingInvariant, [ScrapingNext]_scrapingVars
  PROVE  ScrapingInvariant'
<1> USE ScrapingAssumption
<1>0. /\ feed \subseteq Item /\ seen \subseteq Item /\ emitted \subseteq Item
      /\ alerted \subseteq Item /\ delivered \subseteq Item /\ overwritten \subseteq Item
      /\ outbox \in Seq(Line) /\ unpersisted \in Nat /\ troubles \in 0..MaxTroubles
      /\ breaker \in BreakerRecord /\ run \in [Run -> RunRecord] /\ drain \in DrainRecord
    BY Zenon DEF ScrapingInvariant, ScrapingTypeOK, BreakerRecord, RunRecord, DrainRecord
<1> DEFINE Typed ==
      /\ feed \subseteq Item /\ seen \subseteq Item /\ emitted \subseteq Item
      /\ alerted \subseteq Item /\ delivered \subseteq Item /\ overwritten \subseteq Item
      /\ outbox \in Seq(Line) /\ unpersisted \in Nat /\ troubles \in 0..MaxTroubles
      /\ breaker \in BreakerRecord /\ run \in [Run -> RunRecord] /\ drain \in DrainRecord
<1>t. ASSUME Typed' PROVE ScrapingTypeOK'
    BY <1>t, Zenon DEF ScrapingTypeOK, BreakerRecord, RunRecord, DrainRecord
<1>g. ASSUME Trouble \/ UNCHANGED troubles PROVE troubles' \in 0..MaxTroubles
    BY <1>g, <1>0 DEF Trouble
<1>a. AckedIsHandled /\ DrainSound /\ \A r \in Run : RunSound(run[r])
    BY DEF ScrapingInvariant
<1>1. ASSUME NEW i \in Item, Publish(i) PROVE ScrapingInvariant'
  <2>1. Typed'
      BY <1>1, <1>0 DEF Publish
  <2>2. Grows
      BY <1>1, <1>0 DEF Publish, Grows, Handled
  <2>3. \A q \in Run : RunSound(run[q])'
      BY <1>1, <2>1, <2>2, RunsRest, Zenon DEF Publish
  <2>4. DrainSound' /\ AckedIsHandled'
      BY <1>1, <1>a, Zenon DEF Publish, DrainSound, AckedIsHandled
  <2> QED BY <2>1, <2>3, <2>4, <1>t, Zenon DEF ScrapingInvariant
<1>2. ASSUME NEW i \in Item, CleanupOldItems(i) PROVE ScrapingInvariant'
  <2>1. Typed'
      BY <1>2, <1>0, <1>g DEF CleanupOldItems
  <2>2. Grows
      BY <1>2, <1>0 DEF CleanupOldItems, Grows, Handled
  <2>3. \A q \in Run : RunSound(run[q])'
      BY <1>2, <2>1, <2>2, RunsRest, Zenon DEF CleanupOldItems
  <2>4. DrainSound' /\ AckedIsHandled'
      BY <1>2, <1>a, Zenon DEF CleanupOldItems, DrainSound, AckedIsHandled
  <2> QED BY <2>1, <2>3, <2>4, <1>t DEF ScrapingInvariant
<1>3. ASSUME NEW r \in Run, CanExecute(r) PROVE ScrapingInvariant'
  <2>0. PICK d : d = [run[r] EXCEPT !.pc = "scraping"]
      BY Zenon
  <2>1. d \in RunRecord /\ run' = [run EXCEPT ![r] = d]
      BY <1>3, <1>0, <2>0, Zenon DEF CanExecute, RunRecord
  <2>2. Grows
      BY <1>3, <1>0 DEF CanExecute, durable, Grows, Handled
  <2>3. RunSound(d)'
      BY <1>3, <1>0, <2>0 DEF CanExecute, RunSound, RunRecord
  <2>4. breaker' \in BreakerRecord
      BY <1>3, <1>0 DEF CanExecute, BreakerRecord, ClosedBreaker
  <2>5. run' \in [Run -> RunRecord] /\ \A q \in Run : RunSound(run[q])'
    <3>1. Moves(r, d)
        BY <1>3, <1>0, <2>1, <2>2, <2>3, Zenon DEF CanExecute, Moves
    <3> QED BY <3>1, RunMoves
  <2>6. Typed'
      BY <1>3, <1>0, <2>4, <2>5, Zenon DEF CanExecute, durable
  <2>7. DrainSound' /\ AckedIsHandled'
      BY <1>3, <1>a DEF CanExecute, durable, DrainSound, AckedIsHandled
  <2> QED BY <2>5, <2>6, <2>7, <1>t DEF ScrapingInvariant
<1>4. ASSUME NEW r \in Run, Scrape(r) PROVE ScrapingInvariant'
  <2>1. PICK d : run' = [run EXCEPT ![r] = d]
                 /\ d \in {NoRun, [NoRun EXCEPT !.pc = "emitting", !.batch = feed \ seen]}
      BY <1>4 DEF Scrape
  <2>2. Grows
      BY <1>4, <1>0 DEF Scrape, durable, Grows, Handled
  <2>3. d \in RunRecord /\ RunSound(d)'
    <3>1. CASE d = NoRun
        BY <3>1, Zenon DEF NoRun, RunRecord, RunSound
    <3>2. CASE d = [NoRun EXCEPT !.pc = "emitting", !.batch = feed \ seen]
      <4>1. d = [pc |-> "emitting", batch |-> feed \ seen, before |-> 0, emitOk |-> FALSE,
                 withheld |-> FALSE]
          BY <3>2, Zenon DEF NoRun
      <4> QED BY <4>1, <1>0 DEF RunRecord, RunSound
    <3> QED BY <2>1, <3>1, <3>2, Zenon
  <2>4. breaker' \in BreakerRecord
      BY <1>4, <1>0, BreakerTyped, Zenon DEF Scrape
  <2>5. run' \in [Run -> RunRecord] /\ \A q \in Run : RunSound(run[q])'
    <3>1. Moves(r, d)
        BY <1>4, <1>0, <2>1, <2>2, <2>3, Zenon DEF Scrape, Moves
    <3> QED BY <3>1, RunMoves
  <2>6. Typed'
      BY <1>4, <1>0, <1>g, <2>4, <2>5, Zenon DEF Scrape, durable
  <2>7. DrainSound' /\ AckedIsHandled'
      BY <1>4, <1>a, Zenon DEF Scrape, durable, DrainSound, AckedIsHandled
  <2> QED BY <2>5, <2>6, <2>7, <1>t DEF ScrapingInvariant
<1>5. ASSUME NEW r \in Run, EmitBatch(r) PROVE ScrapingInvariant'
  <2>0. ~run[r].emitOk /\ run[r] \in RunRecord
      BY <1>5, <1>0, <1>a DEF EmitBatch, RunSound
  <2>1. PICK ok \in BOOLEAN :
          /\ run' = [run EXCEPT ![r] = [run[r] EXCEPT !.pc = "notifying", !.emitOk = ok,
                                                     !.before = unpersisted]]
          /\ ok => emitted' = emitted \cup run[r].batch
    <3>1. CASE emitted' = emitted \cup run[r].batch /\ UNCHANGED troubles
               /\ run' = [run EXCEPT ![r].pc = "notifying", ![r].emitOk = TRUE,
                                     ![r].before = unpersisted]
      <4>1. run' = [run EXCEPT ![r] = [run[r] EXCEPT !.pc = "notifying", !.emitOk = TRUE,
                                                     !.before = unpersisted]]
          BY <3>1, <1>0, Zenon DEF RunRecord
      <4> QED BY <3>1, <4>1, Zenon
    <3>2. CASE run' = [run EXCEPT ![r].pc = "notifying", ![r].before = unpersisted]
      <4>1. run' = [run EXCEPT ![r] = [run[r] EXCEPT !.pc = "notifying", !.emitOk = FALSE,
                                                     !.before = unpersisted]]
          BY <3>2, <1>0, <2>0, Zenon DEF RunRecord
      <4> QED BY <4>1, Zenon
    <3> QED BY <1>5, <3>1, <3>2, Zenon DEF EmitBatch
  <2>9. PICK d : d = [run[r] EXCEPT !.pc = "notifying", !.emitOk = ok, !.before = unpersisted]
      OBVIOUS
  <2>2. Grows
      BY <1>5, <1>0 DEF EmitBatch, Grows, Handled
  <2>3. d \in RunRecord /\ RunSound(d)'
      BY <1>5, <2>1, <2>9, <1>0 DEF EmitBatch, RunRecord, RunSound
  <2>5. run' \in [Run -> RunRecord] /\ \A q \in Run : RunSound(run[q])'
    <3>1. Moves(r, d)
        BY <1>5, <1>0, <2>1, <2>9, <2>2, <2>3, Zenon DEF EmitBatch, Moves
    <3> QED BY <3>1, RunMoves
  <2>6. Typed'
      BY <1>5, <1>0, <1>g, <2>5, Zenon DEF EmitBatch, RunRecord
  <2>7. DrainSound' /\ AckedIsHandled'
      BY <1>5, <1>a DEF EmitBatch, DrainSound, AckedIsHandled
  <2> QED BY <2>5, <2>6, <2>7, <1>t, Zenon DEF ScrapingInvariant
<1>6. ASSUME NEW r \in Run, Notify(r) PROVE ScrapingInvariant'
  <2>0. run[r] \in RunRecord /\ run[r].pc = "notifying" /\ RunSound(run[r])
        /\ run[r].before \in Nat /\ run[r].before <= unpersisted
      BY <1>6, <1>0, <1>a, Zenon DEF Notify, RunSound, RunRecord
  <2>w. PICK w \in BOOLEAN : w <=> (unpersisted' > run[r].before)
    <3>1. CASE unpersisted' > run[r].before
        BY <3>1, Zenon
    <3>2. CASE ~(unpersisted' > run[r].before)
        BY <3>2, Zenon
    <3> QED BY <3>1, <3>2
  <2>d. PICK d : d = [run[r] EXCEPT !.pc = "alerting", !.withheld = w]
      OBVIOUS
  <2>l. PICK line : line = [batch |-> run[r].batch, attempts |-> 0]
      BY Zenon
  <2>1. line \in Line /\ line.batch = run[r].batch
      BY <2>0, <2>l DEF Line, RunRecord
  <2>2. /\ Handled \subseteq Handled' /\ delivered' \subseteq Item
        /\ outbox' \in Seq(Line) /\ unpersisted' \in Nat
        /\ unpersisted <= unpersisted'
        /\ unpersisted' = unpersisted => run[r].batch \subseteq Handled'
    <3>1. CASE delivered' = delivered \cup run[r].batch /\ UNCHANGED <<outbox, unpersisted>>
        BY <1>6, <3>1, <1>0, <2>0 DEF Notify, Handled, RunRecord
    <3>2. CASE outbox' = Append(outbox, line) /\ UNCHANGED <<delivered, unpersisted>>
      <4>1. ItemsOf(outbox') = ItemsOf(outbox) \cup run[r].batch /\ outbox' \in Seq(Line)
          BY <3>2, <2>1, <1>0, ItemsOfAppend
      <4> QED BY <1>6, <3>2, <4>1, <1>0 DEF Notify, Handled
    <3>3. CASE unpersisted' = unpersisted + 1 /\ UNCHANGED <<delivered, outbox>>
        BY <1>6, <3>3, <1>0, SMTT(30) DEF Notify, Handled
    <3> QED BY <1>6, <2>l, <3>1, <3>2, <3>3, Zenon DEF Notify
  <2>3. /\ run' = [run EXCEPT ![r] = d] /\ d \in RunRecord
        /\ d.withheld = w
    <3>1. run' = [run EXCEPT ![r].pc = "alerting", ![r].withheld = w]
        BY <1>6, <1>0, <2>w, SMTT(30) DEF Notify, Notified
    <3>2. run' = [run EXCEPT ![r] = d]
        BY <3>1, <1>0, <2>d, Zenon DEF RunRecord
    <3>3. d \in RunRecord /\ d.withheld = w
        BY <2>0, <2>d, ZenonT(30) DEF RunRecord
    <3> QED BY <3>2, <3>3, Zenon
  <2>4. Grows
      BY <1>6, <2>2, Zenon DEF Notify, Grows
  <2>5. RunSound(d)'
    <3>1. d.pc = "alerting" /\ d.batch = run[r].batch /\ d.emitOk = run[r].emitOk
        BY <2>0, <2>d DEF RunRecord
    <3>2. ~d.withheld => unpersisted' = unpersisted
      <4>1. ~w => ~(unpersisted' > run[r].before)
          BY <2>w, Zenon
      <4>2. ~(unpersisted' > run[r].before) => unpersisted' = unpersisted
          BY <2>0, <2>2, <1>0, SMTT(30)
      <4> QED BY <4>1, <4>2, <2>3
    <3>3. run[r].emitOk => run[r].batch \subseteq emitted'
        BY <1>6, <2>0, ZenonT(30) DEF RunSound, Notify
    <3> QED BY <3>1, <3>2, <3>3, <2>2 DEF RunSound
  <2>6. run' \in [Run -> RunRecord] /\ \A q \in Run : RunSound(run[q])'
    <3>1. Moves(r, d)
        BY <2>2, <2>3, <2>4, <2>5, Zenon DEF Moves
    <3> QED BY <3>1, RunMoves
  <2>7. Typed'
      BY <1>6, <1>0, <1>g, <2>2, <2>6, Zenon DEF Notify
  <2>8. DrainSound'
    <3> SUFFICES ASSUME drain.pc = "delivering"
                 PROVE  /\ drain.read <= Len(outbox')
                        /\ \A k \in 1..drain.read :
                             outbox'[k].batch \subseteq
                               ItemsOf(drain.todo) \cup ItemsOf(drain.remaining) \cup delivered'
        BY <1>6, Zenon DEF Notify, DrainSound
    <3>1. /\ drain.read <= Len(outbox) /\ drain.read \in Nat
          /\ \A k \in 1..drain.read :
               outbox[k].batch \subseteq
                 ItemsOf(drain.todo) \cup ItemsOf(drain.remaining) \cup delivered
        BY <1>a, <1>0, Zenon DEF DrainSound, DrainRecord
    <3>2. delivered \subseteq delivered'
        BY <1>6, Zenon DEF Notify
    <3>3. Len(outbox') >= Len(outbox) /\ \A k \in 1..Len(outbox) : outbox'[k] = outbox[k]
      <4>1. CASE outbox' = outbox
          BY <4>1, <1>0
      <4>2. CASE outbox' = Append(outbox, line)
          BY <4>2, <1>0, <2>1
      <4> QED BY <1>6, <2>l, <4>1, <4>2 DEF Notify
    <3> QED BY <3>1, <3>2, <3>3, <2>2, <1>0, SMTT(30)
  <2>9. AckedIsHandled'
      BY <1>6, <2>4, AcksStay, Zenon DEF Notify
  <2> QED BY <2>6, <2>7, <2>8, <2>9, <1>t, Zenon DEF ScrapingInvariant
<1>7. ASSUME NEW r \in Run, AlertTenants(r) PROVE ScrapingInvariant'
  <2>0. run[r] \in RunRecord /\ run[r].pc = "alerting" /\ RunSound(run[r])
      BY <1>7, <1>0, <1>a DEF AlertTenants
  <2>1. PICK failed \in SUBSET run[r].batch :
          /\ IF failed = {} THEN UNCHANGED troubles ELSE Trouble
          /\ alerted' = alerted \cup (run[r].batch \ failed)
          /\ run' = [run EXCEPT ![r] =
                IF run[r].emitOk /\ ~run[r].withheld /\ failed # run[r].batch
                  THEN [run[r] EXCEPT !.pc = "acking", !.batch = @ \ failed]
                  ELSE NoRun]
      BY <1>7, Zenon DEF AlertTenants
  <2>d. PICK d : d = IF run[r].emitOk /\ ~run[r].withheld /\ failed # run[r].batch
                       THEN [run[r] EXCEPT !.pc = "acking", !.batch = @ \ failed]
                       ELSE NoRun
      OBVIOUS
  <2>2. Grows
      BY <1>7, <2>1, <1>0 DEF AlertTenants, Grows, Handled
  <2>3. d \in RunRecord /\ RunSound(d)'
    <3>1. CASE run[r].emitOk /\ ~run[r].withheld /\ failed # run[r].batch
      <4>1. d \in RunRecord /\ d.pc = "acking" /\ d.batch = run[r].batch \ failed
          BY <3>1, <2>0, <2>d, Zenon DEF RunRecord
      <4>2. run[r].batch \subseteq emitted /\ run[r].batch \subseteq Handled
          BY <3>1, <2>0 DEF RunSound
      <4>3. d.batch \subseteq emitted' /\ d.batch \subseteq alerted' /\ d.batch \subseteq Handled'
          BY <4>1, <4>2, <2>1, <2>2, Zenon DEF Grows
      <4> QED BY <4>1, <4>3 DEF RunSound
    <3>2. CASE d = NoRun
        BY <3>2, Zenon DEF NoRun, RunRecord, RunSound
    <3> QED BY <3>1, <3>2, <2>d, Zenon
  <2>4. run' \in [Run -> RunRecord] /\ \A q \in Run : RunSound(run[q])'
    <3>1. Moves(r, d)
        BY <1>7, <1>0, <2>1, <2>d, <2>2, <2>3, Zenon DEF AlertTenants, Moves
    <3> QED BY <3>1, RunMoves
  <2>5. Typed'
      BY <1>7, <1>0, <1>g, <2>0, <2>1, <2>4, Zenon DEF AlertTenants, RunRecord
  <2>6. DrainSound'
      BY <1>7, <1>a DEF AlertTenants, DrainSound
  <2>7. AckedIsHandled'
      BY <1>7, <2>2, AcksStay, Zenon DEF AlertTenants
  <2> QED BY <2>4, <2>5, <2>6, <2>7, <1>t DEF ScrapingInvariant
<1>8. ASSUME NEW r \in Run, MarkSeen(r) PROVE ScrapingInvariant'
  <2>0. run[r] \in RunRecord /\ run[r].pc = "acking"
        /\ run[r].batch \subseteq emitted \cap alerted \cap Handled
      BY <1>8, <1>0, <1>a DEF MarkSeen, RunSound
  <2>1. PICK d : /\ run' = [run EXCEPT ![r] = d]
                 /\ d = NoRun \/ \E i \in run[r].batch :
                                   d = [run[r] EXCEPT !.batch = @ \ {i}]
      BY <1>8 DEF MarkSeen
  <2>2. Grows
      BY <1>8, <1>0 DEF MarkSeen, Grows, Handled
  <2>3. d \in RunRecord /\ RunSound(d)'
    <3>1. CASE d = NoRun
        BY <3>1 DEF NoRun, RunRecord, RunSound
    <3>2. ASSUME NEW i \in run[r].batch, d = [run[r] EXCEPT !.batch = @ \ {i}]
          PROVE  d \in RunRecord /\ RunSound(d)'
      <4>1. d \in RunRecord /\ d.pc = "acking" /\ d.batch \subseteq run[r].batch
          BY <3>2, <2>0, Zenon DEF RunRecord
      <4>2. d.batch \subseteq emitted' /\ d.batch \subseteq alerted' /\ d.batch \subseteq Handled'
          BY <4>1, <2>0, <2>2, Zenon DEF Grows
      <4> QED BY <4>1, <4>2 DEF RunSound
    <3> QED BY <2>1, <3>1, <3>2, Zenon
  <2>4. run' \in [Run -> RunRecord] /\ \A q \in Run : RunSound(run[q])'
    <3>1. Moves(r, d)
        BY <1>8, <1>0, <2>1, <2>2, <2>3, Zenon DEF MarkSeen, Moves
    <3> QED BY <3>1, RunMoves
  <2>5. seen' \subseteq seen \cup run[r].batch
      BY <1>8 DEF MarkSeen
  <2>6. Typed'
      BY <1>8, <1>0, <1>g, <2>0, <2>4, <2>5, Zenon DEF MarkSeen, RunRecord
  <2>7. DrainSound'
      BY <1>8, <1>a DEF MarkSeen, DrainSound
  <2>8. AckedIsHandled'
      BY <2>0, <2>2, <2>5, AcksStay, Zenon
  <2> QED BY <2>4, <2>6, <2>7, <2>8, <1>t, Zenon DEF ScrapingInvariant
<1>9. ASSUME DrainRead PROVE ScrapingInvariant'
  <2>1. PICK k \in 1..Len(outbox) :
          /\ IF k = Len(outbox) THEN UNCHANGED troubles ELSE Trouble
          /\ drain' = [pc |-> "delivering", todo |-> SubSeq(outbox, 1, k),
                       remaining |-> <<>>, read |-> k]
      BY <1>9, Zenon DEF DrainRead
  <2>2. Grows
      BY <1>9, <1>0 DEF DrainRead, durable, Grows, Handled
  <2>3. /\ SubSeq(outbox, 1, k) \in Seq(Line) /\ DOMAIN SubSeq(outbox, 1, k) = 1..k
        /\ \A j \in 1..k : SubSeq(outbox, 1, k)[j] = outbox[j]
      BY <1>0
  <2>4. Typed'
    <3>1. drain' \in DrainRecord
        BY <2>1, <2>3, <1>0 DEF DrainRecord
    <3> QED BY <1>9, <1>0, <1>g, <2>1, <3>1, Zenon DEF DrainRead, durable
  <2>5. \A q \in Run : RunSound(run[q])'
      BY <1>9, <2>2, <2>4, RunsRest, Zenon DEF DrainRead
  <2>6. DrainSound'
    <3>1. \A j \in 1..k : outbox[j].batch \subseteq ItemsOf(SubSeq(outbox, 1, k))
        BY <2>3, Zenon DEF ItemsOf
    <3>2. /\ drain'.todo = SubSeq(outbox, 1, k) /\ drain'.read = k /\ outbox' = outbox
          /\ k <= Len(outbox)
        BY <1>9, <2>1, <1>0 DEF DrainRead
    <3> QED BY <3>1, <3>2 DEF DrainSound
  <2>7. AckedIsHandled'
      BY <1>9, <2>2, AcksStay, Zenon DEF DrainRead, durable
  <2> QED BY <2>4, <2>5, <2>6, <2>7, <1>t DEF ScrapingInvariant
<1>10. ASSUME DrainKeep PROVE ScrapingInvariant'
  <2>0. drain \in DrainRecord /\ drain.todo \in Seq(Line) /\ drain.todo # <<>>
        /\ drain.remaining \in Seq(Line) /\ Head(drain.todo) \in Line
        /\ Tail(drain.todo) \in Seq(Line) /\ drain.pc = "delivering"
      BY <1>10, <1>0 DEF DrainKeep, DrainRecord
  <2>1. /\ drain' = [drain EXCEPT !.todo = Tail(drain.todo),
                                  !.remaining = Append(drain.remaining, Head(drain.todo))]
        /\ UNCHANGED <<durable, outbox, unpersisted, breaker, run, troubles>>
      BY <1>10 DEF DrainKeep
  <2>2. /\ drain' \in DrainRecord /\ drain'.todo = Tail(drain.todo)
        /\ drain'.remaining = Append(drain.remaining, Head(drain.todo))
        /\ drain'.read = drain.read
    <3>1. Append(drain.remaining, Head(drain.todo)) \in Seq(Line)
        BY <2>0
    <3> QED BY <3>1, <2>0, <2>1, Zenon DEF DrainRecord
  <2>3. Grows
      BY <2>1, <1>0 DEF durable, Grows, Handled
  <2>4. Typed'
      BY <2>1, <2>2, <1>0, Zenon DEF durable
  <2>5. \A q \in Run : RunSound(run[q])'
      BY <2>1, <2>3, <2>4, RunsRest
  <2>6. DrainSound'
    <3>1. ItemsOf(drain.todo) \cup ItemsOf(drain.remaining)
            \subseteq ItemsOf(drain'.todo) \cup ItemsOf(drain'.remaining)
      <4>1. ItemsOf(drain.todo) \subseteq Head(drain.todo).batch \cup ItemsOf(Tail(drain.todo))
          BY <2>0, ItemsOfTail, Zenon
      <4>2. ItemsOf(Append(drain.remaining, Head(drain.todo)))
              = ItemsOf(drain.remaining) \cup Head(drain.todo).batch
          BY <2>0, ItemsOfAppend
      <4> QED BY <4>1, <4>2, <2>2, Zenon
    <3>2. outbox' = outbox /\ delivered' = delivered
        BY <2>1 DEF durable
    <3> QED BY <3>1, <3>2, <2>0, <2>2, <1>a, Zenon DEF DrainSound
  <2>7. AckedIsHandled'
      BY <2>1, <2>3, AcksStay, Zenon DEF durable
  <2> QED BY <2>4, <2>5, <2>6, <2>7, <1>t DEF ScrapingInvariant
<1>11. ASSUME DrainAttempt PROVE ScrapingInvariant'
  <2>0. PICK e : e = Head(drain.todo)
      BY Zenon
  <2>1. drain \in DrainRecord /\ drain.todo \in Seq(Line) /\ drain.todo # <<>>
        /\ drain.remaining \in Seq(Line) /\ e \in Line /\ drain.pc = "delivering"
        /\ Tail(drain.todo) \in Seq(Line) /\ e.attempts < OutboxAttempts
        /\ ItemsOf(drain.todo) \subseteq e.batch \cup ItemsOf(Tail(drain.todo))
    <3>1. drain \in DrainRecord /\ drain.todo \in Seq(Line) /\ drain.todo # <<>>
          /\ drain.remaining \in Seq(Line) /\ drain.pc = "delivering"
          /\ e.attempts < OutboxAttempts
        BY <1>11, <1>0, <2>0 DEF DrainAttempt, DrainRecord
    <3> QED BY <3>1, <2>0, ItemsOfTail
  <2>2. PICK f : f = [e EXCEPT !.attempts = @ + 1]
      BY Zenon
  <2>3. f \in Line /\ f.batch = e.batch
    <3>1. f = [batch |-> e.batch, attempts |-> e.attempts + 1]
        BY <2>1, <2>2, Zenon DEF Line
    <3>2. e.batch \in SUBSET Item /\ e.attempts + 1 \in 0..OutboxAttempts
        BY <2>1 DEF Line
    <3> QED BY <3>1, <3>2 DEF Line
  <2>4. UNCHANGED <<feed, seen, emitted, alerted, overwritten, outbox, unpersisted, breaker,
                    run, troubles>>
      BY <1>11 DEF DrainAttempt
  <2>5. /\ delivered \subseteq delivered' /\ delivered' \subseteq Item
        /\ drain' \in DrainRecord /\ drain'.read = drain.read
        /\ ItemsOf(drain.todo) \cup ItemsOf(drain.remaining) \cup delivered
             \subseteq ItemsOf(drain'.todo) \cup ItemsOf(drain'.remaining) \cup delivered'
    <3>1. CASE delivered' = delivered \cup e.batch
               /\ drain' = [drain EXCEPT !.todo = Tail(drain.todo)]
      <4>1. /\ drain' \in DrainRecord /\ drain'.read = drain.read
            /\ drain'.todo = Tail(drain.todo) /\ drain'.remaining = drain.remaining
          BY <3>1, <2>1, Zenon DEF DrainRecord
      <4>2. e.batch \subseteq Item
          BY <2>1 DEF Line
      <4> QED BY <3>1, <4>1, <4>2, <2>1, <1>0, Zenon
    <3>2. CASE delivered' = delivered
               /\ drain' = [drain EXCEPT !.todo = Tail(drain.todo),
                                         !.remaining = Append(drain.remaining, f)]
      <4>1. /\ drain' \in DrainRecord /\ drain'.read = drain.read
            /\ drain'.todo = Tail(drain.todo)
            /\ drain'.remaining = Append(drain.remaining, f)
        <5>1. Append(drain.remaining, f) \in Seq(Line)
            BY <2>1, <2>3
        <5> QED BY <5>1, <3>2, <2>1, Zenon DEF DrainRecord
      <4>2. ItemsOf(Append(drain.remaining, f)) = ItemsOf(drain.remaining) \cup f.batch
          BY <2>1, <2>3, ItemsOfAppend, Zenon
      <4> QED BY <3>2, <4>1, <4>2, <2>1, <2>3, <1>0, Zenon
    <3> QED BY <1>11, <2>0, <2>2, <3>1, <3>2, Zenon DEF DrainAttempt
  <2>6. Grows
      BY <2>4, <2>5, <1>0 DEF Grows, Handled
  <2>7. Typed'
      BY <2>4, <2>5, <1>0, Zenon
  <2>8. \A q \in Run : RunSound(run[q])'
      BY <2>4, <2>6, <2>7, RunsRest, Zenon
  <2>9. DrainSound'
      BY <2>1, <2>4, <2>5, <1>a DEF DrainSound
  <2>10. AckedIsHandled'
      BY <2>4, <2>6, AcksStay, Zenon
  <2> QED BY <2>7, <2>8, <2>9, <2>10, <1>t DEF ScrapingInvariant
<1>12. ASSUME DrainWrite PROVE ScrapingInvariant'
  <2>0. /\ drain \in DrainRecord /\ drain.todo = <<>> /\ drain.remaining \in Seq(Line)
        /\ drain.pc = "delivering" /\ drain.read \in Nat
      BY <1>12, <1>0, Zenon DEF DrainWrite, DrainRecord
  <2>1. UNCHANGED <<feed, seen, emitted, alerted, delivered, unpersisted, breaker, run>>
      BY <1>12, Zenon DEF DrainWrite
  <2>2. drain' \in DrainRecord /\ drain'.pc = "idle"
      BY <1>12 DEF DrainWrite, NoDrain, DrainRecord
  <2>3. /\ outbox' \in Seq(Line) /\ overwritten' \subseteq Item
        /\ ItemsOf(outbox) \cup delivered \cup overwritten
             \subseteq ItemsOf(outbox') \cup delivered \cup overwritten'
    <3>1. CASE UNCHANGED <<outbox, overwritten>>
        BY <3>1, <1>0, Zenon
    <3>2. CASE /\ outbox' = drain.remaining
               /\ overwritten' = overwritten
                    \cup (ItemsOf(Unread) \ (ItemsOf(drain.remaining) \cup delivered))
      <4>1. /\ Len(outbox) \in Nat /\ drain.read <= Len(outbox)
            /\ \A k \in 1..drain.read :
                 outbox[k].batch \subseteq ItemsOf(drain.remaining) \cup delivered
          BY <2>0, <1>0, <1>a, ItemsOfEmpty DEF DrainSound
      <4>2. /\ Unread \in Seq(Line) /\ DOMAIN Unread = 1..(Len(outbox) - drain.read)
            /\ \A k \in 1..(Len(outbox) - drain.read) : Unread[k] = outbox[drain.read + k]
          BY <2>0, <4>1, <1>0 DEF Unread
      <4>3. ItemsOf(Unread) \subseteq Item
        <5>1. \A k \in DOMAIN Unread : Unread[k].batch \subseteq Item
          <6>1. \A k \in 1..(Len(outbox) - drain.read) :
                   drain.read + k \in 1..Len(outbox) /\ outbox[drain.read + k] \in Line
              BY <1>0, <2>0, <4>1
          <6>2. \A k \in DOMAIN Unread : Unread[k] \in Line
              BY <4>2, <6>1
          <6> QED BY <6>2 DEF Line
        <5> QED BY <5>1 DEF ItemsOf
      <4>4. ASSUME NEW x \in ItemsOf(outbox)
            PROVE  x \in ItemsOf(Unread) \cup ItemsOf(drain.remaining) \cup delivered
        <5>1. PICK k \in 1..Len(outbox) : x \in outbox[k].batch
            BY <1>0 DEF ItemsOf
        <5>2. CASE k <= drain.read
            BY <5>1, <5>2, <4>1, <2>0
        <5>3. CASE ~(k <= drain.read)
          <6>1. k - drain.read \in 1..(Len(outbox) - drain.read)
                /\ drain.read + (k - drain.read) = k
              BY <5>3, <4>1, <2>0
          <6>2. Unread[k - drain.read] = outbox[k]
              BY <6>1, <4>2, Zenon
          <6> QED BY <5>1, <6>1, <6>2, <4>2, Zenon DEF ItemsOf
        <5> QED BY <5>2, <5>3, Zenon
      <4> QED BY <3>2, <4>3, <4>4, <2>0, <1>0, Zenon
    <3> QED BY <1>12, <3>1, <3>2 DEF DrainWrite
  <2>4. Grows
      BY <2>1, <2>3, <1>0 DEF Grows, Handled
  <2>5. Typed'
      BY <1>12, <2>1, <2>2, <2>3, <1>0, <1>g, Zenon DEF DrainWrite
  <2>6. \A q \in Run : RunSound(run[q])'
      BY <2>1, <2>4, <2>5, RunsRest, Zenon
  <2>7. DrainSound'
      BY <2>2 DEF DrainSound
  <2>8. AckedIsHandled'
      BY <2>1, <2>4, AcksStay, Zenon
  <2> QED BY <2>5, <2>6, <2>7, <2>8, <1>t DEF ScrapingInvariant
<1>13. ASSUME ProcessEnds PROVE ScrapingInvariant'
  <2>1. Typed'
    <3>1. NoDrain \in DrainRecord /\ ClosedBreaker \in BreakerRecord
        BY DEF NoDrain, ClosedBreaker, DrainRecord, BreakerRecord
    <3>2. run' \in [Run -> RunRecord]
        BY <1>13, NoRunSound, Zenon DEF ProcessEnds
    <3> QED BY <1>13, <3>1, <3>2, <1>0, <1>g, Zenon DEF ProcessEnds, durable
  <2>2. \A q \in Run : RunSound(run[q])'
    <3>1. \A q \in Run : run'[q] = NoRun
        BY <1>13, Zenon DEF ProcessEnds
    <3> QED BY <3>1 DEF RunSound, NoRun
  <2>3. DrainSound' /\ AckedIsHandled'
      BY <1>13, <1>a, Zenon DEF ProcessEnds, durable, DrainSound, NoDrain, AckedIsHandled
  <2> QED BY <2>1, <2>2, <2>3, <1>t, Zenon DEF ScrapingInvariant
<1>14. CASE UNCHANGED scrapingVars
  <2>1. Typed'
      BY <1>14, <1>0, Zenon DEF scrapingVars, durable
  <2>2. Grows
      BY <1>14, <1>0 DEF scrapingVars, durable, Grows, Handled
  <2>3. \A q \in Run : RunSound(run[q])'
      BY <1>14, <2>1, <2>2, RunsRest, Zenon DEF scrapingVars
  <2>4. DrainSound' /\ AckedIsHandled'
      BY <1>14, <1>a DEF scrapingVars, durable, DrainSound, AckedIsHandled
  <2> QED BY <2>1, <2>3, <2>4, <1>t DEF ScrapingInvariant
<1> QED
  <2> HIDE DEF Typed
  <2> QED BY <1>1, <1>2, <1>3, <1>4, <1>5, <1>6, <1>7, <1>8, <1>9, <1>10, <1>11, <1>12, <1>13, <1>14, Zenon
          DEF ScrapingNext, RunStep, DrainStep

\* An item is acked only when it was emitted, its alerts are written and its
\* notification was delivered or waits in the outbox, unless a rewrite of the
\* file dropped it: for any items, threads, attempts and failures.
THEOREM AcksAreHandled == ScrapingSpec => []AckedIsHandled
<1>1. ScrapingInit => ScrapingInvariant
    BY ScrapingInitial
<1>2. ScrapingInvariant /\ [ScrapingNext]_scrapingVars => ScrapingInvariant'
    BY ScrapingStep
<1>3. ScrapingInvariant => AckedIsHandled
    BY DEF ScrapingInvariant
<1> QED BY <1>1, <1>2, <1>3, PTL DEF ScrapingSpec
-----------------------------------------------------------------------------
\* The statuses create_link moves a case from.
LinkFrom == {"supplier_action_required", "buyer_review", "escalated", "awaiting_supplier"}

TokenRecord ==
  [case : Record, revoked : BOOLEAN, superseded : BOOLEAN, expired : BOOLEAN,
   exchanged : BOOLEAN, session : {"none", "live", "over"}]

\* The shapes of the tables; a token and a request are about a row.
CaseTypes ==
  /\ DOMAIN record = Record /\ record = [r \in Record |-> record[r]]
  /\ \A r \in Record : record[r] = [payload |-> record[r].payload, from |-> record[r].from,
                 validation |-> record[r].validation, release |-> record[r].release]
  /\ caseStatus = [r \in Record |-> caseStatus[r]]
  /\ exception = [r \in Record |-> exception[r]]
  /\ mirrorLost = [r \in Record |-> mirrorLost[r]]
  /\ patches = [r \in Record |-> patches[r]]
  /\ request = [q \in Request |-> request[q]]
  /\ token \in Seq(TokenRecord)

\* A request remembers a row and, for a link, a status that may still move.
Knows(d) ==
  /\ d.pc \in {"linking", "minting"} => d.case \in Record /\ d.status \in LinkFrom
  /\ d.pc = "submitting" => d.case \in Record
  /\ d.pc = "releasing" =>
       d.case \in Record /\ caseStatus[d.case] = "none" /\ record[d.case].release # "none"

RequestKnows == \A q \in Request : Knows(request[q])

\* A released row has no case left to move, and a row that waits for the
\* release of its manifest never had one.
ReleaseIsLast ==
  \A r \in Record :
    /\ record[r].release = "released" => caseStatus[r] \in {"none", "released"}
    /\ record[r].validation = "passed" /\ record[r].release = "staged" => caseStatus[r] = "none"

RemediationInvariant ==
  CaseTypes /\ RequestKnows /\ ReleaseIsLast /\ DashboardTruthful

\* What ReleasedIsFrozen says of one step.
Frozen ==
  \A r \in Record : record[r].release = "released" =>
    record'[r] = record[r] /\ patches'[r] = patches[r]

LEMMA RemediationInitial == RemediationInit => RemediationInvariant
<1> SUFFICES ASSUME RemediationInit PROVE RemediationInvariant
    OBVIOUS
<1> USE DEF RemediationInit
<1>1. CaseTypes
    BY DEF CaseTypes, NoRecord
<1>2. RequestKnows
    BY Zenon DEF RequestKnows, Knows, NoRequest
<1>3. ReleaseIsLast /\ DashboardTruthful
    BY Zenon DEF ReleaseIsLast, DashboardTruthful, NoRecord, Closed
<1> QED BY <1>1, <1>2, <1>3, Zenon DEF RemediationInvariant

\* What transition does to a case, whichever of the paths it takes.
LEMMA TransitionKeeps ==
  ASSUME CaseTypes, DashboardTruthful, NEW r \in Record, NEW path, NEW closing \in BOOLEAN,
         Transition(r, path, closing),
         \/ path[Len(path)] \in {"awaiting_supplier", "buyer_review"} /\ closing = FALSE
         \/ path[Len(path)] = "released" /\ closing = TRUE
  PROVE  /\ DashboardTruthful'
         /\ caseStatus' = [caseStatus EXCEPT ![r] = path[Len(path)]]
         /\ caseStatus[r] = path[1]
         /\ exception' = [x \in Record |-> exception'[x]]
         /\ mirrorLost' = [x \in Record |-> mirrorLost'[x]]
<1> DEFINE last == path[Len(path)]
<1>1. caseStatus' = [caseStatus EXCEPT ![r] = last] /\ caseStatus[r] = path[1]
    BY Zenon DEF Transition
<1>2. caseStatus'[r] = last /\ \A x \in Record : x # r => caseStatus'[x] = caseStatus[x]
    BY <1>1 DEF CaseTypes
<1>3. CASE mirrorLost' = [mirrorLost EXCEPT ![r] = TRUE] /\ UNCHANGED exception
  <2>1. mirrorLost'[r] = TRUE /\ \A x \in Record : x # r => mirrorLost'[x] = mirrorLost[x]
    BY <1>3 DEF CaseTypes
  <2>2. DashboardTruthful'
    BY <1>2, <1>3, <2>1, Zenon DEF DashboardTruthful
  <2> QED BY <1>1, <1>3, <2>2, ZenonT(30) DEF CaseTypes
<1>4. ASSUME NEW mirrored, exception' = [exception EXCEPT ![r] = mirrored], UNCHANGED mirrorLost,
             mirrored \in Closed
               \/ (last \in DOMAIN ExceptionMirror /\ mirrored = ExceptionMirror[last])
      PROVE  DashboardTruthful' /\ exception' = [x \in Record |-> exception'[x]]
             /\ mirrorLost' = [x \in Record |-> mirrorLost'[x]]
  <2>1. exception'[r] = mirrored /\ \A x \in Record : x # r => exception'[x] = exception[x]
    BY <1>4 DEF CaseTypes
  <2> HIDE DEF last
  <2>2. DashboardTruthful'
    BY <1>2, <1>4, <2>1, Zenon DEF DashboardTruthful
  <2> QED BY <1>4, <2>2, ZenonT(30) DEF CaseTypes
<1>5. last \in {"awaiting_supplier", "buyer_review"} => last \in DOMAIN ExceptionMirror
    BY Zenon DEF ExceptionMirror
<1>6. CASE exception[r] \in Closed /\ ~(mirrorLost' = [mirrorLost EXCEPT ![r] = TRUE])
    BY <1>1, <1>4, <1>6, Zenon DEF Transition
<1>7. CASE exception[r] \notin Closed /\ closing /\ ~(mirrorLost' = [mirrorLost EXCEPT ![r] = TRUE])
  <2>1. "resolved" \in Closed
    BY DEF Closed
  <2> QED BY <1>1, <1>4, <1>7, <2>1 DEF Transition
<1>8. CASE exception[r] \notin Closed /\ ~closing /\ ~(mirrorLost' = [mirrorLost EXCEPT ![r] = TRUE])
  <2>1. last \in DOMAIN ExceptionMirror
    BY <1>5, <1>8, Zenon
  <2> QED BY <1>1, <1>4, <1>8, <2>1, Zenon DEF Transition
<1>9. CASE UNCHANGED mirrorLost /\ mirrorLost' = [mirrorLost EXCEPT ![r] = TRUE]
  <2>1. mirrorLost'[r] = TRUE /\ \A x \in Record : x # r => mirrorLost'[x] = mirrorLost[x]
    BY <1>9, Zenon DEF CaseTypes
  <2>2. \A x \in Record : x # r => exception'[x] = exception[x]
    BY Zenon DEF Transition, CaseTypes
  <2>3. DashboardTruthful'
    BY <1>2, <2>1, <2>2, ZenonT(60) DEF DashboardTruthful
  <2>4. exception' = [x \in Record |-> exception'[x]]
    BY DEF Transition, CaseTypes
  <2> QED BY <1>1, <1>9, <2>3, <2>4 DEF CaseTypes
<1> QED BY <1>1, <1>3, <1>6, <1>7, <1>8, <1>9, Zenon DEF Transition

\* Steps that rewrite tokens and nothing else.
LEMMA TokenSteps ==
  ASSUME RemediationInvariant,
         \/ \E r \in Record : RevokeLink(r)
         \/ \E t \in DOMAIN token : ExpireLink(t) \/ Exchange(t) \/ ExpireSession(t)
  PROVE  RemediationInvariant' /\ Frozen
<1> USE DEF RemediationInvariant
<1>1. UNCHANGED <<record, caseStatus, exception, mirrorLost, patches, request>>
    BY Zenon DEF RevokeLink, ExpireLink, Exchange, ExpireSession, manifestVars
<1>2. token' \in Seq(TokenRecord)
  <2>t. DOMAIN token = 1..Len(token) /\ Len(token) \in Nat
        /\ \A t \in DOMAIN token : token[t] \in TokenRecord
    BY DEF CaseTypes
  <2>1. CASE \E r \in Record : RevokeLink(r)
    <3>1. PICK r \in Record : token' = [t \in DOMAIN token |->
                 IF t \in Unrevoked(r) THEN Revoked(token[t]) ELSE token[t]]
      BY <2>1 DEF RevokeLink
    <3>2. \A t \in DOMAIN token : Revoked(token[t]) \in TokenRecord
      BY <2>t, Zenon DEF Revoked, TokenRecord
    <3>3. token' \in [1..Len(token) -> TokenRecord]
      BY <2>t, <3>1, <3>2, Zenon
    <3> QED BY <2>t, <3>3
  <2>2. ASSUME NEW t \in DOMAIN token, ExpireLink(t) \/ Exchange(t) \/ ExpireSession(t)
        PROVE  token' \in Seq(TokenRecord)
    <3>1. PICK d \in TokenRecord : token' = [token EXCEPT ![t] = d]
      <4>1. [token[t] EXCEPT !.expired = TRUE] \in TokenRecord
        BY <2>t, Zenon DEF TokenRecord
      <4>2. [token[t] EXCEPT !.session = "over"] \in TokenRecord
        BY <2>t DEF TokenRecord
      <4>3. [token[t] EXCEPT !.exchanged = TRUE, !.session = "live"] \in TokenRecord
        BY <2>t, ZenonT(30) DEF TokenRecord
      <4> QED BY <2>2, <4>1, <4>2, <4>3, Zenon DEF ExpireLink, Exchange, ExpireSession
    <3> QED BY <2>t, <3>1 DEF CaseTypes
  <2> QED BY <2>1, <2>2, Zenon
<1>3. CaseTypes'
    BY <1>1, <1>2 DEF CaseTypes
<1> QED BY <1>1, <1>3, Zenon DEF RequestKnows, Knows, ReleaseIsLast, DashboardTruthful, Frozen

\* Steps that only start, continue or end a request.
LEMMA RequestSteps ==
  ASSUME RemediationInvariant, NEW q \in Request,
         \/ Abandon(q) \/ LinkRevoke(q)
         \/ \E r \in Record : LinkRead(q, r) \/ ReleaseRead(q, r)
         \/ \E t \in DOMAIN token : SubmitRead(q, t)
  PROVE  RemediationInvariant' /\ Frozen
<1> USE DEF RemediationInvariant
<1>1. UNCHANGED <<record, caseStatus, exception, mirrorLost, patches, token>>
    BY Zenon DEF Abandon, LinkRevoke, LinkRead, ReleaseRead, SubmitRead, manifestVars
<1>2. \E d : request' = [request EXCEPT ![q] = d] /\ Knows(d)
  <2>1. CASE Abandon(q)
    <3>1. Knows(NoRequest)
      BY DEF Knows, NoRequest
    <3> QED BY <2>1, <3>1, Zenon DEF Abandon, Answer
  <2>2. CASE LinkRevoke(q)
    <3> DEFINE d == [pc |-> "minting", case |-> request[q].case, status |-> request[q].status,
                     snapshot |-> Unrevoked(request[q].case)]
    <3>1. request' = [request EXCEPT ![q] = d] /\ request[q].pc = "linking"
      BY <2>2, Zenon DEF LinkRevoke
    <3>2. d.pc = "minting" /\ d.case \in Record /\ d.status \in LinkFrom
      BY <3>1 DEF RequestKnows, Knows
    <3> HIDE DEF d
    <3> QED BY <3>1, <3>2, Zenon DEF Knows
  <2>3. ASSUME NEW r \in Record, LinkRead(q, r)
        PROVE  \E d : request' = [request EXCEPT ![q] = d] /\ Knows(d)
    <3> DEFINE d == [pc |-> "linking", case |-> r, status |-> caseStatus[r]]
    <3>1. request' = [request EXCEPT ![q] = d] /\ d.pc = "linking" /\ d.case = r /\ d.status \in LinkFrom
      BY <2>3 DEF LinkRead, LinkFrom
    <3> HIDE DEF d
    <3> QED BY <3>1, Zenon DEF Knows
  <2>4. ASSUME NEW r \in Record, ReleaseRead(q, r)
        PROVE  \E d : request' = [request EXCEPT ![q] = d] /\ Knows(d)
    <3> DEFINE d == [pc |-> "releasing", case |-> r]
    <3>1. request' = [request EXCEPT ![q] = d] /\ d.pc = "releasing" /\ d.case = r
          /\ record[r].release = "staged" /\ caseStatus[r] = "none"
      BY <2>4, Zenon DEF ReleaseRead, ReleaseIsLast
    <3> HIDE DEF d
    <3> QED BY <3>1, Zenon DEF Knows
  <2>5. ASSUME NEW t \in DOMAIN token, SubmitRead(q, t)
        PROVE  \E d : request' = [request EXCEPT ![q] = d] /\ Knows(d)
    <3> DEFINE d == [pc |-> "submitting", case |-> token[t].case,
                     payload |-> record[token[t].case].payload, tail |-> Len(patches[token[t].case])]
    <3>1. request' = [request EXCEPT ![q] = d]
      BY <2>5, Zenon DEF SubmitRead
    <3>2. token[t] \in TokenRecord
      BY DEF CaseTypes
    <3>3. d.pc = "submitting" /\ d.case = token[t].case /\ token[t].case \in Record
      BY <3>2, Zenon DEF TokenRecord
    <3> HIDE DEF d
    <3> QED BY <3>1, <3>3, Zenon DEF Knows
  <2> QED BY <2>1, <2>2, <2>3, <2>4, <2>5
<1>3. PICK d : request' = [request EXCEPT ![q] = d] /\ Knows(d)
    BY <1>2, Zenon
<1>4. request'[q] = d /\ \A p \in Request : p # q => request'[p] = request[p]
    BY <1>3 DEF CaseTypes
<1>5. CaseTypes'
    BY <1>1, <1>3, ZenonT(60) DEF CaseTypes
<1>6. RequestKnows'
    BY <1>1, <1>3, <1>4, ZenonT(60) DEF RequestKnows, Knows
<1> QED BY <1>1, <1>5, <1>6, Zenon DEF ReleaseIsLast, DashboardTruthful, Frozen

\* The intake stages a row that was not there.
LEMMA IntakeKeeps ==
  ASSUME RemediationInvariant, NEW r \in Record, NEW payload, NEW blocking \in BOOLEAN,
         IngestRow(r, payload, blocking)
  PROVE  RemediationInvariant' /\ Frozen
<1> USE DEF RemediationInvariant
<1> DEFINE d == [payload |-> payload, from |-> payload, release |-> "staged",
                 validation |-> IF blocking THEN "failed" ELSE "passed"]
           c == IF blocking THEN "supplier_action_required" ELSE "none"
           e == IF blocking THEN "open" ELSE "none"
<1>1. /\ record[r] = NoRecord /\ record' = [record EXCEPT ![r] = d]
      /\ caseStatus' = [caseStatus EXCEPT ![r] = c] /\ exception' = [exception EXCEPT ![r] = e]
      /\ UNCHANGED <<mirrorLost, patches, token, request>>
    BY DEF IngestRow
<1>2. /\ d = [payload |-> d.payload, from |-> d.from, validation |-> d.validation, release |-> d.release]
      /\ d.release = "staged" /\ (d.validation = "passed" => ~blocking)
    OBVIOUS
<1>3. (c = "supplier_action_required" \/ e = "none") /\ (~blocking => c = "none")
    BY Zenon
<1> HIDE DEF d, c, e
<1>4. /\ record'[r] = d /\ caseStatus'[r] = c /\ exception'[r] = e
      /\ \A x \in Record : x # r => /\ record'[x] = record[x] /\ caseStatus'[x] = caseStatus[x]
                                     /\ exception'[x] = exception[x]
    BY <1>1, Zenon DEF CaseTypes
<1>5. CaseTypes'
  <2>1. DOMAIN record' = Record /\ record' = [x \in Record |-> record'[x]]
    BY <1>1, Zenon DEF CaseTypes
  <2>2. \A x \in Record : record'[x] = [payload |-> record'[x].payload, from |-> record'[x].from,
                       validation |-> record'[x].validation, release |-> record'[x].release]
    BY <1>2, <1>4 DEF CaseTypes
  <2>3. caseStatus' = [x \in Record |-> caseStatus'[x]] /\ exception' = [x \in Record |-> exception'[x]]
    BY <1>1, ZenonT(30) DEF CaseTypes
  <2> QED BY <1>1, <2>1, <2>2, <2>3, Zenon DEF CaseTypes
<1>6. record[r].release = "none"
    BY <1>1 DEF NoRecord
<1>7. RequestKnows'
    BY <1>1, <1>4, <1>6 DEF RequestKnows, Knows
<1>8. ReleaseIsLast'
    BY <1>2, <1>3, <1>4 DEF ReleaseIsLast
<1>9. DashboardTruthful'
    BY <1>1, <1>3, <1>4, Zenon DEF DashboardTruthful
<1>10. Frozen
    BY <1>1, <1>4, <1>6, Zenon DEF Frozen
<1> QED BY <1>5, <1>7, <1>8, <1>9, <1>10

\* The buyer assigns or closes the exception case, or releases a row.
LEMMA BuyerKeeps ==
  ASSUME RemediationInvariant,
         \/ \E r \in Record : AssignOwner(r) \/ \E outcome \in Closed : CloseException(r, outcome)
         \/ \E q \in Request : ReleaseCommit(q)
  PROVE  RemediationInvariant' /\ Frozen
<1> USE DEF RemediationInvariant
<1>1. ASSUME NEW r \in Record, NEW e, exception' = [exception EXCEPT ![r] = e],
             UNCHANGED <<record, caseStatus, mirrorLost, patches, token, request>>,
             \/ e \in Closed
             \/ exception[r] = "open"
      PROVE  RemediationInvariant' /\ Frozen
  <2>1. exception'[r] = e /\ \A x \in Record : x # r => exception'[x] = exception[x]
    BY <1>1 DEF CaseTypes
  <2>2. CaseTypes'
    BY <1>1, ZenonT(60) DEF CaseTypes
  <2>3. \A s \in DOMAIN ExceptionMirror : ExceptionMirror[s] # "open"
    BY SMTT(30) DEF ExceptionMirror
  <2>4. exception[r] = "open" => mirrorLost[r] \/ caseStatus[r] = "supplier_action_required"
    BY <2>3, Zenon DEF DashboardTruthful, Closed
  <2>5. DashboardTruthful'
    BY <1>1, <2>1, <2>4, Zenon DEF DashboardTruthful
  <2> QED BY <1>1, <2>2, <2>5, Zenon DEF RequestKnows, Knows, ReleaseIsLast, Frozen
<1>2. ASSUME NEW r \in Record, AssignOwner(r) \/ \E outcome \in Closed : CloseException(r, outcome)
      PROVE  RemediationInvariant' /\ Frozen
  <2>1. CASE AssignOwner(r)
    BY <1>1, <2>1, Zenon DEF AssignOwner
  <2>2. CASE \E outcome \in Closed : CloseException(r, outcome)
    BY <1>1, <2>2, Zenon DEF CloseException
  <2> QED BY <1>2, <2>1, <2>2
<1>3. ASSUME NEW q \in Request, ReleaseCommit(q) PROVE RemediationInvariant' /\ Frozen
  <2>1. PICK r : r = request[q].case
    OBVIOUS
  <2>2. r \in Record /\ caseStatus[r] = "none" /\ record[r].release # "none"
    BY <1>3, <2>1 DEF ReleaseCommit, RequestKnows, Knows
  <2> DEFINE d == [record[r] EXCEPT !.release = "released"]
  <2>3. /\ record' = [record EXCEPT ![r] = d] /\ request' = [request EXCEPT ![q] = NoRequest]
        /\ UNCHANGED <<caseStatus, exception, mirrorLost, patches, token>>
    BY <1>3, <2>1, Zenon DEF ReleaseCommit, Answer
  <2>4. record[r] = [payload |-> record[r].payload, from |-> record[r].from,
                 validation |-> record[r].validation, release |-> record[r].release]
    BY <2>2 DEF CaseTypes
  <2>5. /\ d = [payload |-> d.payload, from |-> d.from, validation |-> d.validation, release |-> d.release]
        /\ d.release = "released" /\ (record[r].release = "released" => d = record[r])
    BY <2>4
  <2> HIDE DEF d
  <2>6. record'[r] = d /\ \A x \in Record : x # r => record'[x] = record[x]
    BY <2>2, <2>3, Zenon DEF CaseTypes
  <2>7. CaseTypes'
    <3>1. DOMAIN record' = Record /\ record' = [x \in Record |-> record'[x]]
      BY <2>3 DEF CaseTypes
    <3>2. \A x \in Record : record'[x] = [payload |-> record'[x].payload, from |-> record'[x].from,
                         validation |-> record'[x].validation, release |-> record'[x].release]
      BY <2>5, <2>6, Zenon DEF CaseTypes
    <3>3. request' = [p \in Request |-> request'[p]]
      BY <2>3, Zenon DEF CaseTypes
    <3> QED BY <2>3, <3>1, <3>2, <3>3, Zenon DEF CaseTypes
  <2>8. request'[q].pc = "idle" /\ \A p \in Request : p # q => request'[p] = request[p]
    BY <2>3, Zenon DEF CaseTypes, NoRequest
  <2>9. \A x \in Record : record'[x].release = "none" => record[x].release = "none"
    BY <2>5, <2>6
  <2>10. RequestKnows'
    BY <2>3, <2>8, <2>9, ZenonT(30) DEF RequestKnows, Knows
  <2>11. ReleaseIsLast' /\ DashboardTruthful' /\ Frozen
    BY <2>2, <2>3, <2>5, <2>6 DEF ReleaseIsLast, DashboardTruthful, Frozen
  <2> QED BY <2>7, <2>10, <2>11
<1> QED BY <1>2, <1>3

\* The commit that mints a link finds a case that may still move.
LEMMA LinkCommitKeeps ==
  ASSUME RemediationInvariant, NEW q \in Request, LinkCommit(q)
  PROVE  RemediationInvariant' /\ Frozen
<1> USE DEF RemediationInvariant
<1>1. PICK r : r = request[q].case
    OBVIOUS
<1>2. PICK status : status = request[q].status
    OBVIOUS
<1>3. r \in Record /\ status \in LinkFrom
    BY <1>1, <1>2, Zenon DEF LinkCommit, RequestKnows, Knows
<1>4. /\ request' = [request EXCEPT ![q] = NoRequest] /\ UNCHANGED <<record, patches>>
      /\ \E hit, first : Reissue(r, hit, first, FALSE)
    BY <1>1, Zenon DEF LinkCommit, Answer
<1>5. token' \in Seq(TokenRecord)
  <2>1. PICK hit, first : Reissue(r, hit, first, FALSE)
    BY <1>4, Zenon
  <2> DEFINE kept(t) == IF t \in hit THEN Revoked(token[t]) ELSE token[t]
             new(t) == IF t \in first THEN [kept(t) EXCEPT !.superseded = TRUE] ELSE kept(t)
             old == [t \in DOMAIN token |-> new(t)]
             d == [case |-> r, revoked |-> FALSE, superseded |-> FALSE, expired |-> FALSE,
                   exchanged |-> FALSE, session |-> "none"]
  <2>2. token' = Append(old, d)
    BY <2>1, Zenon DEF Reissue
  <2>3. \A t \in DOMAIN token : token[t] \in TokenRecord
    BY DEF CaseTypes
  <2>4. \A t \in DOMAIN token : kept(t) \in TokenRecord
    BY <2>3, Zenon DEF Revoked, TokenRecord
  <2> HIDE DEF kept
  <2>5. \A t \in DOMAIN token : new(t) \in TokenRecord
    BY <2>4, Zenon DEF TokenRecord
  <2> HIDE DEF new
  <2>6. DOMAIN token = 1..Len(token) /\ Len(token) \in Nat
    BY DEF CaseTypes
  <2>7. old \in [1..Len(token) -> TokenRecord]
    BY <2>5, <2>6, Zenon
  <2> HIDE DEF old
  <2>8. old \in Seq(TokenRecord)
    BY <2>6, <2>7
  <2>9. d \in TokenRecord
    BY <1>3, Zenon DEF TokenRecord
  <2> HIDE DEF d
  <2> QED BY <2>2, <2>8, <2>9
<1>6. request'[q].pc = "idle" /\ \A p \in Request : p # q => request'[p] = request[p]
    BY <1>4 DEF CaseTypes, NoRequest
<1>7. request' = [p \in Request |-> request'[p]]
    BY <1>4, ZenonT(60) DEF CaseTypes
<1>8. CASE status = "awaiting_supplier"
  <2>1. UNCHANGED <<caseStatus, exception, mirrorLost>>
    BY <1>2, <1>8, Zenon DEF LinkCommit
  <2> QED BY <1>4, <1>5, <1>6, <1>7, <2>1
          DEF CaseTypes, RequestKnows, Knows, ReleaseIsLast, DashboardTruthful, Frozen
<1>9. CASE status # "awaiting_supplier"
  <2>1. PICK path : path = LinkPath(status)
    OBVIOUS
  <2>2. Transition(r, path, FALSE)
    BY <1>1, <1>2, <1>9, <2>1, Zenon DEF LinkCommit
  <2>3. path[Len(path)] = "awaiting_supplier" /\ path[1] = status
    BY <2>1, Zenon DEF LinkPath
  <2>4. /\ DashboardTruthful'
        /\ caseStatus' = [caseStatus EXCEPT ![r] = "awaiting_supplier"]
        /\ caseStatus[r] = status
        /\ exception' = [x \in Record |-> exception'[x]]
        /\ mirrorLost' = [x \in Record |-> mirrorLost'[x]]
    <3>1. FALSE \in BOOLEAN
      OBVIOUS
    <3>2. /\ DashboardTruthful'
          /\ caseStatus' = [caseStatus EXCEPT ![r] = path[Len(path)]]
          /\ caseStatus[r] = path[1]
          /\ exception' = [x \in Record |-> exception'[x]]
          /\ mirrorLost' = [x \in Record |-> mirrorLost'[x]]
      BY <1>3, <2>2, <2>3, <3>1, TransitionKeeps, Zenon
    <3> QED BY <2>3, <3>2
  <2>5. /\ caseStatus' = [x \in Record |-> caseStatus'[x]]
        /\ caseStatus'[r] = "awaiting_supplier"
        /\ \A x \in Record : x # r => caseStatus'[x] = caseStatus[x]
    BY <1>3, <2>4, ZenonT(60) DEF CaseTypes
  <2>6. caseStatus[r] \notin {"none", "released"}
    BY <1>3, <2>4 DEF LinkFrom
  <2>7. CaseTypes'
    BY <1>4, <1>5, <1>7, <2>4, <2>5 DEF CaseTypes
  <2>8. RequestKnows'
    BY <1>4, <1>6, <2>5, <2>6 DEF RequestKnows, Knows
  <2>9. ReleaseIsLast' /\ Frozen
    BY <1>4, <2>5, <2>6, Zenon DEF ReleaseIsLast, Frozen
  <2> QED BY <2>4, <2>7, <2>8, <2>9, Zenon
<1> QED BY <1>8, <1>9

\* The commit of a correction finds the case still with the supplier, so the
\* row is not released yet.
LEMMA SubmitCommitKeeps ==
  ASSUME RemediationInvariant, NEW q \in Request, NEW changes, NEW blocking \in BOOLEAN,
         SubmitCommit(q, changes, blocking)
  PROVE  RemediationInvariant' /\ Frozen
<1> USE DEF RemediationInvariant
<1>1. PICK r : r = request[q].case
    BY Zenon
<1>2. r \in Record
    BY <1>1, Zenon DEF SubmitCommit, RequestKnows, Knows
<1> DEFINE v == IF blocking THEN "failed" ELSE "passed"
           l == IF blocking THEN record[r].release ELSE "released"
           last == IF blocking THEN "buyer_review" ELSE "released"
           c == Corrected(request[q].payload, changes)
<1>3. record[r] = [payload |-> record[r].payload, from |-> record[r].from,
                   validation |-> record[r].validation, release |-> record[r].release]
    BY <1>2, Zenon DEF CaseTypes
<1>4. record' = [record EXCEPT ![r].payload = c, ![r].validation = v,
                               ![r].release = IF blocking THEN @ ELSE "released"]
    BY <1>1 DEF SubmitCommit
<1> HIDE DEF c
<1>5. PICK path : path = SubmitPath(blocking)
    BY Zenon
<1>6. /\ Transition(r, path, ~blocking)
      /\ request' = [request EXCEPT ![q] = NoRequest]
      /\ patches' = [patches EXCEPT ![r] = Append(@, changes)] /\ UNCHANGED token
    BY <1>5, <1>1 DEF SubmitCommit, Answer
<1>7. path[Len(path)] = last /\ path[1] = "awaiting_supplier"
    BY <1>5, Zenon DEF SubmitPath
<1>8. /\ DashboardTruthful'
      /\ caseStatus' = [caseStatus EXCEPT ![r] = last]
      /\ caseStatus[r] = "awaiting_supplier"
      /\ exception' = [x \in Record |-> exception'[x]]
      /\ mirrorLost' = [x \in Record |-> mirrorLost'[x]]
  <2>1. PICK closing \in BOOLEAN : closing = ~blocking
    BY Zenon
  <2>2. Transition(r, path, closing)
    BY <1>6, <2>1
  <2>3. \/ path[Len(path)] \in {"awaiting_supplier", "buyer_review"} /\ closing = FALSE
        \/ path[Len(path)] = "released" /\ closing = TRUE
    BY <1>7, <2>1, Zenon
  <2>4. /\ DashboardTruthful'
        /\ caseStatus' = [caseStatus EXCEPT ![r] = path[Len(path)]]
        /\ caseStatus[r] = path[1]
        /\ exception' = [x \in Record |-> exception'[x]]
        /\ mirrorLost' = [x \in Record |-> mirrorLost'[x]]
    BY <1>2, <2>2, <2>3, TransitionKeeps, Zenon
  <2> QED BY <1>7, <2>4
<1>9. /\ caseStatus' = [x \in Record |-> caseStatus'[x]] /\ caseStatus'[r] = last
      /\ \A x \in Record : x # r => caseStatus'[x] = caseStatus[x]
    BY <1>2, <1>8, ZenonT(30) DEF CaseTypes
<1>10. /\ DOMAIN record' = Record /\ record' = [x \in Record |-> record'[x]]
       /\ \A x \in Record : x # r => record'[x] = record[x]
    BY <1>2, <1>4, Zenon DEF CaseTypes
<1>11. /\ record'[r] = [payload |-> record'[r].payload, from |-> record'[r].from,
                   validation |-> record'[r].validation, release |-> record'[r].release]
       /\ record'[r].validation = v /\ record'[r].release = l
  <2>1. record'[r] = [record[r] EXCEPT !.payload = c, !.validation = v, !.release = l]
    <3>1. CASE blocking = TRUE
      BY <1>2, <1>3, <1>4, <3>1 DEF CaseTypes
    <3>2. CASE blocking = FALSE
      BY <1>2, <1>3, <1>4, <3>2 DEF CaseTypes
    <3> QED BY <3>1, <3>2, Zenon
  <2> QED BY <1>3, <2>1, Zenon
<1>12. /\ patches' = [x \in Record |-> patches'[x]]
       /\ \A x \in Record : x # r => patches'[x] = patches[x]
    BY <1>2, <1>6, ZenonT(60) DEF CaseTypes
<1>13. /\ request' = [p \in Request |-> request'[p]] /\ request'[q].pc = "idle"
       /\ \A p \in Request : p # q => request'[p] = request[p]
    BY <1>6, Zenon DEF CaseTypes, NoRequest
<1>14. CaseTypes'
  <2>1. \A x \in Record : record'[x] = [payload |-> record'[x].payload, from |-> record'[x].from,
                       validation |-> record'[x].validation, release |-> record'[x].release]
    BY <1>10, <1>11, Zenon DEF CaseTypes
  <2> QED BY <1>6, <1>8, <1>9, <1>10, <1>12, <1>13, <2>1, Zenon DEF CaseTypes
<1>15. RequestKnows'
    BY <1>8, <1>9, <1>10, <1>13, <1>11 DEF RequestKnows, Knows
<1>16. record[r].release # "released"
    BY <1>2, <1>8, Zenon DEF ReleaseIsLast
<1>17. ReleaseIsLast'
    BY <1>9, <1>10, <1>16, <1>11 DEF ReleaseIsLast
<1>18. Frozen
    BY <1>10, <1>12, <1>16, Zenon DEF Frozen
<1> QED BY <1>8, <1>14, <1>15, <1>17, <1>18

LEMMA RemediationStep ==
  ASSUME RemediationInvariant, [RemediationNext]_remediationVars
  PROVE  RemediationInvariant' /\ Frozen
<1>1. CASE IntakeStep
    BY <1>1, IntakeKeeps, Zenon DEF IntakeStep
<1>2. CASE BuyerStep
    BY <1>2, BuyerKeeps, RequestSteps, Zenon DEF BuyerStep
<1>3. CASE LinkStep
    BY <1>3, TokenSteps, RequestSteps, LinkCommitKeeps DEF LinkStep
<1>4. CASE SupplierStep
    BY <1>4, TokenSteps, RequestSteps, SubmitCommitKeeps, Zenon DEF SupplierStep
<1>5. CASE \E q \in Request : Abandon(q)
    BY <1>5, RequestSteps, ZenonT(60)
<1>6. CASE UNCHANGED remediationVars
    BY <1>6 DEF remediationVars, manifestVars, RemediationInvariant, CaseTypes, RequestKnows,
                Knows, ReleaseIsLast, DashboardTruthful, Frozen
<1> QED BY <1>1, <1>2, <1>3, <1>4, <1>5, <1>6 DEF RemediationNext

\* The buyer's dashboard is truthful, whatever requests overlap, fail or act
\* on what they read before another one committed (state.py, transition).
THEOREM DashboardStaysTruthful == RemediationSpec => []DashboardTruthful
<1>1. RemediationInvariant => DashboardTruthful
    BY DEF RemediationInvariant
<1> QED BY <1>1, RemediationInitial, RemediationStep, PTL DEF RemediationSpec

\* A released record and its patches never change: a submission or a release
\* that read the row earlier finds its case moved on (supplier_router.py,
\* submit_correction; service.py, release_record).
THEOREM ReleaseIsFinal == RemediationSpec => ReleasedIsFrozen
<1>1. RemediationInvariant /\ [RemediationNext]_remediationVars =>
        [Frozen]_remediationVars
    BY RemediationStep
<1>2. RemediationInvariant /\ [RemediationNext]_remediationVars => RemediationInvariant'
    BY RemediationStep
<1> QED BY <1>1, <1>2, RemediationInitial, PTL DEF RemediationSpec, ReleasedIsFrozen, Frozen
-----------------------------------------------------------------------------
(***************************************************************************)
(* The patches of a row explain its payload.  A submission that may still  *)
(* commit, its tail the last patch, read the payload the record holds.     *)
(***************************************************************************)
\* A row that is not staged has neither a case nor patches.
Backed(r) ==
  /\ patches[r] \in Seq(Change)
  /\ record[r] = NoRecord => caseStatus[r] = "none" /\ patches[r] = <<>>

\* The payloads a row went through, one per patch.
IsTrail(trail, from, changes, payload) ==
  /\ trail \in [0..Len(changes) -> Payload]
  /\ trail[0] = from
  /\ \A k \in DOMAIN changes : trail[k] = Corrected(trail[k - 1], changes[k])
  /\ trail[Len(changes)] = payload

Explained(r) ==
  record[r] # NoRecord =>
    \E trail : IsTrail(trail, record[r].from, patches[r], record[r].payload)

\* A submission whose tail is still the last patch read what the record holds.
SubmissionKnows(d) ==
  d.pc = "submitting" =>
    /\ d.case \in Record /\ record[d.case] # NoRecord
    /\ d.tail \in 0..Len(patches[d.case])
    /\ d.tail = Len(patches[d.case]) => d.payload = record[d.case].payload

PatchInvariant ==
  /\ \A r \in Record : Backed(r) /\ Explained(r)
  /\ \A q \in Request : SubmissionKnows(request[q])

LEMMA TrailsExplain == PatchInvariant <=>
  /\ \A r \in Record : Backed(r)
  /\ \A q \in Request : SubmissionKnows(request[q])
  /\ PatchesExplainRecord
BY Zenon DEF PatchInvariant, Explained, PatchesExplainRecord, IsTrail

LEMMA PatchInitial == RemediationInit => PatchInvariant
<1> SUFFICES ASSUME RemediationInit PROVE PatchInvariant
    OBVIOUS
<1>1. \A r \in Record : Backed(r) /\ Explained(r)
    BY DEF RemediationInit, Backed, Explained
<1>2. \A q \in Request : SubmissionKnows(request[q])
    BY Zenon DEF RemediationInit, SubmissionKnows, NoRequest
<1> QED BY <1>1, <1>2 DEF PatchInvariant

LEMMA CorrectedIsPayload ==
  ASSUME NEW payload \in Payload, NEW changes \in Change
  PROVE  Corrected(payload, changes) \in Payload
<1>1. \A f \in Field : Overlay(payload, changes)[f] \in DOMAIN Normal
    BY RemediationAssumption, Zenon DEF Overlay, Payload
<1>2. \A f \in Field : Normal[Overlay(payload, changes)[f]] \in DOMAIN Normal
    BY <1>1, RemediationAssumption
<1> QED BY <1>2, Zenon DEF Corrected, Normalised, Payload

\* One more patch makes the trail one step longer.
LEMMA TrailGrows ==
  ASSUME NEW trail, NEW from, NEW patched \in Seq(Change), NEW payload, NEW changes \in Change,
         IsTrail(trail, from, patched, payload)
  PROVE  \E longer : IsTrail(longer, from, Append(patched, changes), Corrected(payload, changes))
<1> DEFINE n == Len(patched)
           c == Corrected(payload, changes)
           longer == [k \in 0..(n + 1) |-> IF k = n + 1 THEN c ELSE trail[k]]
           after == Append(patched, changes)
<1>1. /\ Len(after) = n + 1 /\ DOMAIN after = 1..(n + 1) /\ after[n + 1] = changes
      /\ \A k \in 1..n : after[k] = patched[k]
      /\ n \in Nat /\ DOMAIN patched = 1..n
    OBVIOUS
<1>2. /\ trail \in [0..n -> Payload] /\ trail[0] = from /\ trail[n] = payload
      /\ \A k \in 1..n : trail[k] = Corrected(trail[k - 1], patched[k])
    BY <1>1, Zenon DEF IsTrail
<1>3. payload \in Payload /\ c \in Payload
    BY <1>1, <1>2, CorrectedIsPayload
<1> HIDE DEF n, c, after
<1>4. /\ longer \in [0..(n + 1) -> Payload] /\ longer[n + 1] = c
      /\ \A k \in 0..n : longer[k] = trail[k]
    BY <1>1, <1>2, <1>3
<1> HIDE DEF longer
<1>5. longer[0] = from /\ longer[n] = payload
    BY <1>1, <1>2, <1>4
<1>6. ASSUME NEW k \in 1..(n + 1) PROVE longer[k] = Corrected(longer[k - 1], after[k])
  <2>1. CASE k = n + 1
    <3>1. k - 1 = n
        BY <2>1, <1>1
    <3> QED BY <2>1, <3>1, <1>1, <1>4, <1>5, Zenon DEF c
  <2>2. CASE k \in 1..n
    <3>1. longer[k] = trail[k] /\ longer[k - 1] = trail[k - 1] /\ after[k] = patched[k]
        BY <2>2, <1>1, <1>4
    <3> QED BY <2>2, <3>1, <1>2, Zenon
  <2> QED BY <2>1, <2>2, <1>1
<1>7. IsTrail(longer, from, after, c)
    BY <1>1, <1>4, <1>5, <1>6, Zenon DEF IsTrail
<1> QED BY <1>7, Zenon DEF after, c

\* A step of one request that leaves the rows and their cases alone.
LEMMA RequestMoves ==
  ASSUME RemediationInvariant, PatchInvariant, NEW q \in Request, NEW d, SubmissionKnows(d),
         request' = [request EXCEPT ![q] = d], UNCHANGED <<record, caseStatus, patches>>
  PROVE  PatchInvariant'
<1>1. request'[q] = d /\ \A p \in Request : p # q => request'[p] = request[p]
    BY Zenon DEF RemediationInvariant, CaseTypes
<1>2. \A r \in Record : Backed(r)' /\ Explained(r)'
    BY DEF PatchInvariant, Backed, Explained
<1>3. \A p \in Request : SubmissionKnows(request[p])'
    BY <1>1, ZenonT(60) DEF PatchInvariant, SubmissionKnows
<1> QED BY <1>2, <1>3, Zenon DEF PatchInvariant

LEMMA PatchStep ==
  ASSUME RemediationInvariant, PatchInvariant, [RemediationNext]_remediationVars
  PROVE  PatchInvariant'
<1>0. /\ \A r \in Record : Backed(r) /\ Explained(r)
      /\ \A q \in Request : SubmissionKnows(request[q])
      /\ CaseTypes /\ RequestKnows
    BY DEF PatchInvariant, RemediationInvariant
<1>1. CASE UNCHANGED <<record, caseStatus, patches, request>>
    BY <1>0, <1>1, Zenon DEF PatchInvariant, Backed, Explained, SubmissionKnows
<1>2. ASSUME NEW q \in Request, Abandon(q) PROVE PatchInvariant'
  <2>1. SubmissionKnows(NoRequest)
      BY DEF SubmissionKnows, NoRequest
  <2> QED BY <1>2, <2>1, RequestMoves, Zenon DEF Abandon, Answer, manifestVars
<1>3. ASSUME NEW q \in Request, NEW r \in Record, LinkRead(q, r) PROVE PatchInvariant'
  <2>1. PICK d : d = [pc |-> "linking", case |-> r, status |-> caseStatus[r]]
      BY Zenon
  <2>2. SubmissionKnows(d)
      BY <2>1 DEF SubmissionKnows
  <2> QED BY <1>3, <2>1, <2>2, RequestMoves, Zenon DEF LinkRead, manifestVars
<1>4. ASSUME NEW q \in Request, LinkRevoke(q) PROVE PatchInvariant'
  <2>1. PICK d : d = [pc |-> "minting", case |-> request[q].case, status |-> request[q].status,
                      snapshot |-> Unrevoked(request[q].case)]
      BY Zenon
  <2>2. SubmissionKnows(d)
      BY <2>1 DEF SubmissionKnows
  <2> QED BY <1>4, <2>1, <2>2, RequestMoves, Zenon DEF LinkRevoke, manifestVars
<1>5. ASSUME NEW q \in Request, NEW r \in Record, ReleaseRead(q, r) PROVE PatchInvariant'
  <2>1. PICK d : d = [pc |-> "releasing", case |-> r]
      BY Zenon
  <2>2. SubmissionKnows(d)
      BY <2>1 DEF SubmissionKnows
  <2> QED BY <1>5, <2>1, <2>2, RequestMoves, Zenon DEF ReleaseRead, manifestVars
<1>6. ASSUME NEW q \in Request, NEW t \in DOMAIN token, SubmitRead(q, t) PROVE PatchInvariant'
  <2>1. PICK r : r = token[t].case
      BY Zenon
  <2>2. r \in Record
    <3>1. token[t] \in TokenRecord
        BY <1>0 DEF CaseTypes
    <3> QED BY <2>1, <3>1, Zenon DEF TokenRecord
  <2>3. PICK d : d = [pc |-> "submitting", case |-> r, payload |-> record[r].payload,
                      tail |-> Len(patches[r])]
      BY ZenonT(60)
  <2>4. record[r] # NoRecord /\ Len(patches[r]) \in Nat
      BY <1>0, <1>6, <2>1, <2>2 DEF SubmitRead, Backed
  <2>5. SubmissionKnows(d)
      BY <2>2, <2>3, <2>4 DEF SubmissionKnows
  <2> QED BY <1>6, <2>1, <2>3, <2>5, RequestMoves, Zenon DEF SubmitRead, manifestVars
<1>7. ASSUME NEW r \in Record, NEW payload \in Row, NEW blocking \in BOOLEAN,
             IngestRow(r, payload, blocking)
      PROVE  PatchInvariant'
  <2>1. PICK d : d = [payload |-> payload, from |-> payload, release |-> "staged",
                      validation |-> IF blocking THEN "failed" ELSE "passed"]
      BY Zenon
  <2>2. /\ record' = [record EXCEPT ![r] = d] /\ record[r] = NoRecord
        /\ UNCHANGED <<patches, request>>
      BY <1>7, <2>1, Zenon DEF IngestRow
  <2>3. /\ record'[r] = d /\ \A x \in Record : x # r => record'[x] = record[x]
        /\ \A x \in Record : x # r => caseStatus'[x] = caseStatus[x]
      BY <1>0, <1>7, <2>2, Zenon DEF CaseTypes, IngestRow
  <2>4. d # NoRecord /\ d.payload = payload /\ d.from = payload
    <3>1. d.release = "staged" /\ NoRecord.release = "none"
        BY <2>1, ZenonT(60) DEF NoRecord
    <3> QED BY <3>1, <2>1, Zenon
  <2>5. patches[r] = <<>>
      BY <1>0, <2>2 DEF Backed
  <2>6. \A x \in Record : Backed(x)'
      BY <1>0, <2>2, <2>3, <2>4, Zenon DEF Backed
  <2>7. ASSUME NEW x \in Record PROVE Explained(x)'
    <3>1. CASE x = r
      <4>1. PICK trail : trail = [k \in 0..0 |-> payload]
          BY Zenon
      <4>2. IsTrail(trail, payload, <<>>, payload)
        <5>1. payload \in Payload
            BY RemediationAssumption, Zenon
        <5> QED BY <4>1, <5>1 DEF IsTrail
      <4> QED BY <3>1, <4>2, <2>2, <2>3, <2>4, <2>5 DEF Explained
    <3>2. CASE x # r
        BY <1>0, <2>2, <2>3, <3>2, Zenon DEF Explained
    <3> QED BY <3>1, <3>2, Zenon
  <2>8. ASSUME NEW q \in Request PROVE SubmissionKnows(request[q])'
      BY <1>0, <2>2, <2>3 DEF SubmissionKnows
  <2> QED BY <2>6, <2>7, <2>8, Zenon DEF PatchInvariant
<1>8. ASSUME NEW q \in Request, LinkCommit(q) PROVE PatchInvariant'
  <2>1. PICK r : r = request[q].case
      OBVIOUS
  <2>2. /\ r \in Record /\ request[q].status \in LinkFrom
        /\ request' = [request EXCEPT ![q] = NoRequest] /\ UNCHANGED <<record, patches>>
      BY <1>0, <1>8, <2>1, Zenon DEF LinkCommit, Answer, RequestKnows, Knows
  <2>3. /\ \A x \in Record : x # r => caseStatus'[x] = caseStatus[x]
        /\ caseStatus' = caseStatus \/ caseStatus[r] = request[q].status
    <3>1. CASE UNCHANGED caseStatus
        BY <3>1
    <3>2. PICK path : path = LinkPath(request[q].status)
        BY Zenon
    <3>3. CASE Transition(r, path, FALSE)
      <4>1. caseStatus[r] = path[1] /\ caseStatus' = [caseStatus EXCEPT ![r] = path[Len(path)]]
          BY <3>3 DEF Transition
      <4> QED BY <1>0, <2>2, <3>2, <4>1, Zenon DEF CaseTypes, LinkPath
    <3> QED BY <1>8, <2>1, <3>1, <3>2, <3>3, Zenon DEF LinkCommit
  <2>4. \A x \in Record : Backed(x)' /\ Explained(x)'
      BY <1>0, <2>2, <2>3, Zenon DEF Backed, Explained, LinkFrom
  <2>5. /\ request'[q] = NoRequest /\ NoRequest.pc = "idle"
        /\ \A p \in Request : p # q => request'[p] = request[p]
      BY <1>0, <2>2, ZenonT(60) DEF CaseTypes, NoRequest
  <2>6. \A p \in Request : SubmissionKnows(request[p])'
      BY <1>0, <2>2, <2>5, Zenon DEF SubmissionKnows
  <2> QED BY <2>4, <2>6, Zenon DEF PatchInvariant
<1>9. ASSUME NEW q \in Request, ReleaseCommit(q) PROVE PatchInvariant'
  <2>1. PICK r : r = request[q].case
      OBVIOUS
  <2>2. /\ r \in Record /\ record' = [record EXCEPT ![r].release = "released"]
        /\ request' = [request EXCEPT ![q] = NoRequest] /\ UNCHANGED <<caseStatus, patches>>
        /\ record[r].release # "none"
      BY <1>0, <1>9, <2>1 DEF ReleaseCommit, Answer, RequestKnows, Knows
  <2>3. /\ \A x \in Record : x # r => record'[x] = record[x]
        /\ record'[r].payload = record[r].payload /\ record'[r].from = record[r].from
        /\ record'[r].release = "released"
      BY <1>0, <2>2 DEF CaseTypes
  <2>4. record[r] # NoRecord /\ record'[r] # NoRecord
      BY <2>2, <2>3 DEF NoRecord
  <2>5. \A x \in Record : Backed(x)' /\ Explained(x)'
      BY <1>0, <2>2, <2>3, <2>4 DEF Backed, Explained
  <2>6. /\ request'[q] = NoRequest /\ NoRequest.pc = "idle"
        /\ \A p \in Request : p # q => request'[p] = request[p]
      BY <1>0, <2>2 DEF CaseTypes, NoRequest
  <2>7. \A p \in Request : SubmissionKnows(request[p])'
      BY <1>0, <2>2, <2>3, <2>4, <2>6 DEF SubmissionKnows
  <2> QED BY <2>5, <2>7 DEF PatchInvariant
<1>10. ASSUME NEW q \in Request, NEW changes \in Change, NEW blocking \in BOOLEAN,
              SubmitCommit(q, changes, blocking)
       PROVE  PatchInvariant'
  <2>1. PICK r : r = request[q].case
      OBVIOUS
  <2>2. PICK c : c = Corrected(request[q].payload, changes)
      BY Zenon
  <2>3. /\ r \in Record /\ record[r] # NoRecord /\ Len(patches[r]) = request[q].tail
        /\ request[q].payload = record[r].payload
        /\ patches' = [patches EXCEPT ![r] = Append(@, changes)]
        /\ request' = [request EXCEPT ![q] = NoRequest]
        /\ caseStatus[r] = "awaiting_supplier"
        /\ \A x \in Record : x # r => caseStatus'[x] = caseStatus[x]
    <3>1. r \in Record /\ request[q].pc = "submitting" /\ SubmissionKnows(request[q])
          /\ Len(patches[r]) = request[q].tail
        BY <1>0, <1>10, <2>1 DEF SubmitCommit, SubmissionKnows
    <3>2. PICK path : path = SubmitPath(blocking)
        BY Zenon
    <3>3. Transition(r, path, ~blocking)
        BY <1>10, <2>1, <3>2, Zenon DEF SubmitCommit
    <3>4. caseStatus[r] = path[1] /\ caseStatus' = [caseStatus EXCEPT ![r] = path[Len(path)]]
        BY <3>3 DEF Transition
    <3>5. path[1] = "awaiting_supplier"
        BY <3>2, Zenon DEF SubmitPath
    <3>6. \A x \in Record : x # r => caseStatus'[x] = caseStatus[x]
        BY <1>0, <3>1, <3>4 DEF CaseTypes
    <3> QED BY <1>10, <2>1, <3>1, <3>4, <3>5, <3>6, Zenon DEF SubmitCommit, SubmissionKnows, Answer
  <2>4. /\ \A x \in Record : x # r => record'[x] = record[x]
        /\ record'[r].payload = c /\ record'[r].from = record[r].from
        /\ record'[r].validation # "none"
    <3>1. record[r] = [payload |-> record[r].payload, from |-> record[r].from,
                       validation |-> record[r].validation, release |-> record[r].release]
        BY <1>0, <2>3 DEF CaseTypes
    <3>2. CASE blocking = TRUE
      <4>1. record' = [record EXCEPT ![r].payload = c, ![r].validation = "failed",
                                     ![r].release = @]
          BY <1>10, <2>1, <2>2, <3>2 DEF SubmitCommit
      <4> QED BY <1>0, <2>3, <3>1, <4>1, Zenon DEF CaseTypes
    <3>3. CASE blocking = FALSE
      <4>1. record' = [record EXCEPT ![r].payload = c, ![r].validation = "passed",
                                     ![r].release = "released"]
          BY <1>10, <2>1, <2>2, <3>3, Zenon DEF SubmitCommit
      <4> QED BY <1>0, <2>3, <3>1, <4>1, Zenon DEF CaseTypes
    <3> QED BY <3>2, <3>3, Zenon
  <2>5. record'[r] # NoRecord
      BY <2>4 DEF NoRecord
  <2>6. /\ patches'[r] = Append(patches[r], changes) /\ patches[r] \in Seq(Change)
        /\ patches'[r] \in Seq(Change) /\ Len(patches'[r]) = Len(patches[r]) + 1
        /\ \A x \in Record : x # r => patches'[x] = patches[x]
      BY <1>0, <2>3 DEF CaseTypes, Backed
  <2>7. \A x \in Record : Backed(x)'
      BY <1>0, <2>3, <2>4, <2>5, <2>6, Zenon DEF Backed
  <2>8. ASSUME NEW x \in Record PROVE Explained(x)'
    <3>1. CASE x = r
      <4>1. PICK trail : IsTrail(trail, record[r].from, patches[r], record[r].payload)
          BY <1>0, <2>3, ZenonT(60) DEF Explained
      <4>2. PICK longer : IsTrail(longer, record[r].from, Append(patches[r], changes),
                                  Corrected(record[r].payload, changes))
          BY <2>6, <4>1, TrailGrows, Zenon
      <4>3. IsTrail(longer, record'[r].from, patches'[r], record'[r].payload)
          BY <4>2, <2>2, <2>3, <2>4, <2>6, Zenon
      <4> QED BY <3>1, <4>3, Zenon DEF Explained
    <3>2. CASE x # r
        BY <1>0, <2>4, <2>6, <3>2, ZenonT(30) DEF Explained
    <3> QED BY <3>1, <3>2
  <2>9. /\ request'[q] = NoRequest /\ NoRequest.pc = "idle"
        /\ \A p \in Request : p # q => request'[p] = request[p]
      BY <1>0, <2>3, Zenon DEF CaseTypes, NoRequest
  <2>10. ASSUME NEW p \in Request, p # q, request[p].pc = "submitting"
         PROVE  SubmissionKnows(request[p])'
    <3>1. /\ request[p].case \in Record /\ record[request[p].case] # NoRecord
          /\ request[p].tail \in 0..Len(patches[request[p].case])
          /\ request[p].tail = Len(patches[request[p].case]) =>
               request[p].payload = record[request[p].case].payload
        BY <1>0, <2>10, Zenon DEF SubmissionKnows
    <3>2. CASE request[p].case = r
      <4>1. Len(patches[r]) \in Nat
          BY <2>6
      <4>2. request[p].tail \in 0..Len(patches'[r]) /\ request[p].tail # Len(patches'[r])
          BY <2>6, <3>1, <3>2, <4>1
      <4>3. request'[p] = request[p]
          BY <2>9, <2>10, Zenon
      <4> QED BY <2>5, <3>1, <3>2, <4>2, <4>3, Zenon DEF SubmissionKnows
    <3>3. CASE request[p].case # r
        BY <2>4, <2>6, <2>9, <2>10, <3>1, <3>3 DEF SubmissionKnows
    <3> QED BY <3>2, <3>3, Zenon
  <2>11. \A p \in Request : SubmissionKnows(request[p])'
      BY <2>9, <2>10, Zenon DEF SubmissionKnows
  <2> QED BY <2>7, <2>8, <2>11, Zenon DEF PatchInvariant
<1>11. CASE IntakeStep
    BY <1>7, <1>11, Zenon DEF IntakeStep
<1>12. CASE BuyerStep
    BY <1>1, <1>5, <1>9, <1>12, Zenon DEF BuyerStep, AssignOwner, CloseException
<1>13. CASE LinkStep
    BY <1>1, <1>3, <1>4, <1>8, <1>13, Zenon
    DEF LinkStep, RevokeLink, ExpireLink, Exchange, manifestVars
<1>14. CASE SupplierStep
    BY <1>1, <1>6, <1>10, <1>14, Zenon DEF SupplierStep, ExpireSession, manifestVars
<1>15. CASE UNCHANGED remediationVars
    BY <1>1, <1>15 DEF remediationVars, manifestVars
<1> QED BY <1>2, <1>11, <1>12, <1>13, <1>14, <1>15 DEF RemediationNext

\* A record is what its patches make of the staged row, in their order: for any
\* rows, corrections, links and requests that read before another one commits
\* (corrections.py, apply_patches; supplier_router.py, submit_correction).
THEOREM PatchesTellTheRecord == RemediationSpec => []PatchesExplainRecord
<1>1. RemediationInvariant /\ [RemediationNext]_remediationVars => RemediationInvariant'
    BY RemediationStep
<1>2. RemediationInvariant /\ PatchInvariant /\ [RemediationNext]_remediationVars => PatchInvariant'
    BY PatchStep
<1>3. PatchInvariant => PatchesExplainRecord
    BY TrailsExplain
<1> QED BY <1>1, <1>2, <1>3, RemediationInitial, PatchInitial, PTL DEF RemediationSpec
=============================================================================

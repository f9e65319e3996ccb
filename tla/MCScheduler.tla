----------------------------- MODULE MCScheduler -----------------------------
(***************************************************************************)
(* The parts of the scheduler for TLC: the election of the leader, the     *)
(* scrapes it runs, and the drain of the notification outbox.  They share  *)
(* no state, so a behaviour is about one of them, its focus.  The scrapes  *)
(* have two: many items in one thread, and one item in many threads.       *)
(***************************************************************************)
EXTENDS Leadership, Scraping, NotificationOutbox

CONSTANT Solo   \* the thread that works alone when there are many items
VARIABLE focus  \* the part a behaviour is about

vars == <<focus, leadershipVars, scrapingVars, notificationVars>>

mcField == {"f", "g"}
mcNormal == [blank |-> "blank", alias |-> "good", good |-> "good"]
mcRow == {[f \in mcField |-> "blank"]}
mcChange == {[x \in {f} |-> "alias"] : f \in mcField}

Init ==
  /\ focus \in {"leadership", "items", "threads", "notifications"}
  /\ LeadershipInit /\ ScrapingInit /\ NotificationInit

Alive(r) == focus = "threads" \/ (focus = "items" /\ r = Solo)
Listed == focus = "threads" => feed' \subseteq {CHOOSE i \in Item : TRUE}
Asleep == \A r \in Run : Alive(r) \/ run'[r] = NoRun

Next ==
  /\ UNCHANGED focus
  /\ \/ /\ focus = "leadership" /\ LeadershipNext
        /\ UNCHANGED <<scrapingVars, notificationVars>>
     \/ /\ focus \in {"items", "threads"} /\ ScrapingNext /\ Listed /\ Asleep
        /\ UNCHANGED <<leadershipVars, notificationVars>>
     \/ /\ focus = "notifications" /\ NotificationNext
        /\ UNCHANGED mirrorLost  \* the mirror of the exceptions, which no drainer reads
        /\ UNCHANGED <<leadershipVars, scrapingVars>>

(***************************************************************************)
(* LeadershipFairness, ScrapingFairness and NotificationFairness, each for *)
(* the behaviours about its part.                                          *)
(***************************************************************************)
Fairness ==
  /\ \A n \in Node :
       /\ WF_leadershipVars(focus = "leadership" /\ RunnerStep(n))
       /\ WF_leadershipVars(focus = "leadership" /\ HeartbeatStep(n))
  /\ \A r \in Run : WF_scrapingVars(Alive(r) /\ RunStep(r))
  /\ WF_scrapingVars(Alive(Solo) /\ DrainStep)
  /\ SF_scrapingVars(Alive(Solo) /\ DrainAttempt)
  /\ \A d \in Drainer : WF_notificationVars(focus = "notifications" /\ DrainerStep(d))
  /\ \A k \in 1..MaxLinks :
       WF_notificationVars(focus = "notifications" /\ k \in DOMAIN mail /\ ClaimGrowsStale(k))

Spec == Init /\ [][Next]_vars /\ Fairness
=============================================================================

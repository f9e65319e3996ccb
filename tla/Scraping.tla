------------------------------ MODULE Scraping ------------------------------
(***************************************************************************)
(* What a scrape of the leader does with the items of a feed: the circuit  *)
(* breaker (circuit_breaker.py), the emit-then-ack pipeline (service.py)   *)
(* over the table of seen items (state.py), the webhook notifier and the   *)
(* file its failed deliveries wait in (notifications.py).                  *)
(*                                                                         *)
(* APScheduler runs jobs in a pool of threads: several runs of the scraper *)
(* and one drain of the outbox file go on at the same time.                *)
(***************************************************************************)
EXTENDS Naturals, Sequences

CONSTANTS
  Item,              \* enforcement items the feed may list
  Run,               \* threads of the pool that run the scraper
  OutboxAttempts,    \* _MAX_OUTBOX_ATTEMPTS
  FailureThreshold,  \* failure_threshold of the breaker
  HalfOpenMax,       \* half_open_max_calls
  MaxTroubles        \* bound: failures of the feed, a service, the disk, the process

ASSUME ScrapingAssumption ==
  /\ OutboxAttempts \in Nat \ {0} /\ FailureThreshold \in Nat \ {0}
  /\ HalfOpenMax \in Nat \ {0} /\ MaxTroubles \in Nat

VARIABLES
  feed,         \* the items the source lists
  seen,         \* scheduler_seen_items
  emitted,      \* items on the event backbone
  alerted,      \* items whose tenant alerts are written
  delivered,    \* items that reached the webhook endpoint
  outbox,       \* the lines of the outbox file
  overwritten,  \* items of lines that a rewrite of the file dropped unread
  unpersisted,  \* _unpersisted_count
  breaker,      \* the circuit breaker of the source
  run,          \* the scraper threads
  drain,        \* retry_outbox_once
  troubles      \* failures so far

durable == <<feed, seen, emitted, alerted, delivered, overwritten>>
scrapingVars == <<durable, outbox, unpersisted, breaker, run, drain, troubles>>

ClosedBreaker == [state |-> "closed", halfOpenCalls |-> 0, streak |-> 0]
NoRun == [pc |-> "idle", batch |-> {}, before |-> 0, emitOk |-> FALSE, withheld |-> FALSE]
NoDrain == [pc |-> "idle", todo |-> <<>>, remaining |-> <<>>, read |-> 0]

ScrapingInit ==
  /\ feed = {} /\ seen = {} /\ emitted = {} /\ alerted = {} /\ delivered = {}
  /\ outbox = <<>> /\ overwritten = {} /\ unpersisted = 0
  /\ breaker = ClosedBreaker
  /\ run = [r \in Run |-> NoRun]
  /\ drain = NoDrain
  /\ troubles = 0

Trouble == troubles < MaxTroubles /\ troubles' = troubles + 1

ItemsOf(lines) == UNION {lines[k].batch : k \in DOMAIN lines}

\* the source publishes another item
Publish(i) ==
  /\ i \notin feed
  /\ feed' = feed \cup {i}
  /\ UNCHANGED <<seen, emitted, alerted, delivered, outbox, overwritten,
                 unpersisted, breaker, run, drain, troubles>>
-----------------------------------------------------------------------------
(***************************************************************************)
(* CircuitBreaker: record_success and record_failure as functions of the   *)
(* breaker's fields; a result that arrives while it is open changes only   *)
(* the streak.                                                             *)
(***************************************************************************)
MutClosesOneLate(b) ==
  CASE b.state = "half_open" /\ b.halfOpenCalls >= HalfOpenMax -> ClosedBreaker
    [] b.state = "half_open" /\ b.halfOpenCalls < HalfOpenMax ->
         [b EXCEPT !.halfOpenCalls = @ + 1, !.streak = 0]
    [] OTHER -> [b EXCEPT !.streak = 0]

RecordSuccess(b) ==
  CASE b.state = "half_open" /\ b.halfOpenCalls + 1 >= HalfOpenMax -> ClosedBreaker
    [] b.state = "half_open" /\ b.halfOpenCalls + 1 < HalfOpenMax ->
         [b EXCEPT !.halfOpenCalls = @ + 1, !.streak = 0]
    [] OTHER -> [b EXCEPT !.streak = 0]

OpenBreaker == [ClosedBreaker EXCEPT !.state = "open"]

RecordFailure(b) ==
  CASE b.state = "half_open" -> OpenBreaker
    [] b.state = "closed" -> IF b.streak + 1 >= FailureThreshold
                               THEN OpenBreaker
                               ELSE [b EXCEPT !.streak = @ + 1]
    [] OTHER -> b

(***************************************************************************)
(* can_execute: an open breaker admits a call once recovery_timeout has    *)
(* passed, and is half open from then on.  Calls in flight do not count.   *)
(***************************************************************************)
CanExecute(r) ==
  /\ run[r].pc = "idle"
  /\ breaker.state = "half_open" => breaker.halfOpenCalls < HalfOpenMax
  /\ breaker' = IF breaker.state = "open"
                  THEN [ClosedBreaker EXCEPT !.state = "half_open"] ELSE breaker
  /\ run' = [run EXCEPT ![r].pc = "scraping"]
  /\ UNCHANGED <<durable, outbox, unpersisted, drain, troubles>>

(***************************************************************************)
(* _run_scraper_inner: a scrape that fails is recorded; one that succeeds  *)
(* is filtered against the seen items.  When the state manager raises, the *)
(* run is recorded as a success and then as a failure.                     *)
(***************************************************************************)
Scrape(r) ==
  /\ run[r].pc = "scraping"
  /\ \/ LET new == feed \ seen IN
        /\ breaker' = RecordSuccess(breaker)
        /\ run' = [run EXCEPT ![r] =
             IF new = {} THEN NoRun ELSE [NoRun EXCEPT !.pc = "emitting", !.batch = new]]
        /\ UNCHANGED troubles
     \/ /\ Trouble
        /\ breaker' \in {RecordFailure(breaker), RecordFailure(RecordSuccess(breaker))}
        /\ run' = [run EXCEPT ![r] = NoRun]
  /\ UNCHANGED <<durable, outbox, unpersisted, drain>>

(***************************************************************************)
(* _process_new_items: the emission to the backbone, whose failure is      *)
(* remembered; then the count of unpersisted dead letters is read.         *)
(***************************************************************************)
EmitBatch(r) ==
  /\ run[r].pc = "emitting"
  /\ \/ /\ emitted' = emitted \cup run[r].batch
        /\ run' = [run EXCEPT ![r].pc = "notifying", ![r].emitOk = TRUE,
                              ![r].before = unpersisted]
        /\ UNCHANGED troubles
     \/ /\ Trouble
        /\ run' = [run EXCEPT ![r].pc = "notifying", ![r].before = unpersisted]
        /\ UNCHANGED emitted
  /\ UNCHANGED <<feed, seen, alerted, delivered, overwritten, outbox,
                 unpersisted, breaker, drain>>

(***************************************************************************)
(* notify: the endpoint gets the batch, or after the retries in the thread *)
(* a line is appended to the outbox (_append_outbox_entry), or that fails  *)
(* too, or there is no outbox, and the loss is counted.                    *)
(***************************************************************************)
Notified(r, count) ==
  run' = [run EXCEPT ![r].pc = "alerting", ![r].withheld = count > run[r].before]

Notify(r) ==
  /\ run[r].pc = "notifying"
  /\ \/ /\ delivered' = delivered \cup run[r].batch
        /\ Notified(r, unpersisted)
        /\ UNCHANGED <<outbox, unpersisted, troubles>>
     \/ /\ Trouble
        /\ outbox' = Append(outbox, [batch |-> run[r].batch, attempts |-> 0])
        /\ Notified(r, unpersisted)
        /\ UNCHANGED <<delivered, unpersisted>>
     \/ /\ Trouble
        /\ unpersisted' = unpersisted + 1
        /\ Notified(r, unpersisted + 1)
        /\ UNCHANGED <<delivered, outbox>>
  /\ UNCHANGED <<feed, seen, emitted, alerted, overwritten, breaker, drain>>

(***************************************************************************)
(* Tenant alerts, item by item: those that fail are left out of the ack,   *)
(* and nothing is acked when the emission failed or a dead letter of this  *)
(* tick is not on disk.                                                    *)
(***************************************************************************)
MutAlertsAckAll(r) ==
  /\ run[r].pc = "alerting"
  /\ \E failed \in SUBSET run[r].batch :
       /\ IF failed = {} THEN UNCHANGED troubles ELSE Trouble
       /\ alerted' = alerted \cup (run[r].batch \ failed)
       /\ run' = [run EXCEPT ![r] =
            IF run[r].emitOk /\ ~run[r].withheld
              THEN [run[r] EXCEPT !.pc = "acking"] ELSE NoRun]
  /\ UNCHANGED <<feed, seen, emitted, delivered, overwritten, outbox,
                 unpersisted, breaker, drain>>

AlertTenants(r) ==
  /\ run[r].pc = "alerting"
  /\ \E failed \in SUBSET run[r].batch :
       /\ IF failed = {} THEN UNCHANGED troubles ELSE Trouble
       /\ alerted' = alerted \cup (run[r].batch \ failed)
       /\ run' = [run EXCEPT ![r] =
            IF run[r].emitOk /\ ~run[r].withheld /\ failed # run[r].batch
              THEN [run[r] EXCEPT !.pc = "acking", !.batch = @ \ failed]
              ELSE NoRun]
  /\ UNCHANGED <<feed, seen, emitted, delivered, overwritten, outbox,
                 unpersisted, breaker, drain>>

\* _mark_items_seen: one commit per item, and it stops at the first that fails
MarkSeen(r) ==
  /\ run[r].pc = "acking"
  /\ \/ \E i \in run[r].batch :
          /\ seen' = seen \cup {i}
          /\ run' = [run EXCEPT ![r] = IF run[r].batch = {i} THEN NoRun
                                       ELSE [run[r] EXCEPT !.batch = @ \ {i}]]
          /\ UNCHANGED troubles
     \/ Trouble /\ run' = [run EXCEPT ![r] = NoRun] /\ UNCHANGED seen
  /\ UNCHANGED <<feed, emitted, alerted, delivered, overwritten, outbox,
                 unpersisted, breaker, drain>>
-----------------------------------------------------------------------------
(***************************************************************************)
(* retry_outbox_once reads the file under the lock; a read error midway    *)
(* leaves the entries read so far ...                                      *)
(***************************************************************************)
DrainRead ==
  /\ drain.pc = "idle" /\ outbox # <<>>
  /\ \E k \in 1..Len(outbox) :
       /\ IF k = Len(outbox) THEN UNCHANGED troubles ELSE Trouble
       /\ drain' = [pc |-> "delivering", todo |-> SubSeq(outbox, 1, k),
                    remaining |-> <<>>, read |-> k]
  /\ UNCHANGED <<durable, outbox, unpersisted, breaker, run>>

(***************************************************************************)
(* ... keeps the lines that are not due or are exhausted, and delivers the *)
(* others without the lock; one that fails again stays, its attempt        *)
(* counted ...                                                             *)
(***************************************************************************)
DrainKeep ==
  /\ drain.pc = "delivering" /\ drain.todo # <<>>
  /\ drain' = [drain EXCEPT !.todo = Tail(@),
                            !.remaining = Append(@, Head(drain.todo))]
  /\ UNCHANGED <<durable, outbox, unpersisted, breaker, run, troubles>>

MutAttemptDropsExhausted ==
  /\ drain.pc = "delivering" /\ drain.todo # <<>>
  /\ LET e == Head(drain.todo) IN
     /\ e.attempts < OutboxAttempts
     /\ drain' = [drain EXCEPT !.todo = Tail(@),
          !.remaining = IF e.attempts + 1 = OutboxAttempts THEN @
                        ELSE Append(@, [e EXCEPT !.attempts = @ + 1])]
  /\ UNCHANGED <<durable, outbox, unpersisted, breaker, run, troubles>>

DrainAttempt ==
  /\ drain.pc = "delivering" /\ drain.todo # <<>>
  /\ LET e == Head(drain.todo) IN
     /\ e.attempts < OutboxAttempts
     /\ \/ /\ delivered' = delivered \cup e.batch
           /\ drain' = [drain EXCEPT !.todo = Tail(@)]
        \/ /\ drain' = [drain EXCEPT !.todo = Tail(@),
                !.remaining = Append(@, [e EXCEPT !.attempts = @ + 1])]
           /\ UNCHANGED delivered
  /\ UNCHANGED <<feed, seen, emitted, alerted, overwritten, outbox, unpersisted,
                 breaker, run, troubles>>

(***************************************************************************)
(* ... and rewrites the file with what remains (_write_outbox), whatever   *)
(* lines it did not read; when the write fails the file stays.             *)
(***************************************************************************)
Unread == SubSeq(outbox, drain.read + 1, Len(outbox))

DrainWrite ==
  /\ drain.pc = "delivering" /\ drain.todo = <<>>
  /\ drain' = NoDrain
  /\ \/ /\ outbox' = drain.remaining
        /\ overwritten' =
             overwritten \cup (ItemsOf(Unread) \ (ItemsOf(drain.remaining) \cup delivered))
        /\ UNCHANGED troubles
     \/ Trouble /\ UNCHANGED <<outbox, overwritten>>
  /\ UNCHANGED <<feed, seen, emitted, alerted, delivered, unpersisted, breaker, run>>
-----------------------------------------------------------------------------
\* cleanup_old_items: rows the scrapes have not refreshed for 90 days
CleanupOldItems(i) ==
  /\ i \in seen /\ Trouble
  /\ seen' = seen \ {i}
  /\ UNCHANGED <<feed, emitted, alerted, delivered, overwritten, outbox,
                 unpersisted, breaker, run, drain>>

\* the process ends: threads, breaker and counter go, tables and file stay
ProcessEnds ==
  /\ Trouble
  /\ run' = [r \in Run |-> NoRun] /\ drain' = NoDrain
  /\ breaker' = ClosedBreaker /\ unpersisted' = 0
  /\ UNCHANGED <<durable, outbox>>

RunStep(r) ==
  \/ CanExecute(r) \/ Scrape(r) \/ EmitBatch(r) \/ Notify(r) \/ AlertTenants(r)
  \/ MarkSeen(r)

DrainStep == DrainRead \/ DrainKeep \/ DrainAttempt \/ DrainWrite

ScrapingNext ==
  \/ \E i \in Item : Publish(i) \/ CleanupOldItems(i)
  \/ \E r \in Run : RunStep(r)
  \/ DrainStep \/ ProcessEnds

ScrapingSpec == ScrapingInit /\ [][ScrapingNext]_scrapingVars

(***************************************************************************)
(* The interval triggers fire again and again, the threads of the pool run,*)
(* and the retry time of a line comes: a line that every pass looks at is  *)
(* not skipped for ever.                                                   *)
(***************************************************************************)
ScrapingFairness ==
  /\ \A r \in Run : WF_scrapingVars(RunStep(r))
  /\ WF_scrapingVars(DrainStep)
  /\ SF_scrapingVars(DrainAttempt)
-----------------------------------------------------------------------------
Line == [batch : SUBSET Item, attempts : 0..OutboxAttempts]

ScrapingTypeOK ==
  /\ feed \subseteq Item /\ seen \subseteq Item /\ emitted \subseteq Item
  /\ alerted \subseteq Item /\ delivered \subseteq Item /\ overwritten \subseteq Item
  /\ outbox \in Seq(Line) /\ unpersisted \in Nat /\ troubles \in 0..MaxTroubles
  /\ breaker \in [state : {"closed", "open", "half_open"},
                  halfOpenCalls : 0..(HalfOpenMax - 1),
                  streak : 0..(FailureThreshold - 1)]
  /\ run \in [Run -> [pc : {"idle", "scraping", "emitting", "notifying",
                            "alerting", "acking"},
                      batch : SUBSET Item, before : Nat, emitOk : BOOLEAN,
                      withheld : BOOLEAN]]
  /\ drain \in [pc : {"idle", "delivering"}, todo : Seq(Line), remaining : Seq(Line),
                read : Nat]

(***************************************************************************)
(* An item is acked only when everything that follows from it is done or   *)
(* will be retried: it is on the backbone, its tenant alerts are written,  *)
(* and its notification was delivered or waits in the outbox (exhausted    *)
(* entries are kept).  _process_new_items, "the at-least-once path that    *)
(* closes issue #1136".  The one exception: a line that was appended while *)
(* the drain delivered, or that its read missed, and its rewrite dropped.  *)
(***************************************************************************)
AckedIsHandled ==
  \A i \in seen :
    /\ i \in emitted /\ i \in alerted
    /\ i \in delivered \/ i \in ItemsOf(outbox) \/ i \in overwritten

(***************************************************************************)
(* Every item the feed lists reaches the endpoint in the end, or waits in  *)
(* the outbox with its attempts used up for an operator, whatever failed   *)
(* on the way, unless a rewrite dropped it.  The feed only grows.          *)
(***************************************************************************)
ExhaustedItems ==
  UNION {outbox[k].batch : k \in {j \in DOMAIN outbox : outbox[j].attempts = OutboxAttempts}}

EveryItemNotified ==
  \A i \in Item :
    []<>(i \in feed => i \in delivered \/ i \in ExhaustedItems \/ i \in overwritten)

(***************************************************************************)
(* A breaker that opened closes again once the feed answers: the half-open *)
(* calls that are counted are enough to close it, and none blocks it.      *)
(***************************************************************************)
BreakerCloses == <>[](breaker.state = "closed")
=============================================================================

------------------------ MODULE NotificationOutbox ------------------------
(***************************************************************************)
(* NotificationOutboxDrainer (remediation/delivery.py): the scheduler's    *)
(* drainers claim the rows create_link enqueued, mint the link again, mail *)
(* it and record the outcome, each step in its own transaction.            *)
(*                                                                         *)
(* A drainer works through the batch it read at the start of its tick; the *)
(* token and the attempts it uses for a row are the ones of that read.     *)
(***************************************************************************)
EXTENDS Remediation

CONSTANTS
  Drainer,      \* scheduler replicas that may drain at the same time
  MailAttempts, \* MAX_ATTEMPTS
  MaxStops      \* bound: ticks cut short by a crash or a database error

VARIABLES
  drainer, \* the tick of each drainer
  stops    \* ticks cut short

outboxVars == <<drainer, stops>>
notificationVars == <<remediationVars, outboxVars>>

\* the tick of drain_tenant_once before the rows of its batch
TickOf(batch) ==
  [pc |-> IF batch = <<>> THEN "idle" ELSE "claiming", batch |-> batch, hit |-> {}, fresh |-> 0]

OutboxInit ==
  /\ drainer = [d \in Drainer |-> TickOf(<<>>)]
  /\ stops = 0

Settled == {"sent", "skipped", "failed"}

MutQueuedOnly(k) == mail[k].status = "queued"

\* a row is due when its backoff is over, or its claim is stale
Due(k) == \/ mail[k].status = "queued"
          \/ mail[k].status = "sending" /\ mail[k].stale

Current(d) == Head(drainer[d].batch)
AtWork(d, k) == drainer[d].pc \notin {"idle", "claiming"} /\ Current(d).row = k
NextRow(d) == drainer' = [drainer EXCEPT ![d] = TickOf(Tail(@.batch))]

\* _due_rows, in the order of created_at
DueRows(due) ==
  /\ \A i, j \in DOMAIN due : i < j => due[i] < due[j]
  /\ \A k \in DOMAIN mail : Due(k) <=> \E i \in DOMAIN due : due[i] = k

ReadOf(k) == [row |-> k, token |-> mail[k].token, attempts |-> mail[k].attempts]

DrainTenant(d) ==
  /\ drainer[d].pc = "idle"
  /\ \E n \in DOMAIN mail : \E due \in [1..n -> DOMAIN mail] :
       /\ DueRows(due)
       /\ drainer' = [drainer EXCEPT ![d] = TickOf([i \in 1..n |-> ReadOf(due[i])])]
  /\ UNCHANGED <<remediationVars, stops>>

\* _claim: the guarded UPDATE; another drainer may have taken the row
Claim(d) ==
  LET k == Current(d).row IN
  /\ drainer[d].pc = "claiming"
  /\ IF Due(k)
       THEN /\ mail' = [mail EXCEPT ![k].status = "sending", ![k].stale = FALSE]
            /\ drainer' = [drainer EXCEPT ![d].pc = "loading"]
       ELSE NextRow(d) /\ UNCHANGED mail
  /\ UNCHANGED <<manifestVars, token, request, stops>>

\* the outcomes: the row is written whoever holds its claim by then
Finish(d, status, attempts, mailed) ==
  /\ mail' = [mail EXCEPT ![Current(d).row].status = status,
                          ![Current(d).row].attempts = attempts,
                          ![Current(d).row].links = @ \cup mailed]
  /\ NextRow(d)

FinishSkipped(d) == Finish(d, "skipped", mail[Current(d).row].attempts, {})
FinishSent(d) == Finish(d, "sent", mail[Current(d).row].attempts, {})

OnSendFailure(d, mailed) ==
  LET attempts == Current(d).attempts + 1
  IN Finish(d, IF attempts >= MailAttempts THEN "failed" ELSE "queued", attempts, mailed)

\* is_suppressed, _load_token and _token_skip_reason
Undeliverable(t) == token[t].superseded \/ ~LiveLink(t) \/ token[t].exchanged

LoadToken(d) ==
  /\ drainer[d].pc = "loading"
  /\ \/ FinishSkipped(d)  \* the address is suppressed, or the link is no longer live
     \/ /\ ~Undeliverable(Current(d).token)
        /\ drainer' = [drainer EXCEPT ![d].pc = "revoking"]
        /\ UNCHANGED mail
  /\ UNCHANGED <<manifestVars, token, request, stops>>

(***************************************************************************)
(* _remint_link: the statement that revokes, then the commit, which mints  *)
(* the link with the expiry of the one that was loaded and points the row  *)
(* at it.  A failure is rolled back and counts as a failed send.           *)
(***************************************************************************)
RemintRevoke(d) ==
  /\ drainer[d].pc = "revoking"
  /\ drainer' = [drainer EXCEPT ![d].pc = "minting",
                                ![d].hit = Unrevoked(token[Current(d).token].case)]
  /\ UNCHANGED <<remediationVars, stops>>

MutRemintKeepsOld(d) ==
  LET loaded == Current(d).token IN
  /\ drainer[d].pc = "minting"
  /\ Reissue(token[loaded].case, {}, {loaded}, token[loaded].expired)
  /\ mail' = [mail EXCEPT ![Current(d).row].token = Len(token) + 1]
  /\ drainer' = [drainer EXCEPT ![d].pc = "sending", ![d].hit = {}, ![d].fresh = Len(token) + 1]
  /\ UNCHANGED <<manifestVars, request, stops>>

RemintCommit(d) ==
  LET loaded == Current(d).token IN
  /\ drainer[d].pc = "minting"
  /\ Reissue(token[loaded].case, {t \in drainer[d].hit : ~token[t].revoked},
             {loaded}, token[loaded].expired)
  /\ mail' = [mail EXCEPT ![Current(d).row].token = Len(token) + 1]
  /\ drainer' = [drainer EXCEPT ![d].pc = "sending", ![d].hit = {}, ![d].fresh = Len(token) + 1]
  /\ UNCHANGED <<manifestVars, request, stops>>

RemintFails(d) ==
  /\ drainer[d].pc \in {"revoking", "minting"}
  /\ OnSendFailure(d, {})
  /\ UNCHANGED <<manifestVars, token, request, stops>>

\* the provider accepts the mail, or the call raises, delivered or not
Send(d) ==
  LET k == Current(d).row IN
  /\ drainer[d].pc = "sending"
  /\ \/ /\ mail' = [mail EXCEPT ![k].links = @ \cup {drainer[d].fresh}]
        /\ drainer' = [drainer EXCEPT ![d].pc = "sent"]
     \/ \E mailed \in SUBSET {drainer[d].fresh} : OnSendFailure(d, mailed)
  /\ UNCHANGED <<manifestVars, token, request, stops>>

RecordSent(d) ==
  /\ drainer[d].pc = "sent"
  /\ FinishSent(d)
  /\ UNCHANGED <<manifestVars, token, request, stops>>

\* the process dies, or the tenant's drain ends in an exception
TickStops(d) ==
  /\ drainer[d].pc # "idle" /\ stops < MaxStops
  /\ drainer' = [drainer EXCEPT ![d] = TickOf(<<>>)]
  /\ stops' = stops + 1
  /\ UNCHANGED remediationVars

(***************************************************************************)
(* STALE_CLAIM_MINUTES pass since the row was claimed.  A tick that is at  *)
(* work on the row ends before that: one provider call is far shorter.     *)
(***************************************************************************)
ClaimGrowsStale(k) ==
  /\ mail[k].status = "sending" /\ ~mail[k].stale
  /\ ~\E d \in Drainer : AtWork(d, k)
  /\ mail' = [mail EXCEPT ![k].stale = TRUE]
  /\ UNCHANGED <<manifestVars, token, request, drainer, stops>>

DrainerStep(d) ==
  \/ DrainTenant(d) \/ Claim(d) \/ LoadToken(d)
  \/ RemintRevoke(d) \/ RemintCommit(d) \/ RemintFails(d)
  \/ Send(d) \/ RecordSent(d)

OutboxStep ==
  \/ \E d \in Drainer : DrainerStep(d) \/ TickStops(d)
  \/ \E k \in DOMAIN mail : ClaimGrowsStale(k)

NotificationInit == RemediationInit /\ OutboxInit

\* the drainers beside the operations on the links they send
NotificationNext ==
  \/ OutboxStep
  \/ (IntakeStep \/ LinkStep) /\ UNCHANGED outboxVars

\* the scheduler runs the drain at every tick, and the clock moves on
NotificationFairness ==
  /\ \A d \in Drainer : WF_notificationVars(DrainerStep(d))
  /\ \A k \in 1..MaxLinks : WF_notificationVars(k \in DOMAIN mail /\ ClaimGrowsStale(k))

NotificationSpec ==
  NotificationInit /\ [][NotificationNext]_notificationVars /\ NotificationFairness
-----------------------------------------------------------------------------
(***************************************************************************)
(* "each retry supersedes the previously minted token, so a duplicate      *)
(* email never carries a live older link" (delivery.py:27): of the links   *)
(* mailed for one row at most one works, however the ticks of several      *)
(* drainers overlap, crash and retry, and whatever is exchanged, revoked   *)
(* or expires in between.                                                  *)
(***************************************************************************)
DuplicateCarriesNoOldLink ==
  \A k \in DOMAIN mail : \A t, u \in mail[k].links :
    ~token[t].revoked /\ ~token[u].revoked => t = u

(***************************************************************************)
(* Every notification ends sent, skipped or failed: a row stranded by a    *)
(* crash is claimed again, and the attempts a stale batch writes back do   *)
(* not keep a failing row in the queue for ever.  No row is ever deleted,  *)
(* so being settled infinitely often says that every row gets there.       *)
(***************************************************************************)
RowsSettle ==
  \A k \in 1..MaxLinks :
    []<>(k \in DOMAIN mail => mail[k].status \in Settled)
=============================================================================

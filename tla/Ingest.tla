-------------------------------- MODULE Ingest --------------------------------
(***************************************************************************)
(* Concurrent ingestion for one tenant: requests that write both stores    *)
(* and the hash chain under the per-tenant advisory lock, the charge per   *)
(* label that follows the commit, the retention job that deletes old       *)
(* legacy rows, and the job that verifies the chain.                       *)
(*                                                                         *)
(* A session is one request: its transaction holds the rows it has added   *)
(* (tx) until it commits.  pg_advisory_xact_lock is held to the end of the *)
(* transaction, or of the savepoint it was taken in.                       *)
(***************************************************************************)
EXTENDS EventStores, Sequences, FiniteSets

CONSTANTS
  Session,      \* request handlers, over all processes
  NoSession,    \* nobody holds the chain lock
  Batches,      \* the event lists a webhook request may carry
  MayArchive,   \* does the retention job run?
  MayVerify,    \* does the verification job run?
  MaxRequests,  \* bound of the model: requests
  MaxFaults     \* bound of the model: failures and crashes

ASSUME SessionAssumption == NoSession \notin Session
ASSUME BatchesAssumption == Batches \subseteq Seq(Content) \ {<<>>}
ASSUME BoundsAssumption == MaxRequests \in Nat /\ MaxFaults \in Nat
ASSUME JobsAssumption == MayArchive \in BOOLEAN /\ MayVerify \in BOOLEAN

VARIABLES
  lock,      \* the session that holds pg_advisory_xact_lock(tenant)
  sess,      \* per session: its request and its transaction
  charges,   \* fsma.label_charges: event id -> status of its charge
  invoices,  \* the Stripe invoice items created: a sequence of event ids
  job,       \* the verification job
  requests, faults

vars == <<legacy, canon, chain, minted, lock, sess, charges, invoices, job,
          requests, faults>>

billing == <<charges, invoices>>

IdleSession ==
  [pc |-> "idle", kind |-> "none", events |-> <<>>, i |-> 1, seen |-> {},
   ids |-> <<>>, tx |-> Nothing, billable |-> {}, claim |-> 0]

NoJob == [pc |-> "none", valid |-> TRUE, empty |-> FALSE, length |-> 0]

Init ==
  /\ legacy = {} /\ canon = {} /\ chain = {} /\ minted = 0
  /\ lock = NoSession
  /\ sess = [s \in Session |-> IdleSession]
  /\ charges = <<>> /\ invoices = <<>>
  /\ job = NoJob
  /\ requests = 0 /\ faults = 0

Fault == faults < MaxFaults /\ faults' = faults + 1

(***************************************************************************)
(* The content a session works on, and what its transaction sees.          *)
(***************************************************************************)
Current(s) == sess[s].events[sess[s].i]
MyView(s) == View(sess[s].tx)

(***************************************************************************)
(* _acquire_chain_lock, re-entrant for its holder.                         *)
(***************************************************************************)
MutAcquireChainLockNever(s) == lock' = s

AcquireChainLock(s) == lock \in {NoSession, s} /\ lock' = s

MutReleaseChainLockNever(s) == lock' = lock

ReleaseChainLock(s) == lock' = IF lock = s THEN NoSession ELSE lock

(***************************************************************************)
(* A request arrives: a batch for the v2 webhook route, for the compat     *)
(* route or for the atomic EPCIS route, or one event of the supplier       *)
(* portal, the mobile capture or the remediation release.                  *)
(***************************************************************************)
Receive(s) ==
  /\ sess[s].pc = "idle"
  /\ requests < MaxRequests /\ requests' = requests + 1
  /\ \E kind \in {"webhook", "compat", "epcis", "portal"}, events \in Batches :
       /\ kind = "portal" => Len(events) = 1
       /\ sess' = [sess EXCEPT ![s] = [IdleSession EXCEPT
                     !.pc = "ready", !.kind = kind, !.events = events]]
  /\ UNCHANGED <<tables, minted, lock, billing, job, faults>>

MutAdvancePastEnd(r, next) ==
  IF r.i <= Len(r.events) THEN [r EXCEPT !.i = r.i + 1]
                          ELSE [r EXCEPT !.i = 1, !.pc = next]

Advance(r, next) ==
  IF r.i < Len(r.events) THEN [r EXCEPT !.i = r.i + 1]
                         ELSE [r EXCEPT !.i = 1, !.pc = next]

(***************************************************************************)
(* store_events_batch: the lock, the preloaded existing_map, then one row  *)
(* after the other.                                                        *)
(***************************************************************************)
MutBeginBatchNoPreload(s) ==
  /\ sess[s].pc = "ready" /\ sess[s].kind = "webhook"
  /\ AcquireChainLock(s)
  /\ sess' = [sess EXCEPT ![s] = [sess[s] EXCEPT !.pc = "batch"]]
  /\ UNCHANGED <<tables, minted, billing, job, requests, faults>>

BeginBatch(s) ==
  /\ sess[s].pc = "ready" /\ sess[s].kind = "webhook"
  /\ AcquireChainLock(s)
  /\ sess' = [sess EXCEPT ![s] = [sess[s] EXCEPT !.pc = "batch", !.seen = legacy]]
  /\ UNCHANGED <<tables, minted, billing, job, requests, faults>>

StoreEventsBatch(s) ==
  LET r == sess[s]
      known == r.seen \cup r.tx.legacy
      id == StoredId(known, minted + 1, "webhook", Current(s))
      new == StoreEvent(MyView(s), known, minted + 1, "webhook", Current(s), "canonical")
  IN
  /\ r.pc = "batch"
  /\ minted' = IF new = Nothing THEN minted ELSE minted + 1
  /\ sess' = [sess EXCEPT ![s] =
       Advance([r EXCEPT !.tx = Merge(r.tx, new), !.ids = Append(r.ids, id)], "canon")]
  /\ UNCHANGED <<tables, lock, billing, job, requests, faults>>

(***************************************************************************)
(* The loop over the stored batch: every event is reported accepted,       *)
(* queued for billing, and _persist_required_canonical_and_eval writes its *)
(* canonical row under the id of the legacy row.                           *)
(***************************************************************************)
PersistCanonical(s) ==
  LET r == sess[s]
      id == r.ids[r.i]
      new == PersistEvent(MyView(s), id, "webhook", Current(s), {})
  IN
  /\ r.pc = "canon"
  /\ ~LedgerMismatch(MyView(s), id, "webhook", Current(s))
  /\ sess' = [sess EXCEPT ![s] =
       Advance([r EXCEPT !.tx = Merge(r.tx, new), !.billable = r.billable \cup {id}], "commit")]
  /\ UNCHANGED <<tables, minted, lock, billing, job, requests, faults>>

(***************************************************************************)
(* A ValueError, TypeError or RuntimeError of the batch: the transaction   *)
(* is rolled back, with it the lock, what the attempt recorded is undone   *)
(* and every event is stored again on its own.                             *)
(***************************************************************************)
MutFallBackKeepsBillable(s) ==
  /\ sess[s].pc \in {"batch", "canon"}
  /\ Fault
  /\ ReleaseChainLock(s)
  /\ sess' = [sess EXCEPT ![s] = [sess[s] EXCEPT
       !.pc = "fallback", !.i = 1, !.seen = {}, !.ids = <<>>, !.tx = Nothing]]
  /\ UNCHANGED <<tables, minted, billing, job, requests>>

MutFallBackKeepsRows(s) ==
  /\ sess[s].pc \in {"batch", "canon"}
  /\ Fault
  /\ sess' = [sess EXCEPT ![s] = [sess[s] EXCEPT
       !.pc = "fallback", !.i = 1, !.seen = {}, !.ids = <<>>, !.billable = {}]]
  /\ UNCHANGED <<tables, minted, lock, billing, job, requests>>

FallBack(s) ==
  /\ sess[s].pc \in {"batch", "canon"}
  /\ Fault
  /\ ReleaseChainLock(s)
  /\ sess' = [sess EXCEPT ![s] = [sess[s] EXCEPT
       !.pc = "fallback", !.i = 1, !.seen = {}, !.ids = <<>>, !.tx = Nothing,
       !.billable = {}]]
  /\ UNCHANGED <<tables, minted, billing, job, requests>>

(***************************************************************************)
(* One event of the fallback, in a savepoint: store_event and the          *)
(* canonical row together.                                                 *)
(***************************************************************************)
StoreSingly(s) ==
  LET r == sess[s]
      v == MyView(s)
      id == StoredId(v.legacy, minted + 1, "webhook", Current(s))
      new == StoreEvent(v, v.legacy, minted + 1, "webhook", Current(s), "canonical")
      w == Merge(v, new)
      twin == PersistEvent(w, id, "webhook", Current(s), {})
  IN
  /\ r.pc = "fallback"
  /\ AcquireChainLock(s)
  /\ ~LedgerMismatch(w, id, "webhook", Current(s))
  /\ minted' = IF new = Nothing THEN minted ELSE minted + 1
  /\ sess' = [sess EXCEPT ![s] =
       Advance([r EXCEPT !.tx = Merge(Merge(r.tx, new), twin),
                         !.billable = r.billable \cup {id}], "commit")]
  /\ UNCHANGED <<tables, billing, job, requests, faults>>

(***************************************************************************)
(* The savepoint of one event is rolled back, in the fallback or in the    *)
(* compat route: its rows are gone, and so is the lock if no earlier       *)
(* savepoint of this request holds it.                                     *)
(***************************************************************************)
SkipSingly(s) ==
  /\ \/ sess[s].pc = "fallback"
     \/ sess[s].pc = "ready" /\ sess[s].kind = "compat"
  /\ Fault
  /\ sess' = [sess EXCEPT ![s] = Advance(sess[s], "commit")]
  /\ UNCHANGED <<tables, minted, lock, billing, job, requests>>

(***************************************************************************)
(* EPCIS: store_event, which owns the chain row, and unless the event was  *)
(* known a canonical row under an id of its own, not chained.              *)
(***************************************************************************)
IngestEpcis(s) ==
  LET r == sess[s]
      v == MyView(s)
      new == StoreEvent(v, v.legacy, minted + 1, "epcis", Current(s), "legacy")
      twin == IF new = Nothing THEN Nothing
              ELSE PersistEvent(Merge(v, new), minted + 2, "epcis", Current(s), {})
  IN
  /\ r.pc = "ready" /\ r.kind = "epcis"
  /\ AcquireChainLock(s)
  /\ minted' = IF new = Nothing THEN minted ELSE minted + 2
  /\ sess' = [sess EXCEPT ![s] =
       Advance([r EXCEPT !.tx = Merge(Merge(r.tx, new), twin)], "commit")]
  /\ UNCHANGED <<tables, billing, job, requests, faults>>

(***************************************************************************)
(* The compat route: store_event, then a canonical row with its own id and *)
(* its own chain row.  The second is best effort: its savepoint may be     *)
(* rolled back and the first kept.                                         *)
(***************************************************************************)
IngestCompat(s) ==
  LET r == sess[s]
      v == MyView(s)
      new == StoreEvent(v, v.legacy, minted + 1, "webhook", Current(s), "legacy")
      twin == PersistEvent(Merge(v, new), minted + 2, "webhook", Current(s), {"chain"})
  IN
  /\ r.pc = "ready" /\ r.kind = "compat"
  /\ AcquireChainLock(s)
  /\ minted' = IF new = Nothing /\ twin = Nothing THEN minted ELSE minted + 2
  /\ \/ /\ sess' = [sess EXCEPT ![s] =
             Advance([r EXCEPT !.tx = Merge(Merge(r.tx, new), twin)], "commit")]
        /\ UNCHANGED faults
     \/ /\ sess' = [sess EXCEPT ![s] =
             Advance([r EXCEPT !.tx = Merge(r.tx, new)], "commit")]
        /\ Fault
  /\ UNCHANGED <<tables, billing, job, requests>>

(***************************************************************************)
(* Supplier portal, mobile capture, remediation release: persist_event     *)
(* with dual_write.                                                        *)
(***************************************************************************)
IngestPortal(s) ==
  LET r == sess[s]
      new == PersistEvent(MyView(s), minted + 1, "portal", Current(s), {"chain", "legacy"})
  IN
  /\ r.pc = "ready" /\ r.kind = "portal"
  /\ AcquireChainLock(s)
  /\ minted' = IF new = Nothing THEN minted ELSE minted + 1
  /\ sess' = [sess EXCEPT ![s] = [r EXCEPT !.pc = "commit", !.tx = Merge(r.tx, new)]]
  /\ UNCHANGED <<tables, billing, job, requests, faults>>

(***************************************************************************)
(* COMMIT publishes the rows and releases the lock.  Only the v2 webhook   *)
(* charges per label, after the commit.                                    *)
(***************************************************************************)
Commit(s) ==
  LET r == sess[s] IN
  /\ r.pc = "commit"
  /\ legacy' = legacy \cup r.tx.legacy
  /\ canon' = canon \cup r.tx.canon
  /\ chain' = chain \cup r.tx.chain
  /\ ReleaseChainLock(s)
  /\ sess' = [sess EXCEPT ![s] =
       IF r.billable = {} THEN IdleSession
       ELSE [IdleSession EXCEPT !.pc = "billing", !.billable = r.billable]]
  /\ UNCHANGED <<minted, billing, job, requests, faults>>

(***************************************************************************)
(* Anything else that goes wrong: an exception that the route does not     *)
(* catch, a failed COMMIT, a crash at any point.                           *)
(***************************************************************************)
Rollback(s) ==
  /\ ReleaseChainLock(s)
  /\ sess' = [sess EXCEPT ![s] = IdleSession]
  /\ UNCHANGED <<tables, minted, billing, job, requests>>

Fails(s) == sess[s].pc # "idle" /\ Fault /\ Rollback(s)

(***************************************************************************)
(* _CanonicalPersistenceError is caught by neither handler of the route.   *)
(***************************************************************************)
RefuseMismatch(s) ==
  LET r == sess[s] IN
  /\ \/ r.pc = "canon" /\ LedgerMismatch(MyView(s), r.ids[r.i], "webhook", Current(s))
     \/ /\ r.pc = "fallback" /\ lock \in {NoSession, s}
        /\ LET v == MyView(s)
               new == StoreEvent(v, v.legacy, minted + 1, "webhook", Current(s), "canonical")
           IN LedgerMismatch(Merge(v, new),
                StoredId(v.legacy, minted + 1, "webhook", Current(s)), "webhook", Current(s))
  /\ Rollback(s)
  /\ UNCHANGED faults

(***************************************************************************)
(* charge_for_label, for each queued id.  The claim is an INSERT ... ON    *)
(* CONFLICT DO NOTHING on UNIQUE (tenant_id, cte_event_id), committed      *)
(* before Stripe is called; who finds the row there leaves it alone.  A    *)
(* claim that fails skips the label ("label_charge_skipped").              *)
(***************************************************************************)
AfterLabel(r, id) ==
  IF r.billable = {id} THEN IdleSession
  ELSE [r EXCEPT !.billable = r.billable \ {id}, !.claim = 0]

MutClaimChargeRowAgain(s) ==
  /\ sess[s].pc = "billing" /\ sess[s].claim = 0
  /\ \E id \in sess[s].billable :
       /\ charges' = [x \in DOMAIN charges \cup {id} |->
                        IF x = id THEN "pending" ELSE charges[x]]
       /\ sess' = [sess EXCEPT ![s] = [sess[s] EXCEPT !.claim = id]]
  /\ UNCHANGED <<tables, minted, lock, invoices, job, requests, faults>>

ClaimChargeRow(s) ==
  /\ sess[s].pc = "billing" /\ sess[s].claim = 0
  /\ \E id \in sess[s].billable :
       \/ /\ id \notin DOMAIN charges
          /\ charges' = [x \in DOMAIN charges \cup {id} |->
                           IF x = id THEN "pending" ELSE charges[x]]
          /\ sess' = [sess EXCEPT ![s] = [sess[s] EXCEPT !.claim = id]]
          /\ UNCHANGED faults
       \/ /\ id \in DOMAIN charges
          /\ sess' = [sess EXCEPT ![s] = AfterLabel(sess[s], id)]
          /\ UNCHANGED <<charges, faults>>
       \/ /\ Fault
          /\ sess' = [sess EXCEPT ![s] = AfterLabel(sess[s], id)]
          /\ UNCHANGED charges
  /\ UNCHANGED <<tables, minted, lock, invoices, job, requests>>

(***************************************************************************)
(* The claimed label.  The tenant has no Stripe customer; or the invoice   *)
(* item is created and recorded; or it is created and the UPDATE fails,    *)
(* which leaves the claim pending; or the call fails, with an item on      *)
(* Stripe's side if only the answer was lost.                              *)
(***************************************************************************)
ChargeForLabel(s) ==
  LET id == sess[s].claim IN
  /\ sess[s].pc = "billing" /\ id # 0
  /\ sess' = [sess EXCEPT ![s] = AfterLabel(sess[s], id)]
  /\ \/ /\ charges' = [charges EXCEPT ![id] = "no_customer"]
        /\ UNCHANGED <<invoices, faults>>
     \/ /\ charges' = [charges EXCEPT ![id] = "charged"]
        /\ invoices' = Append(invoices, id)
        /\ UNCHANGED faults
     \/ /\ Fault
        /\ invoices' = Append(invoices, id)
        /\ UNCHANGED charges
     \/ /\ Fault
        /\ charges' = [charges EXCEPT ![id] = "failed"]
        /\ invoices' \in {invoices, Append(invoices, id)}
  /\ UNCHANGED <<tables, minted, lock, job, requests>>

(***************************************************************************)
(* archive_expired_records: DELETE FROM fsma.cte_events of what is older   *)
(* than 1095 days, in a transaction of its own, without the chain lock.    *)
(***************************************************************************)
MutArchiveCascades(S) ==
  /\ MayArchive
  /\ S # {}
  /\ legacy' = legacy \ S
  /\ chain' = {r \in chain : \A e \in S : e.id # r.id}
  /\ UNCHANGED <<canon, minted, lock, sess, billing, job, requests, faults>>

ArchiveExpiredRecords(S) ==
  /\ MayArchive
  /\ S # {}
  /\ legacy' = legacy \ S
  /\ UNCHANGED <<canon, chain, minted, lock, sess, billing, job, requests, faults>>
-----------------------------------------------------------------------------
(***************************************************************************)
(* What both verifiers check of every chain row: sequence, linkage and the *)
(* recomputed chain hash.                                                  *)
(***************************************************************************)
RowLinked(r) ==
  /\ r.link = ChainHash(r.sha, r.prev)
  /\ \/ r.seq = 1 /\ r.prev = Genesis
     \/ \E q \in chain : q.seq + 1 = r.seq /\ r.prev = q.link

(***************************************************************************)
(* verify_chain_canonical: a row is an orphan when neither store has its   *)
(* event; a row that only the canonical store has carries its digest; the  *)
(* digest of a canonical row is recomputed from its content.               *)
(***************************************************************************)
MutCanonicalRowOKOneStore(r) ==
  LET te == {t \in canon : t.id = r.id} IN
  /\ te # {}
  /\ \A t \in te : t.sha = Digest("canonical", r.id, t.content)

CanonicalRowOK(r) ==
  LET te == {t \in canon : t.id = r.id}
      ce == {t \in legacy : t.id = r.id}
  IN
  /\ te = {} => ce # {}
  /\ \A t \in te : /\ ce = {} => r.sha = t.sha
                   /\ t.sha = Digest("canonical", r.id, t.content)

NonRejected == {r \in legacy : r.status # "rejected"}

MissingChainRows == {r \in NonRejected : ~\E q \in chain : q.id = r.id}

(***************************************************************************)
(* _run_verification_inner: each SELECT has a snapshot of its own (READ    *)
(* COMMITTED), so commits fall between them.  verify_chain_canonical walks *)
(* the chain and counts the canonical events; verify_chain walks it again, *)
(* counts the legacy events and asks for missing rows when the counts      *)
(* differ.  _combine_verifications drops the orphans of the second walk.   *)
(***************************************************************************)
JobStep(pc, next, valid, empty, length) ==
  /\ job.pc = pc
  /\ job' = [pc |-> next, valid |-> job.valid /\ valid, empty |-> empty,
             length |-> length]
  /\ UNCHANGED <<tables, minted, lock, sess, billing, requests, faults>>

WalkCanonical ==
  /\ MayVerify
  /\ JobStep("none", "walked",
             \A r \in chain : RowLinked(r) /\ CanonicalRowOK(r), chain = {}, 0)

CountCanonical ==
  JobStep("walked", "counted", job.empty => canon = {}, job.empty, 0)

WalkLegacy ==
  JobStep("counted", "walked again", \A r \in chain : RowLinked(r),
          job.empty \/ chain = {}, Cardinality(chain))

CountLegacy ==
  JobStep("walked again",
          IF job.length = 0 \/ job.length # Cardinality(NonRejected)
            THEN "counted again" ELSE "done",
          job.length = 0 => NonRejected = {}, job.empty, job.length)

FindMissing ==
  JobStep("counted again", "done", MissingChainRows = {}, job.empty, job.length)

VerificationStep ==
  \/ WalkCanonical \/ CountCanonical \/ WalkLegacy \/ CountLegacy \/ FindMissing

SessionStep(s) ==
  \/ BeginBatch(s) \/ StoreEventsBatch(s) \/ PersistCanonical(s)
  \/ StoreSingly(s) \/ IngestEpcis(s) \/ IngestCompat(s) \/ IngestPortal(s)
  \/ Commit(s) \/ RefuseMismatch(s) \/ ClaimChargeRow(s) \/ ChargeForLabel(s)

Next ==
  \/ \E s \in Session :
       Receive(s) \/ SessionStep(s) \/ FallBack(s) \/ SkipSingly(s) \/ Fails(s)
  \/ \E S \in SUBSET legacy : ArchiveExpiredRecords(S)
  \/ VerificationStep

Spec == Init /\ [][Next]_vars

(***************************************************************************)
(* Postgres queues the waiters of an advisory lock, so a session that      *)
(* waits for it again and again gets it; everything else a session or the  *)
(* job does is ordinary progress of its thread.                            *)
(***************************************************************************)
Fairness ==
  /\ \A s \in Session : SF_vars(SessionStep(s))
  /\ WF_vars(VerificationStep)

FairSpec == Spec /\ Fairness
-----------------------------------------------------------------------------
(***************************************************************************)
(* Types, and that the loops over the events of a request stay inside the  *)
(* lists they index: events, and the ids store_events_batch returned.      *)
(***************************************************************************)
SessionState ==
  [pc : {"idle", "ready", "batch", "canon", "fallback", "commit", "billing"},
   kind : {"none", "webhook", "compat", "epcis", "portal"},
   events : Seq(Content), i : Nat \ {0}, seen : SUBSET LegacyRow, ids : Seq(Nat),
   tx : Rows, billable : SUBSET Nat, claim : Nat]

InRange(r) ==
  /\ r.pc \in {"ready", "batch", "canon", "fallback"} => r.i <= Len(r.events)
  /\ r.pc = "batch" \/ (r.pc = "ready" /\ r.kind = "webhook") => Len(r.ids) = r.i - 1
  /\ r.pc = "canon" => Len(r.ids) = Len(r.events)

TypeOK ==
  /\ minted \in Nat
  /\ View(Nothing) \in Rows
  /\ lock \in Session \cup {NoSession}
  /\ sess \in [Session -> SessionState]
  /\ \A s \in Session : InRange(sess[s])
  /\ DOMAIN charges \subseteq Nat
  /\ invoices \in Seq(Nat)
  /\ requests \in 0..MaxRequests /\ faults \in 0..MaxFaults

(***************************************************************************)
(* The chain is one chain: positions are taken once, without a gap, and    *)
(* every row links to the row before it, over all writers, whichever of    *)
(* them ran in a batch, in a savepoint or after a rollback that released   *)
(* the lock (_acquire_chain_lock, the head SELECT and the INSERT).         *)
(***************************************************************************)
ChainLinked ==
  /\ \A r, q \in chain : r.seq = q.seq => r = q
  /\ \A r \in chain : RowLinked(r)

(***************************************************************************)
(* A committed legacy event is chained exactly once, under its own digest, *)
(* unless it was rejected, and then never (store_event, store_events_batch *)
(* and dual_write_legacy against crashes between and retries of them).     *)
(***************************************************************************)
EventsChained ==
  \A e \in legacy :
    IF e.status = "rejected" THEN \A r \in chain : r.id # e.id
    ELSE \E r \in chain : /\ r.id = e.id /\ r.sha = e.sha
                          /\ \A q \in chain : q.id = e.id => q = r

(***************************************************************************)
(* One row per idempotency key in each store: the check before the insert  *)
(* is never outdated, although store_events_batch looks at rows it read    *)
(* before the first insert and the fallback reads again after losing the   *)
(* lock.                                                                   *)
(***************************************************************************)
OneEventPerKey ==
  /\ \A e, f \in legacy : e.key = f.key => e = f
  /\ \A e, f \in canon : e.key = f.key => e = f

(***************************************************************************)
(* Every event the v2 webhook stored has its canonical row: both stores    *)
(* are written in one transaction, in the batch and in the fallback, and   *)
(* an event whose canonical write fails is not kept.                       *)
(***************************************************************************)
TwinKept ==
  \A e \in legacy : e.sha.form = "canonical" /\ e.key[1] = "legacy" =>
    \E t \in canon : t.key = KeyInCanon(e.key[2], e.sha.content)

(***************************************************************************)
(* A label is charged only for an event that is in the ledger, never for   *)
(* one that a rollback or a failed fallback took back.                     *)
(***************************************************************************)
ChargesAreBacked ==
  \A id \in DOMAIN charges : \E r \in chain : r.id = id

(***************************************************************************)
(* One Stripe invoice item per label at most, over concurrent retries of a *)
(* request and crashes between the claim and the call ("charges Stripe at  *)
(* most once", charge_for_label).                                          *)
(***************************************************************************)
ChargedOnce ==
  \A i, j \in 1..Len(invoices) : invoices[i] = invoices[j] => i = j

(***************************************************************************)
(* A chain row whose event the retention job has deleted from both stores. *)
(***************************************************************************)
Orphaned == \E r \in chain : ~\E t \in legacy \cup canon : t.id = r.id

(***************************************************************************)
(* The verification job, whose SELECTs see different states of a ledger    *)
(* that is being written, finds nothing wrong in it.  The exceptions are   *)
(* the documented one, a walk over no rows at all ("failing closed",       *)
(* verify_chain_canonical), and rows that retention has orphaned.          *)
(***************************************************************************)
VerdictSound == job.valid \/ job.empty \/ Orphaned

(***************************************************************************)
(* cte_persistence/verification.py:167: an orphan chain row means "Either  *)
(* the event was deleted (never legal - cte_events is append-only) or the  *)
(* chain was written with a bogus id (code bug)": the program itself never *)
(* makes the job report one.                                               *)
(***************************************************************************)
OnlyTamperingFailsVerification == job.pc = "done" /\ ~job.empty => job.valid

(***************************************************************************)
(* The chain, read in order of sequence_num, is an append-only log in      *)
(* which an event is entered once.                                         *)
(***************************************************************************)
Log ==
  [n \in 1..HeadSeq(chain) |->
     LET r == CHOOSE q \in chain : q.seq = n IN [id |-> r.id, sha |-> r.sha]]

Ledger == INSTANCE AppendOnlyLedger WITH log <- Log

ImplementsLedger == Ledger!Spec

(***************************************************************************)
(* Every request is answered, over waits for the chain lock, fallbacks and *)
(* failures of single events.                                              *)
(***************************************************************************)
EveryRequestAnswered ==
  \A s \in Session : sess[s].pc = "ready" ~> sess[s].pc = "idle"
=============================================================================

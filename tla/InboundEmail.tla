---------------------------- MODULE InboundEmail ----------------------------
(***************************************************************************)
(* Ingestion of one inbound e-mail (services/ingestion/app/email_ingest/    *)
(* service.py).  The provider delivers the message, and delivers it again   *)
(* whenever it gets no 2xx; every delivery is a handler of its own.  The    *)
(* audit row, keyed by message_id, is claimed before any attachment is      *)
(* ingested and finalized after the last.                                   *)
(***************************************************************************)
EXTENDS Integers, FiniteSets

CONSTANTS
    Delivery,       \* deliveries of the message
    Attachment      \* its attachments

ASSUME EmailAssumption == IsFiniteSet(Attachment)

VARIABLES
    audit,          \* the audit row's status
    recorded,       \* attachments its details call accepted
    ingested,       \* how often each attachment went through CSV ingestion
    delivery        \* each delivery's handler

emailVars == <<audit, recorded, ingested, delivery>>

Finished == {"accepted", "partial", "rejected"}

EmailInit ==
    /\ audit = "none"
    /\ recorded = {}
    /\ ingested = [a \in Attachment |-> 0]
    /\ delivery = [d \in Delivery |-> [pc |-> "new", todo |-> {}, accepted |-> {}]]

GoOn(d, pc) == delivery' = [delivery EXCEPT ![d].pc = pc]

\* get_inbound_email_audit_by_message_id: a finished row is replayed.
LookUpAudit(d) ==
    /\ delivery[d].pc = "new"
    /\ GoOn(d, IF audit \in Finished THEN "answered" ELSE "claiming")
    /\ UNCHANGED <<audit, recorded, ingested>>

\* INSERT ... ON CONFLICT DO NOTHING, committed at once.  The loser reads
\* the row again: a replay if it is finished, 409 if not.
MutProcessAnyway(d) ==
    /\ delivery[d].pc = "claiming"
    /\ audit' = IF audit = "none" THEN "processing" ELSE audit
    /\ IF audit \in Finished
          THEN GoOn(d, "answered")
          ELSE \/ GoOn(d, "rejecting")
               \/ delivery' = [delivery EXCEPT ![d].pc = "ingesting", ![d].todo = Attachment]
    /\ UNCHANGED <<recorded, ingested>>

ClaimEmail(d) ==
    /\ delivery[d].pc = "claiming"
    /\ IF audit = "none"
          THEN /\ audit' = "processing"
               /\ \/ GoOn(d, "rejecting")     \* no tenant for the recipient
                  \/ delivery' = [delivery EXCEPT ![d].pc = "ingesting",
                                                  ![d].todo = Attachment]
          ELSE GoOn(d, "answered") /\ UNCHANGED audit
    /\ UNCHANGED <<recorded, ingested>>

\* One attachment: its checks may reject it, ingestion may accept it, or
\* ingestion may raise with or without having stored its events.
ProcessAttachment(d, a) ==
    /\ delivery[d].pc = "ingesting" /\ a \in delivery[d].todo
    /\ \E stored \in BOOLEAN, accept \in BOOLEAN :
          /\ accept => stored
          /\ ingested' = IF stored THEN [ingested EXCEPT ![a] = @ + 1] ELSE ingested
          /\ delivery' = [delivery EXCEPT ![d].todo = @ \ {a},
                ![d].accepted = IF accept THEN @ \cup {a} ELSE @]
    /\ UNCHANGED <<audit, recorded>>

Outcome(accepted) ==
    IF Attachment # {} /\ accepted = {} THEN "rejected"
    ELSE IF accepted # Attachment THEN "partial" ELSE "accepted"

\* finalize_inbound_email_audit writes only to a row still in processing.
Finalize(d) ==
    /\ delivery[d].pc = "ingesting" /\ delivery[d].todo = {}
    /\ IF audit = "processing"
          THEN audit' = Outcome(delivery[d].accepted) /\ recorded' = delivery[d].accepted
          ELSE UNCHANGED <<audit, recorded>>
    /\ GoOn(d, "answered")
    /\ UNCHANGED ingested

\* An unmapped recipient, or an exception on the way (the row is finalized
\* as rejected and the provider gets an error).
FinalizeRejected(d) ==
    /\ delivery[d].pc \in {"rejecting", "ingesting"}
    /\ IF audit = "processing"
          THEN audit' = "rejected" /\ recorded' = {}
          ELSE UNCHANGED <<audit, recorded>>
    /\ GoOn(d, "answered")
    /\ UNCHANGED ingested

\* The process dies, or the last write fails too: a claimed row stays in
\* processing for good.
DeliveryDies(d) ==
    /\ delivery[d].pc \notin {"new", "answered"}
    /\ GoOn(d, "answered")
    /\ UNCHANGED <<audit, recorded, ingested>>

EmailNext ==
    \E d \in Delivery :
        \/ LookUpAudit(d) \/ ClaimEmail(d)
        \/ \E a \in Attachment : ProcessAttachment(d, a)
        \/ Finalize(d) \/ FinalizeRejected(d) \/ DeliveryDies(d)

EmailSpec == EmailInit /\ [][EmailNext]_emailVars

-----------------------------------------------------------------------------
\* However often the provider delivers the message, and however deliveries
\* overlap, fail or die, no attachment is ingested twice, and every one the
\* audit row calls accepted was ingested.
IngestedOnce ==
    \A a \in Attachment :
        ingested[a] <= 1 /\ (a \in recorded => ingested[a] = 1)
=============================================================================

--------------------------- MODULE UsageReporting ---------------------------
(***************************************************************************)
(* Metered billing of one tenant (services/ingestion/app/stripe_billing/    *)
(* usage.py and usage_reporting.py): each stored event counts once toward   *)
(* the counter of its billing period; a report sends Stripe what every      *)
(* period has gained since the last report.  Reports of one tenant are      *)
(* serialised by an advisory lock and lock the counter rows they read until *)
(* they commit; Stripe ignores a meter event whose identifier it has seen.  *)
(***************************************************************************)
EXTENDS Integers, FiniteSets

CONSTANTS
    Event,
    Period,         \* billing periods, in order
    Report          \* concurrent calls of report_tenant_usage_to_stripe

ASSUME UsageAssumption == Period \subseteq Nat /\ IsFiniteSet(Event)

VARIABLES
    counted,        \* tenant_usage_event_ledger: <<event, period>>
    unitCount,      \* tenant_usage_counters.unit_count
    lastReported,   \* tenant_usage_counters.last_reported_count
    meter,          \* identifiers of the meter events Stripe has accepted
    billed,         \* the units Stripe bills for each period: the values it accepted
    report,         \* each report: periods to send, periods written
    unsure,         \* periods with an accepted event that was never recorded
    slipped         \* those of them that counted another event since

usageVars == <<counted, unitCount, lastReported, meter, billed, report, unsure, slipped>>

NoReport == [on |-> FALSE, todo |-> {}, sent |-> {}]

UsageInit ==
    /\ counted = {}
    /\ unitCount = [p \in Period |-> 0]
    /\ lastReported = [p \in Period |-> 0]
    /\ meter = {} /\ billed = [p \in Period |-> 0]
    /\ report = [r \in Report |-> NoReport]
    /\ unsure = {} /\ slipped = {}

Locked(p) == \E r \in Report : p \in report[r].todo \cup report[r].sent

-----------------------------------------------------------------------------
\* increment_usage_for_event, inside the transaction that stores the event.
\* An event that is counted already changes nothing; a row that a report
\* has locked is waited for.
IncrementUsage(e, p) ==
    /\ ~\E q \in Period : <<e, q>> \in counted
    /\ ~Locked(p)
    /\ counted' = counted \cup {<<e, p>>}
    /\ unitCount' = [unitCount EXCEPT ![p] = @ + 1]
    /\ slipped' = slipped \cup ({p} \cap unsure)
    /\ UNCHANGED <<lastReported, meter, billed, report, unsure>>

\* The lock, then SELECT ... FOR UPDATE of the periods with something new.
StartReport(r) ==
    /\ \A q \in Report : ~report[q].on
    /\ LET behind == {p \in Period : unitCount[p] > lastReported[p]} IN
          /\ behind # {}
          /\ report' = [report EXCEPT ![r] = [on |-> TRUE, todo |-> behind, sent |-> {}]]
    /\ UNCHANGED <<counted, unitCount, lastReported, meter, billed, unsure, slipped>>

\* MeterEvent.create: Stripe bills the value unless it has seen the identifier.
MeterEvent(p) ==
    LET identifier == [period |-> p, count |-> unitCount[p]] IN
    /\ meter' = meter \cup {identifier}
    /\ billed' = IF identifier \in meter THEN billed
                 ELSE [billed EXCEPT ![p] = @ + (unitCount[p] - lastReported[p])]

\* the periods are reported in their order
NextToSend(r, p) == p \in report[r].todo /\ \A q \in report[r].todo : p <= q

SendPeriod(r) ==
    /\ \E p \in Period :
          /\ NextToSend(r, p)
          /\ MeterEvent(p)
          /\ report' = [report EXCEPT ![r].todo = @ \ {p}, ![r].sent = @ \cup {p}]
    /\ UNCHANGED <<counted, unitCount, lastReported, unsure, slipped>>

\* The counters of the periods sent so far are committed.
Committed(r) ==
    /\ lastReported' = [p \in Period |->
          IF p \in report[r].sent THEN unitCount[p] ELSE lastReported[p]]
    /\ report' = [report EXCEPT ![r] = NoReport]

FinishReport(r) ==
    /\ report[r].on /\ report[r].todo = {}
    /\ Committed(r)
    /\ unsure' = unsure \ report[r].sent
    /\ UNCHANGED <<counted, unitCount, meter, billed, slipped>>

\* A StripeError ends the report.  Stripe may have accepted the event all
\* the same; what the report wrote before is committed either way.
MutRollsBack(r) ==
    /\ report[r].todo # {}
    /\ report' = [report EXCEPT ![r] = NoReport]
    /\ UNCHANGED <<counted, unitCount, lastReported, meter, billed, unsure, slipped>>

StripeError(r) ==
    /\ \E p \in Period :
          /\ NextToSend(r, p)
          /\ \/ UNCHANGED <<meter, billed>> /\ unsure' = unsure \ report[r].sent
             \/ MeterEvent(p) /\ unsure' = (unsure \ report[r].sent) \cup {p}
    /\ Committed(r)
    /\ UNCHANGED <<counted, unitCount, slipped>>

\* The process dies: everything the report wrote is rolled back.
ReportDies(r) ==
    /\ report[r].on
    /\ report' = [report EXCEPT ![r] = NoReport]
    /\ unsure' = unsure \cup report[r].sent
    /\ UNCHANGED <<counted, unitCount, lastReported, meter, billed, slipped>>

UsageNext ==
    \/ \E e \in Event, p \in Period : IncrementUsage(e, p)
    \/ \E r \in Report :
          \/ StartReport(r) \/ SendPeriod(r) \/ FinishReport(r)
          \/ StripeError(r) \/ ReportDies(r)

UsageSpec == UsageInit /\ [][UsageNext]_usageVars

-----------------------------------------------------------------------------
Counted(p) == Cardinality({c \in counted : c[2] = p})

\* Stripe is never told of more units than were counted nor of fewer than
\* the counter says were reported, across Stripe errors half way through a
\* report, lost answers, crashes and retries.  The one exception the code's
\* identifier leaves open: a period whose accepted event was never recorded
\* and that counted another event before it was reported again.
BilledAsCounted ==
    \A p \in Period \ slipped :
        lastReported[p] <= billed[p] /\ billed[p] <= Counted(p)
=============================================================================

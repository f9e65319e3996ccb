-------------------------- MODULE DeadlineMonitor --------------------------
(***************************************************************************)
(* The scheduler's deadline monitor (services/scheduler/service.py): every  *)
(* five minutes it sweeps the open request cases of each tenant and reports *)
(* the critical and overdue ones, remembering in a bounded in-memory cache  *)
(* which alerts it sent within the last hour.  One tick runs at a time; a   *)
(* tick may fail after any tenant, so the unit of the model is the sweep of *)
(* one tenant.                                                              *)
(***************************************************************************)
EXTENDS Integers, FiniteSets, FiniteSetsExt

CONSTANTS
    Tenant,
    CaseId,
    ScanLimit,      \* DEADLINE_STATUS_MAX_CASES
    AlertMax        \* DEADLINE_ALERT_STATE_MAX

ASSUME DeadlineAssumption ==
    ScanLimit \in Nat /\ AlertMax \in Nat /\ IsFiniteSet(Tenant) /\ IsFiniteSet(CaseId)

VARIABLES
    watched,        \* cases whose package_status is neither submitted nor amended
    urgency,        \* what response_due_at makes of each case now
    tracked,        \* keys of _deadline_alert_state, over all buckets
    fresh,          \* the tracked keys sent less than an hour ago
    alertEntries,   \* _deadline_alert_entries
    found,          \* alerts the last sweep of each tenant found due or repeated
    reported        \* alerts logged since the sweep before found them absent

deadlineVars ==
    <<watched, urgency, tracked, fresh, alertEntries, found, reported>>

Case == Tenant \X CaseId

\* Nearest deadline first: a later urgency is an earlier due date.
Rank == [normal |-> 0, critical |-> 1, overdue |-> 2]

Of(t, keys) == {k \in keys : k[2][1] = t}

DeadlineInit ==
    /\ watched = {}
    /\ urgency = [c \in Case |-> "normal"]
    /\ tracked = {} /\ fresh = {} /\ alertEntries = 0
    /\ found = {} /\ reported = {}

-----------------------------------------------------------------------------
\* check_deadline_status: ORDER BY response_due_at LIMIT, so no case left out
\* is more urgent than one that was read.
Window(t) ==
    LET open == {c \in watched : c[1] = t} IN
    {w \in SUBSET open :
        /\ Cardinality(w) = Min({ScanLimit, Cardinality(open)})
        /\ \A c \in w, d \in open \ w : Rank[urgency[d]] <= Rank[urgency[c]]}

Active(w) == {<<urgency[c], c>> : c \in {d \in w : urgency[d] # "normal"}}

\* The tenant's keys that are no longer active leave the cache.
MutKeepsEverything(t, active) == tracked

Kept(t, active) == tracked \ (Of(t, tracked) \ active)

MutForgetsToCountDown(kept) == alertEntries

EntriesAfter(kept) == alertEntries - Cardinality(tracked \ kept)

\* _deadline_alert_due for each active key, overdue before critical: a fresh
\* key is suppressed, a lapsed one refreshed, a new one reported whether or
\* not the cache has room for it.
SweepTenant(t) ==
    \E w \in Window(t) :
        LET active == Active(w)
            kept == Kept(t, active)
            due == active \ (kept \cap fresh)
            new == due \ kept
            room == Max({0, AlertMax - EntriesAfter(kept)})
        IN
        \E added \in SUBSET new :
            /\ Cardinality(added) = Min({room, Cardinality(new)})
            /\ \A k \in added, l \in new \ added : Rank[l[1]] <= Rank[k[1]]
            /\ tracked' = kept \cup added
            /\ fresh' = (fresh \cap kept) \cup (kept \cap due) \cup added
            /\ alertEntries' = EntriesAfter(kept) + Cardinality(added)
            /\ found' = (found \ Of(t, found)) \cup active
            /\ reported' = (reported \ (Of(t, reported) \ active)) \cup due
            /\ UNCHANGED <<watched, urgency>>

-----------------------------------------------------------------------------
\* The workflow opens a case, files it, or moves a filed case back.
Reopen(c) ==
    /\ c \notin watched
    /\ watched' = watched \cup {c}
    /\ UNCHANGED <<urgency, tracked, fresh, alertEntries, found, reported>>

File(c) ==
    /\ c \in watched
    /\ watched' = watched \ {c}
    /\ UNCHANGED <<urgency, tracked, fresh, alertEntries, found, reported>>

\* The clock: a deadline comes nearer, an alert becomes an hour old.
Approach(c) ==
    /\ urgency[c] # "overdue"
    /\ urgency' = [urgency EXCEPT ![c] = IF @ = "normal" THEN "critical" ELSE "overdue"]
    /\ UNCHANGED <<watched, tracked, fresh, alertEntries, found, reported>>

Lapse(k) ==
    /\ fresh' = fresh \ {k}
    /\ UNCHANGED <<watched, urgency, tracked, alertEntries, found, reported>>

\* A restart of the scheduler empties the cache.
RestartMonitor ==
    /\ tracked' = {} /\ fresh' = {} /\ alertEntries' = 0
    /\ UNCHANGED <<watched, urgency, found, reported>>

DeadlineNext ==
    \/ \E t \in Tenant : SweepTenant(t)
    \/ \E c \in Case : Reopen(c) \/ File(c) \/ Approach(c)
    \/ \E k \in fresh : Lapse(k)
    \/ RestartMonitor

DeadlineSpec == DeadlineInit /\ [][DeadlineNext]_deadlineVars

-----------------------------------------------------------------------------
\* Every breach a sweep finds has been logged since a sweep last found it
\* absent: neither an earlier alert about the same case (filed and moved back
\* since), nor a full cache, nor the hour of silence swallows a new breach.
BreachesReported == found \subseteq reported

\* The count that bounds the cache is the number of keys in it over all the
\* tenants' buckets and never passes the limit, after any mixture of prunes,
\* refreshes and overflows.
AlertCacheBounded ==
    alertEntries = Cardinality(tracked) /\ alertEntries <= AlertMax
=============================================================================

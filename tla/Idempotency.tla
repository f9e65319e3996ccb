---------------------------- MODULE Idempotency ----------------------------
(***************************************************************************)
(* IdempotencyMiddleware (services/shared/idempotency.py) for one tenant    *)
(* and one Idempotency-Key: POST requests that carry the key, the Redis     *)
(* entry it names, and one server process.  Every Redis command is a step;  *)
(* a command may fail, the entry may expire at any time and a request may   *)
(* be cut off anywhere.                                                     *)
(***************************************************************************)
EXTENDS FiniteSets

CONSTANTS
    Post,           \* requests carrying the key
    Operation,      \* what their fingerprints tell apart
    FailClosed,     \* IDEMPOTENCY_FAIL_MODE = closed
    NoEntry

ASSUME IdempotencyAssumption ==
    /\ FailClosed \in BOOLEAN
    /\ NoEntry \notin [owner : Post, op : Operation, done : BOOLEAN]

VARIABLES
    entry,          \* the Redis value: NoEntry, a reservation or a response
    client,         \* the process's Redis client: unknown, up, or given up
    post,           \* each request
    epoch           \* requests executed with success under a reservation of
                    \* their own, since the entry last expired

idempotencyVars == <<entry, client, post, epoch>>

Reservation(p) == [owner |-> p, op |-> post[p].op, done |-> FALSE]

Response(p) == [Reservation(p) EXCEPT !.done = TRUE]

Answers == {"conflict", "in_progress", "replayed", "unavailable", "answered"}

IdempotencyInit ==
    /\ entry = NoEntry
    /\ client = "unknown"
    /\ post = [p \in Post |-> [pc |-> "new", op |-> NoEntry, stale |-> FALSE]]
    /\ epoch = {}

Goto(p, pc) == post' = [post EXCEPT ![p].pc = pc]

-----------------------------------------------------------------------------
\* _get_client: the first request of a process connects; a failed attempt is
\* remembered, and from then on every request goes on without Redis.  With a
\* client the request's body is read and its fingerprint taken.
GetClient(p) ==
    /\ post[p].pc = "new"
    /\ client' \in IF client = "unknown" THEN {"up", "down"} ELSE {client}
    /\ \E op \in Operation :
          post' = [post EXCEPT ![p].op = op,
                ![p].pc = IF client' = "up" THEN "reading"
                          ELSE IF FailClosed THEN "unavailable" ELSE "bypassing"]
    /\ UNCHANGED <<entry, epoch>>

\* A present entry answers the request.
AnswerFrom(p) ==
    IF entry.op # post[p].op THEN "conflict"
    ELSE IF ~entry.done THEN "in_progress" ELSE "replayed"

\* GET of the key.
Lookup(p) ==
    /\ post[p].pc = "reading"
    /\ Goto(p, IF entry = NoEntry THEN "free" ELSE AnswerFrom(p))
    /\ UNCHANGED <<entry, client, epoch>>

\* SET NX.
Reserve(p) ==
    /\ post[p].pc = "free"
    /\ IF entry = NoEntry
          THEN entry' = Reservation(p) /\ Goto(p, "executing")
          ELSE UNCHANGED entry /\ Goto(p, "lost")
    /\ UNCHANGED <<client, epoch>>

\* The loser's second GET.
LookupAgain(p) ==
    /\ post[p].pc = "lost"
    /\ Goto(p, IF entry = NoEntry THEN "unavailable" ELSE AnswerFrom(p))
    /\ UNCHANGED <<entry, client, epoch>>

\* A failed command: 503 when closed, otherwise the request is passed on and
\* leaves the entry alone.  Whether a failed SET NX took effect is unknown.
ReadFails(p) ==
    /\ post[p].pc \in {"reading", "free", "lost"}
    /\ \/ UNCHANGED entry
       \/ post[p].pc = "free" /\ entry = NoEntry /\ entry' = Reservation(p)
    /\ Goto(p, IF FailClosed THEN "unavailable" ELSE "bypassing")
    /\ UNCHANGED <<client, epoch>>

\* The route runs: with success, or not.
ExecuteBypassing(p) ==
    /\ post[p].pc = "bypassing"
    /\ Goto(p, "answered")
    /\ UNCHANGED <<entry, client, epoch>>

Execute(p) ==
    /\ post[p].pc = "executing"
    /\ \/ Goto(p, "failed") /\ UNCHANGED epoch
       \/ /\ Goto(p, "succeeded")
          /\ epoch' = IF post[p].stale THEN epoch ELSE epoch \cup {p}
    /\ UNCHANGED <<entry, client>>

-----------------------------------------------------------------------------
\* A response that is not 2xx: delete the reservation if it is still ours.
MutReleaseUnchecked(p) ==
    /\ post[p].pc = "failed"
    /\ entry' = NoEntry
    /\ Goto(p, "answered")
    /\ UNCHANGED <<client, epoch>>

Release(p) ==
    /\ post[p].pc = "failed"
    /\ entry' = IF entry = Reservation(p) THEN NoEntry ELSE entry
    /\ Goto(p, "answered")
    /\ UNCHANGED <<client, epoch>>

\* A 2xx response: replace the reservation by it if it is still ours.
Store(p) ==
    /\ post[p].pc = "succeeded"
    /\ entry' = IF entry = Reservation(p) THEN Response(p) ELSE entry
    /\ Goto(p, "answered")
    /\ UNCHANGED <<client, epoch>>

\* The script fails or the client goes away: whatever the entry was, it
\* stays.
CutOff(p) ==
    /\ post[p].pc \notin {"new"} \cup Answers
    /\ Goto(p, "answered")
    /\ UNCHANGED <<entry, client, epoch>>

\* The process dies with the requests it was serving.
Restart ==
    /\ client # "unknown"
    /\ client' = "unknown"
    /\ post' = [p \in Post |-> [post[p] EXCEPT !.pc =
                   IF @ \in {"new"} \cup Answers THEN @ ELSE "answered"]]
    /\ UNCHANGED <<entry, epoch>>

\* 24 hours pass.
ExpireEntry ==
    /\ entry # NoEntry
    /\ entry' = NoEntry
    /\ epoch' = {}
    /\ post' = [p \in Post |-> [post[p] EXCEPT !.stale = @ \/ p = entry.owner]]
    /\ UNCHANGED client

IdempotencyNext ==
    \/ \E p \in Post :
          \/ GetClient(p) \/ Lookup(p) \/ Reserve(p) \/ LookupAgain(p) \/ ReadFails(p)
          \/ ExecuteBypassing(p) \/ Execute(p)
          \/ Release(p) \/ Store(p) \/ CutOff(p)
    \/ Restart \/ ExpireEntry

IdempotencySpec == IdempotencyInit /\ [][IdempotencyNext]_idempotencyVars

-----------------------------------------------------------------------------
\* Within the life of one entry at most one request that holds a reservation
\* is executed with success, and while one is, the entry is its reservation
\* or its response, so no other can start: not after a crash, not when an
\* owner whose entry has expired finishes late, not when a cache write is
\* lost.  (Requests that bypass Redis in degrade mode are outside this.)
ExecutedOnce ==
    \A p \in epoch : entry # NoEntry /\ entry.owner = p
=============================================================================

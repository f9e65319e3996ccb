--------------------------- MODULE ServiceProofs ----------------------------
(***************************************************************************)
(* Proofs about the services, for any value of their constants: the two that*)
(* see one request or message more than once (Idempotency, InboundEmail), the*)
(* request packages (RequestWorkflow), the deadlines (DeadlineMonitor) and *)
(* the usage that is billed (UsageReporting).                              *)
(***************************************************************************)
EXTENDS Idempotency, InboundEmail, RequestWorkflow, DeadlineMonitor, UsageReporting,
        FiniteSetTheorems, TLAPS

Stages == {"new", "reading", "free", "lost", "bypassing", "executing", "failed",
           "succeeded"} \cup Answers

\* The entry is a reservation or a response; a request knows its operation
\* once it has left "new".
PostTypes ==
    /\ entry \in {NoEntry} \cup [owner : Post, op : Operation, done : BOOLEAN]
    /\ post \in [Post -> [pc : Stages, op : Operation \cup {NoEntry}, stale : BOOLEAN]]
    /\ \A p \in Post : post[p].pc # "new" => post[p].op \in Operation
    /\ epoch \subseteq Post

\* A request between its reservation and its last command owns the entry
\* unless the entry expired under it.
OwnsEntry ==
    \A p \in Post :
        post[p].pc \in {"executing", "failed", "succeeded"} /\ ~post[p].stale
            => entry = Reservation(p)

\* What was executed with success is not about to be released.
EpochIsPast == \A p \in epoch : post[p].pc \in {"succeeded"} \cup Answers

PostInvariant == PostTypes /\ OwnsEntry /\ EpochIsPast /\ ExecutedOnce

-----------------------------------------------------------------------------
LEMMA PostInit == IdempotencyInit => PostInvariant
BY DEF IdempotencyInit, PostInvariant, PostTypes, OwnsEntry, EpochIsPast, ExecutedOnce, Stages

\* A reservation is an entry.
LEMMA Reserved ==
    ASSUME PostTypes, NEW p \in Post, post[p].pc # "new"
    PROVE  /\ Reservation(p) \in [owner : Post, op : Operation, done : BOOLEAN]
           /\ Reservation(p) # NoEntry /\ Reservation(p).owner = p
<1>1. post[p].op \in Operation
    BY Zenon DEF PostTypes
<1>2. Reservation(p) \in [owner : Post, op : Operation, done : BOOLEAN] /\ Reservation(p).owner = p
    BY <1>1, Zenon DEF Reservation
<1> QED BY <1>2, IdempotencyAssumption, Zenon

\* What a request's move leaves of the others.
LEMMA Moved ==
    ASSUME PostTypes, NEW p \in Post, NEW pc \in Stages, Goto(p, pc), post[p].pc # "new"
    PROVE  /\ post' \in [Post -> [pc : Stages, op : Operation \cup {NoEntry}, stale : BOOLEAN]]
           /\ \A q \in Post : q # p => post'[q] = post[q]
           /\ post'[p].pc = pc /\ post'[p].op = post[p].op /\ post'[p].stale = post[p].stale
           /\ \A q \in Post : Reservation(q)' = Reservation(q)
           /\ \A q \in Post : post'[q].pc # "new" => post'[q].op \in Operation
<1>1. /\ post' \in [Post -> [pc : Stages, op : Operation \cup {NoEntry}, stale : BOOLEAN]]
      /\ post'[p] = [post[p] EXCEPT !.pc = pc]
      /\ \A q \in Post : q # p => post'[q] = post[q]
    BY DEF Goto, PostTypes
<1>2. /\ post'[p].pc = pc /\ post'[p].op = post[p].op /\ post'[p].stale = post[p].stale
    BY <1>1 DEF PostTypes
<1>3. \A q \in Post : Reservation(q)' = Reservation(q)
    BY <1>1, <1>2, Zenon DEF Reservation
<1> QED BY <1>1, <1>2, <1>3, Zenon DEF PostTypes

\* A step that only moves one request, not into its execution.
LEMMA MoveOne ==
    ASSUME PostInvariant, NEW p \in Post, NEW pc \in Stages, Goto(p, pc),
           UNCHANGED <<entry, epoch>>, post[p].pc # "new",
           pc \in {"executing", "failed", "succeeded"} => post[p].pc = "executing",
           p \in epoch => pc \in {"succeeded"} \cup Answers
    PROVE  PostInvariant'
<1> USE DEF PostInvariant
<1>4. PostTypes'
    BY Moved, Zenon DEF PostTypes
<1>5. OwnsEntry'
    BY Moved DEF OwnsEntry
<1>6. EpochIsPast'
    BY Moved DEF EpochIsPast, PostTypes
<1>7. ExecutedOnce'
    BY Zenon DEF ExecutedOnce
<1> QED BY <1>4, <1>5, <1>6, <1>7, Zenon

\* SET NX on a free key: nobody else is executing under a live reservation.
LEMMA TakeEntry ==
    ASSUME PostInvariant, NEW p \in Post, post[p].pc = "free", entry = NoEntry,
           entry' = Reservation(p), UNCHANGED epoch,
           NEW pc \in {"executing", "bypassing", "unavailable"}, Goto(p, pc)
    PROVE  PostInvariant'
<1> USE DEF PostInvariant
<1>0. pc \in Stages
    BY Zenon DEF Stages, Answers
<1>1. epoch = {}
    BY Zenon DEF ExecutedOnce, PostTypes
<1>2. \A q \in Post : ~(post[q].pc \in {"executing", "failed", "succeeded"} /\ ~post[q].stale)
    BY Reserved, Zenon DEF OwnsEntry
<1>3. PostTypes'
    BY <1>0, Moved, Reserved, Zenon DEF PostTypes
<1>4. OwnsEntry'
    BY <1>0, <1>2, Moved, Zenon DEF OwnsEntry
<1> QED BY <1>1, <1>3, <1>4, Zenon DEF EpochIsPast, ExecutedOnce

LEMMA PostStep ==
    ASSUME PostInvariant, [IdempotencyNext]_idempotencyVars
    PROVE  PostInvariant'
<1> USE DEF PostInvariant
<1>s. \A pc \in {"reading", "free", "lost", "bypassing", "executing", "failed", "succeeded"}
              \cup Answers : pc \in Stages
    BY Zenon DEF Stages
<1>a. ASSUME NEW p \in Post PROVE AnswerFrom(p) \in Answers
    BY Zenon DEF AnswerFrom, Answers
<1>1. ASSUME NEW p \in Post, GetClient(p) PROVE PostInvariant'
  <2>1. PICK op \in Operation, pc \in {"reading", "unavailable", "bypassing"} :
            post' = [post EXCEPT ![p].op = op, ![p].pc = pc]
    BY <1>1, Zenon DEF GetClient
  <2>2. post[p].pc = "new" /\ UNCHANGED <<entry, epoch>>
    BY <1>1, Zenon DEF GetClient
  <2>3. pc \in Stages /\ pc # "new"
    BY Zenon DEF Stages, Answers
  <2>4. /\ post' \in [Post -> [pc : Stages, op : Operation \cup {NoEntry}, stale : BOOLEAN]]
        /\ \A q \in Post : q # p => post'[q] = post[q]
        /\ post'[p].pc = pc /\ post'[p].op = op
    BY <2>1, <2>3, Zenon DEF PostTypes
  <2>5. PostTypes'
    BY <2>2, <2>4, Zenon DEF PostTypes
  <2>6. OwnsEntry'
    BY <2>2, <2>4, Zenon DEF OwnsEntry, Reservation
  <2>7. p \notin epoch
    BY <2>2, Zenon DEF EpochIsPast, Answers
  <2>8. EpochIsPast' /\ ExecutedOnce'
    BY <2>2, <2>4, <2>7, Zenon DEF EpochIsPast, ExecutedOnce, PostTypes
  <2> QED BY <2>5, <2>6, <2>8, Zenon
<1>2. ASSUME NEW p \in Post,
             Lookup(p) \/ LookupAgain(p) \/ ExecuteBypassing(p) \/ CutOff(p)
      PROVE  PostInvariant'
  <2>1. PICK pc \in {"free"} \cup Answers : Goto(p, pc) /\ UNCHANGED <<entry, epoch>>
    BY <1>2, <1>a, Zenon DEF Lookup, LookupAgain, ExecuteBypassing, CutOff, Answers
  <2>2. post[p].pc # "new" /\ (p \in epoch => pc \in Answers)
    <3>1. CASE Lookup(p) \/ LookupAgain(p) \/ ExecuteBypassing(p)
      BY <3>1, Zenon DEF Lookup, LookupAgain, ExecuteBypassing, EpochIsPast, Answers
    <3>2. CASE CutOff(p)
      <4>1. post'[p].pc = "answered" /\ post'[p].pc = pc
        BY <2>1, <3>2 DEF CutOff, Goto, PostTypes
      <4> QED BY <3>2, <4>1, Zenon DEF CutOff, Answers
    <3> QED BY <1>2, <3>1, <3>2, Zenon
  <2>3. pc \in Stages /\ pc \notin {"executing", "failed", "succeeded"}
    BY <1>s, Zenon DEF Answers
  <2> QED BY <2>1, <2>2, <2>3, MoveOne, Zenon
<1>3. ASSUME NEW p \in Post, Reserve(p) \/ ReadFails(p) PROVE PostInvariant'
  <2>1. CASE UNCHANGED entry
    <3>1. PICK pc \in {"lost", "unavailable", "bypassing"} : Goto(p, pc)
      <4>1. CASE Reserve(p)
        <5>1. entry # NoEntry
          BY <2>1, <4>1, Reserved, Zenon DEF Reserve
        <5> QED BY <4>1, <5>1, Zenon DEF Reserve
      <4>2. CASE ReadFails(p)
        BY <4>2, Zenon DEF ReadFails
      <4> QED BY <1>3, <4>1, <4>2, Zenon
    <3>2. post[p].pc \in {"reading", "free", "lost"} /\ UNCHANGED epoch
      BY <1>3, Zenon DEF Reserve, ReadFails
    <3>3. p \notin epoch /\ pc \in Stages
      BY <3>2, Zenon DEF EpochIsPast, Answers, Stages
    <3> QED BY <2>1, <3>1, <3>2, <3>3, MoveOne, Zenon
  <2>2. CASE post[p].pc = "free" /\ entry = NoEntry /\ entry' = Reservation(p)
    <3>1. PICK pc \in {"executing", "bypassing", "unavailable"} : Goto(p, pc)
      BY <1>3, <2>2, Zenon DEF Reserve, ReadFails
    <3>2. UNCHANGED epoch
      BY <1>3, Zenon DEF Reserve, ReadFails
    <3> QED BY <2>2, <3>1, <3>2, TakeEntry, Zenon
  <2> QED BY <1>3, <2>1, <2>2, Zenon DEF Reserve, ReadFails
<1>4. ASSUME NEW p \in Post, Execute(p) PROVE PostInvariant'
  <2>1. post[p].pc = "executing" /\ UNCHANGED entry /\ p \notin epoch
    BY <1>4, Zenon DEF Execute, EpochIsPast, Answers
  <2>2. CASE UNCHANGED epoch
    <3>1. PICK pc \in {"failed", "succeeded"} : Goto(p, pc)
      BY <1>4, Zenon DEF Execute
    <3> QED BY <1>s, <2>1, <2>2, <3>1, MoveOne, Zenon
  <2>3. CASE Goto(p, "succeeded") /\ ~post[p].stale /\ epoch' = epoch \cup {p}
    <3>1. entry = Reservation(p) /\ entry # NoEntry /\ entry.owner = p
      BY <2>1, <2>3, Reserved, Zenon DEF OwnsEntry
    <3>2. epoch = {}  \/ epoch = {p}
      BY <3>1, Zenon DEF ExecutedOnce
    <3>3. PostTypes'
      BY <1>s, <2>1, <2>3, Moved, Zenon DEF PostTypes
    <3>4. OwnsEntry'
      BY <1>s, <2>1, <2>3, Moved DEF OwnsEntry
    <3>5. EpochIsPast'
      BY <1>s, <2>1, <2>3, <3>2, Moved DEF EpochIsPast
    <3>6. ExecutedOnce'
      BY <2>1, <2>3, <3>1, <3>2, Zenon DEF ExecutedOnce
    <3> QED BY <3>3, <3>4, <3>5, <3>6, Zenon
  <2> QED BY <1>4, <2>2, <2>3, Zenon DEF Execute
<1>5. ASSUME NEW p \in Post, Release(p) \/ Store(p) PROVE PostInvariant'
  <2>1. Goto(p, "answered") /\ UNCHANGED epoch /\ post[p].pc \in {"failed", "succeeded"}
        /\ (Release(p) => p \notin epoch)
    BY <1>5, Zenon DEF Release, Store, EpochIsPast, Answers
  <2>2. "answered" \in Stages /\ "answered" \in Answers
    BY Zenon DEF Stages, Answers
  <2>3. CASE UNCHANGED entry
    BY <2>1, <2>2, <2>3, MoveOne, Zenon DEF Answers
  <2>4. CASE entry = Reservation(p) /\ entry' \in {NoEntry, Response(p)}
    <3>1. entry.owner = p /\ \A q \in epoch : q = p
      BY <2>1, <2>4, Reserved, Zenon DEF ExecutedOnce
    <3>2. Response(p) \in [owner : Post, op : Operation, done : BOOLEAN]
          /\ Response(p).owner = p /\ Response(p) # NoEntry
      <4>1. Response(p) \in [owner : Post, op : Operation, done : BOOLEAN] /\ Response(p).owner = p
        BY <2>1, Zenon DEF Response, Reservation, PostTypes
      <4> QED BY <4>1, IdempotencyAssumption, Zenon
    <3>3. PostTypes'
      BY <2>1, <2>2, <2>4, <3>2, Moved DEF PostTypes
    <3>4. \A q \in Post : post[q].pc \in {"executing", "failed", "succeeded"} /\ ~post[q].stale => q = p
      <4>1. \A q \in Post : post[q].pc \in {"executing", "failed", "succeeded"} =>
                                 Reservation(q).owner = q
        BY Reserved, Zenon
      <4> QED BY <2>4, <3>1, <4>1, Zenon DEF OwnsEntry
    <3>5. OwnsEntry'
      BY <2>1, <2>2, <3>4, Moved DEF OwnsEntry, Answers
    <3>6. EpochIsPast'
      BY <2>1, <2>2, Moved DEF EpochIsPast, PostTypes
    <3>7. ExecutedOnce'
      <4>1. CASE Release(p)
        BY <2>1, <3>1, <4>1, Zenon DEF ExecutedOnce
      <4>2. CASE Store(p)
        BY <2>1, <2>4, <3>1, <3>2, <4>2, Zenon DEF ExecutedOnce, Store
      <4> QED BY <1>5, <4>1, <4>2, Zenon
    <3> QED BY <3>3, <3>5, <3>6, <3>7, Zenon
  <2> QED BY <1>5, <2>3, <2>4, Zenon DEF Release, Store
<1>6. CASE Restart
  <2>1. /\ UNCHANGED <<entry, epoch>>
        /\ \A q \in Post : post'[q] = [post[q] EXCEPT !.pc =
              IF @ \in {"new"} \cup Answers THEN @ ELSE "answered"]
    BY <1>6, Zenon DEF Restart
  <2>2. ASSUME NEW q \in Post
        PROVE  /\ post'[q] \in [pc : Stages, op : Operation \cup {NoEntry}, stale : BOOLEAN]
               /\ post'[q].op = post[q].op /\ post'[q].stale = post[q].stale
               /\ post[q].pc # "new" => post'[q].pc \in Answers
               /\ post[q].pc = "new" => post'[q].pc = "new"
    <3>1. post[q] \in [pc : Stages, op : Operation \cup {NoEntry}, stale : BOOLEAN]
      BY Zenon DEF PostTypes
    <3>2. CASE post[q].pc \in {"new"} \cup Answers
      <4>1. post'[q] = [post[q] EXCEPT !.pc = post[q].pc]
        BY <2>1, <3>2, Zenon
      <4> QED BY <3>1, <3>2, <4>1, Zenon
    <3>3. CASE post[q].pc \notin {"new"} \cup Answers
      <4>1. post'[q] = [post[q] EXCEPT !.pc = "answered"]
        BY <2>1, <3>3, Zenon
      <4>2. "answered" \in Stages /\ "answered" \in Answers
        BY DEF Stages, Answers
      <4> QED BY <3>1, <3>3, <4>1, <4>2, Zenon
    <3> QED BY <3>2, <3>3, Zenon
  <2>3. post' \in [Post -> [pc : Stages, op : Operation \cup {NoEntry}, stale : BOOLEAN]]
    BY <1>6, <2>2, Zenon DEF Restart
  <2>4. PostTypes'
    BY <2>1, <2>2, <2>3, Zenon DEF PostTypes
  <2>5. OwnsEntry'
    BY <2>2, Zenon DEF OwnsEntry, Answers
  <2>6. EpochIsPast' /\ ExecutedOnce'
    BY <2>1, <2>2, Zenon DEF EpochIsPast, ExecutedOnce, PostTypes, Answers
  <2> QED BY <2>4, <2>5, <2>6, Zenon
<1>7. CASE ExpireEntry
  <2>1. /\ entry # NoEntry /\ entry' = NoEntry /\ epoch' = {}
        /\ \A q \in Post : post'[q] = [post[q] EXCEPT !.stale = @ \/ q = entry.owner]
    BY <1>7, Zenon DEF ExpireEntry
  <2>2. ASSUME NEW q \in Post
        PROVE  /\ post'[q] \in [pc : Stages, op : Operation \cup {NoEntry}, stale : BOOLEAN]
               /\ post'[q].op = post[q].op /\ post'[q].pc = post[q].pc
               /\ post[q].stale \/ q = entry.owner => post'[q].stale
    <3> DEFINE b == post[q].stale \/ q = entry.owner
    <3>1. post[q] \in [pc : Stages, op : Operation \cup {NoEntry}, stale : BOOLEAN]
      BY DEF PostTypes
    <3>2. post'[q] = [post[q] EXCEPT !.stale = b] /\ b \in BOOLEAN
      BY <2>1, Zenon
    <3> HIDE DEF b
    <3>3. /\ post'[q] \in [pc : Stages, op : Operation \cup {NoEntry}, stale : BOOLEAN]
          /\ post'[q].op = post[q].op /\ post'[q].pc = post[q].pc /\ post'[q].stale = b
      BY <3>1, <3>2, Zenon
    <3> QED BY <3>3, Zenon DEF b
  <2>3. post' \in [Post -> [pc : Stages, op : Operation \cup {NoEntry}, stale : BOOLEAN]]
    BY <1>7, <2>2, Zenon DEF ExpireEntry
  <2>4. PostTypes'
    BY <2>1, <2>2, <2>3, Zenon DEF PostTypes
  <2>5. \A q \in Post : post[q].pc \in {"executing", "failed", "succeeded"} /\ ~post[q].stale
                         => q = entry.owner
    BY Reserved, Zenon DEF OwnsEntry
  <2>6. OwnsEntry'
    BY <2>2, <2>5, Zenon DEF OwnsEntry
  <2> QED BY <2>1, <2>4, <2>6, Zenon DEF EpochIsPast, ExecutedOnce
<1>8. CASE UNCHANGED idempotencyVars
  <2>1. \A q \in Post : Reservation(q)' = Reservation(q)
    BY <1>8, Zenon DEF idempotencyVars, Reservation
  <2> QED BY <1>8, <2>1, Zenon DEF idempotencyVars, PostTypes, OwnsEntry, EpochIsPast, ExecutedOnce
<1> QED BY <1>1, <1>2, <1>3, <1>4, <1>5, <1>6, <1>7, <1>8, Zenon DEF IdempotencyNext

\* Under one live entry the middleware lets at most one request that holds
\* the reservation through to success, whatever expires, crashes or is lost.
THEOREM PostExecutedOnce == IdempotencySpec => []ExecutedOnce
<1>1. PostInvariant => ExecutedOnce
    BY Zenon DEF PostInvariant
<1> QED BY <1>1, PostInit, PostStep, PTL DEF IdempotencySpec

Early == {"new", "reading", "free"}

\* The owner of an entry has reserved it and the entry has not expired since;
\* a response was executed in this epoch.
EntryIsOwned ==
    entry # NoEntry =>
        /\ post[entry.owner].pc \notin Early /\ ~post[entry.owner].stale
        /\ entry.op = post[entry.owner].op
        /\ entry.done => entry.owner \in epoch

\* Only a request that reserved an entry can see it expire, and one that
\* succeeds is counted unless it did.
Unreserved == \A p \in Post : post[p].pc \in Early => ~post[p].stale

SuccessCounted == \A p \in Post : post[p].pc = "succeeded" => post[p].stale \/ p \in epoch

Genuine == EntryIsOwned /\ Unreserved /\ SuccessCounted

\* Whoever is answered with a stored response gets the response of a request
\* with the same fingerprint that was executed with success within the life
\* of the entry, however late its owner stored it (dispatch).
ReplayedFromExecution ==
    [][\A p \in Post : post[p].pc # "replayed" /\ post'[p].pc = "replayed" =>
          \E q \in epoch : entry = Response(q) /\ post[q].op = post[p].op]_idempotencyVars

-----------------------------------------------------------------------------
\* A request moves on, and the entry stays or is deleted.
LEMMA GenuineMove ==
    ASSUME PostTypes, Genuine, NEW p \in Post, NEW pc \in Stages, Goto(p, pc),
           post[p].pc # "new", entry' \in {entry, NoEntry}, UNCHANGED epoch,
           pc \notin {"new", "reading", "succeeded"}, pc = "free" => post[p].pc = "reading"
    PROVE  Genuine'
<1>1. EntryIsOwned'
  <2> SUFFICES ASSUME entry' = entry, entry # NoEntry PROVE EntryIsOwned'
    BY Zenon DEF EntryIsOwned
  <2>1. PICK o \in Post : o = entry.owner
    BY Zenon DEF PostTypes
  <2>2. post'[o].op = post[o].op /\ post'[o].stale = post[o].stale
    BY Moved, Zenon
  <2>3. post'[o].pc \notin Early
    <3>1. CASE o = p
      BY <2>1, <3>1, Moved DEF Genuine, EntryIsOwned, Early
    <3>2. CASE o # p
      BY <2>1, <3>2, Moved, Zenon DEF Genuine, EntryIsOwned
    <3> QED BY <3>1, <3>2, Zenon
  <2> QED BY <2>1, <2>2, <2>3, Zenon DEF Genuine, EntryIsOwned
<1>2. Unreserved'
    BY Moved DEF Genuine, Unreserved, Early
<1>3. SuccessCounted'
    BY Moved, Zenon DEF Genuine, SuccessCounted
<1> QED BY <1>1, <1>2, <1>3, Zenon DEF Genuine

\* A reservation takes effect.
LEMMA GenuineTake ==
    ASSUME PostTypes, Genuine, NEW p \in Post, post[p].pc = "free", UNCHANGED epoch,
           entry' = Reservation(p), NEW pc \in {"executing", "bypassing", "unavailable"},
           Goto(p, pc)
    PROVE  Genuine'
<1>0. pc \in Stages /\ pc \notin Early /\ pc # "succeeded" /\ ~post[p].stale
    BY DEF Stages, Answers, Early, Genuine, Unreserved
<1>1. entry'.owner = p /\ entry'.op = post[p].op /\ ~entry'.done
    BY Zenon DEF Reservation
<1>2. EntryIsOwned'
    BY <1>0, <1>1, Moved, ZenonT(60) DEF EntryIsOwned
<1>3. Unreserved' /\ SuccessCounted'
    BY <1>0, Moved, Zenon DEF Genuine, Unreserved, SuccessCounted
<1> QED BY <1>2, <1>3, Zenon DEF Genuine

LEMMA GenuineStep ==
    ASSUME PostInvariant, Genuine, [IdempotencyNext]_idempotencyVars
    PROVE  Genuine'
<1>t. PostTypes
    BY Zenon DEF PostInvariant
<1>s. /\ \A pc \in Answers \cup {"lost", "failed", "bypassing", "unavailable", "free"} :
            pc \in Stages /\ pc \notin {"new", "reading", "succeeded"}
      /\ \A pc \in Answers \cup {"lost", "failed", "bypassing", "unavailable"} : pc # "free"
      /\ "succeeded" \in Stages /\ "answered" \in Answers
    BY Zenon DEF Stages, Answers
<1>a. ASSUME NEW p \in Post PROVE AnswerFrom(p) \in Answers
    BY Zenon DEF AnswerFrom, Answers
<1>1. ASSUME NEW p \in Post, GetClient(p) PROVE Genuine'
  <2>1. PICK op \in Operation, pc \in {"reading", "unavailable", "bypassing"} :
            post' = [post EXCEPT ![p].op = op, ![p].pc = pc]
    BY <1>1, Zenon DEF GetClient
  <2>2. post[p].pc = "new" /\ UNCHANGED <<entry, epoch>>
    BY <1>1, Zenon DEF GetClient
  <2>3. /\ \A q \in Post : q # p => post'[q] = post[q]
        /\ post'[p].pc = pc /\ post'[p].stale = post[p].stale /\ pc # "succeeded"
    BY <2>1, <1>t, Zenon DEF PostTypes
  <2>4. entry # NoEntry => entry.owner \in Post /\ entry.owner # p
    BY <1>t, <2>2, Zenon DEF PostTypes, Genuine, EntryIsOwned, Early
  <2>5. ~post[p].stale
    BY <2>2, Zenon DEF Genuine, Unreserved, Early
  <2> QED
    BY <2>2, <2>3, <2>4, <2>5, Zenon DEF Genuine, EntryIsOwned, Unreserved, SuccessCounted
<1>2. ASSUME NEW p \in Post,
             Lookup(p) \/ LookupAgain(p) \/ ExecuteBypassing(p) \/ CutOff(p) \/ Release(p)
      PROVE  Genuine'
  <2>1. PICK pc \in Answers \cup {"free", "unavailable"} : Goto(p, pc) /\ (pc = "free" => post[p].pc = "reading")
    BY <1>2, <1>a, <1>s, Zenon DEF Lookup, LookupAgain, ExecuteBypassing, CutOff, Release
  <2>2. post[p].pc # "new" /\ entry' \in {entry, NoEntry} /\ UNCHANGED epoch
    BY <1>2, Zenon DEF Lookup, LookupAgain, ExecuteBypassing, CutOff, Release
  <2> QED BY <1>s, <1>t, <2>1, <2>2, GenuineMove, Zenon
<1>3. ASSUME NEW p \in Post, Reserve(p) \/ ReadFails(p) PROVE Genuine'
  <2>1. PICK pc \in {"executing", "lost", "bypassing", "unavailable"} : Goto(p, pc)
    BY <1>3, Zenon DEF Reserve, ReadFails
  <2>2. CASE UNCHANGED entry
    <3>1. PICK k \in {"lost", "bypassing", "unavailable"} : Goto(p, k)
      BY <1>3, <1>t, <2>2, Reserved, Zenon DEF Reserve, ReadFails
    <3>2. post[p].pc # "new" /\ UNCHANGED epoch
      BY <1>3, Zenon DEF Reserve, ReadFails
    <3> QED BY <1>s, <1>t, <2>2, <3>1, <3>2, GenuineMove, Zenon
  <2>3. CASE entry' # entry
    <3>1. /\ post[p].pc = "free" /\ entry' = Reservation(p) /\ UNCHANGED epoch
          /\ \E k \in {"executing", "bypassing", "unavailable"} : Goto(p, k)
      BY <1>3, <2>3, Zenon DEF Reserve, ReadFails
    <3> QED BY <1>t, <3>1, GenuineTake, Zenon
  <2> QED BY <2>2, <2>3, Zenon
<1>4. ASSUME NEW p \in Post, Execute(p) PROVE Genuine'
  <2>1. post[p].pc = "executing" /\ UNCHANGED entry
    BY <1>4, Zenon DEF Execute
  <2>2. CASE Goto(p, "failed") /\ UNCHANGED epoch
    BY <1>s, <1>t, <2>1, <2>2, GenuineMove, Zenon
  <2>3. CASE Goto(p, "succeeded") /\ epoch' = IF post[p].stale THEN epoch ELSE epoch \cup {p}
    <3>1. /\ \A q \in Post : q # p => post'[q] = post[q]
          /\ post'[p].pc = "succeeded" /\ post'[p].op = post[p].op
          /\ post'[p].stale = post[p].stale
      BY <1>s, <1>t, <2>1, <2>3, Moved, Zenon
    <3>2. epoch \subseteq epoch' /\ (post[p].stale \/ p \in epoch') /\ "succeeded" \notin Early
      BY <2>3, Zenon DEF Early
    <3>3. entry # NoEntry => entry.owner \in Post
      BY <1>t, Zenon DEF PostTypes
    <3> QED
      BY <2>1, <3>1, <3>2, <3>3, Zenon DEF Genuine, EntryIsOwned, Unreserved, SuccessCounted
  <2> QED BY <1>4, <2>2, <2>3, Zenon DEF Execute
<1>5. ASSUME NEW p \in Post, Store(p) PROVE Genuine'
  <2>1. /\ post[p].pc = "succeeded" /\ post[p].pc # "new" /\ Goto(p, "answered")
        /\ UNCHANGED epoch
    BY <1>5, Zenon DEF Store
  <2>2. CASE entry # Reservation(p)
    BY <1>5, <1>s, <1>t, <2>1, <2>2, GenuineMove, Zenon DEF Store
  <2>3. CASE entry = Reservation(p)
    <3>1. entry # NoEntry /\ entry.owner = p
      BY <1>t, <2>1, <2>3, Reserved, Zenon
    <3>2. ~post[p].stale /\ p \in epoch
      BY <2>1, <3>1, Zenon DEF Genuine, EntryIsOwned, SuccessCounted
    <3>3. entry'.owner = p /\ entry'.op = post[p].op
      BY <1>5, <2>3, Zenon DEF Store, Response, Reservation
    <3>4. /\ \A q \in Post : q # p => post'[q] = post[q]
          /\ post'[p].pc = "answered" /\ post'[p].op = post[p].op
          /\ post'[p].stale = post[p].stale
      BY <1>s, <1>t, <2>1, Moved, Zenon
    <3>5. "answered" \notin Early /\ "answered" # "succeeded"
      BY Zenon DEF Early
    <3> QED
      BY <2>1, <3>2, <3>3, <3>4, <3>5, Zenon
      DEF Genuine, EntryIsOwned, Unreserved, SuccessCounted
  <2> QED BY <2>2, <2>3, Zenon
<1>6. CASE Restart
  <2>1. ASSUME NEW q \in Post
        PROVE  /\ post'[q].op = post[q].op /\ post'[q].stale = post[q].stale
               /\ post'[q].pc \in {post[q].pc, "answered"}
    BY <1>6, <1>t DEF Restart, PostTypes
  <2>2. UNCHANGED <<entry, epoch>> /\ (entry # NoEntry => entry.owner \in Post)
    BY <1>6, <1>t, Zenon DEF Restart, PostTypes
  <2>3. "answered" \notin Early /\ "answered" # "succeeded"
    BY Zenon DEF Early
  <2> QED
    BY <2>1, <2>2, <2>3, Zenon DEF Genuine, EntryIsOwned, Unreserved, SuccessCounted
<1>7. CASE ExpireEntry
  <2>1. entry # NoEntry /\ entry' = NoEntry /\ epoch' = {}
    BY <1>7, Zenon DEF ExpireEntry
  <2>2. ASSUME NEW q \in Post
        PROVE  post'[q].pc = post[q].pc /\ (post'[q].stale <=> post[q].stale \/ q = entry.owner)
    BY <1>7, <1>t, Zenon DEF ExpireEntry, PostTypes
  <2>3. Unreserved'
    BY <2>1, <2>2, Zenon DEF Genuine, Unreserved, EntryIsOwned
  <2>4. SuccessCounted'
    BY <2>2, Zenon DEF Genuine, SuccessCounted, PostInvariant, ExecutedOnce
  <2> QED BY <2>1, <2>3, <2>4, Zenon DEF Genuine, EntryIsOwned
<1>8. CASE UNCHANGED idempotencyVars
    BY <1>8 DEF idempotencyVars, Genuine, EntryIsOwned, Unreserved, SuccessCounted
<1> QED BY <1>1, <1>2, <1>3, <1>4, <1>5, <1>6, <1>7, <1>8, Zenon DEF IdempotencyNext

\* A replayed answer is the answer of an execution: for any number of
\* requests and operations, failed commands, crashes and expiries.
THEOREM ReplaysAreGenuine == IdempotencySpec => ReplayedFromExecution
<1>1. IdempotencyInit => Genuine
    BY DEF IdempotencyInit, Genuine, EntryIsOwned, Unreserved, SuccessCounted
<1>2. ASSUME PostInvariant, Genuine, IdempotencyNext, NEW p \in Post,
             post[p].pc # "replayed", post'[p].pc = "replayed"
      PROVE  \E q \in epoch : entry = Response(q) /\ post[q].op = post[p].op
  <2>t. PostTypes
    BY <1>2, Zenon DEF PostInvariant
  <2>1. entry # NoEntry /\ entry.op = post[p].op /\ entry.done
    <3>1. ASSUME NEW q \in Post, NEW pc \in Stages, Goto(q, pc), post[q].pc # "new"
          PROVE  q = p /\ pc = "replayed"
      BY <1>2, <2>t, <3>1, Moved, Zenon
    <3>2. ASSUME NEW q \in Post, Lookup(q) \/ LookupAgain(q)
          PROVE  entry # NoEntry /\ entry.op = post[p].op /\ entry.done
      <4>1. /\ post[q].pc # "new"
            /\ \/ Goto(q, "free") \/ Goto(q, "unavailable")
               \/ entry # NoEntry /\ Goto(q, AnswerFrom(q))
        BY <3>2, Zenon DEF Lookup, LookupAgain
      <4>2. /\ AnswerFrom(q) \in Stages /\ "free" \in Stages /\ "unavailable" \in Stages
            /\ "free" # "replayed" /\ "unavailable" # "replayed"
        BY DEF AnswerFrom, Stages, Answers
      <4>3. q = p /\ AnswerFrom(p) = "replayed" /\ entry # NoEntry
        BY <3>1, <4>1, <4>2, Zenon
      <4> QED
        BY <4>3 DEF AnswerFrom
    <3>3. ASSUME NEW q \in Post, GetClient(q) PROVE FALSE
      BY <1>2, <2>t, <3>3 DEF GetClient, PostTypes
    <3>4. ASSUME NEW q \in Post, \/ Reserve(q) \/ ReadFails(q) \/ ExecuteBypassing(q)
                                 \/ Execute(q) \/ Release(q) \/ Store(q) \/ CutOff(q)
          PROVE  FALSE
      <4>1. /\ post[q].pc # "new"
            /\ \E k \in {"executing", "lost", "unavailable", "bypassing", "answered", "failed",
                         "succeeded"} : Goto(q, k)
        BY <3>4, Zenon DEF Reserve, ReadFails, ExecuteBypassing, Execute, Release, Store, CutOff
      <4>2. \A k \in {"executing", "lost", "unavailable", "bypassing", "answered", "failed",
                      "succeeded"} : k \in Stages /\ k # "replayed"
        BY Zenon DEF Stages, Answers
      <4> QED BY <3>1, <4>1, <4>2, Zenon
    <3>5. CASE Restart \/ ExpireEntry
      BY <1>2, <2>t, <3>5 DEF Restart, ExpireEntry, PostTypes
    <3> QED
      BY <1>2, <3>2, <3>3, <3>4, <3>5, Zenon DEF IdempotencyNext
  <2>2. entry = Response(entry.owner) /\ entry.owner \in epoch
    <3>1. PICK o \in Post, k \in Operation : entry = [owner |-> o, op |-> k, done |-> TRUE]
      BY <2>t, <2>1, Zenon DEF PostTypes
    <3>2. entry.owner = o /\ entry.op = k
      BY <3>1, Zenon
    <3>3. post[o].op = k /\ o \in epoch
      BY <1>2, <2>1, <3>2, Zenon DEF Genuine, EntryIsOwned
    <3>4. Response(o) = [owner |-> o, op |-> post[o].op, done |-> TRUE]
      <4>1. /\ Response(o) \in [owner : Post, op : Operation, done : BOOLEAN]
            /\ Response(o).owner = o /\ Response(o).op = post[o].op /\ Response(o).done
        BY <3>3, Zenon DEF Response, Reservation
      <4> QED
        BY <4>1, Zenon
    <3> QED
      BY <3>1, <3>2, <3>3, <3>4, Zenon
  <2> QED
    BY <1>2, <2>1, <2>2, Zenon DEF Genuine, EntryIsOwned
<1>3. ASSUME PostInvariant, Genuine, [IdempotencyNext]_idempotencyVars
      PROVE  [\A p \in Post : post[p].pc # "replayed" /\ post'[p].pc = "replayed" =>
                 \E q \in epoch : entry = Response(q) /\ post[q].op = post[p].op]_idempotencyVars
    BY <1>2, <1>3, Zenon
<1> QED
    BY <1>1, <1>3, PostInit, PostStep, GenuineStep, PTL DEF IdempotencySpec, ReplayedFromExecution
-----------------------------------------------------------------------------
Handling == [pc : {"new", "claiming", "ingesting", "rejecting", "answered"},
             todo : SUBSET Attachment, accepted : SUBSET Attachment]

\* The deliveries that hold the claim on the audit row.
Holds(d) == delivery[d].pc \in {"ingesting", "rejecting"}

EmailTypes ==
    /\ recorded \subseteq Attachment
    /\ ingested \in [Attachment -> {0, 1}]
    /\ delivery \in [Delivery -> Handling]

\* One delivery ever holds the claim, and none before the row is there.
OneClaim ==
    /\ \A d, e \in Delivery : Holds(d) /\ Holds(e) => d = e
    /\ audit = "none" => (\A d \in Delivery : ~Holds(d)) /\ (\A a \in Attachment : ingested[a] = 0)

\* What the holder still has to do is not done, and what it accepted is.
Progress ==
    /\ \A d \in Delivery : Holds(d) =>
          /\ \A a \in delivery[d].todo : ingested[a] = 0
          /\ delivery[d].pc = "ingesting" => \A a \in delivery[d].accepted : ingested[a] = 1
    /\ \A d \in Delivery : ~Holds(d) /\ delivery[d].pc # "answered" => delivery[d].accepted = {}
    /\ \A a \in recorded : ingested[a] = 1

EmailInvariant == EmailTypes /\ OneClaim /\ Progress

LEMMA EmailInitial == EmailInit => EmailInvariant
BY DEF EmailInit, EmailInvariant, EmailTypes, OneClaim, Progress, Holds, Handling

\* A delivery that moves on without taking the claim; the row may be
\* finalized on the way.
LEMMA DeliveryMoves ==
    ASSUME EmailInvariant, NEW d \in Delivery, NEW pc \in {"claiming", "answered"},
           GoOn(d, pc), UNCHANGED ingested,
           pc = "claiming" => delivery[d].pc = "new",
           audit' = "none" => audit = "none",
           recorded' \subseteq Attachment, \A a \in recorded' : ingested[a] = 1
    PROVE  EmailInvariant'
<1> USE DEF EmailInvariant
<1>1. /\ delivery' \in [Delivery -> Handling] /\ delivery'[d] = [delivery[d] EXCEPT !.pc = pc]
      /\ \A e \in Delivery : e # d => delivery'[e] = delivery[e]
    BY DEF GoOn, EmailTypes, Handling
<1>2. delivery'[d].pc = pc /\ delivery'[d].accepted = delivery[d].accepted
    BY <1>1, Zenon DEF EmailTypes, Handling
<1>3. /\ ~Holds(d)' /\ \A e \in Delivery : e # d => (Holds(e)' <=> Holds(e))
    BY <1>1, <1>2, Zenon DEF Holds
<1>4. EmailTypes'
    BY <1>1, Zenon DEF EmailTypes
<1>5. OneClaim'
    BY <1>3, Zenon DEF OneClaim
<1>6. Progress'
  <2>1. pc # "answered" => delivery'[d].accepted = {}
    BY <1>2 DEF Progress, Holds
  <2>2. \A a \in recorded' : ingested'[a] = 1
    OBVIOUS
  <2>3. \A e \in Delivery : Holds(e)' => e # d /\ Holds(e) /\ delivery'[e] = delivery[e]
    BY <1>1, <1>3, Zenon
  <2>4. \A e \in Delivery : ~Holds(e)' /\ delivery'[e].pc # "answered" => delivery'[e].accepted = {}
    BY <1>1, <1>2, <1>3, <2>1, ZenonT(30) DEF Progress
  <2> QED BY <2>2, <2>3, <2>4, Zenon DEF Progress
<1> QED BY <1>4, <1>5, <1>6, Zenon

LEMMA EmailStep ==
    ASSUME EmailInvariant, [EmailNext]_emailVars
    PROVE  EmailInvariant'
<1> USE DEF EmailInvariant
<1>1. ASSUME NEW d \in Delivery, LookUpAudit(d) \/ DeliveryDies(d) PROVE EmailInvariant'
  <2>1. PICK pc \in {"claiming", "answered"} : GoOn(d, pc) /\ (pc = "claiming" => delivery[d].pc = "new")
    BY <1>1, Zenon DEF LookUpAudit, DeliveryDies
  <2>2. UNCHANGED <<audit, recorded, ingested>>
    BY <1>1, Zenon DEF LookUpAudit, DeliveryDies
  <2> QED BY <2>1, <2>2, DeliveryMoves, Zenon DEF EmailTypes, Progress
<1>2. ASSUME NEW d \in Delivery, ClaimEmail(d) PROVE EmailInvariant'
  <2>1. CASE audit # "none"
    BY <1>2, <2>1, DeliveryMoves, Zenon DEF ClaimEmail, EmailTypes, Progress
  <2>2. CASE audit = "none"
    <3>1. PICK pc \in {"ingesting", "rejecting"}, todo \in {Attachment, delivery[d].todo} :
              delivery' = [delivery EXCEPT ![d] = [delivery[d] EXCEPT !.pc = pc, !.todo = todo]]
      <4>1. CASE GoOn(d, "rejecting")
        <5>1. delivery[d] = [delivery[d] EXCEPT !.todo = delivery[d].todo]
          BY Zenon DEF EmailTypes, Handling
        <5>2. delivery' = [delivery EXCEPT ![d] =
                  [delivery[d] EXCEPT !.pc = "rejecting", !.todo = delivery[d].todo]]
          BY <4>1, <5>1, Zenon DEF GoOn, EmailTypes, Handling
        <5> QED BY <5>2, Zenon
      <4>2. CASE delivery' = [delivery EXCEPT ![d].pc = "ingesting", ![d].todo = Attachment]
        BY <4>2, Zenon
      <4> QED BY <1>2, <2>2, <4>1, <4>2, Zenon DEF ClaimEmail
    <3>2. delivery[d].pc = "claiming" /\ audit' = "processing" /\ UNCHANGED <<recorded, ingested>>
      BY <1>2, <2>2, Zenon DEF ClaimEmail
    <3>3. todo \subseteq Attachment /\ delivery[d].accepted = {}
      BY <3>2, Zenon DEF EmailTypes, Handling, Progress, Holds
    <3>4. /\ delivery' \in [Delivery -> Handling]
          /\ \A e \in Delivery : e # d => delivery'[e] = delivery[e]
          /\ delivery'[d].pc = pc /\ delivery'[d].todo = todo /\ delivery'[d].accepted = {}
      BY <3>1, <3>3, Zenon DEF EmailTypes, Handling
    <3>5. (\A e \in Delivery : ~Holds(e)) /\ (\A a \in Attachment : ingested[a] = 0)
      BY <2>2 DEF OneClaim
    <3>6. \A e \in Delivery : Holds(e)' => e = d
      BY <3>4, <3>5, Zenon DEF Holds
    <3>7. EmailTypes'
      BY <3>2, <3>4, Zenon DEF EmailTypes
    <3>8. OneClaim'
      BY <3>2, <3>6, Zenon DEF OneClaim
    <3>9. Progress'
      BY <3>2, <3>3, <3>4, <3>5, <3>6, Zenon DEF Progress, Holds
    <3> QED BY <3>7, <3>8, <3>9, Zenon
  <2> QED BY <2>1, <2>2, Zenon
<1>3. ASSUME NEW d \in Delivery, NEW a \in Attachment, ProcessAttachment(d, a) PROVE EmailInvariant'
  <2>1. PICK stored \in BOOLEAN, accept \in BOOLEAN :
            /\ accept => stored
            /\ ingested' = IF stored THEN [ingested EXCEPT ![a] = @ + 1] ELSE ingested
            /\ delivery' = [delivery EXCEPT ![d].todo = @ \ {a},
                  ![d].accepted = IF accept THEN @ \cup {a} ELSE @]
    BY <1>3, Zenon DEF ProcessAttachment
  <2>2. /\ delivery[d].pc = "ingesting" /\ a \in delivery[d].todo /\ Holds(d)
        /\ UNCHANGED <<audit, recorded>> /\ ingested[a] = 0 /\ audit # "none"
    BY <1>3, Zenon DEF ProcessAttachment, Holds, Progress, OneClaim
  <2> DEFINE acc == IF accept THEN delivery[d].accepted \cup {a} ELSE delivery[d].accepted
  <2>3. /\ delivery' \in [Delivery -> Handling]
        /\ \A e \in Delivery : e # d => delivery'[e] = delivery[e]
        /\ delivery'[d].pc = "ingesting" /\ delivery'[d].todo = delivery[d].todo \ {a}
        /\ delivery'[d].accepted = acc
    <3>1. delivery[d] \in Handling /\ acc \in SUBSET Attachment
          /\ delivery[d].todo \ {a} \in SUBSET Attachment
      BY Zenon DEF EmailTypes, Handling
    <3>2. delivery' = [delivery EXCEPT ![d] =
              [delivery[d] EXCEPT !.todo = delivery[d].todo \ {a}, !.accepted = acc]]
      BY <2>1, Zenon
    <3> HIDE DEF acc
    <3> QED BY <2>2, <3>1, <3>2, Zenon DEF EmailTypes, Handling
  <2>4. /\ ingested' \in [Attachment -> {0, 1}]
        /\ \A b \in Attachment : b # a => ingested'[b] = ingested[b]
        /\ stored => ingested'[a] = 1
    BY <2>1, <2>2 DEF EmailTypes
  <2>5. \A e \in Delivery : Holds(e)' <=> Holds(e)
    BY <2>2, <2>3, Zenon DEF Holds
  <2>6. \A e \in Delivery : Holds(e) => e = d
    BY <2>2, Zenon DEF OneClaim
  <2>7. EmailTypes'
    BY <2>2, <2>3, <2>4, Zenon DEF EmailTypes
  <2>8. OneClaim'
    BY <2>2, <2>5, Zenon DEF OneClaim
  <2>9. \A b \in Attachment : ingested[b] = 1 => ingested'[b] = 1
    BY <2>2, <2>4, Zenon
  <2>10. /\ \A b \in delivery'[d].todo : ingested'[b] = 0
         /\ \A b \in delivery'[d].accepted : ingested'[b] = 1
    <3>1. delivery[d].todo \subseteq Attachment /\ delivery[d].accepted \subseteq Attachment
      BY Zenon DEF EmailTypes, Handling
    <3>2. \A b \in delivery[d].accepted : ingested[b] = 1
      BY <2>2, Zenon DEF Progress
    <3>3. \A b \in delivery[d].todo : ingested[b] = 0
      BY <2>2, Zenon DEF Progress
    <3> QED BY <2>1, <2>3, <2>4, <2>9, <3>1, <3>2, <3>3
  <2>11. Progress'
    BY <2>2, <2>3, <2>5, <2>6, <2>9, <2>10 DEF Progress, Holds, EmailTypes
  <2> QED BY <2>7, <2>8, <2>11, Zenon
<1>4. ASSUME NEW d \in Delivery, Finalize(d) \/ FinalizeRejected(d) PROVE EmailInvariant'
  <2>1. GoOn(d, "answered") /\ UNCHANGED ingested
    BY <1>4, Zenon DEF Finalize, FinalizeRejected
  <2>2. audit' = "none" => audit = "none"
    BY <1>4, Zenon DEF Finalize, FinalizeRejected, Outcome
  <2>3. recorded' \subseteq Attachment /\ \A a \in recorded' : ingested[a] = 1
    BY <1>4, Zenon DEF Finalize, FinalizeRejected, Progress, Holds, EmailTypes, Handling
  <2> QED BY <2>1, <2>2, <2>3, DeliveryMoves, Zenon
<1>5. CASE UNCHANGED emailVars
    BY <1>5, Zenon DEF emailVars, EmailTypes, OneClaim, Progress, Holds
<1> QED BY <1>1, <1>2, <1>3, <1>4, <1>5 DEF EmailNext

\* The claim on the audit row makes ingestion happen at most once per
\* attachment over all deliveries, and the row names only what was ingested.
THEOREM EmailIngestedOnce == EmailSpec => []IngestedOnce
<1>1. EmailInvariant => IngestedOnce
    BY DEF EmailInvariant, EmailTypes, Progress, IngestedOnce
<1> QED BY <1>1, EmailInitial, EmailStep, PTL DEF EmailSpec
-----------------------------------------------------------------------------
PackageStatus ==
    {"none", "intake", "scoping", "collecting", "gap_analysis", "exception_triage",
     "assembling", "internal_review", "ready", "submitted", "amended"}

Backed == {"assembling", "submitted", "amended"}

HandlerRecord ==
    [op : {"none"} \cup DOMAIN AllowedIn,
     pc : {"idle", "admitted", "readmitted", "assembling", "closing", "cleared",
           "opened", "reverting"},
     prior : {"none"} \cup Backed, version : Nat, force : BOOLEAN]

RequestTypes ==
    /\ status \in PackageStatus
    /\ packages \in Seq(Nat)
    /\ filed \subseteq BOOLEAN
    /\ handler \in [Handler -> HandlerRecord]

\* The version numbers given so far are 1 .. m for some m, and a handler
\* about to commit carries one of them or the next.
Gapless ==
    \E m \in Nat :
        /\ {packages[k] : k \in DOMAIN packages} = 1 .. m
        /\ \A h \in Handler : handler[h].pc = "assembling" => handler[h].version \in 1 .. m + 1

\* A handler inside an amendment, or one that may still file, runs on a case
\* that has a package; one that passed the gate without force saw the
\* signoffs, which are never withdrawn.
HandlerKnows ==
    \A h \in Handler :
        /\ handler[h].op = "amend" => packages # <<>> /\ handler[h].prior \in Backed
        /\ handler[h].pc \in {"closing", "reverting", "opened", "readmitted"} => handler[h].op = "amend"
        /\ handler[h].pc = "assembling" => handler[h].op \in {"assemble", "amend"}
        /\ handler[h].pc = "cleared" /\ ~handler[h].force => RequiredSignoffs \subseteq signoffs

RequestInvariant ==
    RequestTypes /\ Gapless /\ HandlerKnows
    /\ DiffBaseExists /\ FiledIsBacked /\ UnforcedIsSigned

-----------------------------------------------------------------------------
LEMMA RequestInitial == RequestInit => RequestInvariant
<1> SUFFICES ASSUME RequestInit PROVE RequestInvariant
    BY Zenon
<1> USE DEF RequestInit
<1>1. NotBusy \in HandlerRecord
    BY Zenon DEF NotBusy, HandlerRecord
<1>2. RequestTypes
    BY <1>1 DEF RequestTypes, PackageStatus
<1>3. Gapless
  <2>1. {packages[k] : k \in DOMAIN packages} = 1 .. 0
    OBVIOUS
  <2>2. \A h \in Handler : handler[h].pc # "assembling"
    BY Zenon DEF NotBusy
  <2> QED BY <2>1, <2>2, Zenon DEF Gapless
<1>4. HandlerKnows
    BY Zenon DEF HandlerKnows, NotBusy
<1>5. DiffBaseExists /\ FiledIsBacked /\ UnforcedIsSigned
    BY DEF DiffBaseExists, FiledIsBacked, UnforcedIsSigned
<1> QED BY <1>2, <1>3, <1>4, <1>5, Zenon DEF RequestInvariant

\* COALESCE(MAX(version_number), 0) + 1 when the versions are 1 .. m.
LEMMA NextIsNext ==
    ASSUME NEW m \in Nat, {packages[k] : k \in DOMAIN packages} = 1 .. m
    PROVE  NextVersion = m + 1
<1> DEFINE S == {0} \cup 1 .. m
<1>1. \E x \in S : \A y \in S : x >= y
  <2>1. m \in S /\ \A y \in S : m >= y
    OBVIOUS
  <2> QED BY <2>1, Zenon
<1>2. Max(S) \in S /\ \A y \in S : Max(S) >= y
    BY <1>1, Zenon DEF Max
<1>3. Max(S) = m
    BY <1>2
<1> QED BY <1>3, Zenon DEF NextVersion

\* A handler's step that leaves the packages and signoffs alone.
LEMMA HandlerMoves ==
    ASSUME RequestInvariant, NEW h \in Handler, NEW d \in HandlerRecord,
           handler' = [handler EXCEPT ![h] = d],
           UNCHANGED <<signoffs, packages>>,
           filed' \subseteq BOOLEAN, FALSE \in filed' => RequiredSignoffs \subseteq signoffs,
           status' \in PackageStatus, status' \in Backed => packages # <<>>,
           d.op = "amend" => packages # <<>> /\ d.prior \in Backed,
           d.pc \in {"closing", "reverting", "opened", "readmitted"} => d.op = "amend",
           d.pc = "assembling" => d.op \in {"assemble", "amend"},
           d.pc = "cleared" /\ ~d.force => RequiredSignoffs \subseteq signoffs,
           d.pc = "assembling" => d.version = NextVersion
    PROVE  RequestInvariant'
<1> USE DEF RequestInvariant
<1>1. handler'[h] = d /\ \A g \in Handler : g # h => handler'[g] = handler[g]
    BY Zenon DEF RequestTypes
<1>2. RequestTypes'
    BY Zenon DEF RequestTypes
<1>3. Gapless'
  <2>1. PICK m \in Nat :
          /\ {packages[k] : k \in DOMAIN packages} = 1 .. m
          /\ \A g \in Handler : handler[g].pc = "assembling" => handler[g].version \in 1 .. m + 1
    BY Zenon DEF Gapless
  <2>2. NextVersion = m + 1
    BY <2>1, NextIsNext, Zenon
  <2>3. \A g \in Handler : handler'[g].pc = "assembling" => handler'[g].version \in 1 .. m + 1
    BY <1>1, <2>1, <2>2
  <2> QED BY <2>1, <2>3 DEF Gapless
<1>4. HandlerKnows'
    BY <1>1 DEF HandlerKnows
<1>5. DiffBaseExists' /\ FiledIsBacked' /\ UnforcedIsSigned'
    BY Zenon DEF DiffBaseExists, FiledIsBacked, UnforcedIsSigned, Backed
<1> QED BY <1>2, <1>3, <1>4, <1>5

\* A handler that ends.
LEMMA HandlerEnds ==
    ASSUME RequestInvariant, NEW h \in Handler, Done(h),
           UNCHANGED <<signoffs, packages>>,
           filed' \subseteq BOOLEAN, FALSE \in filed' => RequiredSignoffs \subseteq signoffs,
           status' \in PackageStatus, status' \in Backed => packages # <<>>
    PROVE  RequestInvariant'
<1>1. NotBusy \in HandlerRecord
    BY Zenon DEF NotBusy, HandlerRecord
<1>2. /\ NotBusy.op # "amend" /\ NotBusy.pc \notin {"closing", "reverting", "opened", "readmitted"}
      /\ NotBusy.pc # "assembling" /\ NotBusy.pc # "cleared"
    BY Zenon DEF NotBusy
<1> QED BY <1>1, <1>2, HandlerMoves, Zenon DEF Done

LEMMA CommitStep ==
    ASSUME RequestInvariant, NEW h \in Handler, CommitPackage(h)
    PROVE  RequestInvariant'
<1> USE DEF RequestInvariant
<1> DEFINE v == handler[h].version
<1>1. PICK m \in Nat :
          /\ {packages[k] : k \in DOMAIN packages} = 1 .. m
          /\ \A g \in Handler : handler[g].pc = "assembling" => handler[g].version \in 1 .. m + 1
    BY Zenon DEF Gapless
<1>2. /\ handler[h] \in HandlerRecord /\ handler[h].pc = "assembling" /\ v \in 1 .. m + 1
      /\ packages' = Append(packages, v) /\ status' = "assembling" /\ packages \in Seq(Nat)
      /\ UNCHANGED <<signoffs, filed>> /\ v \in Nat
    BY <1>1 DEF CommitPackage, On, RequestTypes
<1>3. /\ packages' \in Seq(Nat) /\ Len(packages) \in Nat /\ Len(packages') = Len(packages) + 1
      /\ \A k \in 1 .. Len(packages) : packages'[k] = packages[k]
      /\ packages'[Len(packages) + 1] = v /\ packages' # <<>>
      /\ DOMAIN packages = 1 .. Len(packages) /\ DOMAIN packages' = 1 .. Len(packages) + 1
    BY <1>2
<1>4. PICK d \in HandlerRecord : /\ handler' = [handler EXCEPT ![h] = d]
                                 /\ d.pc \in {"idle", "closing"}
                                 /\ d.pc = "closing" => d.op = "amend"
                                 /\ d.op = "amend" => d.prior \in Backed
  <2>1. CASE handler[h].op = "amend"
    <3>1. [handler[h] EXCEPT !.pc = "closing"] \in HandlerRecord
      BY <1>2, Zenon DEF HandlerRecord
    <3>2. handler' = [handler EXCEPT ![h] = [handler[h] EXCEPT !.pc = "closing"]]
      BY <2>1, Zenon DEF CommitPackage
    <3>3. handler[h].prior \in Backed
      BY <2>1, Zenon DEF HandlerKnows
    <3> QED BY <1>2, <2>1, <3>1, <3>2, <3>3, Zenon DEF HandlerRecord
  <2>2. CASE handler[h].op # "amend"
    <3>1. NotBusy \in HandlerRecord /\ NotBusy.pc = "idle" /\ NotBusy.op # "amend"
      BY Zenon DEF NotBusy, HandlerRecord
    <3> QED BY <2>2, <3>1, Zenon DEF CommitPackage, Done
  <2> QED BY <2>1, <2>2, Zenon
<1>5. handler'[h] = d /\ \A g \in Handler : g # h => handler'[g] = handler[g]
    BY <1>4, Zenon DEF RequestTypes
<1>6. RequestTypes'
    BY <1>2, <1>3, <1>4, Zenon DEF RequestTypes, PackageStatus
<1>7. {packages'[k] : k \in DOMAIN packages'} = (1 .. m) \cup {v}
  <2>1. {packages'[k] : k \in DOMAIN packages'} = {packages[k] : k \in DOMAIN packages} \cup {v}
    BY <1>3
  <2> QED BY <1>1, <2>1, Zenon
<1>8. Gapless'
  <2>1. CASE v = m + 1
    <3>1. (1 .. m) \cup {v} = 1 .. (m + 1) /\ m + 1 \in Nat
      BY <2>1
    <3>2. \A g \in Handler : handler'[g].pc = "assembling" => handler'[g].version \in 1 .. (m + 1) + 1
      BY <1>1, <1>4, <1>5
    <3> QED BY <1>7, <3>1, <3>2, Zenon DEF Gapless
  <2>2. CASE v # m + 1
    <3>1. (1 .. m) \cup {v} = 1 .. m
      BY <1>2, <2>2
    <3>2. \A g \in Handler : handler'[g].pc = "assembling" => handler'[g].version \in 1 .. m + 1
      BY <1>1, <1>4, <1>5, Zenon
    <3> QED BY <1>7, <3>1, <3>2, Zenon DEF Gapless
  <2> QED BY <2>1, <2>2, Zenon
<1>9. HandlerKnows'
    BY <1>2, <1>3, <1>4, <1>5 DEF HandlerKnows
<1>10. DiffBaseExists'
  <2> SUFFICES ASSUME NEW k \in DOMAIN packages', packages'[k] > 1
               PROVE  \E j \in 1 .. k - 1 : packages'[j] = packages'[k] - 1
    BY Zenon DEF DiffBaseExists
  <2>1. CASE k \in 1 .. Len(packages)
    <3>1. PICK j \in 1 .. k - 1 : packages[j] = packages[k] - 1
      BY <1>3, <2>1, Zenon DEF DiffBaseExists
    <3> QED BY <1>3, <2>1, <3>1
  <2>2. CASE k = Len(packages) + 1
    <3>1. v - 1 \in 1 .. m
      BY <1>2, <1>3, <2>2
    <3>2. PICK j \in DOMAIN packages : packages[j] = v - 1
      BY <1>1, <3>1, Zenon
    <3> QED BY <1>3, <2>2, <3>2
  <2> QED BY <1>3, <2>1, <2>2
<1>11. FiledIsBacked' /\ UnforcedIsSigned'
    BY <1>2, <1>3, Zenon DEF FiledIsBacked, UnforcedIsSigned
<1> QED BY <1>6, <1>8, <1>9, <1>10, <1>11, Zenon

LEMMA RequestStep ==
    ASSUME RequestInvariant, [RequestNext]_requestVars
    PROVE  RequestInvariant'
<1> USE DEF RequestInvariant
<1>f. filed \subseteq BOOLEAN /\ (FALSE \in filed => RequiredSignoffs \subseteq signoffs)
      /\ status \in PackageStatus /\ (status \in Backed => packages # <<>>)
    BY Zenon DEF RequestTypes, UnforcedIsSigned, FiledIsBacked, Backed
<1>1. CASE CreateRequestCase
    BY <1>1, ZenonT(60) DEF CreateRequestCase, RequestTypes, PackageStatus, Gapless, HandlerKnows,
       DiffBaseExists, FiledIsBacked, UnforcedIsSigned
<1>2. ASSUME NEW t \in SignoffType, AddSignoff(t) PROVE RequestInvariant'
  <2>1. status' \in {"exception_triage", "internal_review", "ready"}
    BY <1>2 DEF AddSignoff, SignoffType, SignoffStatus
  <2> QED BY <1>2, <2>1, Zenon DEF AddSignoff, RequestTypes, PackageStatus, Gapless, HandlerKnows,
       DiffBaseExists, FiledIsBacked, UnforcedIsSigned
<1>3. ASSUME NEW h \in Handler, NEW op \in DOMAIN AllowedIn, NEW force \in BOOLEAN,
             Admit(h, op, force)
      PROVE  RequestInvariant'
  <2> DEFINE d == [NotBusy EXCEPT !.op = op, !.pc = "admitted", !.force = force,
                                  !.prior = IF op = "amend" THEN status ELSE "none"]
  <2>1. op = "amend" => status \in Backed
    BY <1>3 DEF Admit, AllowedIn, Backed
  <2>2. d.op = op /\ d.pc = "admitted" /\ d.prior = IF op = "amend" THEN status ELSE "none"
    BY Zenon DEF NotBusy
  <2>3. d \in HandlerRecord
    BY <2>1, Zenon DEF NotBusy, HandlerRecord
  <2>4. handler' = [handler EXCEPT ![h] = d] /\ UNCHANGED <<status, signoffs, packages, filed>>
    BY <1>3, Zenon DEF Admit
  <2> HIDE DEF d
  <2> QED BY <1>f, <2>1, <2>2, <2>3, <2>4, HandlerMoves, Zenon
<1>4. ASSUME NEW h \in Handler, Prepare(h) \/ GiveUp(h) \/ RevertAmendment(h) \/ CloseAmendment(h)
      PROVE  RequestInvariant'
  <2>1. Done(h) /\ UNCHANGED <<signoffs, packages, filed>>
    BY <1>4, Zenon DEF Prepare, GiveUp, RevertAmendment, CloseAmendment
  <2>2. status' \in PackageStatus /\ (status' \in Backed => packages # <<>>)
    <3>1. CASE Prepare(h) \/ GiveUp(h)
      BY <1>f, <3>1 DEF Prepare, GiveUp, PreparedStatus, PackageStatus, Backed
    <3>2. CASE RevertAmendment(h) \/ CloseAmendment(h)
      <4>1. packages # <<>> /\ handler[h].prior \in Backed
        BY <3>2, Zenon DEF RevertAmendment, CloseAmendment, On, HandlerKnows
      <4> QED BY <3>2, <4>1, Zenon DEF RevertAmendment, CloseAmendment, Backed, PackageStatus
    <3> QED BY <1>4, <3>1, <3>2, Zenon
  <2> QED BY <1>f, <2>1, <2>2, HandlerEnds, Zenon
<1>5. ASSUME NEW h \in Handler, ReadVersion(h) PROVE RequestInvariant'
  <2> DEFINE d == [handler[h] EXCEPT !.pc = "assembling", !.version = NextVersion]
  <2>1. NextVersion \in Nat
    <3>1. PICK m \in Nat : {packages[k] : k \in DOMAIN packages} = 1 .. m
      BY Zenon DEF Gapless
    <3> QED BY <3>1, NextIsNext
  <2>2. handler[h] \in HandlerRecord /\ handler[h].op \in {"assemble", "amend"}
    BY <1>5, Zenon DEF ReadVersion, On, RequestTypes, HandlerKnows
  <2>3. /\ d \in HandlerRecord /\ d.pc = "assembling" /\ d.version = NextVersion
        /\ d.op = handler[h].op /\ d.prior = handler[h].prior
    BY <2>1, <2>2, Zenon DEF HandlerRecord
  <2>4. handler' = [handler EXCEPT ![h] = d] /\ UNCHANGED <<status, signoffs, packages, filed>>
    BY <1>5, Zenon DEF ReadVersion
  <2>5. handler[h].op = "amend" => packages # <<>> /\ handler[h].prior \in Backed
    BY Zenon DEF HandlerKnows
  <2> HIDE DEF d
  <2> QED BY <1>f, <2>2, <2>3, <2>4, <2>5, HandlerMoves, Zenon
<1>6. ASSUME NEW h \in Handler, NEW pc \in {"cleared", "opened", "readmitted", "reverting"},
             handler' = [handler EXCEPT ![h].pc = pc], UNCHANGED <<signoffs, packages, filed>>,
             status' \in PackageStatus, status' \in Backed => packages # <<>>,
             pc # "cleared" => handler[h].op = "amend",
             pc = "cleared" /\ ~handler[h].force => RequiredSignoffs \subseteq signoffs
      PROVE  RequestInvariant'
  <2> DEFINE d == [handler[h] EXCEPT !.pc = pc]
  <2>1. handler[h] \in HandlerRecord
    BY DEF RequestTypes
  <2>2. /\ d \in HandlerRecord /\ d.pc = pc /\ d.op = handler[h].op
        /\ d.prior = handler[h].prior /\ d.force = handler[h].force
    BY <2>1, Zenon DEF HandlerRecord
  <2>3. handler' = [handler EXCEPT ![h] = d]
    BY <1>6
  <2>4. handler[h].op = "amend" => packages # <<>> /\ handler[h].prior \in Backed
    BY DEF HandlerKnows
  <2> HIDE DEF d
  <2> QED BY <1>f, <1>6, <2>2, <2>3, <2>4, HandlerMoves, ZenonT(30)
<1>7. ASSUME NEW h \in Handler, CheckBlockingDefects(h) PROVE RequestInvariant'
    BY <1>f, <1>6, <1>7, Zenon DEF CheckBlockingDefects, PassesDefectGate
<1>8. ASSUME NEW h \in Handler, SubmitPackage(h) PROVE RequestInvariant'
  <2>1. /\ Done(h) /\ UNCHANGED <<signoffs, packages>> /\ status' = "submitted" /\ packages # <<>>
        /\ filed' = filed \cup {handler[h].force} /\ handler[h].force \in BOOLEAN
        /\ handler[h].pc = "cleared"
    BY <1>8, Zenon DEF SubmitPackage, On, RequestTypes, HandlerRecord
  <2>2. FALSE \in filed' => RequiredSignoffs \subseteq signoffs
    BY <1>f, <2>1, Zenon DEF HandlerKnows
  <2> QED BY <1>f, <2>1, <2>2, HandlerEnds, Zenon DEF PackageStatus
<1>9. ASSUME NEW h \in Handler, OpenAmendment(h) PROVE RequestInvariant'
  <2>1. handler[h].op = "amend" /\ packages # <<>>
    BY <1>9, Zenon DEF OpenAmendment, HandlerKnows
  <2> QED BY <1>6, <1>9, <2>1, Zenon DEF OpenAmendment, PackageStatus
<1>10. ASSUME NEW h \in Handler, ReadmitAmendment(h) \/ AssemblyFails(h) PROVE RequestInvariant'
  <2>1. handler[h].op = "amend" /\ UNCHANGED <<status, signoffs, packages, filed>>
    BY <1>10, Zenon DEF ReadmitAmendment, AssemblyFails, On, HandlerKnows
  <2>2. PICK pc \in {"readmitted", "reverting"} : handler' = [handler EXCEPT ![h].pc = pc]
    BY <1>10, Zenon DEF ReadmitAmendment, AssemblyFails
  <2> QED BY <1>f, <1>6, <2>1, <2>2, Zenon
<1>11. CASE UNCHANGED requestVars
    BY <1>11, ZenonT(30) DEF requestVars, RequestTypes, Gapless, HandlerKnows,
       DiffBaseExists, FiledIsBacked, UnforcedIsSigned
<1>12. ASSUME NEW h \in Handler, HandlerStep(h) PROVE RequestInvariant'
    BY <1>3, <1>4, <1>5, <1>7, <1>8, <1>9, <1>10, <1>12, CommitStep, Zenon DEF HandlerStep
<1> QED BY <1>1, <1>2, <1>11, <1>12, Zenon DEF RequestNext

\* However assemblies race over the version number, every version above 1
\* finds its predecessor among the packages stored before it.
THEOREM VersionsHaveNoGap == RequestSpec => []DiffBaseExists
<1>1. RequestInvariant => DiffBaseExists
    BY Zenon DEF RequestInvariant
<1> QED BY <1>1, RequestInitial, RequestStep, PTL DEF RequestSpec

\* A case never stands as assembling, submitted or amended without a package.
THEOREM FilingIsBacked == RequestSpec => []FiledIsBacked
<1>1. RequestInvariant => FiledIsBacked
    BY Zenon DEF RequestInvariant
<1> QED BY <1>1, RequestInitial, RequestStep, PTL DEF RequestSpec

\* No submission without force is logged before both required signoffs.
THEOREM SubmissionIsSigned == RequestSpec => []UnforcedIsSigned
<1>1. RequestInvariant => UnforcedIsSigned
    BY Zenon DEF RequestInvariant
<1> QED BY <1>1, RequestInitial, RequestStep, PTL DEF RequestSpec
-----------------------------------------------------------------------------
Urgency == {"normal", "critical", "overdue"}

Alert == Urgency \X Case

DeadlineTypes ==
    /\ watched \subseteq Case
    /\ urgency \in [Case -> Urgency]
    /\ tracked \subseteq Alert

\* What the cache remembers has been reported.
DeadlineInvariant ==
    DeadlineTypes /\ tracked \subseteq reported /\ BreachesReported /\ AlertCacheBounded

LEMMA AlertsFinite == ASSUME NEW S \in SUBSET Alert PROVE IsFiniteSet(S)
<1>1. IsFiniteSet(Case)
    BY DeadlineAssumption, FS_Product, Zenon DEF Case
<1>2. IsFiniteSet({"normal", "critical", "overdue"})
  <2>1. IsFiniteSet({"normal"})
    BY FS_Singleton, Zenon
  <2>2. IsFiniteSet({"normal"} \cup {"critical"})
    BY <2>1, FS_AddElement, Zenon
  <2>3. IsFiniteSet(({"normal"} \cup {"critical"}) \cup {"overdue"})
    BY <2>2, FS_AddElement, Zenon
  <2>4. ({"normal"} \cup {"critical"}) \cup {"overdue"} = {"normal", "critical", "overdue"}
    BY Zenon
  <2> QED BY <2>3, <2>4, Zenon
<1>3. IsFiniteSet(Urgency)
    BY <1>2, Zenon DEF Urgency
<1>4. IsFiniteSet(Urgency \X Case)
    BY <1>1, <1>3, FS_Product, Zenon
<1>5. IsFiniteSet(Alert)
    BY <1>4, Zenon DEF Alert
<1> QED BY <1>5, FS_Subset, Zenon

LEMMA DeadlineInitial == DeadlineInit => DeadlineInvariant
BY DeadlineAssumption, FS_EmptySet DEF DeadlineInit, DeadlineInvariant, DeadlineTypes,
   BreachesReported, AlertCacheBounded, Urgency

\* The smaller and the larger of two numbers.
LEMMA MinBound == \A a, b \in Int : Min({a, b}) <= a
BY DEF Min

LEMMA MaxZero == \A a \in Int : 0 <= a => Max({0, a}) = a
BY DEF Max

LEMMA SweepStep ==
    ASSUME DeadlineInvariant, NEW t \in Tenant, SweepTenant(t)
    PROVE  DeadlineInvariant'
<1> USE DEF DeadlineInvariant
<1>1. PICK w \in Window(t) :
        \E added \in SUBSET ((Active(w) \ (Kept(t, Active(w)) \cap fresh)) \ Kept(t, Active(w))) :
            LET active == Active(w)
                kept == Kept(t, active)
                due == active \ (kept \cap fresh)
                new == due \ kept
                room == Max({0, AlertMax - EntriesAfter(kept)})
            IN
            /\ Cardinality(added) = Min({room, Cardinality(new)})
            /\ tracked' = kept \cup added
            /\ alertEntries' = EntriesAfter(kept) + Cardinality(added)
            /\ found' = (found \ Of(t, found)) \cup active
            /\ reported' = (reported \ (Of(t, reported) \ active)) \cup due
            /\ UNCHANGED <<watched, urgency>>
    BY Zenon DEF SweepTenant
<1> DEFINE active == Active(w)
           kept == Kept(t, active)
           due == active \ (kept \cap fresh)
           new == due \ kept
           room == Max({0, AlertMax - EntriesAfter(kept)})
<1>2. PICK added \in SUBSET new :
            /\ Cardinality(added) = Min({room, Cardinality(new)})
            /\ tracked' = kept \cup added
            /\ alertEntries' = EntriesAfter(kept) + Cardinality(added)
            /\ found' = (found \ Of(t, found)) \cup active
            /\ reported' = (reported \ (Of(t, reported) \ active)) \cup due
            /\ UNCHANGED <<watched, urgency>>
    BY <1>1, Zenon
<1>3. active \subseteq Alert
  <2>1. w \subseteq Case
    BY Zenon DEF Window, DeadlineTypes
  <2>2. \A c \in w : <<urgency[c], c>> \in Alert
    BY <2>1, Zenon DEF Alert, DeadlineTypes
  <2> QED BY <2>2, Zenon DEF Active
<1>4. kept \subseteq tracked /\ \A k \in kept : k \in Of(t, tracked) => k \in active
    BY Zenon DEF Kept
<1> HIDE DEF active, kept
<1>5. DeadlineTypes'
    BY <1>2, <1>3, <1>4, Zenon DEF DeadlineTypes
<1>6. tracked' \subseteq reported'
  <2>1. \A k \in kept : k \in Of(t, reported) => k \in active
    BY <1>4, Zenon DEF Of
  <2> QED BY <1>2, <1>4, <2>1, Zenon
<1>7. BreachesReported'
  <2>1. \A k \in found \ Of(t, found) : k \in reported /\ k \notin Of(t, reported)
    BY Zenon DEF BreachesReported, Of
  <2>2. \A k \in active : k \in due \/ (k \in kept /\ k \in reported)
    BY <1>4, Zenon
  <2> QED BY <1>2, <2>1, <2>2, Zenon DEF BreachesReported
<1>8. AlertCacheBounded'
  <2>1. IsFiniteSet(tracked) /\ IsFiniteSet(kept) /\ IsFiniteSet(new) /\ IsFiniteSet(added)
        /\ IsFiniteSet(tracked \ kept)
    BY <1>3, <1>4, AlertsFinite, Zenon DEF DeadlineTypes
  <2>2. /\ Cardinality(tracked) \in Nat /\ Cardinality(kept) \in Nat /\ Cardinality(new) \in Nat
        /\ Cardinality(added) \in Nat
    BY <2>1, FS_CardinalityType, Zenon
  <2>3. Cardinality(tracked \ kept) = Cardinality(tracked) - Cardinality(kept)
    <3>1. tracked \cap kept = kept
      BY <1>4, Zenon
    <3> QED BY <2>1, <3>1, FS_Difference, Zenon
  <2>4. EntriesAfter(kept) = Cardinality(kept)
    BY <2>2, <2>3 DEF EntriesAfter, AlertCacheBounded
  <2>5. Cardinality(kept) <= AlertMax
    BY <1>4, <2>1, <2>2, FS_Subset, DeadlineAssumption DEF AlertCacheBounded
  <2>6. room = AlertMax - Cardinality(kept)
    <3>1. AlertMax - Cardinality(kept) \in Int /\ 0 <= AlertMax - Cardinality(kept)
      BY <2>2, <2>5, DeadlineAssumption
    <3>2. Max({0, AlertMax - Cardinality(kept)}) = AlertMax - Cardinality(kept)
      BY <3>1, MaxZero, Zenon
    <3> QED BY <2>4, <3>2, Zenon
  <2>7. Cardinality(added) <= AlertMax - Cardinality(kept)
    <3> DEFINE r == AlertMax - Cardinality(kept)
    <3>1. r \in Int
      BY <2>2, DeadlineAssumption
    <3>2. Cardinality(added) = Min({r, Cardinality(new)})
      BY <1>2, <2>6, Zenon
    <3> HIDE DEF r
    <3>3. Min({r, Cardinality(new)}) <= r
      <4>1. Cardinality(new) \in Int
        BY <2>2
      <4> QED BY <3>1, <4>1, MinBound, Zenon
    <3> QED BY <3>2, <3>3, Zenon DEF r
  <2>8. Cardinality(kept \cup added) = Cardinality(kept) + Cardinality(added)
    <3>1. kept \cap added = {}
      BY Zenon
    <3>2. Cardinality(kept \cap added) = 0
      BY <3>1, FS_EmptySet, Zenon
    <3>3. Cardinality(kept \cup added)
             = Cardinality(kept) + Cardinality(added) - Cardinality(kept \cap added)
      BY <2>1, FS_Union, Zenon
    <3> QED BY <2>2, <3>2, <3>3
  <2> QED BY <1>2, <2>2, <2>4, <2>7, <2>8, DeadlineAssumption DEF AlertCacheBounded
<1> QED BY <1>5, <1>6, <1>7, <1>8, Zenon

LEMMA DeadlineStep ==
    ASSUME DeadlineInvariant, [DeadlineNext]_deadlineVars
    PROVE  DeadlineInvariant'
<1> USE DEF DeadlineInvariant
<1>1. ASSUME NEW c \in Case, Reopen(c) \/ File(c) \/ Approach(c) PROVE DeadlineInvariant'
    BY <1>1, Zenon DEF Reopen, File, Approach, DeadlineTypes, BreachesReported, AlertCacheBounded, Urgency
<1>2. CASE (\E k \in fresh : Lapse(k)) \/ UNCHANGED deadlineVars
    BY <1>2, Zenon DEF Lapse, deadlineVars, DeadlineTypes, BreachesReported, AlertCacheBounded
<1>3. CASE RestartMonitor
    BY <1>3, FS_EmptySet, DeadlineAssumption
       DEF RestartMonitor, DeadlineTypes, BreachesReported, AlertCacheBounded
<1> QED BY <1>1, <1>2, <1>3, SweepStep, Zenon DEF DeadlineNext

\* No breach that a sweep finds is swallowed by the hour of silence, a stale
\* entry or a full cache.
THEOREM EveryBreachReported == DeadlineSpec => []BreachesReported
<1>1. DeadlineInvariant => BreachesReported
    BY Zenon DEF DeadlineInvariant
<1> QED BY <1>1, DeadlineInitial, DeadlineStep, PTL DEF DeadlineSpec

\* The entry counter is exact and keeps the cache within its limit.
THEOREM CacheIsBounded == DeadlineSpec => []AlertCacheBounded
<1>1. DeadlineInvariant => AlertCacheBounded
    BY Zenon DEF DeadlineInvariant
<1> QED BY <1>1, DeadlineInitial, DeadlineStep, PTL DEF DeadlineSpec
-----------------------------------------------------------------------------
(***************************************************************************)
(* The usage reports.  What Stripe bills for a period is the count last    *)
(* reported, and the count of the day while the answer to a call is open; no*)
(* identifier it has seen is ahead of the counter.                         *)
(***************************************************************************)
ReportRecord == [on : BOOLEAN, todo : SUBSET Period, sent : SUBSET Period]

UsageTypeOK ==
  /\ counted \subseteq Event \X Period /\ IsFiniteSet(counted)
  /\ unitCount \in [Period -> Nat] /\ lastReported \in [Period -> Nat]
  /\ billed \in [Period -> Nat]
  /\ meter \subseteq [period : Period, count : Nat]
  /\ report \in [Report -> ReportRecord]
  /\ unsure \subseteq Period /\ slipped \subseteq Period

\* The advisory lock: one report at a time, and a period is sent once in it.
OneReport ==
  \A r \in Report :
    /\ report[r].todo \cap report[r].sent = {}
    /\ ~report[r].on => report[r].todo = {} /\ report[r].sent = {}
    /\ \A q \in Report : report[r].on /\ report[q].on => q = r

\* Stripe accepted an event of the period that last_reported_count leaves out.
Pending(p) == p \in unsure \/ \E r \in Report : p \in report[r].sent

IdOf(p, n) == [period |-> p, count |-> n]

\* Every unit is in the counter, and no identifier is ahead of it.
CounterSound(p) ==
  /\ unitCount[p] = Counted(p) /\ lastReported[p] <= unitCount[p]
  /\ \A n \in Nat : IdOf(p, n) \in meter => n <= unitCount[p]

\* What Stripe bills for a period whose identifier never slipped.
BillSound(p) ==
  IF Pending(p)
    THEN billed[p] = unitCount[p] /\ IdOf(p, unitCount[p]) \in meter
    ELSE /\ billed[p] = lastReported[p]
         /\ \A n \in Nat : IdOf(p, n) \in meter => n <= lastReported[p]

UsageInvariant ==
  /\ UsageTypeOK /\ OneReport
  /\ \A p \in Period : CounterSound(p)
  /\ \A p \in Period \ slipped : BillSound(p)

LEMMA IdsDiffer ==
  ASSUME NEW p, NEW q, NEW n, NEW m
  PROVE  IdOf(p, n) = IdOf(q, m) <=> p = q /\ n = m
<1>1. IdOf(p, n).period = p /\ IdOf(p, n).count = n /\ IdOf(q, m).period = q /\ IdOf(q, m).count = m
    BY Zenon DEF IdOf
<1> QED BY <1>1, Zenon

LEMMA UsageInitial == UsageInit => UsageInvariant
<1> SUFFICES ASSUME UsageInit PROVE UsageInvariant
    BY Zenon
<1>1. NoReport \in ReportRecord
    BY Zenon DEF NoReport, ReportRecord
<1>2. UsageTypeOK
    BY <1>1, FS_EmptySet, Zenon DEF UsageInit, UsageTypeOK
<1>3. OneReport
    BY Zenon DEF UsageInit, OneReport, NoReport
<1>4. ASSUME NEW p \in Period PROVE Counted(p) = 0 /\ ~Pending(p)
  <2>1. {c \in counted : c[2] = p} = {}
      BY Zenon DEF UsageInit
  <2> QED BY <2>1, FS_EmptySet, Zenon DEF UsageInit, Counted, Pending, NoReport
<1>5. \A p \in Period : CounterSound(p) /\ BillSound(p)
    BY <1>4 DEF UsageInit, CounterSound, BillSound
<1> QED BY <1>2, <1>3, <1>5, Zenon DEF UsageInvariant

\* One more event of a period counts once; the other periods stay.
LEMMA CountsOne ==
  ASSUME UsageTypeOK, NEW e \in Event, NEW p \in Period, NEW q \in Period,
         <<e, p>> \notin counted, counted' = counted \cup {<<e, p>>}
  PROVE  /\ IsFiniteSet(counted') /\ Counted(q) \in Nat
         /\ Counted(q)' = IF q = p THEN Counted(q) + 1 ELSE Counted(q)
<1> DEFINE S == {c \in counted : c[2] = q}
           T == {c \in counted' : c[2] = q}
<1>1. IsFiniteSet(counted) /\ IsFiniteSet(counted')
    BY FS_AddElement, Zenon DEF UsageTypeOK
<1>2. IsFiniteSet(S) /\ S \subseteq counted
    BY <1>1, FS_Subset, Zenon
<1>3. <<e, p>>[2] = p
    BY Zenon
<1>4. CASE q = p
  <2>1. T = S \cup {<<e, p>>} /\ <<e, p>> \notin S
      BY <1>3, <1>4, Zenon
  <2>2. Cardinality(T) = Cardinality(S) + 1
    <3> HIDE DEF S, T
    <3> QED BY <2>1, <1>2, FS_AddElement, Zenon
  <2> QED BY <2>2, <1>1, <1>2, <1>4, FS_CardinalityType, Zenon DEF Counted
<1>5. CASE q # p
  <2>1. T = S
      BY <1>3, <1>5, Zenon
  <2> QED BY <2>1, <1>1, <1>2, <1>5, FS_CardinalityType, Zenon DEF Counted
<1> QED BY <1>4, <1>5, Zenon

\* Stripe's answer for a period that has not been sent in this report: from
\* then on the whole counter is billed.
LEMMA MeterSound ==
  ASSUME UsageInvariant, NEW p \in Period, MeterEvent(p), UNCHANGED unitCount,
         \A r \in Report : p \notin report[r].sent
  PROVE  /\ billed' \in [Period -> Nat]
         /\ meter' \subseteq [period : Period, count : Nat]
         /\ IdOf(p, unitCount[p]) \in meter'
         /\ p \notin slipped => billed'[p] = unitCount[p]
         /\ \A q \in Period \ {p} :
              /\ billed'[q] = billed[q]
              /\ \A n \in Nat : IdOf(q, n) \in meter' <=> IdOf(q, n) \in meter
         /\ \A n \in Nat : IdOf(p, n) \in meter' => n <= unitCount[p]
<1>1. /\ unitCount[p] \in Nat /\ lastReported[p] \in Nat /\ lastReported[p] <= unitCount[p]
      /\ billed \in [Period -> Nat] /\ meter \subseteq [period : Period, count : Nat]
      /\ \A n \in Nat : IdOf(p, n) \in meter => n <= unitCount[p]
    BY Zenon DEF UsageInvariant, UsageTypeOK, CounterSound
<1>2. /\ meter' = meter \cup {IdOf(p, unitCount[p])}
      /\ billed' = IF IdOf(p, unitCount[p]) \in meter THEN billed
                   ELSE [billed EXCEPT ![p] = @ + (unitCount[p] - lastReported[p])]
    BY Zenon DEF MeterEvent, IdOf
<1>3. billed' \in [Period -> Nat] /\ \A q \in Period \ {p} : billed'[q] = billed[q]
    BY <1>1, <1>2
<1>4. IdOf(p, unitCount[p]) \in [period : Period, count : Nat]
    BY <1>1, Zenon DEF IdOf
<1>5. ASSUME p \notin slipped PROVE billed'[p] = unitCount[p]
  <2>1. BillSound(p)
      BY <1>5, Zenon DEF UsageInvariant
  <2>2. CASE Pending(p)
      BY <2>1, <2>2, <1>2, Zenon DEF BillSound
  <2>3. CASE ~Pending(p)
    <3>1. billed[p] = lastReported[p] /\ \A n \in Nat : IdOf(p, n) \in meter => n <= lastReported[p]
        BY <2>1, <2>3, Zenon DEF BillSound
    <3>2. CASE IdOf(p, unitCount[p]) \in meter
        BY <3>1, <3>2, <1>1, <1>2
    <3>3. CASE IdOf(p, unitCount[p]) \notin meter
        BY <3>1, <3>3, <1>1, <1>2
    <3> QED BY <3>2, <3>3, Zenon
  <2> QED BY <2>2, <2>3, Zenon
<1>6. \A q \in Period, n \in Nat :
        IdOf(q, n) \in meter' <=> IdOf(q, n) \in meter \/ (q = p /\ n = unitCount[p])
    BY <1>2, IdsDiffer
<1> QED BY <1>1, <1>2, <1>3, <1>4, <1>5, <1>6

LEMMA UsageStep ==
  ASSUME UsageInvariant, [UsageNext]_usageVars
  PROVE  UsageInvariant'
<1>0. /\ UsageTypeOK /\ OneReport
      /\ \A p \in Period : CounterSound(p)
      /\ \A p \in Period \ slipped : BillSound(p)
    BY DEF UsageInvariant
<1>1. ASSUME NEW e \in Event, NEW p \in Period, IncrementUsage(e, p) PROVE UsageInvariant'
  <2>1. /\ <<e, p>> \notin counted /\ ~Locked(p) /\ counted' = counted \cup {<<e, p>>}
        /\ unitCount' = [unitCount EXCEPT ![p] = @ + 1]
        /\ slipped' = slipped \cup ({p} \cap unsure)
        /\ UNCHANGED <<lastReported, meter, billed, report, unsure>>
      BY <1>1, Zenon DEF IncrementUsage
  <2>2. \A q \in Period : Counted(q)' = IF q = p THEN Counted(q) + 1 ELSE Counted(q)
      BY <1>0, <2>1, CountsOne, Zenon
  <2>3. UsageTypeOK'
    <3>1. IsFiniteSet(counted')
        BY <1>0, <2>1, CountsOne, Zenon
    <3> QED BY <1>0, <2>1, <3>1 DEF UsageTypeOK
  <2>4. OneReport'
      BY <1>0, <2>1, Zenon DEF OneReport
  <2>5. \A q \in Period : unitCount'[q] = IF q = p THEN unitCount[q] + 1 ELSE unitCount[q]
      BY <1>0, <2>1, Zenon DEF UsageTypeOK
  <2>6. ASSUME NEW q \in Period PROVE CounterSound(q)'
    <3>1. unitCount'[q] = Counted(q)'
        BY <1>0, <2>2, <2>5, Zenon DEF CounterSound
    <3>2. unitCount[q] \in Nat /\ lastReported[q] \in Nat
        BY <1>0, Zenon DEF UsageTypeOK
    <3> QED BY <1>0, <2>1, <2>5, <3>1, <3>2 DEF CounterSound
  <2>7. ASSUME NEW q \in Period \ slipped' PROVE BillSound(q)'
    <3>1. q \notin slipped /\ BillSound(q) /\ (Pending(q)' <=> Pending(q))
        BY <1>0, <2>1, ZenonT(30) DEF Pending
    <3>2. CASE q = p
      <4>1. ~Pending(q)
          BY <2>1, <2>7, <3>2, Zenon DEF Pending, Locked
      <4> QED BY <2>1, <3>1, <4>1, Zenon DEF BillSound
    <3>3. CASE q # p
        BY <2>1, <2>5, <3>1, <3>3 DEF BillSound
    <3> QED BY <3>2, <3>3, Zenon
  <2> QED BY <2>3, <2>4, <2>6, <2>7, Zenon DEF UsageInvariant
<1>2. ASSUME NEW r \in Report, StartReport(r) PROVE UsageInvariant'
  <2> DEFINE behind == {p \in Period : unitCount[p] > lastReported[p]}
  <2>1. /\ \A q \in Report : ~report[q].on
        /\ report' = [report EXCEPT ![r] = [on |-> TRUE, todo |-> behind, sent |-> {}]]
        /\ UNCHANGED <<counted, unitCount, lastReported, meter, billed, unsure, slipped>>
      BY <1>2, Zenon DEF StartReport
  <2>2. behind \subseteq Period
      BY Zenon
  <2> HIDE DEF behind
  <2>3. /\ report' \in [Report -> ReportRecord]
        /\ report'[r] = [on |-> TRUE, todo |-> behind, sent |-> {}]
        /\ \A q \in Report \ {r} : report'[q] = report[q]
      BY <1>0, <2>1, <2>2, Zenon DEF UsageTypeOK, ReportRecord
  <2>4. UsageTypeOK'
      BY <1>0, <2>1, <2>3, ZenonT(60) DEF UsageTypeOK
  <2>5. OneReport'
      BY <1>0, <2>1, <2>3, ZenonT(60) DEF OneReport
  <2>6. \A p \in Period : Pending(p)' <=> Pending(p)
      BY <1>0, <2>1, <2>3, Zenon DEF Pending, OneReport
  <2>7. \A p \in Period : CounterSound(p)'
      BY <1>0, <2>1, Zenon DEF CounterSound, Counted
  <2>8. \A p \in Period \ slipped' : BillSound(p)'
      BY <1>0, <2>1, <2>6, Zenon DEF BillSound
  <2> QED BY <2>4, <2>5, <2>7, <2>8, Zenon DEF UsageInvariant
<1>3. ASSUME NEW r \in Report, SendPeriod(r) PROVE UsageInvariant'
  <2>1. PICK p \in Period :
          /\ p \in report[r].todo /\ MeterEvent(p)
          /\ report' = [report EXCEPT ![r].todo = @ \ {p}, ![r].sent = @ \cup {p}]
      BY <1>3, Zenon DEF SendPeriod, NextToSend
  <2>2. UNCHANGED <<counted, unitCount, lastReported, unsure, slipped>>
      BY <1>3, Zenon DEF SendPeriod
  <2>3. \A q \in Report : p \notin report[q].sent
      BY <1>0, <2>1, Zenon DEF OneReport
  <2>4. /\ billed' \in [Period -> Nat]
        /\ meter' \subseteq [period : Period, count : Nat]
        /\ IdOf(p, unitCount[p]) \in meter'
        /\ p \notin slipped => billed'[p] = unitCount[p]
        /\ \A q \in Period \ {p} :
             /\ billed'[q] = billed[q]
             /\ \A n \in Nat : IdOf(q, n) \in meter' <=> IdOf(q, n) \in meter
        /\ \A n \in Nat : IdOf(p, n) \in meter' => n <= unitCount[p]
      BY <2>1, <2>2, <2>3, MeterSound, Zenon
  <2>5. /\ report' \in [Report -> ReportRecord]
        /\ report'[r].on = report[r].on /\ report'[r].todo = report[r].todo \ {p}
        /\ report'[r].sent = report[r].sent \cup {p}
        /\ \A q \in Report \ {r} : report'[q] = report[q]
      BY <1>0, <2>1, Zenon DEF UsageTypeOK, ReportRecord
  <2>6. UsageTypeOK'
      BY <1>0, <2>2, <2>4, <2>5, Zenon DEF UsageTypeOK
  <2>7. OneReport'
      BY <1>0, <2>1, <2>5 DEF OneReport
  <2>8. Pending(p)' /\ \A q \in Period \ {p} : Pending(q)' <=> Pending(q)
      BY <2>2, <2>5, Zenon DEF Pending
  <2>9. ASSUME NEW q \in Period PROVE CounterSound(q)'
    <3>1. CASE q = p
        BY <1>0, <2>2, <2>4, <3>1, Zenon DEF CounterSound, Counted
    <3>2. CASE q # p
        BY <1>0, <2>2, <2>4, <3>2, Zenon DEF CounterSound, Counted
    <3> QED BY <3>1, <3>2, Zenon
  <2>10. ASSUME NEW q \in Period \ slipped' PROVE BillSound(q)'
    <3>1. CASE q = p
        BY <2>2, <2>4, <2>8, <3>1, Zenon DEF BillSound
    <3>2. CASE q # p
      <4>1. unitCount[q] \in Nat
          BY <1>0, Zenon DEF UsageTypeOK
      <4> QED BY <1>0, <2>2, <2>4, <2>8, <3>2, <4>1, Zenon DEF BillSound
    <3> QED BY <3>1, <3>2, Zenon
  <2> QED BY <2>6, <2>7, <2>9, <2>10, Zenon DEF UsageInvariant
<1>4. ASSUME NEW r \in Report, Committed(r), UNCHANGED <<counted, unitCount, slipped>>,
             NEW p \in Period, unsure' \subseteq Period,
             \A q \in Period \ {p} : q \in unsure' <=> q \in unsure \ report[r].sent,
             \/ /\ UNCHANGED <<meter, billed>>
                /\ p \in unsure' <=> p \in unsure \ report[r].sent
             \/ MeterEvent(p) /\ p \in report[r].todo /\ p \in unsure',
             report[r].on
      PROVE  UsageInvariant'
  <2>1. /\ \A q \in Report : report'[q] = IF q = r THEN NoReport ELSE report[q]
        /\ \A q \in Report : q # r => report[q].sent = {} /\ report[q].todo = {}
        /\ report' \in [Report -> ReportRecord]
    <3>1. report' = [report EXCEPT ![r] = NoReport] /\ NoReport \in ReportRecord
        BY <1>4, Zenon DEF Committed, NoReport, ReportRecord
    <3>2. \A q \in Report : q # r => ~report[q].on
        BY <1>0, <1>4, Zenon DEF OneReport
    <3> QED BY <1>0, <3>1, <3>2, Zenon DEF UsageTypeOK, OneReport
  <2>2. /\ lastReported' \in [Period -> Nat]
        /\ \A q \in Period : lastReported'[q] =
              IF q \in report[r].sent THEN unitCount[q] ELSE lastReported[q]
        /\ \A q \in Period : lastReported[q] <= unitCount[q] /\ unitCount[q] \in Nat
                                /\ lastReported[q] \in Nat
      BY <1>0, <1>4, Zenon DEF Committed, UsageTypeOK, CounterSound
  <2>3. p \in report[r].todo => \A q \in Report : p \notin report[q].sent
      BY <1>0, <2>1, Zenon DEF OneReport
  <2>4. /\ billed' \in [Period -> Nat]
        /\ meter' \subseteq [period : Period, count : Nat]
        /\ \A q \in Period \ {p} :
             /\ billed'[q] = billed[q]
             /\ \A n \in Nat : IdOf(q, n) \in meter' <=> IdOf(q, n) \in meter
        /\ \A n \in Nat : IdOf(p, n) \in meter' => n <= unitCount[p]
        /\ \/ /\ UNCHANGED <<meter, billed>>
              /\ p \in unsure' <=> p \in unsure \ report[r].sent
           \/ /\ p \in unsure' /\ IdOf(p, unitCount[p]) \in meter'
              /\ p \notin slipped => billed'[p] = unitCount[p]
    <3>1. CASE MeterEvent(p) /\ p \in report[r].todo /\ p \in unsure'
        BY <1>4, <2>3, <3>1, MeterSound, Zenon
    <3>2. CASE UNCHANGED <<meter, billed>> /\ (p \in unsure' <=> p \in unsure \ report[r].sent)
        BY <1>0, <3>2, Zenon DEF UsageTypeOK, CounterSound
    <3> QED BY <1>4, <3>1, <3>2, Zenon
  <2>5. UsageTypeOK'
      BY <1>0, <1>4, <2>1, <2>2, <2>4, ZenonT(60) DEF UsageTypeOK
  <2>6. OneReport'
      BY <1>0, <2>1 DEF OneReport, NoReport
  <2>7. ASSUME NEW q \in Period PROVE Pending(q)' <=> q \in unsure'
      BY <2>1 DEF Pending, NoReport
  <2>8. ASSUME NEW q \in Period PROVE Pending(q) <=> q \in unsure \/ q \in report[r].sent
      BY <2>1, Zenon DEF Pending
  <2>9. ASSUME NEW q \in Period PROVE CounterSound(q)'
    <3>1. unitCount'[q] = Counted(q)' /\ lastReported'[q] <= unitCount'[q]
        BY <1>0, <1>4, <2>2 DEF CounterSound, Counted
    <3>2. \A n \in Nat : IdOf(q, n) \in meter' => n <= unitCount'[q]
      <4>1. CASE q = p
          BY <1>4, <2>4, <4>1, Zenon
      <4>2. CASE q # p
          BY <1>0, <1>4, <2>4, <4>2, Zenon DEF CounterSound
      <4> QED BY <4>1, <4>2, Zenon
    <3> QED BY <3>1, <3>2, ZenonT(60) DEF CounterSound
  <2>10. ASSUME NEW q \in Period \ slipped' PROVE BillSound(q)'
    <3>1. CASE q = p /\ ~UNCHANGED <<meter, billed>>
        BY <1>4, <2>4, <2>7, <3>1, Zenon DEF BillSound
    <3>2. CASE q # p \/ UNCHANGED <<meter, billed>>
      <4>1. /\ billed'[q] = billed[q]
            /\ \A n \in Nat : IdOf(q, n) \in meter' <=> IdOf(q, n) \in meter
          BY <2>4, <3>2
      <4>2. CASE p = q /\ p \in unsure' /\ IdOf(p, unitCount[p]) \in meter'
                 /\ (p \notin slipped => billed'[p] = unitCount[p])
          BY <1>4, <2>7, <4>2, Zenon DEF BillSound
      <4>3. CASE q \in unsure' <=> q \in unsure \ report[r].sent
        <5>0. BillSound(q) /\ CounterSound(q) /\ unitCount[q] \in Nat /\ unitCount' = unitCount
            BY <1>0, <1>4, <2>2, Zenon
        <5>1. CASE q \in report[r].sent
            BY <5>0, <5>1, <4>1, <4>3, <2>2, <2>7, <2>8, Zenon DEF BillSound, CounterSound
        <5>2. CASE q \notin report[r].sent
            BY <5>0, <5>2, <4>1, <4>3, <2>2, <2>7, <2>8, Zenon DEF BillSound
        <5> QED BY <5>1, <5>2, Zenon
      <4> QED BY <1>4, <2>4, <4>2, <4>3, Zenon
    <3> QED BY <3>1, <3>2, Zenon
  <2> QED BY <2>5, <2>6, <2>9, <2>10, Zenon DEF UsageInvariant
<1>5. ASSUME NEW r \in Report, FinishReport(r) PROVE UsageInvariant'
  <2>1. CASE Period = {}
    <3>1. UsageTypeOK'
      <4>1. NoReport \in ReportRecord
          BY ZenonT(30) DEF NoReport, ReportRecord
      <4> QED BY <1>0, <1>5, <2>1, <4>1, Zenon DEF FinishReport, Committed, UsageTypeOK
    <3>2. OneReport'
        BY <1>0, <1>5 DEF FinishReport, Committed, UsageTypeOK, OneReport, NoReport
    <3> QED BY <2>1, <3>1, <3>2, Zenon DEF UsageInvariant
  <2>2. ASSUME NEW p \in Period PROVE UsageInvariant'
    <3>1. unsure' \subseteq Period
        BY <1>0, <1>5, Zenon DEF FinishReport, UsageTypeOK
    <3> QED BY <1>4, <1>5, <2>2, <3>1, Zenon DEF FinishReport
  <2> QED BY <2>1, <2>2, Zenon
<1>6. ASSUME NEW r \in Report, StripeError(r) PROVE UsageInvariant'
  <2>1. PICK p \in Period :
          /\ p \in report[r].todo
          /\ \/ UNCHANGED <<meter, billed>> /\ unsure' = unsure \ report[r].sent
             \/ MeterEvent(p) /\ unsure' = (unsure \ report[r].sent) \cup {p}
      BY <1>6 DEF StripeError, NextToSend
  <2>2. unsure' \subseteq Period /\ report[r].on
      BY <1>0, <2>1, Zenon DEF UsageTypeOK, OneReport, ReportRecord
  <2> QED BY <1>4, <1>6, <2>1, <2>2, ZenonT(30) DEF StripeError
<1>7. ASSUME NEW r \in Report, ReportDies(r) PROVE UsageInvariant'
  <2>1. /\ report[r].on /\ report' = [report EXCEPT ![r] = NoReport]
        /\ unsure' = unsure \cup report[r].sent
        /\ UNCHANGED <<counted, unitCount, lastReported, meter, billed, slipped>>
      BY <1>7, ZenonT(30) DEF ReportDies
  <2>2. /\ \A q \in Report : report'[q] = IF q = r THEN NoReport ELSE report[q]
        /\ report' \in [Report -> ReportRecord]
    <3>1. NoReport \in ReportRecord
        BY Zenon DEF NoReport, ReportRecord
    <3> QED BY <1>0, <2>1, <3>1, Zenon DEF UsageTypeOK
  <2>3. UsageTypeOK'
      BY <1>0, <2>1, <2>2, Zenon DEF UsageTypeOK, ReportRecord
  <2>4. OneReport'
      BY <1>0, <2>2 DEF OneReport, NoReport
  <2>5. \A p \in Period : Pending(p)' <=> Pending(p)
      BY <2>1, <2>2, Zenon DEF Pending, NoReport
  <2>6. \A p \in Period : CounterSound(p)'
      BY <1>0, <2>1, Zenon DEF CounterSound, Counted
  <2>7. \A p \in Period \ slipped' : BillSound(p)'
      BY <1>0, <2>1, <2>5, Zenon DEF BillSound
  <2> QED BY <2>3, <2>4, <2>6, <2>7, Zenon DEF UsageInvariant
<1>8. CASE UNCHANGED usageVars
    BY <1>0, <1>8, Zenon DEF usageVars, UsageInvariant, UsageTypeOK, OneReport, CounterSound,
                      BillSound, Pending, Counted
<1> QED BY <1>1, <1>2, <1>3, <1>5, <1>6, <1>7, <1>8, Zenon DEF UsageNext

\* Stripe bills at least what the counter says was reported and at most the
\* events counted, for any events, periods and concurrent reports, unless an
\* event whose answer was lost slipped under a new identifier.
THEOREM BillsAreCounted == UsageSpec => []BilledAsCounted
<1>1. UsageInit => UsageInvariant
    BY UsageInitial, Zenon
<1>2. UsageInvariant /\ [UsageNext]_usageVars => UsageInvariant'
    BY UsageStep, Zenon
<1>3. UsageInvariant => BilledAsCounted
  <2> SUFFICES ASSUME UsageInvariant, NEW p \in Period \ slipped
               PROVE  lastReported[p] <= billed[p] /\ billed[p] <= Counted(p)
      BY Zenon DEF BilledAsCounted
  <2>1. /\ CounterSound(p) /\ BillSound(p)
        /\ lastReported[p] \in Nat /\ billed[p] \in Nat /\ unitCount[p] \in Nat
      BY DEF UsageInvariant, UsageTypeOK
  <2> QED BY <2>1, SMTT(30) DEF CounterSound, BillSound
<1> QED BY <1>1, <1>2, <1>3, PTL DEF UsageSpec
=============================================================================

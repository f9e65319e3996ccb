----------------------------- MODULE TwinProofs ------------------------------
(***************************************************************************)
(* The legacy rows, the canonical rows and the chain of Ingest stay paired *)
(* through every step of a session, for any number of sessions and events. *)
(***************************************************************************)
EXTENDS IngestProofs

(***************************************************************************)
(* Every session's view of the stores is paired but for the canonical rows *)
(* its loops have still to write (Awaiting); what it will charge or report *)
(* is in its chain; and what it adds under the id of a chain row that is   *)
(* already committed is in the canonical store too, whatever retention     *)
(* deletes meanwhile (Fresh).                                              *)
(***************************************************************************)
Awaiting(r) ==
  {c \in Content :
     \/ r.pc = "batch" /\ \E k \in 1..(r.i - 1) : r.events[k] = c
     \/ r.pc = "canon" /\ \E k \in r.i..Len(r.events) : r.events[k] = c}

Fresh(d) ==
  \A t \in d.legacy \cup d.canon : InChain(chain, t.id) => InChain(canon, t.id)

Sound(r) ==
  /\ Paired(View(r.tx), Awaiting(r))
  /\ WebhookChained(r.seen, View(r.tx).chain)
  /\ \A id \in r.billable : InChain(View(r.tx).chain, id)
  /\ \A k \in 1..Len(r.ids) : InChain(View(r.tx).chain, r.ids[k])
  /\ Fresh(r.tx)
  /\ r.pc = "billing" => r.tx = Nothing

PairsOK == Paired(Committed, {}) /\ \A s \in Session : Sound(sess[s])

LEMMA MoreChained ==
  ASSUME NEW R, NEW T, R \subseteq T
  PROVE  /\ \A id : InChain(R, id) => InChain(T, id)
         /\ \A E : WebhookChained(E, R) => WebhookChained(E, T)
BY DEF InChain, WebhookChained

(***************************************************************************)
(* A step of one session that commits nothing.                             *)
(***************************************************************************)
LEMMA SoundStep ==
  ASSUME StoresOK, PairsOK, NEW s \in Session, NEW r, Sound(r),
         sess' = [sess EXCEPT ![s] = r], UNCHANGED tables
  PROVE  PairsOK'
<1>1. sess \in [Session -> SessionState]
  BY DEF StoresOK
<1>2. UNCHANGED <<legacy, canon, chain>>
  BY DEF tables
<1>3. sess'[s] = r /\ \A t \in Session \ {s} : sess'[t] = sess[t]
  BY <1>1
<1>4. Paired(Committed, {})'
  BY <1>2, Zenon DEF PairsOK, Committed, View
<1>5. ASSUME NEW t \in Session
      PROVE  Sound(sess[t])'
  <2>1. Sound(sess'[t])
    BY <1>3, Zenon DEF PairsOK
  <2> QED
    BY <1>2, <2>1 DEF Sound, View, Fresh
<1> QED
  BY <1>4, <1>5, Zenon DEF PairsOK

LEMMA EmptyIsSound ==
  ASSUME StoresOK, PairsOK, NEW r, r.pc \notin {"batch", "canon"}, r.tx = Nothing,
         r.seen = {}, r.ids = << >>, r.billable = {}
  PROVE  Sound(r)
<1>1. Awaiting(r) = {}
  BY DEF Awaiting
<1>2. Fresh(Nothing)
  BY DEF Fresh, Nothing
<1> QED
  BY <1>1, <1>2, Len(<< >>) = 0 DEF Sound, PairsOK, Committed, WebhookChained

LEMMA IdleFields ==
  /\ IdleSession.pc = "idle" /\ IdleSession.tx = Nothing /\ IdleSession.seen = {}
  /\ IdleSession.ids = << >> /\ IdleSession.billable = {} /\ IdleSession.claim = 0
BY Zenon DEF IdleSession

(***************************************************************************)
(* What the loops still owe after one more event.                          *)
(***************************************************************************)
LEMMA AwaitingNext ==
  ASSUME NEW r \in SessionState, r.i <= Len(r.events),
         NEW next \in {"canon", "commit"}, NEW a, a = Advance(r, next)
  PROVE  /\ r.pc \notin {"batch", "canon"} => Awaiting(r) = {}
         /\ r.pc \notin {"batch", "canon"} /\ next = "commit" => Awaiting(a) = {}
         /\ r.pc = "canon" /\ next = "commit" =>
              \A x \in Awaiting(r) : x \in Awaiting(a) \/ x = r.events[r.i]
         /\ r.pc = "batch" /\ next = "canon" =>
              Awaiting(r) \subseteq Awaiting(a) /\ r.events[r.i] \in Awaiting(a)
<1>1. /\ a.events = r.events
      /\ \/ a.pc = r.pc /\ a.i = r.i + 1 /\ a.i <= Len(r.events)
         \/ a.pc = next /\ a.i = 1 /\ r.i = Len(r.events)
  BY AdvanceMoves
<1>2. r.i \in Nat \ {0} /\ Len(r.events) \in Nat
  BY DEF SessionState
<1>3. r.pc \notin {"batch", "canon"} => Awaiting(r) = {}
  BY DEF Awaiting
<1>4. r.pc \notin {"batch", "canon"} /\ next = "commit" => Awaiting(a) = {}
  BY <1>1, Zenon DEF Awaiting
<1>5. ASSUME r.pc = "canon", next = "commit", NEW x \in Awaiting(r)
      PROVE  x \in Awaiting(a) \/ x = r.events[r.i]
  <2>1. PICK k \in r.i..Len(r.events) : r.events[k] = x
    BY <1>5, Zenon DEF Awaiting
  <2>2. x \in Content
    BY DEF Awaiting
  <2>3. CASE k = r.i
    BY <2>1, <2>3, Zenon
  <2>4. CASE k # r.i
    <3>1. a.pc = "canon" /\ k \in a.i..Len(a.events) /\ a.events[k] = x
      BY <2>1, <2>4, <1>1, <1>2, <1>5
    <3> QED
      BY <3>1, <2>2, Zenon DEF Awaiting
  <2> QED
    BY <2>3, <2>4, Zenon
<1>6. ASSUME r.pc = "batch", next = "canon"
      PROVE  Awaiting(r) \subseteq Awaiting(a) /\ r.events[r.i] \in Awaiting(a)
  <2>1. r.events[r.i] \in Content
    BY <1>2 DEF SessionState
  <2>2. \A k \in 1..r.i : \/ a.pc = "batch" /\ k \in 1..(a.i - 1)
                          \/ a.pc = "canon" /\ k \in a.i..Len(a.events)
    BY <1>1, <1>2, <1>6
  <2>3. \A x \in Content : (\E k \in 1..r.i : r.events[k] = x) => x \in Awaiting(a)
    BY <2>2, <1>1, Zenon DEF Awaiting
  <2>4. \A x \in Awaiting(r) : x \in Content /\ \E k \in 1..r.i : r.events[k] = x
    BY <1>2, <1>6 DEF Awaiting
  <2>5. r.i \in 1..r.i
    BY <1>2
  <2> QED
    BY <2>1, <2>3, <2>4, <2>5, Zenon
<1> QED
  BY <1>3, <1>4, <1>5, <1>6, Zenon

(***************************************************************************)
(* A transaction that adds rows stays fresh when the new ids are, or when  *)
(* a canonical row is added that matches its chain row.                    *)
(***************************************************************************)
LEMMA FreshMerge ==
  ASSUME NEW d \in Rows, NEW new \in Rows, Fresh(d), Fresh(new)
  PROVE  Fresh(Merge(d, new))
BY MergeRows DEF Fresh

LEMMA NewIdIsFresh ==
  ASSUME StoresOK, NEW n \in Nat, minted < n
  PROVE  ~InChain(chain, n)
<1>1. \A q \in chain : q.id \in 1..minted
  BY CommittedRows DEF StoresOK, Good, IdsUpTo
<1>2. minted \in Nat
  BY DEF StoresOK
<1> QED
  BY <1>1, <1>2 DEF InChain

LEMMA TwinIsFresh ==
  ASSUME StoresOK, PairsOK, NEW v, canon \subseteq v.canon, chain \subseteq v.chain,
         NEW id, NEW c \in Content, ~HasKey(v.canon, KeyInCanon("webhook", c)),
         \A q \in v.chain : q.id = id => q.sha = Digest("canonical", id, c)
  PROVE  InChain(chain, id) => InChain(canon, id)
<1> SUFFICES ASSUME NEW q \in chain, q.id = id
             PROVE  InChain(canon, id)
  BY DEF InChain
<1>1. q.sha.form = "canonical" /\ q.sha.content = c
  BY DEF Digest
<1>2. ChainTwinned(Committed, {}) /\ Committed.chain = chain /\ Committed.canon = canon
  BY CommittedRows DEF PairsOK, Paired
<1>3. InChain(canon, q.id) \/ HasKey(canon, KeyInCanon("webhook", c))
  BY <1>1, <1>2, Zenon DEF ChainTwinned
<1> QED
  BY <1>3, Zenon DEF HasKey

(***************************************************************************)
(* A step that handles one event of a request and moves on.                *)
(***************************************************************************)
LEMMA SoundAdvance ==
  ASSUME StoresOK, PairsOK, NEW s \in Session, NEW r \in SessionState,
         r.i = sess[s].i, r.events = sess[s].events, r.ids = sess[s].ids,
         r.seen = sess[s].seen, r.pc = sess[s].pc, r.pc \in {"ready", "canon", "fallback"},
         NEW a, a = Advance(r, "commit"), Paired(View(r.tx), Awaiting(a)),
         MyView(s).chain \subseteq View(r.tx).chain,
         \A id \in r.billable : InChain(View(r.tx).chain, id), Fresh(r.tx),
         sess' = [sess EXCEPT ![s] = a], UNCHANGED tables
  PROVE  PairsOK'
<1>1. InRange(sess[s]) /\ Sound(sess[s])
  BY Zenon DEF StoresOK, PairsOK
<1>2. r.i <= Len(r.events)
  BY <1>1, Zenon DEF InRange
<1>3. /\ a.tx = r.tx /\ a.seen = r.seen /\ a.ids = r.ids /\ a.billable = r.billable
      /\ a.pc \in {r.pc, "commit"}
  BY <1>2, AdvanceMoves
<1>4. WebhookChained(a.seen, View(a.tx).chain)
  BY <1>1, <1>3, MoreChained, Zenon DEF Sound, MyView
<1>5. \A k \in 1..Len(a.ids) : InChain(View(a.tx).chain, a.ids[k])
  BY <1>1, <1>3, MoreChained, ZenonT(30) DEF Sound, MyView
<1>6. Sound(a)
  BY <1>3, <1>4, <1>5 DEF Sound
<1> QED
  BY <1>6, SoundStep, Zenon

LEMMA ReceiveSound ==
  ASSUME StoresOK, PairsOK, NEW s \in Session, Receive(s)
  PROVE  PairsOK'
<1>1. PICK kind \in {"webhook", "compat", "epcis", "portal"}, events \in Batches :
        sess' = [sess EXCEPT ![s] = [IdleSession EXCEPT
                   !.pc = "ready", !.kind = kind, !.events = events]]
  BY ZenonT(30) DEF Receive
<1> DEFINE r == [IdleSession EXCEPT !.pc = "ready", !.kind = kind, !.events = events]
<1>2. /\ r.pc = "ready" /\ r.tx = Nothing /\ r.seen = {} /\ r.ids = << >> /\ r.billable = {}
  BY DEF IdleSession
<1>3. sess' = [sess EXCEPT ![s] = r] /\ UNCHANGED tables
  BY <1>1, Zenon DEF Receive
<1> HIDE DEF r
<1>4. Sound(r)
  BY <1>2, EmptyIsSound, Zenon
<1> QED
  BY <1>3, <1>4, SoundStep, Zenon

LEMMA BeginBatchSound ==
  ASSUME StoresOK, PairsOK, NEW s \in Session, BeginBatch(s)
  PROVE  PairsOK'
<1> DEFINE r == [sess[s] EXCEPT !.pc = "batch", !.seen = legacy]
           v == MyView(s)
<1>1. sess[s] \in SessionState /\ v.legacy = legacy \cup sess[s].tx.legacy
  BY InTransaction, Zenon
<1>2. /\ r.pc = "batch" /\ r.seen = legacy /\ r.tx = sess[s].tx /\ r.ids = sess[s].ids
      /\ r.billable = sess[s].billable
  BY <1>1, Zenon DEF SessionState
<1>3. sess' = [sess EXCEPT ![s] = r] /\ UNCHANGED tables /\ sess[s].pc = "ready"
  BY Zenon DEF BeginBatch
<1> HIDE DEF r
<1>4. Sound(sess[s]) /\ View(r.tx) = v
  BY <1>2, Zenon DEF PairsOK, MyView
<1>5. Paired(v, {})
  <2>1. Awaiting(sess[s]) = {}
    BY <1>3, Zenon DEF Awaiting
  <2> QED
    BY <2>1, <1>4, Zenon DEF Sound, MyView
<1>6. Paired(v, Awaiting(r))
  BY <1>5, PairedGrows, Zenon
<1>7. WebhookChained(r.seen, v.chain)
  BY <1>1, <1>2, <1>5, Zenon DEF Paired, WebhookChained
<1> HIDE DEF v
<1>8. Sound(r)
  BY <1>2, <1>4, <1>6, <1>7 DEF Sound
<1> QED
  BY <1>3, <1>8, SoundStep, Zenon

(***************************************************************************)
(* The rows a session knows of: those it read before its first insert, and *)
(* its own.                                                                *)
(***************************************************************************)
LEMMA KnownAreChained ==
  ASSUME PairsOK, StoresOK, NEW s \in Session
  PROVE  /\ WebhookChained(sess[s].seen \cup sess[s].tx.legacy, MyView(s).chain)
         /\ WebhookChained(MyView(s).legacy, MyView(s).chain)
         /\ Paired(MyView(s), Awaiting(sess[s])) /\ Fresh(sess[s].tx)
         /\ canon \subseteq MyView(s).canon /\ chain \subseteq MyView(s).chain
<1>1. Sound(sess[s])
  BY Zenon DEF PairsOK
<1>2. sess[s].tx \in Rows /\ MyView(s).legacy = legacy \cup sess[s].tx.legacy
  BY InTransaction, Zenon
<1>3. MyView(s).canon = canon \cup sess[s].tx.canon /\ MyView(s).chain = chain \cup sess[s].tx.chain
  BY <1>2, ViewRows, Zenon DEF MyView
<1>4. WebhookChained(MyView(s).legacy, MyView(s).chain)
  BY <1>1, Zenon DEF Sound, Paired, MyView
<1>5. WebhookChained(sess[s].seen, MyView(s).chain)
  BY <1>1, Zenon DEF Sound, MyView
<1>6. WebhookChained(sess[s].seen \cup sess[s].tx.legacy, MyView(s).chain)
  BY <1>2, <1>4, <1>5, Zenon DEF WebhookChained
<1> QED
  BY <1>1, <1>3, <1>4, <1>6, Zenon DEF Sound, MyView

LEMMA StoreEventsBatchSound ==
  ASSUME StoresOK, PairsOK, NEW s \in Session, StoreEventsBatch(s)
  PROVE  PairsOK'
<1> DEFINE v == MyView(s)
           c == Current(s)
           known == sess[s].seen \cup sess[s].tx.legacy
           id == StoredId(known, minted + 1, "webhook", c)
           new == StoreEvent(v, known, minted + 1, "webhook", c, "canonical")
           w == Merge(v, new)
           r == [sess[s] EXCEPT !.tx = Merge(sess[s].tx, new),
                                !.ids = Append(sess[s].ids, id)]
           a == Advance(r, "canon")
<1>1. /\ sess[s].pc = "batch" /\ sess' = [sess EXCEPT ![s] = a] /\ UNCHANGED tables
  BY DEF StoreEventsBatch
<1>2. /\ minted \in Nat /\ sess[s] \in SessionState /\ sess[s].tx \in Rows
      /\ InRange(sess[s]) /\ v \in Rows /\ Good(v, minted)
      /\ v.legacy = legacy \cup sess[s].tx.legacy /\ c \in Content
  BY <1>1, InTransaction, Zenon
<1>3. /\ legacy \subseteq sess[s].seen /\ IdsMinted(sess[s], minted)
  BY <1>1, Zenon DEF StoresOK, SessionInv
<1>4. /\ WebhookChained(known, v.chain) /\ Paired(v, Awaiting(sess[s])) /\ Fresh(sess[s].tx)
  BY KnownAreChained, Zenon
<1>5. c = sess[s].events[sess[s].i]
  BY Zenon DEF Current
<1> HIDE DEF v, c
<1>6. v.legacy \subseteq known
  BY <1>2, <1>3
<1>7. \A e \in known : e.id \in 1..minted
  BY ZenonT(30), <1>2, <1>3 DEF IdsMinted, Good, IdsUpTo
<1> HIDE DEF known, a
<1>8. new \in Rows /\ id \in Nat
  <2>1. "webhook" \in Source /\ "canonical" \in {"legacy", "canonical"}
    BY DEF Source
  <2>2. new \in Rows
    BY <1>2, <1>6, <2>1, StoreEventKeepsGood, Zenon
  <2>3. id \in 1..(IF new = Nothing THEN minted ELSE minted + 1)
    BY SMTT(60), <1>2, <1>6, <1>7, <2>1, StoreEventStep
  <2> QED
    BY <1>2, <2>2, <2>3
<1>9. /\ r \in SessionState /\ r.tx = Merge(sess[s].tx, new) /\ r.pc = "batch"
      /\ r.ids = Append(sess[s].ids, id) /\ r.seen = sess[s].seen
      /\ r.i = sess[s].i /\ r.events = sess[s].events /\ r.billable = sess[s].billable
  <2> HIDE DEF new, id
  <2>1. sess[s].ids \in Seq(Nat)
    BY <1>2 DEF SessionState
  <2>2. Append(sess[s].ids, id) \in Seq(Nat) /\ Merge(sess[s].tx, new) \in Rows
    BY <1>2, <1>8, <2>1, MergeRows
  <2>3. r \in SessionState
    BY ZenonT(30), <1>2, <2>2 DEF SessionState
  <2> QED
    BY <2>3, <1>1, <1>2, Zenon DEF SessionState
<1>10. Awaiting(r) = Awaiting(sess[s])
  BY <1>1, <1>9, Zenon DEF Awaiting
<1> HIDE DEF r
<1>11. r.i <= Len(r.events)
  BY <1>1, <1>2, <1>9, Zenon DEF InRange
<1>12. /\ a.tx = r.tx /\ a.seen = r.seen /\ a.ids = r.ids /\ a.billable = r.billable
       /\ a.pc \in {"batch", "canon"}
  BY <1>9, <1>11, AdvanceMoves DEF a
<1>13. Awaiting(sess[s]) \subseteq Awaiting(a) /\ c \in Awaiting(a)
  BY <1>5, <1>9, <1>10, <1>11, AwaitingNext, Zenon DEF a
<1>14. /\ Paired(w, Awaiting(a)) /\ v.chain \subseteq w.chain /\ InChain(w.chain, id)
       /\ new.canon = {} /\ \A e \in new.legacy : e.id = minted + 1
  <2> DEFINE U == Awaiting(a)
  <2>1. "webhook" \in {"webhook", "epcis"} /\ "canonical" \in {"legacy", "canonical"}
    OBVIOUS
  <2>2. Paired(v, U) /\ c \in U
    BY <1>4, <1>13, PairedGrows, Zenon
  <2>3. /\ new = StoreEvent(v, known, minted + 1, "webhook", c, "canonical")
        /\ w = Merge(v, new) /\ id = StoredId(known, minted + 1, "webhook", c)
    BY Zenon
  <2> HIDE DEF U, new, w, id
  <2>4. StoreCall(v, minted, U, known, "webhook", c, "canonical", new, w, id)
    BY <1>2, <1>4, <1>6, <2>1, <2>2, <2>3, Zenon DEF StoreCall
  <2> QED
    BY <2>4, StoreEventPaired DEF U
<1> HIDE DEF new, id
<1>15. View(a.tx) = w
  BY <1>2, <1>8, <1>9, <1>12, ViewMerge DEF MyView, v
<1> HIDE DEF w
<1>16. Fresh(a.tx)
  <2>1. ~InChain(chain, minted + 1)
    BY <1>2, NewIdIsFresh
  <2>2. Fresh(new)
    BY <1>14, <2>1, Zenon DEF Fresh
  <2> QED
    BY <1>2, <1>4, <1>8, <1>9, <1>12, <2>2, FreshMerge
<1>17. Sound(sess[s])
  BY DEF PairsOK
<1>18. /\ WebhookChained(a.seen, w.chain)
       /\ \A x \in a.billable : InChain(w.chain, x)
       /\ \A k \in 1..Len(sess[s].ids) : InChain(w.chain, sess[s].ids[k])
  BY <1>9, <1>12, <1>14, <1>17, MoreChained, Zenon DEF Sound, MyView, v
<1>19. \A k \in 1..Len(a.ids) : InChain(w.chain, a.ids[k])
  <2>1. sess[s].ids \in Seq(Nat)
    BY <1>2 DEF SessionState
  <2>2. /\ Len(a.ids) = Len(sess[s].ids) + 1
        /\ \A k \in 1..Len(sess[s].ids) : a.ids[k] = sess[s].ids[k]
        /\ a.ids[Len(sess[s].ids) + 1] = id
    BY <2>1, <1>8, <1>9, <1>12
  <2>3. Len(sess[s].ids) \in Nat
    BY <2>1
  <2>4. \A k \in 1..(Len(sess[s].ids) + 1) :
          k \in 1..Len(sess[s].ids) \/ k = Len(sess[s].ids) + 1
    BY <2>3
  <2> QED
    BY <1>14, <1>18, <2>2, <2>4, Zenon
<1>20. Sound(a)
  BY <1>12, <1>14, <1>15, <1>16, <1>18, <1>19, Zenon DEF Sound
<1> QED
  BY <1>1, <1>20, SoundStep, Zenon

LEMMA PersistCanonicalSound ==
  ASSUME StoresOK, PairsOK, NEW s \in Session, PersistCanonical(s)
  PROVE  PairsOK'
<1> DEFINE v == MyView(s)
           c == Current(s)
           id == sess[s].ids[sess[s].i]
           new == PersistEvent(v, id, "webhook", c, {})
           w == Merge(v, new)
           r == [sess[s] EXCEPT !.tx = Merge(sess[s].tx, new),
                                !.billable = sess[s].billable \cup {id}]
           a == Advance(r, "commit")
<1>1. /\ sess[s].pc = "canon" /\ ~LedgerMismatch(v, id, "webhook", c)
      /\ sess' = [sess EXCEPT ![s] = a] /\ UNCHANGED tables
  BY Zenon DEF PersistCanonical
<1>2. /\ minted \in Nat /\ sess[s] \in SessionState /\ sess[s].tx \in Rows
      /\ InRange(sess[s]) /\ v \in Rows /\ Good(v, minted) /\ c \in Content
  BY <1>1, InTransaction, Zenon
<1>3. /\ Paired(v, Awaiting(sess[s])) /\ Fresh(sess[s].tx)
      /\ canon \subseteq v.canon /\ chain \subseteq v.chain
  BY KnownAreChained, Zenon
<1>4. c = sess[s].events[sess[s].i]
  BY DEF Current
<1>5. sess[s].i \in 1..Len(sess[s].ids)
  BY <1>1, <1>2 DEF InRange, SessionState
<1>6. id \in 1..minted
  BY <1>5, Zenon DEF StoresOK, SessionInv, IdsMinted
<1>7. Sound(sess[s])
  BY DEF PairsOK
<1>8. InChain(v.chain, id)
  BY <1>5, <1>7, Zenon DEF Sound, MyView
<1>9. \A x \in sess[s].billable : InChain(v.chain, x)
  BY <1>7, Zenon DEF Sound, MyView
<1> HIDE DEF v, c, id, a
<1>10. new \in Rows
  <2>1. "webhook" \in Source
    BY DEF Source
  <2> QED
    BY <1>2, <1>6, <2>1, PersistTwinKeepsGood, Zenon
<1>11. /\ r \in SessionState /\ r.tx = Merge(sess[s].tx, new) /\ r.pc = "canon"
       /\ r.ids = sess[s].ids /\ r.seen = sess[s].seen
       /\ r.i = sess[s].i /\ r.events = sess[s].events
       /\ r.billable = sess[s].billable \cup {id}
  <2> HIDE DEF new
  <2>1. sess[s].billable \cup {id} \in SUBSET Nat /\ Merge(sess[s].tx, new) \in Rows
    BY <1>2, <1>6, <1>10, MergeRows DEF SessionState
  <2>2. r \in SessionState
    BY ZenonT(30), <1>2, <2>1 DEF SessionState
  <2> QED
    BY <2>2, <1>1, <1>2, Zenon DEF SessionState
<1>12. Awaiting(r) = Awaiting(sess[s])
  BY <1>1, <1>11, Zenon DEF Awaiting
<1> HIDE DEF r
<1>13. r.i <= Len(r.events)
  BY <1>1, <1>2, <1>11, Zenon DEF InRange
<1>14. \A x \in Awaiting(sess[s]) : x \in Awaiting(a) \/ x = c
  BY <1>4, <1>11, <1>12, <1>13, AwaitingNext, Zenon DEF a
<1>15. /\ Paired(w, Awaiting(a)) /\ w.chain = v.chain /\ new.legacy = {}
       /\ \A t \in new.canon :
            /\ t.id = id /\ ~HasKey(v.canon, KeyInCanon("webhook", c))
            /\ \A q \in v.chain : q.id = id => q.sha = Digest("canonical", id, c)
  <2>1. "webhook" \in Source
    BY DEF Source
  <2> DEFINE W == Awaiting(sess[s])
             U == Awaiting(a)
  <2>2. \A x \in W : x \in U \/ (x = c /\ "webhook" = "webhook")
    BY <1>14, Zenon
  <2>3. new = PersistEvent(v, id, "webhook", c, {}) /\ w = Merge(v, new) /\ Paired(v, W)
    BY <1>3, Zenon
  <2> HIDE DEF W, U, new, w
  <2>4. TwinCall(v, minted, id, W, U, "webhook", c, new, w)
    BY <1>1, <1>2, <1>6, <2>1, <2>2, <2>3, Zenon DEF TwinCall
  <2> QED
    BY <2>4, PersistTwinPaired DEF U
<1> HIDE DEF new
<1>16. View(r.tx) = w
  BY <1>2, <1>10, <1>11, ViewMerge, Zenon DEF MyView, v
<1> HIDE DEF w
<1>17. Fresh(r.tx)
  <2>1. \A t \in new.canon : InChain(chain, t.id) => InChain(canon, t.id)
    BY <1>2, <1>3, <1>15, TwinIsFresh, Zenon
  <2>2. Fresh(new)
    BY <1>15, <2>1, Zenon DEF Fresh
  <2> QED
    BY <1>2, <1>3, <1>10, <1>11, <2>2, FreshMerge, Zenon
<1>18. \A x \in r.billable : InChain(View(r.tx).chain, x)
  BY <1>8, <1>9, <1>11, <1>15, <1>16, Zenon
<1>19. MyView(s).chain \subseteq View(r.tx).chain /\ Paired(View(r.tx), Awaiting(a))
  BY <1>15, <1>16, Zenon DEF v
<1> QED
  BY <1>1, <1>11, <1>17, <1>18, <1>19, SoundAdvance, Zenon DEF a

LEMMA FallBackSound ==
  ASSUME StoresOK, PairsOK, NEW s \in Session, FallBack(s)
  PROVE  PairsOK'
<1> DEFINE r == [sess[s] EXCEPT !.pc = "fallback", !.i = 1, !.seen = {}, !.ids = <<>>,
                                !.tx = Nothing, !.billable = {}]
<1>1. sess[s] \in SessionState
  BY InTransaction, Zenon
<1>2. /\ r.pc = "fallback" /\ r.tx = Nothing /\ r.seen = {} /\ r.ids = << >> /\ r.billable = {}
  BY <1>1, Zenon DEF SessionState
<1>3. sess' = [sess EXCEPT ![s] = r] /\ UNCHANGED tables
  BY Zenon DEF FallBack
<1> HIDE DEF r
<1>4. Sound(r)
  BY <1>2, EmptyIsSound, Zenon
<1> QED
  BY <1>3, <1>4, SoundStep, Zenon

LEMMA RollbackSound ==
  ASSUME StoresOK, PairsOK, NEW s \in Session, Rollback(s)
  PROVE  PairsOK'
<1>1. Sound(IdleSession)
  BY IdleFields, EmptyIsSound, Zenon
<1> QED
  BY <1>1, SoundStep, Zenon DEF Rollback

LEMMA SkipSinglySound ==
  ASSUME StoresOK, PairsOK, NEW s \in Session, SkipSingly(s)
  PROVE  PairsOK'
<1> DEFINE a == Advance(sess[s], "commit")
<1>1. /\ sess[s].pc \in {"ready", "fallback"}
      /\ sess' = [sess EXCEPT ![s] = a] /\ UNCHANGED tables
  BY Zenon DEF SkipSingly
<1>2. sess[s] \in SessionState /\ InRange(sess[s]) /\ Sound(sess[s])
  BY InTransaction DEF PairsOK
<1>3. sess[s].i <= Len(sess[s].events)
  BY <1>1, <1>2, Zenon DEF InRange
<1>4. Awaiting(a) = {} /\ Awaiting(sess[s]) = {}
  BY <1>1, <1>2, <1>3, AwaitingNext, Zenon
<1> HIDE DEF a
<1>5. /\ Paired(View(sess[s].tx), Awaiting(a)) /\ Fresh(sess[s].tx)
      /\ \A x \in sess[s].billable : InChain(View(sess[s].tx).chain, x)
      /\ MyView(s).chain \subseteq View(sess[s].tx).chain
  BY <1>2, <1>4 DEF Sound, MyView
<1> QED
  BY <1>1, <1>2, <1>5, SoundAdvance, ZenonT(30) DEF a

LEMMA StoreSinglySound ==
  ASSUME StoresOK, PairsOK, NEW s \in Session, StoreSingly(s)
  PROVE  PairsOK'
<1> DEFINE v == MyView(s)
           c == Current(s)
           id == StoredId(v.legacy, minted + 1, "webhook", c)
           new == StoreEvent(v, v.legacy, minted + 1, "webhook", c, "canonical")
           w == Merge(v, new)
           twin == PersistEvent(w, id, "webhook", c, {})
           x == Merge(w, twin)
           r == [sess[s] EXCEPT !.tx = Merge(Merge(sess[s].tx, new), twin),
                                !.billable = sess[s].billable \cup {id}]
           a == Advance(r, "commit")
<1>1. /\ sess[s].pc = "fallback" /\ ~LedgerMismatch(w, id, "webhook", c)
      /\ sess' = [sess EXCEPT ![s] = a] /\ UNCHANGED tables
  BY Zenon DEF StoreSingly
<1>2. /\ minted \in Nat /\ sess[s] \in SessionState /\ sess[s].tx \in Rows
      /\ InRange(sess[s]) /\ v \in Rows /\ Good(v, minted) /\ c \in Content
  BY <1>1, InTransaction, Zenon
<1>3. /\ Paired(v, Awaiting(sess[s])) /\ Fresh(sess[s].tx) /\ WebhookChained(v.legacy, v.chain)
      /\ canon \subseteq v.canon /\ chain \subseteq v.chain
  BY KnownAreChained, Zenon
<1>4. Sound(sess[s]) /\ \A y \in sess[s].billable : InChain(v.chain, y)
  BY Zenon DEF PairsOK, Sound, MyView
<1>5. Paired(v, {})
  <2>1. Awaiting(sess[s]) = {}
    BY <1>1, Zenon DEF Awaiting
  <2> QED
    BY <2>1, <1>3, Zenon
<1>6. "webhook" \in Source /\ "webhook" \in {"webhook", "epcis"}
      /\ "canonical" \in {"legacy", "canonical"}
  BY DEF Source
<1> HIDE DEF v, c, a
<1>7. \A e \in v.legacy : e.id \in 1..minted
  BY <1>2, Zenon DEF Good, IdsUpTo
<1>8. PICK m \in Nat : m <= minted + 1 /\ new \in Rows /\ w \in Rows /\ Good(w, m) /\ id \in 1..m
  <2>1. (IF new = Nothing THEN minted ELSE minted + 1) \in Nat
    BY <1>2
  <2>2. (IF new = Nothing THEN minted ELSE minted + 1) <= minted + 1
    BY <1>2
  <2> QED
    BY SMTT(60), <1>2, <1>6, <1>7, <2>1, <2>2, StoreEventStep
<1>9. /\ Paired(w, {c}) /\ v.chain \subseteq w.chain /\ InChain(w.chain, id)
      /\ new.canon = {} /\ \A e \in new.legacy : e.id = minted + 1
  <2> DEFINE U == {c}
  <2>1. Paired(v, U) /\ c \in U
    BY <1>5, PairedGrows, Zenon
  <2>2. /\ new = StoreEvent(v, v.legacy, minted + 1, "webhook", c, "canonical")
        /\ w = Merge(v, new) /\ id = StoredId(v.legacy, minted + 1, "webhook", c)
        /\ v.legacy \subseteq v.legacy
    BY Zenon
  <2> HIDE DEF U, new, w, id
  <2>3. StoreCall(v, minted, U, v.legacy, "webhook", c, "canonical", new, w, id)
    BY <1>2, <1>3, <1>6, <2>1, <2>2, Zenon DEF StoreCall
  <2> QED
    BY <2>3, StoreEventPaired DEF U
<1>10. w.canon = v.canon
  <2>1. w = Merge(v, new)
    OBVIOUS
  <2> HIDE DEF new, w
  <2>2. v \in Rows /\ new \in Rows
    BY <1>2, <1>8, Zenon
  <2>3. w.canon = v.canon \cup new.canon
    BY <2>1, <2>2, MergeRows, Zenon
  <2> QED
    BY <1>9, <2>3, Zenon
<1> HIDE DEF new, id, w
<1>11. twin \in Rows
  BY <1>2, <1>6, <1>8, PersistTwinKeepsGood, Zenon
<1>12. /\ Paired(x, {}) /\ x.chain = w.chain /\ twin.legacy = {}
       /\ \A t \in twin.canon :
            /\ t.id = id /\ ~HasKey(w.canon, KeyInCanon("webhook", c))
            /\ \A q \in w.chain : q.id = id => q.sha = Digest("canonical", id, c)
  <2> DEFINE W == {c}
             U == {}
  <2>1. \A y \in W : y \in U \/ (y = c /\ "webhook" = "webhook")
    BY Zenon
  <2>2. twin = PersistEvent(w, id, "webhook", c, {}) /\ x = Merge(w, twin) /\ Paired(w, W)
    BY <1>9, Zenon
  <2> HIDE DEF W, U, twin, x
  <2>3. TwinCall(w, m, id, W, U, "webhook", c, twin, x)
    BY <1>1, <1>2, <1>6, <1>8, <2>1, <2>2, Zenon DEF TwinCall
  <2> QED
    BY <2>3, PersistTwinPaired DEF U
<1> HIDE DEF twin, x
<1>13. /\ Merge(Merge(sess[s].tx, new), twin) \in Rows /\ Merge(sess[s].tx, new) \in Rows
       /\ View(Merge(Merge(sess[s].tx, new), twin)) = x
  BY <1>2, <1>8, <1>11, ViewMergeTwice, MergeRows DEF MyView, v, w, x
<1>14. /\ r \in SessionState /\ r.tx = Merge(Merge(sess[s].tx, new), twin)
       /\ r.pc = "fallback" /\ r.ids = sess[s].ids /\ r.seen = sess[s].seen
       /\ r.i = sess[s].i /\ r.events = sess[s].events
       /\ r.billable = sess[s].billable \cup {id}
  <2>1. sess[s].billable \cup {id} \in SUBSET Nat
    BY <1>2, <1>8 DEF SessionState
  <2>2. r \in SessionState
    BY ZenonT(30), <1>2, <1>13, <2>1 DEF SessionState
  <2> QED
    BY SMTT(30), <2>2, <1>1, <1>2 DEF SessionState
<1> HIDE DEF r
<1>15. Awaiting(a) = {}
  <2>1. r.i <= Len(r.events)
    BY <1>1, <1>2, <1>14, Zenon DEF InRange
  <2> QED
    BY <2>1, <1>14, AwaitingNext, Zenon DEF a
<1>16. Fresh(r.tx)
  <2>1. ~InChain(chain, minted + 1)
    BY <1>2, NewIdIsFresh
  <2>2. Fresh(new)
    BY <1>9, <2>1, Zenon DEF Fresh
  <2>3. canon \subseteq w.canon /\ chain \subseteq w.chain
    BY <1>3, <1>9, <1>10
  <2>4. \A t \in twin.canon : InChain(chain, t.id) => InChain(canon, t.id)
    BY <1>2, <1>12, <2>3, TwinIsFresh, Zenon
  <2>5. Fresh(twin)
    BY <1>12, <2>4 DEF Fresh
  <2>6. Fresh(Merge(sess[s].tx, new))
    BY <1>2, <1>3, <1>8, <2>2, FreshMerge, Zenon
  <2> QED
    BY <1>11, <1>13, <1>14, <2>5, <2>6, FreshMerge
<1>17. \A y \in r.billable : InChain(View(r.tx).chain, y)
  BY <1>4, <1>9, <1>12, <1>13, <1>14, MoreChained
<1>18. MyView(s).chain \subseteq View(r.tx).chain /\ Paired(View(r.tx), Awaiting(a))
  BY <1>9, <1>12, <1>13, <1>14, <1>15, Zenon DEF v
<1> QED
  BY <1>1, <1>14, <1>16, <1>17, <1>18, SoundAdvance, Zenon DEF a

(***************************************************************************)
(* One event of the EPCIS or compat route, whatever rows d it wrote.       *)
(***************************************************************************)
LEMMA WriteSound ==
  ASSUME StoresOK, PairsOK, NEW s \in Session, NEW d \in Rows, sess[s].pc = "ready",
         sess' = [sess EXCEPT ![s] = Advance([sess[s] EXCEPT !.tx = d], "commit")],
         UNCHANGED tables,
         Paired(View(d), {}), MyView(s).chain \subseteq View(d).chain, Fresh(d)
  PROVE  PairsOK'
<1> DEFINE r == [sess[s] EXCEPT !.tx = d]
           a == Advance(r, "commit")
<1>1. sess[s] \in SessionState /\ InRange(sess[s]) /\ Sound(sess[s])
  BY InTransaction, Zenon DEF PairsOK
<1>2. /\ r \in SessionState /\ r.tx = d
      /\ r.pc = "ready" /\ r.ids = sess[s].ids /\ r.seen = sess[s].seen
      /\ r.i = sess[s].i /\ r.events = sess[s].events /\ r.billable = sess[s].billable
  <2>1. r \in SessionState
    BY ZenonT(30), <1>1 DEF SessionState
  <2> QED
    BY ZenonT(30), <2>1, <1>1 DEF SessionState
<1>3. sess' = [sess EXCEPT ![s] = a]
  BY Zenon
<1> HIDE DEF r
<1>4. r.i <= Len(r.events)
  BY <1>1, <1>2, Zenon DEF InRange
<1>5. Awaiting(a) = {}
  BY <1>2, <1>4, AwaitingNext DEF a
<1>6. \A x \in r.billable : InChain(View(r.tx).chain, x)
  <2>1. \A id : InChain(MyView(s).chain, id) => InChain(View(d).chain, id)
    BY MoreChained, Zenon
  <2>2. \A x \in sess[s].billable : InChain(MyView(s).chain, x)
    BY <1>1, Zenon DEF Sound, MyView
  <2> QED
    BY <1>2, <2>1, <2>2, Zenon
<1>7. a = Advance(r, "commit") /\ Paired(View(r.tx), Awaiting(a))
  BY <1>2, <1>5
<1> HIDE DEF a
<1> QED
  BY <1>2, <1>3, <1>6, <1>7, SoundAdvance, Zenon

LEMMA IngestEpcisSound ==
  ASSUME StoresOK, PairsOK, NEW s \in Session, IngestEpcis(s)
  PROVE  PairsOK'
<1> DEFINE v == MyView(s)
           c == Current(s)
           new == StoreEvent(v, v.legacy, minted + 1, "epcis", c, "legacy")
           w == Merge(v, new)
           twin == IF new = Nothing THEN Nothing
                   ELSE PersistEvent(w, minted + 2, "epcis", c, {})
           x == Merge(w, twin)
           d == Merge(Merge(sess[s].tx, new), twin)
<1>1. /\ sess[s].pc = "ready"
      /\ sess' = [sess EXCEPT ![s] = Advance([sess[s] EXCEPT !.tx = d], "commit")]
      /\ UNCHANGED tables
  BY Zenon DEF IngestEpcis
<1>2. /\ minted \in Nat /\ sess[s].tx \in Rows
      /\ v \in Rows /\ Good(v, minted) /\ c \in Content
  BY <1>1, InTransaction, Zenon
<1>3. /\ Paired(v, Awaiting(sess[s])) /\ Fresh(sess[s].tx) /\ WebhookChained(v.legacy, v.chain)
  BY KnownAreChained, Zenon
<1>4. Paired(v, {})
  <2>1. Awaiting(sess[s]) = {}
    BY <1>1, Zenon DEF Awaiting
  <2> QED
    BY <2>1, <1>3, Zenon
<1>5. "epcis" \in Source /\ "epcis" \in {"webhook", "epcis"} /\ "legacy" \in {"legacy", "canonical"}
  BY Zenon DEF Source
<1> HIDE DEF v, c
<1>6. new \in Rows /\ w \in Rows /\ Good(w, minted + 1)
  BY <1>2, <1>5, StoreEventKeepsGood, Zenon
<1>7. /\ Paired(w, {}) /\ v.chain \subseteq w.chain
      /\ new.canon = {} /\ \A e \in new.legacy : e.id = minted + 1
  <2> DEFINE U == {}
             id == StoredId(v.legacy, minted + 1, "epcis", c)
  <2>1. /\ new = StoreEvent(v, v.legacy, minted + 1, "epcis", c, "legacy")
        /\ w = Merge(v, new) /\ id = StoredId(v.legacy, minted + 1, "epcis", c)
        /\ v.legacy \subseteq v.legacy /\ Paired(v, U)
    BY <1>4, Zenon
  <2>2. "legacy" # "canonical"
    BY Zenon
  <2> HIDE DEF U, new, w, id
  <2>3. StoreCall(v, minted, U, v.legacy, "epcis", c, "legacy", new, w, id)
    BY <1>2, <1>3, <1>5, <2>1, <2>2, Zenon DEF StoreCall
  <2> QED
    BY <2>3, StoreEventPaired DEF U
<1> HIDE DEF new, w
<1>8. minted + 1 \in Nat /\ minted + 2 \in Nat /\ minted + 1 <= minted + 2
      /\ minted + 2 \in 1..(minted + 2) /\ minted < minted + 1 /\ minted < minted + 2
  BY <1>2
<1>9. /\ twin \in Rows /\ Paired(x, {}) /\ w.chain = x.chain
      /\ twin.legacy = {} /\ \A t \in twin.canon : t.id = minted + 2
  <2>1. CASE new = Nothing
    <3>1. twin = Nothing
      BY <2>1, Zenon
    <3> HIDE DEF twin
    <3>2. x = w /\ twin \in Rows
      BY <3>1, <1>6, MergeNothing, Zenon
    <3> QED
      BY <3>1, <3>2, <1>7, Zenon DEF Nothing
  <2>2. CASE new # Nothing
    <3>1. twin = PersistEvent(w, minted + 2, "epcis", c, {})
      BY <2>2, Zenon
    <3> HIDE DEF twin
    <3>2. Good(w, minted + 2)
      BY <1>6, <1>8, GoodGrows, Zenon
    <3>3. ~LedgerMismatch(w, minted + 2, "epcis", c)
      BY <1>2, <1>6 DEF LedgerMismatch, Good, IdsUpTo
    <3>4. twin \in Rows
      BY <3>1, <3>2, <1>2, <1>5, <1>6, <1>8, PersistTwinKeepsGood, Zenon
    <3> DEFINE U == {}
    <3>5. (\A y \in U : y \in U \/ (y = c /\ "epcis" = "webhook")) /\ Paired(w, U)
      BY <1>7, Zenon
    <3>6. x = Merge(w, twin)
      BY Zenon
    <3> HIDE DEF U, x
    <3>7. TwinCall(w, minted + 2, minted + 2, U, U, "epcis", c, twin, x)
      BY <3>1, <3>2, <3>3, <3>5, <3>6, <1>2, <1>5, <1>6, <1>8, ZenonT(60) DEF TwinCall
    <3> QED
      BY <3>4, <3>7, PersistTwinPaired DEF U
  <2> QED
    BY <2>1, <2>2, Zenon
<1> HIDE DEF twin, x
<1>10. /\ d \in Rows /\ View(d) = x
  BY <1>2, <1>6, <1>9, ViewMergeTwice DEF MyView, v, w, x
<1>11. Fresh(d)
  <2>1. ~InChain(chain, minted + 1) /\ ~InChain(chain, minted + 2)
    BY <1>8, NewIdIsFresh, Zenon
  <2>2. Fresh(new) /\ Fresh(twin)
    BY <1>7, <1>9, <2>1, Zenon DEF Fresh
  <2>3. Fresh(Merge(sess[s].tx, new)) /\ Merge(sess[s].tx, new) \in Rows
    BY <1>2, <1>3, <1>6, <2>2, FreshMerge, MergeRows, Zenon
  <2> QED
    BY <1>9, <2>2, <2>3, FreshMerge, Zenon
<1> HIDE DEF d
<1>12. MyView(s).chain \subseteq View(d).chain /\ Paired(View(d), {})
  BY <1>7, <1>9, <1>10, Zenon DEF v
<1> QED
  BY <1>1, <1>10, <1>11, <1>12, WriteSound, Zenon

LEMMA IngestCompatSound ==
  ASSUME StoresOK, PairsOK, NEW s \in Session, IngestCompat(s)
  PROVE  PairsOK'
<1> DEFINE v == MyView(s)
           c == Current(s)
           new == StoreEvent(v, v.legacy, minted + 1, "webhook", c, "legacy")
           w == Merge(v, new)
           twin == PersistEvent(w, minted + 2, "webhook", c, {"chain"})
           x == Merge(w, twin)
           one == Merge(sess[s].tx, new)
           both == Merge(one, twin)
<1>1. /\ sess[s].pc = "ready"
      /\ \/ sess' = [sess EXCEPT ![s] = Advance([sess[s] EXCEPT !.tx = both], "commit")]
         \/ sess' = [sess EXCEPT ![s] = Advance([sess[s] EXCEPT !.tx = one], "commit")]
      /\ UNCHANGED tables
  BY Zenon DEF IngestCompat
<1>2. /\ minted \in Nat /\ sess[s].tx \in Rows
      /\ v \in Rows /\ Good(v, minted) /\ c \in Content
  BY <1>1, InTransaction
<1>3. /\ Paired(v, Awaiting(sess[s])) /\ Fresh(sess[s].tx) /\ WebhookChained(v.legacy, v.chain)
  BY KnownAreChained, Zenon
<1>4. Paired(v, {})
  <2>1. Awaiting(sess[s]) = {}
    BY <1>1, Zenon DEF Awaiting
  <2> QED
    BY <2>1, <1>3
<1>5. "webhook" \in Source /\ "webhook" \in {"webhook", "epcis"}
      /\ "legacy" \in {"legacy", "canonical"} /\ "chain" \in {"chain"}
  BY Zenon DEF Source
<1> HIDE DEF v, c
<1>6. new \in Rows /\ w \in Rows /\ Good(w, minted + 1)
  BY <1>2, <1>5, StoreEventKeepsGood, Zenon
<1>7. /\ Paired(w, {}) /\ v.chain \subseteq w.chain
      /\ new.canon = {} /\ \A e \in new.legacy : e.id = minted + 1
  <2> DEFINE U == {}
             id == StoredId(v.legacy, minted + 1, "webhook", c)
  <2>1. /\ new = StoreEvent(v, v.legacy, minted + 1, "webhook", c, "legacy")
        /\ w = Merge(v, new) /\ id = StoredId(v.legacy, minted + 1, "webhook", c)
        /\ v.legacy \subseteq v.legacy /\ Paired(v, U)
    BY <1>4, Zenon
  <2>2. "legacy" # "canonical"
    OBVIOUS
  <2> HIDE DEF U, new, w, id
  <2>3. StoreCall(v, minted, U, v.legacy, "webhook", c, "legacy", new, w, id)
    BY <1>2, <1>3, <1>5, <2>1, <2>2, Zenon DEF StoreCall
  <2> QED
    BY <2>3, StoreEventPaired DEF U
<1> HIDE DEF new, w
<1>8. /\ twin \in Rows /\ Paired(x, {}) /\ w.chain \subseteq x.chain
      /\ \A e \in twin.legacy : e.id = minted + 2
      /\ \A t \in twin.canon : t.id = minted + 2
  <2> DEFINE m == minted + 1
  <2>1. m \in Nat /\ m + 1 = minted + 2
    BY <1>2
  <2> HIDE DEF m
  <2>2. twin = PersistEvent(w, m + 1, "webhook", c, {"chain"})
    BY <2>1, Zenon
  <2>3. Good(w, m)
    BY <1>6, Zenon DEF m
  <2> HIDE DEF twin
  <2>4. twin \in Rows
    BY SMTT(30), <2>1, <2>2, <2>3, <1>2, <1>5, <1>6, PersistEventKeepsGood
  <2> DEFINE W == {}
  <2>5. x = Merge(w, twin) /\ Paired(w, W)
    BY <1>7, Zenon
  <2> HIDE DEF W, x
  <2>6. PersistCall(w, m, W, "webhook", c, {"chain"}, twin, x)
    BY <2>1, <2>2, <2>3, <2>5, <1>2, <1>5, <1>6, Zenon DEF PersistCall
  <2> QED
    BY <2>1, <2>4, <2>6, PersistEventPaired DEF W
<1> HIDE DEF twin, x
<1>9. one \in Rows /\ View(one) = w
  BY <1>2, <1>6, ViewMerge, MergeRows, Zenon DEF MyView, v, w
<1>10. both \in Rows /\ View(both) = x
  BY <1>2, <1>6, <1>8, ViewMergeTwice DEF MyView, v, w, x
<1>11. Fresh(one) /\ Fresh(both)
  <2>1. ~InChain(chain, minted + 1) /\ ~InChain(chain, minted + 2)
    BY <1>2, NewIdIsFresh
  <2>2. Fresh(new) /\ Fresh(twin)
    BY <1>7, <1>8, <2>1, Zenon DEF Fresh
  <2>3. Fresh(one)
    BY <1>2, <1>3, <1>6, <2>2, FreshMerge, Zenon
  <2> HIDE DEF one
  <2> QED
    BY <1>8, <1>9, <2>2, <2>3, FreshMerge, Zenon
<1> HIDE DEF one, both
<1>12. /\ MyView(s).chain \subseteq View(one).chain /\ Paired(View(one), {})
       /\ MyView(s).chain \subseteq View(both).chain /\ Paired(View(both), {})
  BY <1>7, <1>8, <1>9, <1>10 DEF v
<1>13. CASE sess' = [sess EXCEPT ![s] = Advance([sess[s] EXCEPT !.tx = both], "commit")]
  BY <1>1, <1>10, <1>11, <1>12, <1>13, WriteSound, Zenon
<1>14. CASE sess' = [sess EXCEPT ![s] = Advance([sess[s] EXCEPT !.tx = one], "commit")]
  BY <1>1, <1>9, <1>11, <1>12, <1>14, WriteSound, Zenon
<1> QED
  BY <1>1, <1>13, <1>14, Zenon

LEMMA IngestPortalSound ==
  ASSUME StoresOK, PairsOK, NEW s \in Session, IngestPortal(s)
  PROVE  PairsOK'
<1> DEFINE v == MyView(s)
           c == Current(s)
           also == {"chain", "legacy"}
           new == PersistEvent(v, minted + 1, "portal", c, also)
           w == Merge(v, new)
           d == Merge(sess[s].tx, new)
           r == [sess[s] EXCEPT !.pc = "commit", !.tx = d]
<1>1. /\ sess[s].pc = "ready" /\ sess' = [sess EXCEPT ![s] = r] /\ UNCHANGED tables
  BY DEF IngestPortal
<1>2. /\ minted \in Nat /\ sess[s] \in SessionState /\ sess[s].tx \in Rows
      /\ v \in Rows /\ Good(v, minted) /\ c \in Content
  BY <1>1, InTransaction, Zenon
<1>3. /\ Paired(v, Awaiting(sess[s])) /\ Fresh(sess[s].tx)
  BY KnownAreChained, Zenon
<1>4. Paired(v, {})
  <2>1. Awaiting(sess[s]) = {}
    BY <1>1, Zenon DEF Awaiting
  <2> QED
    BY <2>1, <1>3, Zenon
<1>5. "portal" \in Source /\ "chain" \in also
  BY DEF Source
<1> HIDE DEF v, c, also
<1>6. new \in Rows
  BY <1>2, <1>5, PersistEventKeepsGood, Zenon
<1>7. /\ Paired(w, {}) /\ v.chain \subseteq w.chain
      /\ \A e \in new.legacy : e.id = minted + 1
      /\ \A t \in new.canon : t.id = minted + 1
  <2> DEFINE W == {}
  <2>1. new = PersistEvent(v, minted + 1, "portal", c, also) /\ w = Merge(v, new) /\ Paired(v, W)
    BY <1>4, Zenon
  <2> HIDE DEF W, new, w
  <2>2. PersistCall(v, minted, W, "portal", c, also, new, w)
    BY <1>2, <1>5, <2>1, Zenon DEF PersistCall
  <2> QED
    BY <2>2, PersistEventPaired DEF W
<1> HIDE DEF new, w
<1>8. d \in Rows /\ View(d) = w
  BY <1>2, <1>6, ViewMerge, MergeRows, Zenon DEF MyView, v, w
<1>9. Fresh(d)
  <2>1. ~InChain(chain, minted + 1)
    BY <1>2, NewIdIsFresh
  <2>2. Fresh(new)
    BY <1>7, <2>1, Zenon DEF Fresh
  <2> QED
    BY <1>2, <1>3, <1>6, <2>2, FreshMerge, Zenon
<1> HIDE DEF d
<1>10. /\ r.pc = "commit" /\ r.tx = d /\ r.ids = sess[s].ids /\ r.seen = sess[s].seen
       /\ r.billable = sess[s].billable
  BY <1>2, Zenon DEF SessionState
<1> HIDE DEF r
<1>11. Sound(sess[s]) /\ Awaiting(r) = {}
  BY <1>10, Zenon DEF PairsOK, Awaiting
<1>12. /\ WebhookChained(r.seen, w.chain)
       /\ \A x \in r.billable : InChain(w.chain, x)
       /\ \A k \in 1..Len(r.ids) : InChain(w.chain, r.ids[k])
  <2>1. /\ \A id : InChain(v.chain, id) => InChain(w.chain, id)
        /\ \A E : WebhookChained(E, v.chain) => WebhookChained(E, w.chain)
    BY <1>7, MoreChained, Zenon
  <2>2. /\ WebhookChained(sess[s].seen, v.chain)
        /\ \A x \in sess[s].billable : InChain(v.chain, x)
        /\ \A k \in 1..Len(sess[s].ids) : InChain(v.chain, sess[s].ids[k])
    BY <1>11, Zenon DEF Sound, MyView, v
  <2> QED
    BY <1>10, <2>1, <2>2, Zenon
<1>13. Sound(r)
  BY <1>7, <1>8, <1>9, <1>10, <1>11, <1>12 DEF Sound
<1> QED
  BY <1>1, <1>13, SoundStep, Zenon

(***************************************************************************)
(* After a COMMIT the committed stores are the view of the session that    *)
(* committed; its loops are done, and the others have only gained rows.    *)
(***************************************************************************)
LEMMA CommitSound ==
  ASSUME StoresOK, PairsOK, NEW s \in Session, Commit(s)
  PROVE  PairsOK'
<1> DEFINE r == IF sess[s].billable = {} THEN IdleSession
                ELSE [IdleSession EXCEPT !.pc = "billing", !.billable = sess[s].billable]
           v == MyView(s)
           d == sess[s].tx
<1>1. /\ legacy' = legacy \cup d.legacy /\ canon' = canon \cup d.canon
      /\ chain' = chain \cup d.chain /\ sess[s].pc = "commit"
      /\ sess' = [sess EXCEPT ![s] = r]
  BY Zenon DEF Commit
<1>2. d \in Rows /\ v \in Rows /\ sess \in [Session -> SessionState]
  BY InTransaction, Zenon DEF StoresOK
<1>3. /\ v.legacy = legacy \cup d.legacy /\ v.canon = canon \cup d.canon
      /\ v.chain = chain \cup d.chain
  BY <1>2, ViewRows, Zenon DEF MyView
<1>4. /\ r.tx = Nothing /\ r.pc \in {"idle", "billing"} /\ r.seen = {} /\ r.ids = << >>
      /\ r.billable \subseteq sess[s].billable
  <2>1. CASE sess[s].billable = {}
    BY <2>1, IdleFields, Zenon
  <2>2. CASE sess[s].billable # {}
    BY <2>2 DEF IdleSession
  <2> QED
    BY <2>1, <2>2, Zenon
<1>5. sess'[s] = r /\ \A t \in Session \ {s} : sess'[t] = sess[t]
  BY <1>1, <1>2, Zenon
<1> HIDE DEF r
<1>6. Sound(sess[s]) /\ Awaiting(sess[s]) = {}
  BY <1>1, Zenon DEF PairsOK, Awaiting
<1>7. Paired(v, {}) /\ \A x \in sess[s].billable : InChain(v.chain, x)
  BY <1>6, Zenon DEF Sound, MyView
<1>8. View(Nothing)' = v
  BY ZenonT(30), <1>1 DEF View, Merge, Nothing, v, MyView
<1>9. Paired(Committed, {})'
  BY <1>7, <1>8 DEF Committed
<1> HIDE DEF v
<1>10. ASSUME NEW t \in Session, sess'[t].tx = Nothing, sess'[t].pc \notin {"batch", "canon"},
              WebhookChained(sess'[t].seen, v.chain),
              \A x \in sess'[t].billable : InChain(v.chain, x),
              \A k \in 1..Len(sess'[t].ids) : InChain(v.chain, sess'[t].ids[k])
       PROVE  Sound(sess[t])'
  <2>1. View(sess[t].tx)' = v
    BY <1>8, <1>10, Zenon DEF View
  <2>2. Awaiting(sess[t])' = {}
    BY <1>10, Zenon DEF Awaiting
  <2>3. Fresh(sess[t].tx)'
    BY <1>10 DEF Fresh, Nothing
  <2> QED
    BY <1>7, <1>10, <2>1, <2>2, <2>3, Zenon DEF Sound
<1>11. Sound(sess[s])'
  <2>1. sess'[s].tx = Nothing /\ sess'[s].pc \notin {"batch", "canon"}
    BY <1>4, <1>5, Zenon
  <2>2. WebhookChained(sess'[s].seen, v.chain)
    BY <1>4, <1>5, Zenon DEF WebhookChained
  <2>3. \A x \in sess'[s].billable : InChain(v.chain, x)
    BY <1>4, <1>5, <1>7, Zenon
  <2>4. \A k \in 1..Len(sess'[s].ids) : InChain(v.chain, sess'[s].ids[k])
    BY <1>4, <1>5, Len(<< >>) = 0
  <2> QED
    BY <1>10, <2>1, <2>2, <2>3, <2>4, Zenon
<1>12. ASSUME NEW t \in Session, t # s
       PROVE  Sound(sess[t])'
  <2>1. Sound(sess[t]) /\ sess'[t] = sess[t] /\ sess[t].tx \in Rows
    BY <1>2, <1>5, <1>12, Zenon DEF PairsOK, SessionState
  <2>2. CASE d = Nothing
    <3>1. UNCHANGED <<legacy, canon, chain>>
      BY <1>1, <2>2 DEF Nothing
    <3>2. PICK y : y = sess[t]
      BY Zenon
    <3>3. Sound(y) /\ sess'[t] = y
      BY <2>1, <3>2, Zenon
    <3>4. View(y.tx)' = View(y.tx)
      BY <3>1, Zenon DEF View
    <3>5. Fresh(y.tx)'
      BY <3>1, <3>3, Zenon DEF Sound, Fresh
    <3>6. Sound(y)'
      BY <3>3, <3>4, <3>5, Zenon DEF Sound
    <3> QED
      BY ONLY <3>3, <3>6, Zenon DEF Sound, Awaiting, View, Fresh
  <2>3. CASE d # Nothing
    <3>1. lock = s
      BY <2>3, Zenon DEF StoresOK, SessionInv, OnlyHolderWrites
    <3>2. sess[t].tx = Nothing /\ sess[t].pc \notin {"batch", "canon"}
      BY <1>12, <3>1, Zenon DEF StoresOK, SessionInv, OnlyHolderWrites
    <3>3. View(sess[t].tx).chain \subseteq v.chain
      <4>1. View(sess[t].tx).chain = chain \cup Nothing.chain
        BY <2>1, <3>2, ViewRows
      <4> QED
        BY <4>1, <1>3, Zenon DEF Nothing
    <3>4. /\ WebhookChained(sess'[t].seen, v.chain)
          /\ \A x \in sess'[t].billable : InChain(v.chain, x)
          /\ \A k \in 1..Len(sess'[t].ids) : InChain(v.chain, sess'[t].ids[k])
      <4>1. /\ \A id : InChain(View(sess[t].tx).chain, id) => InChain(v.chain, id)
            /\ \A E : WebhookChained(E, View(sess[t].tx).chain) => WebhookChained(E, v.chain)
        BY <3>3, MoreChained, Zenon
      <4>2. /\ WebhookChained(sess[t].seen, v.chain)
            /\ \A x \in sess[t].billable : InChain(v.chain, x)
            /\ \A k \in 1..Len(sess[t].ids) : InChain(v.chain, sess[t].ids[k])
        BY <2>1, <4>1, Zenon DEF Sound
      <4> QED
        BY <2>1, <4>2, Zenon
    <3>5. sess'[t].tx = Nothing /\ sess'[t].pc \notin {"batch", "canon"}
      BY <2>1, <3>2, Zenon
    <3> QED
      BY <1>10, <3>4, <3>5, Zenon
  <2> QED
    BY <2>2, <2>3, Zenon
<1> QED
  BY <1>9, <1>11, <1>12, Zenon DEF PairsOK

LEMMA BillingSound ==
  ASSUME StoresOK, PairsOK, NEW s \in Session, NEW r,
         \/ r = IdleSession
         \/ /\ r.tx = sess[s].tx /\ r.ids = sess[s].ids /\ r.seen = sess[s].seen
            /\ r.pc = "billing",
         r.billable \subseteq sess[s].billable, sess[s].pc = "billing",
         sess' = [sess EXCEPT ![s] = r], UNCHANGED tables
  PROVE  PairsOK'
<1>1. CASE r = IdleSession
  <2>1. Sound(r)
    BY <1>1, IdleFields, EmptyIsSound, Zenon
  <2> QED
    BY <2>1, SoundStep, Zenon
<1>2. CASE /\ r.tx = sess[s].tx /\ r.ids = sess[s].ids /\ r.seen = sess[s].seen
           /\ r.pc = "billing"
  <2>1. Sound(sess[s]) /\ Awaiting(r) = Awaiting(sess[s])
    BY <1>2, Zenon DEF PairsOK, Awaiting
  <2>2. Sound(r)
    BY <1>2, <2>1 DEF Sound
  <2> QED
    BY <2>2, SoundStep, Zenon
<1> QED
  BY <1>1, <1>2

LEMMA ClaimChargeRowSound ==
  ASSUME StoresOK, PairsOK, NEW s \in Session, ClaimChargeRow(s)
  PROVE  PairsOK'
<1>1. sess[s].pc = "billing" /\ UNCHANGED tables /\ sess[s] \in SessionState
  BY InTransaction DEF ClaimChargeRow
<1>2. PICK id \in sess[s].billable :
        \/ sess' = [sess EXCEPT ![s] = [sess[s] EXCEPT !.claim = id]]
        \/ sess' = [sess EXCEPT ![s] = AfterLabel(sess[s], id)]
  BY DEF ClaimChargeRow
<1>3. CASE sess' = [sess EXCEPT ![s] = [sess[s] EXCEPT !.claim = id]]
  <2> DEFINE r == [sess[s] EXCEPT !.claim = id]
  <2>1. /\ r.tx = sess[s].tx /\ r.ids = sess[s].ids /\ r.seen = sess[s].seen
        /\ r.pc = "billing" /\ r.billable = sess[s].billable
    BY <1>1 DEF SessionState
  <2>2. sess' = [sess EXCEPT ![s] = r]
    BY <1>3
  <2> HIDE DEF r
  <2> QED
    BY <1>1, <2>1, <2>2, BillingSound, Zenon
<1>4. CASE sess' = [sess EXCEPT ![s] = AfterLabel(sess[s], id)]
  <2> DEFINE a == AfterLabel(sess[s], id)
  <2>1. sess' = [sess EXCEPT ![s] = a] /\ a = AfterLabel(sess[s], id)
    BY <1>4, Zenon
  <2> HIDE DEF a
  <2>2. /\ \/ a = IdleSession
           \/ /\ a.tx = sess[s].tx /\ a.ids = sess[s].ids /\ a.seen = sess[s].seen
              /\ a.pc = "billing"
        /\ a.billable \subseteq sess[s].billable
    BY <1>1, <2>1, AfterLabelIsFine
  <2> QED
    BY <1>1, <2>1, <2>2, BillingSound, Zenon
<1> QED
  BY <1>2, <1>3, <1>4

LEMMA ChargeForLabelSound ==
  ASSUME StoresOK, PairsOK, NEW s \in Session, ChargeForLabel(s)
  PROVE  PairsOK'
<1> DEFINE a == AfterLabel(sess[s], sess[s].claim)
<1>1. sess[s].pc = "billing" /\ UNCHANGED tables /\ sess[s] \in SessionState
  BY InTransaction, Zenon DEF ChargeForLabel
<1>2. sess' = [sess EXCEPT ![s] = a] /\ a = AfterLabel(sess[s], sess[s].claim)
  BY Zenon DEF ChargeForLabel
<1> HIDE DEF a
<1>3. /\ \/ a = IdleSession
         \/ /\ a.tx = sess[s].tx /\ a.ids = sess[s].ids /\ a.seen = sess[s].seen
            /\ a.pc = "billing"
      /\ a.billable \subseteq sess[s].billable
  BY <1>1, <1>2, AfterLabelIsFine
<1> QED
  BY <1>1, <1>2, <1>3, BillingSound, Zenon

LEMMA ArchiveSound ==
  ASSUME StoresOK, PairsOK, NEW S \in SUBSET legacy, ArchiveExpiredRecords(S)
  PROVE  PairsOK'
<1>1. legacy' = legacy \ S /\ UNCHANGED <<canon, chain, sess>>
  BY Zenon DEF ArchiveExpiredRecords
<1>2. ASSUME NEW d \in Rows
      PROVE  /\ View(d)'.legacy \subseteq View(d).legacy
             /\ View(d)'.canon = View(d).canon /\ View(d)'.chain = View(d).chain
  BY <1>1, Zenon DEF View, Merge
<1>3. Paired(Committed, {})'
  BY <1>2, NothingInRows, PairedWithLess, Zenon DEF PairsOK, Committed
<1>4. ASSUME NEW t \in Session
      PROVE  Sound(sess[t])'
  <2>1. Sound(sess[t]) /\ sess[t].tx \in Rows
    BY Zenon DEF StoresOK, PairsOK, SessionState
  <2>2. /\ View(sess[t].tx)'.legacy \subseteq View(sess[t].tx).legacy
        /\ View(sess[t].tx)'.canon = View(sess[t].tx).canon
        /\ View(sess[t].tx)'.chain = View(sess[t].tx).chain
    BY <1>1, <2>1, Zenon DEF View, Merge
  <2>3. Awaiting(sess[t])' = Awaiting(sess[t]) /\ sess'[t] = sess[t]
    BY <1>1, Zenon
  <2>4. Paired(View(sess[t].tx), Awaiting(sess[t]))'
    BY <2>1, <2>2, <2>3, PairedWithLess, Zenon DEF Sound
  <2>5. Fresh(sess[t].tx)'
    BY <1>1, <2>1, Zenon DEF Sound, Fresh
  <2> QED
    BY <2>1, <2>2, <2>3, <2>4, <2>5, Zenon DEF Sound
<1> QED
  BY <1>3, <1>4, Zenon DEF PairsOK

LEMMA PairsKeep ==
  ASSUME StoresOK, PairsOK, [Next]_vars
  PROVE  PairsOK'
<1>1. ASSUME NEW s \in Session, Fails(s) \/ RefuseMismatch(s)
      PROVE  PairsOK'
  BY <1>1, RollbackSound, Zenon DEF Fails, RefuseMismatch
<1>2. CASE UNCHANGED <<legacy, canon, chain, sess>>
  BY <1>2, Zenon DEF PairsOK, Sound, Committed, View, Fresh
<1>3. CASE VerificationStep
  <2>1. UNCHANGED <<legacy, canon, chain, sess>>
    BY ZenonT(30), <1>3 DEF VerificationStep, WalkCanonical, CountCanonical, WalkLegacy,
       CountLegacy, FindMissing, JobStep, tables
  <2> QED
    BY <2>1, <1>2, Zenon
<1>4. CASE UNCHANGED vars
  BY <1>2, <1>4, Zenon DEF vars
<1> QED
  BY SMTT(30), <1>1, <1>3, <1>4, ReceiveSound, BeginBatchSound, StoreEventsBatchSound,
     PersistCanonicalSound, FallBackSound, StoreSinglySound, SkipSinglySound,
     IngestEpcisSound, IngestCompatSound, IngestPortalSound, CommitSound,
     ClaimChargeRowSound, ChargeForLabelSound, ArchiveSound
     DEF Next, SessionStep

LEMMA PairsInit ==
  ASSUME Init
  PROVE  PairsOK
<1>1. StoresOK
  BY InitHolds, Zenon DEF IInv
<1>2. View(Nothing) = Nothing
  BY ZenonT(30) DEF Init, View, Merge, Nothing
<1>3. Paired(Committed, {})
  BY <1>2 DEF Committed, Nothing, Paired, WebhookChained, Matched, EventsTwinned, ChainTwinned
<1>4. Awaiting(IdleSession) = {} /\ Fresh(Nothing)
  BY IdleFields, Zenon DEF Awaiting, Fresh, Nothing
<1>5. Sound(IdleSession)
  <2>1. /\ IdleSession.tx = Nothing /\ IdleSession.seen = {} /\ IdleSession.billable = {}
        /\ Len(IdleSession.ids) = 0
    BY IdleFields, Zenon
  <2>2. Paired(View(IdleSession.tx), Awaiting(IdleSession))
    BY <1>3, <1>4, <2>1, Zenon DEF Committed
  <2>3. WebhookChained(IdleSession.seen, View(IdleSession.tx).chain)
    BY <2>1, Zenon DEF WebhookChained
  <2>4. /\ \A x \in IdleSession.billable : InChain(View(IdleSession.tx).chain, x)
        /\ \A k \in 1..Len(IdleSession.ids) :
             InChain(View(IdleSession.tx).chain, IdleSession.ids[k])
    BY <2>1
  <2>5. Fresh(IdleSession.tx)
    BY <1>4, <2>1, Zenon
  <2> QED
    BY <2>1, <2>2, <2>3, <2>4, <2>5, Zenon DEF Sound
<1> QED
  BY <1>3, <1>5, Zenon DEF PairsOK, Init

LEMMA PairsHold == Spec => [](StoresOK /\ PairsOK)
<1>1. StoresOK /\ PairsOK /\ [Next]_vars => (StoresOK /\ PairsOK)'
  BY StoresKeep, PairsKeep, Zenon
<1>2. Init => StoresOK /\ PairsOK
  BY InitHolds, PairsInit, Zenon DEF IInv
<1> QED
  BY <1>1, <1>2, PTL DEF Spec

(***************************************************************************)
(* Every event the v2 webhook stored has its canonical row, in every       *)
(* committed state: no crash, fallback, failed event or retry between the  *)
(* two loops of the batch separates them.                                  *)
(***************************************************************************)
THEOREM TwinsStay == Spec => []TwinKept
<1>1. StoresOK /\ PairsOK => TwinKept
  <2> SUFFICES ASSUME StoresOK, PairsOK
               PROVE  TwinKept
    BY Zenon
  <2>1. EventsTwinned(Committed, {}) /\ Committed.legacy = legacy /\ Committed.canon = canon
    BY CommittedRows DEF PairsOK, Paired
  <2> QED
    BY <2>1, Zenon DEF EventsTwinned, TwinKept, HasKey
<1> QED
  BY <1>1, PairsHold, PTL
=============================================================================

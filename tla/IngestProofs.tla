----------------------------- MODULE IngestProofs -----------------------------
(***************************************************************************)
(* Theorems about Ingest, for any contents, keys, sessions and bounds.     *)
(*                                                                         *)
(* The argument.  Whoever has added a row holds the chain lock (OnlyHolder *)
(* Writes), so at most one transaction is ahead of the committed tables.   *)
(* What each session sees is a good ledger (Good): its chain is linked,    *)
(* ids are not reused, each legacy event is chained once, keys are unique. *)
(* A write extends a good view to a good view, a commit makes the holder's *)
(* view the committed state, and everybody else has nothing pending.       *)
(***************************************************************************)
EXTENDS Ingest, TLAPS

(***************************************************************************)
(* The writes of EventStores, for any contents and keys: a write to a good *)
(* ledger leaves it good.                                                  *)
(***************************************************************************)
Linked(R) ==
  /\ \A r, q \in R : r.seq = q.seq => r = q
  /\ \A r, q \in R : r.id = q.id => r = q
  /\ \A r \in R : /\ r.seq # 0
                  /\ r.link = ChainHash(r.sha, r.prev)
                  /\ \/ r.seq = 1 /\ r.prev = Genesis
                     \/ \E q \in R : q.seq + 1 = r.seq /\ r.prev = q.link
  /\ R # {} => \E h \in R : \A q \in R : q.seq <= h.seq
  /\ \A n \in 1..HeadSeq(R) : \E r \in R : r.seq = n

ChainedIn(v) ==
  \A e \in v.legacy :
    IF e.status = "rejected" THEN \A r \in v.chain : r.id # e.id
    ELSE \E r \in v.chain : r.id = e.id /\ r.sha = e.sha

UniqueKeys(rows) == \A e, f \in rows : e.key = f.key => e = f

IdsUpTo(v, m) ==
  /\ \A e \in v.legacy : e.id \in 1..m
  /\ \A t \in v.canon : t.id \in 1..m
  /\ \A r \in v.chain : r.id \in 1..m

Good(v, m) ==
  /\ IdsUpTo(v, m)
  /\ Linked(v.chain)
  /\ ChainedIn(v)
  /\ UniqueKeys(v.legacy)
  /\ UniqueKeys(v.canon)
-----------------------------------------------------------------------------
(***************************************************************************)
(* The head SELECT finds the row with the largest sequence_num.            *)
(***************************************************************************)
LEMMA HeadIsLargest ==
  ASSUME NEW R \in SUBSET ChainRow, NEW h \in R, \A q \in R : q.seq <= h.seq
  PROVE  /\ ChainHead(R) \in R
         /\ \A q \in R : q.seq <= ChainHead(R).seq
         /\ HeadSeq(R) = h.seq
<1>1. ChainHead(R) \in R /\ \A q \in R : q.seq <= ChainHead(R).seq
  BY DEF ChainHead
<1>2. ChainHead(R).seq \in Nat /\ h.seq \in Nat
  BY <1>1 DEF ChainRow
<1>3. ChainHead(R).seq = h.seq
  BY <1>1, <1>2
<1> QED
  BY <1>1, <1>3 DEF HeadSeq

(***************************************************************************)
(* The head of a linked chain, empty or not.                               *)
(***************************************************************************)
LEMMA HeadOfLinked ==
  ASSUME NEW R \in SUBSET ChainRow, Linked(R)
  PROVE  /\ HeadSeq(R) \in Nat
         /\ HeadLink(R) \in Seq(Digests)
         /\ \A q \in R : q.seq <= HeadSeq(R)
         /\ R = {} => HeadSeq(R) = 0 /\ HeadLink(R) = Genesis
         /\ R # {} => /\ ChainHead(R) \in R
                      /\ HeadSeq(R) = ChainHead(R).seq
                      /\ HeadLink(R) = ChainHead(R).link
<1>1. CASE R = {}
  BY <1>1 DEF HeadSeq, HeadLink, Genesis
<1>2. CASE R # {}
  <2>1. PICK h \in R : \A q \in R : q.seq <= h.seq
    BY <1>2 DEF Linked
  <2>2. ChainHead(R) \in R /\ \A q \in R : q.seq <= ChainHead(R).seq
    BY <2>1, HeadIsLargest
  <2>3. ChainHead(R).seq \in Nat /\ ChainHead(R).link \in Seq(Digests)
    BY <2>2 DEF ChainRow
  <2> QED
    BY <1>2, <2>2, <2>3 DEF HeadSeq, HeadLink
<1> QED
  BY <1>1, <1>2

(***************************************************************************)
(* The row store_event, store_events_batch and persist_event insert after  *)
(* the head extends a linked chain to a linked chain.                      *)
(***************************************************************************)
LEMMA NextRowLinks ==
  ASSUME NEW R \in SUBSET ChainRow, Linked(R), NEW id \in Nat, NEW sha \in Digests,
         \A r \in R : r.id # id
  PROVE  /\ NextChainRow(R, id, sha) \in ChainRow
         /\ Linked(R \cup {NextChainRow(R, id, sha)})
<1> DEFINE n == NextChainRow(R, id, sha)
           S == R \cup {n}
<1>1. /\ HeadSeq(R) \in Nat /\ HeadLink(R) \in Seq(Digests)
      /\ \A q \in R : q.seq <= HeadSeq(R)
  BY HeadOfLinked
<1>2. ChainHash(sha, HeadLink(R)) \in Seq(Digests)
  BY <1>1 DEF ChainHash
<1>3. /\ n \in ChainRow
      /\ n.seq = HeadSeq(R) + 1 /\ n.id = id /\ n.sha = sha
      /\ n.prev = HeadLink(R) /\ n.link = ChainHash(sha, HeadLink(R))
  BY <1>1, <1>2 DEF NextChainRow, ChainRow
<1> HIDE DEF n
<1>4. \A q \in R : q.seq \in Nat /\ q.seq < n.seq
  BY <1>1, <1>3 DEF ChainRow
<1>5. \A r, q \in S : r.seq = q.seq => r = q
  BY <1>3, <1>4 DEF Linked
<1>6. \A r, q \in S : r.id = q.id => r = q
  BY <1>3 DEF Linked
<1>7. \A r \in S : /\ r.seq # 0
                   /\ r.link = ChainHash(r.sha, r.prev)
                   /\ \/ r.seq = 1 /\ r.prev = Genesis
                      \/ \E q \in S : q.seq + 1 = r.seq /\ r.prev = q.link
  <2>1. CASE R = {}
    <3>1. n.seq = 1 /\ n.prev = Genesis
      BY <2>1, <1>3, HeadOfLinked
    <3> QED
      BY <3>1, <2>1, <1>3
  <2>2. CASE R # {}
    <3>1. ChainHead(R) \in S /\ ChainHead(R).seq + 1 = n.seq /\ n.prev = ChainHead(R).link
      BY <2>2, <1>3, HeadOfLinked
    <3>2. n.seq # 0 /\ n.link = ChainHash(n.sha, n.prev)
      BY <1>1, <1>3
    <3>3. \A r \in R : /\ r.seq # 0
                       /\ r.link = ChainHash(r.sha, r.prev)
                       /\ \/ r.seq = 1 /\ r.prev = Genesis
                          \/ \E q \in S : q.seq + 1 = r.seq /\ r.prev = q.link
      BY DEF Linked
    <3> QED
      BY <3>1, <3>2, <3>3
  <2> QED
    BY <2>1, <2>2
<1>8. n \in S /\ \A q \in S : q.seq <= n.seq
  BY <1>1, <1>3, <1>4
<1>9. HeadSeq(S) = n.seq
  BY <1>3, <1>8, HeadIsLargest
<1>10. \A k \in 1..HeadSeq(S) : \E r \in S : r.seq = k
  <2> TAKE k \in 1..HeadSeq(S)
  <2>1. CASE k = n.seq
    BY <2>1
  <2>2. CASE k # n.seq
    <3>1. k \in 1..HeadSeq(R)
      BY <2>2, <1>1, <1>3, <1>9
    <3> QED
      BY <3>1 DEF Linked
  <2> QED
    BY <2>1, <2>2
<1>11. Linked(S)
  BY ZenonT(30), <1>5, <1>6, <1>7, <1>8, <1>10 DEF Linked
<1> QED
  BY <1>3, <1>11 DEF n

(***************************************************************************)
(* Facts about merging what a transaction adds into what it sees.          *)
(***************************************************************************)
LEMMA MergeRows ==
  ASSUME NEW v \in Rows, NEW d \in Rows
  PROVE  /\ Merge(v, d) \in Rows
         /\ Merge(v, d).legacy = v.legacy \cup d.legacy
         /\ Merge(v, d).canon = v.canon \cup d.canon
         /\ Merge(v, d).chain = v.chain \cup d.chain
BY DEF Merge, Rows

LEMMA MergeNothing ==
  ASSUME NEW v \in Rows
  PROVE  Nothing \in Rows /\ Merge(v, Nothing) = v
BY DEF Merge, Rows, Nothing

LEMMA MergeAssociates ==
  ASSUME NEW u \in Rows, NEW v \in Rows, NEW w \in Rows
  PROVE  Merge(Merge(u, v), w) = Merge(u, Merge(v, w))
BY ZenonT(30) DEF Merge, Rows

(***************************************************************************)
(* A good view stays good when more ids are minted.                        *)
(***************************************************************************)
LEMMA GoodGrows ==
  ASSUME NEW v \in Rows, NEW m \in Nat, NEW n \in Nat, m <= n, Good(v, m)
  PROVE  Good(v, n)
BY DEF Good, IdsUpTo

(***************************************************************************)
(* A good view stays good when the retention job deletes legacy rows.      *)
(***************************************************************************)
LEMMA GoodWithLess ==
  ASSUME NEW v \in Rows, NEW w \in Rows, NEW m \in Nat, Good(v, m),
         w.legacy \subseteq v.legacy, w.canon = v.canon, w.chain = v.chain
  PROVE  Good(w, m)
<1>1. IdsUpTo(w, m)
  BY DEF Good, IdsUpTo
<1>2. ChainedIn(w)
  BY DEF Good, ChainedIn
<1>3. UniqueKeys(w.legacy)
  BY DEF Good, UniqueKeys
<1> QED
  BY <1>1, <1>2, <1>3 DEF Good

(***************************************************************************)
(* store_event, and one row of store_events_batch: whatever the alerts     *)
(* say, the view with the added rows is good.                              *)
(***************************************************************************)
LEMMA StoreEventKeepsGood ==
  ASSUME NEW v \in Rows, NEW m \in Nat, Good(v, m),
         NEW known, v.legacy \subseteq known,
         NEW source \in Source, NEW c \in Content, NEW form \in {"legacy", "canonical"},
         NEW new, new = StoreEvent(v, known, m + 1, source, c, form)
  PROVE  new \in Rows /\ Merge(v, new) \in Rows /\ Good(Merge(v, new), m + 1)
<1> DEFINE key == KeyInLegacy(source, c)
           sha == Digest(form, m + 1, c)
           e == [id |-> m + 1, key |-> key, sha |-> sha, status |-> Status(source, c)]
           n == NextChainRow(v.chain, m + 1, sha)
           w == Merge(v, new)
<1>1. CASE WithKey(known, key) # {}
  <2>1. new = Nothing
    BY <1>1 DEF StoreEvent
  <2> QED
    BY <2>1, MergeNothing, GoodGrows
<1>2. CASE WithKey(known, key) = {}
  <2>1. sha \in Digests
    BY DEF Digest, Digests
  <2>2. key \in Key
    BY DEF Key
  <2>3. Status(source, c) \in {"valid", "rejected"}
    BY DEF Status
  <2> HIDE DEF key, sha
  <2>4. /\ e \in LegacyRow /\ e.id = m + 1 /\ e.key = key /\ e.sha = sha
        /\ e.status = Status(source, c)
    BY <2>1, <2>2, <2>3 DEF LegacyRow
  <2>5. v.chain \in SUBSET ChainRow /\ Linked(v.chain) /\ \A r \in v.chain : r.id # m + 1
    BY DEF Good, IdsUpTo, Rows
  <2>6. n \in ChainRow /\ Linked(v.chain \cup {n}) /\ n.id = m + 1 /\ n.sha = sha
    BY <2>1, <2>5, NextRowLinks DEF NextChainRow
  <2>7. /\ new.legacy = {e} /\ new.canon = {}
        /\ new.chain = IF Status(source, c) = "rejected" THEN {} ELSE {n}
        /\ new = [legacy |-> new.legacy, canon |-> new.canon, chain |-> new.chain]
    BY <1>2 DEF StoreEvent, key, sha
  <2> HIDE DEF e, n
  <2>8. new \in Rows
    BY <2>4, <2>6, <2>7 DEF Rows
  <2>9. /\ w \in Rows /\ w.legacy = v.legacy \cup {e} /\ w.canon = v.canon
        /\ w.chain = v.chain \cup new.chain
    <3>1. /\ w \in Rows /\ w.legacy = v.legacy \cup new.legacy
          /\ w.canon = v.canon \cup new.canon /\ w.chain = v.chain \cup new.chain
      BY <2>8, MergeRows
    <3> HIDE DEF w
    <3> QED
      BY <3>1, <2>7
  <2> HIDE DEF w
  <2>10. \A r \in new.chain : r = n
    BY <2>7
  <2>11. IdsUpTo(w, m + 1)
    BY <2>4, <2>6, <2>9, <2>10 DEF Good, IdsUpTo
  <2>12. Linked(w.chain)
    <3>1. new.chain = {} \/ new.chain = {n}
      BY <2>7
    <3>2. w.chain = v.chain \/ w.chain = v.chain \cup {n}
      BY <2>9, <3>1
    <3> QED
      BY ZenonT(30), <3>2, <2>5, <2>6
  <2>13. ChainedIn(w)
    <3> SUFFICES ASSUME NEW f \in w.legacy
                 PROVE  IF f.status = "rejected" THEN \A r \in w.chain : r.id # f.id
                        ELSE \E r \in w.chain : r.id = f.id /\ r.sha = f.sha
      BY DEF ChainedIn
    <3>1. CASE f \in v.legacy
      <4>1. f.id \in 1..m
        BY <3>1 DEF Good, IdsUpTo
      <4>2. \A r \in new.chain : r.id # f.id
        BY <4>1, <2>6, <2>10
      <4> QED
        BY <3>1, <4>2, <2>9 DEF Good, ChainedIn
    <3>2. CASE f = e
      BY <3>2, <2>4, <2>5, <2>6, <2>7, <2>9
    <3> QED
      BY <3>1, <3>2, <2>9
  <2>14. UniqueKeys(w.legacy)
    <3>1. \A f \in v.legacy : f.key # key
      BY <1>2 DEF WithKey
    <3> QED
      BY <3>1, <2>4, <2>9 DEF Good, UniqueKeys
  <2> QED
    BY <2>8, <2>9, <2>11, <2>12, <2>13, <2>14 DEF Good, w
<1> QED
  BY <1>1, <1>2

(***************************************************************************)
(* persist_event with skip_chain_write: only a canonical row is added.     *)
(***************************************************************************)
LEMMA PersistTwinKeepsGood ==
  ASSUME NEW v \in Rows, NEW m \in Nat, Good(v, m), NEW id \in 1..m,
         NEW source \in Source, NEW c \in Content,
         NEW new, new = PersistEvent(v, id, source, c, {})
  PROVE  new \in Rows /\ Merge(v, new) \in Rows /\ Good(Merge(v, new), m)
<1> DEFINE key == KeyInCanon(source, c)
           sha == Digest("canonical", id, c)
           t == [id |-> id, key |-> key, sha |-> sha, content |-> c]
           w == Merge(v, new)
<1>1. CASE WithKey(v.canon, key) # {}
  <2>1. new = Nothing
    BY <1>1, Zenon DEF PersistEvent
  <2> QED
    BY <2>1, MergeNothing
<1>2. CASE WithKey(v.canon, key) = {}
  <2>1. sha \in Digests
    BY DEF Digest, Digests
  <2>2. key \in Key
    BY DEF Key
  <2>3. new = [canon |-> {t}, chain |-> {}, legacy |-> {}]
    BY <1>2 DEF PersistEvent
  <2> HIDE DEF key, sha
  <2>4. t \in CanonRow /\ t.id = id /\ t.key = key
    BY <2>1, <2>2 DEF CanonRow
  <2> HIDE DEF t
  <2>5. new \in Rows /\ new.legacy = {} /\ new.canon = {t} /\ new.chain = {}
    BY <2>3, <2>4 DEF Rows
  <2>6. w \in Rows /\ w.legacy = v.legacy /\ w.canon = v.canon \cup {t} /\ w.chain = v.chain
    <3>1. /\ w \in Rows /\ w.legacy = v.legacy \cup new.legacy
          /\ w.canon = v.canon \cup new.canon /\ w.chain = v.chain \cup new.chain
      BY <2>5, MergeRows
    <3> HIDE DEF w
    <3> QED
      BY <3>1, <2>5
  <2> HIDE DEF w
  <2>7. IdsUpTo(w, m)
    BY <2>4, <2>6 DEF Good, IdsUpTo
  <2>8. UniqueKeys(w.canon)
    <3>1. \A f \in v.canon : f.key # key
      BY <1>2 DEF WithKey
    <3> QED
      BY <3>1, <2>4, <2>6 DEF Good, UniqueKeys
  <2>9. ChainedIn(w)
    BY <2>6 DEF Good, ChainedIn
  <2> QED
    BY <2>5, <2>6, <2>7, <2>8, <2>9 DEF Good, w
<1> QED
  BY <1>1, <1>2

(***************************************************************************)
(* persist_event with its own chain row, with and without the copy in the  *)
(* legacy table.                                                           *)
(***************************************************************************)
LEMMA PersistEventKeepsGood ==
  ASSUME NEW v \in Rows, NEW m \in Nat, Good(v, m),
         NEW source \in Source, NEW c \in Content, NEW also, "chain" \in also,
         NEW new, new = PersistEvent(v, m + 1, source, c, also)
  PROVE  new \in Rows /\ Merge(v, new) \in Rows /\ Good(Merge(v, new), m + 1)
<1> DEFINE key == KeyInCanon(source, c)
           sha == Digest("canonical", m + 1, c)
           t == [id |-> m + 1, key |-> key, sha |-> sha, content |-> c]
           e == [id |-> m + 1, key |-> key, sha |-> sha, status |-> "valid"]
           n == NextChainRow(v.chain, m + 1, sha)
           w == Merge(v, new)
<1>1. CASE WithKey(v.canon, key) # {}
  <2>1. new = Nothing
    BY <1>1 DEF PersistEvent
  <2> QED
    BY <2>1, MergeNothing, GoodGrows
<1>2. CASE WithKey(v.canon, key) = {}
  <2>1. sha \in Digests
    BY DEF Digest, Digests
  <2>2. key \in Key
    BY DEF Key
  <2>3. /\ new.canon = {t} /\ new.chain = {n}
        /\ new.legacy = IF "legacy" \notin also \/ WithKey(v.legacy, key) # {} THEN {} ELSE {e}
        /\ new = [legacy |-> new.legacy, canon |-> new.canon, chain |-> new.chain]
    BY <1>2 DEF PersistEvent
  <2> HIDE DEF key, sha
  <2>4. t \in CanonRow /\ t.id = m + 1 /\ t.key = key
    BY <2>1, <2>2 DEF CanonRow
  <2>5. /\ e \in LegacyRow /\ e.id = m + 1 /\ e.key = key /\ e.sha = sha
        /\ e.status = "valid"
    BY <2>1, <2>2 DEF LegacyRow
  <2>6. v.chain \in SUBSET ChainRow /\ Linked(v.chain) /\ \A r \in v.chain : r.id # m + 1
    BY DEF Good, IdsUpTo, Rows
  <2>7. n \in ChainRow /\ Linked(v.chain \cup {n}) /\ n.id = m + 1 /\ n.sha = sha
    <3> HIDE DEF t, e
    <3>1. m + 1 \in Nat
      OBVIOUS
    <3>2. n \in ChainRow /\ Linked(v.chain \cup {n})
      BY <2>1, <2>6, <3>1, NextRowLinks
    <3> QED
      BY <3>2 DEF NextChainRow
  <2> HIDE DEF t, e, n
  <2>8. \/ new.legacy = {}
        \/ new.legacy = {e} /\ WithKey(v.legacy, key) = {}
    BY <2>3
  <2>9. new \in Rows
    BY <2>3, <2>4, <2>5, <2>7, <2>8 DEF Rows
  <2>10. /\ w \in Rows /\ w.legacy = v.legacy \cup new.legacy
         /\ w.canon = v.canon \cup {t} /\ w.chain = v.chain \cup {n}
    BY <2>3, <2>9, MergeRows
  <2> HIDE DEF w
  <2>11. IdsUpTo(w, m + 1)
    BY SMTT(60), <2>4, <2>5, <2>7, <2>8, <2>10 DEF Good, IdsUpTo
  <2>12. ChainedIn(w)
    <3> SUFFICES ASSUME NEW f \in w.legacy
                 PROVE  IF f.status = "rejected" THEN \A r \in w.chain : r.id # f.id
                        ELSE \E r \in w.chain : r.id = f.id /\ r.sha = f.sha
      BY DEF ChainedIn
    <3>1. CASE f \in v.legacy
      <4>1. f.id \in 1..m
        BY <3>1 DEF Good, IdsUpTo
      <4>2. n.id # f.id
        BY <4>1, <2>7
      <4> QED
        BY <3>1, <4>2, <2>10 DEF Good, ChainedIn
    <3>2. CASE f = e
      BY <3>2, <2>5, <2>7, <2>10
    <3> QED
      BY <3>1, <3>2, <2>8, <2>10
  <2>13. UniqueKeys(w.legacy)
    BY <2>5, <2>8, <2>10 DEF Good, UniqueKeys, WithKey
  <2>14. UniqueKeys(w.canon)
    <3>1. \A f \in v.canon : f.key # key
      BY <1>2 DEF WithKey
    <3> QED
      BY <3>1, <2>4, <2>10 DEF Good, UniqueKeys
  <2> QED
    BY ZenonT(30), <2>7, <2>9, <2>10, <2>11, <2>12, <2>13, <2>14 DEF Good, w
<1> QED
  BY <1>1, <1>2
-----------------------------------------------------------------------------
(***************************************************************************)
(* What the stores owe each other (Paired), with W the contents whose      *)
(* canonical rows a transaction has still to write: the events of the      *)
(* webhook are chained; a canonical row has the digest of its content, and *)
(* of its chain row if it has one; an event or a chain row with a          *)
(* canonical digest has a canonical row, or W has its content.             *)
(***************************************************************************)
InChain(R, id) == \E q \in R : q.id = id

HasKey(rows, key) == \E t \in rows : t.key = key

WebhookChained(E, R) ==
  \A e \in E, c \in Content : e.key = KeyInLegacy("webhook", c) => InChain(R, e.id)

Matched(v) ==
  \A t \in v.canon : /\ t.sha = Digest("canonical", t.id, t.content)
                     /\ \A q \in v.chain : q.id = t.id => q.sha = t.sha

EventsTwinned(v, W) ==
  \A e \in v.legacy : e.sha.form = "canonical" /\ e.key[1] = "legacy" =>
    \/ HasKey(v.canon, KeyInCanon(e.key[2], e.sha.content))
    \/ e.key[2] = "webhook" /\ e.sha.content \in W

ChainTwinned(v, W) ==
  \A q \in v.chain : q.sha.form = "canonical" =>
    \/ InChain(v.canon, q.id)
    \/ HasKey(v.canon, KeyInCanon("webhook", q.sha.content))
    \/ q.sha.content \in W

Paired(v, W) ==
  /\ WebhookChained(v.legacy, v.chain) /\ Matched(v)
  /\ EventsTwinned(v, W) /\ ChainTwinned(v, W)

LEMMA KeyParts ==
  ASSUME NEW source, NEW c
  PROVE  /\ KeyInLegacy(source, c)[1] = "legacy" /\ KeyInLegacy(source, c)[2] = source
         /\ KeyInCanon(source, c)[1] = "canonical" /\ KeyInCanon(source, c)[2] = source
BY Zenon DEF KeyInLegacy, KeyInCanon

LEMMA PairedGrows ==
  ASSUME NEW v, NEW W, NEW U, Paired(v, W), W \subseteq U
  PROVE  Paired(v, U)
BY DEF Paired, EventsTwinned, ChainTwinned

LEMMA PairedWithLess ==
  ASSUME NEW v, NEW w, NEW W, Paired(v, W),
         w.legacy \subseteq v.legacy, w.canon = v.canon, w.chain = v.chain
  PROVE  Paired(w, W)
BY Zenon DEF Paired, WebhookChained, Matched, EventsTwinned, ChainTwinned

(***************************************************************************)
(* store_event, and one row of store_events_batch: an event with a         *)
(* canonical digest is one of U, and the id reported is in the chain, also *)
(* if the row was found in known.                                          *)
(***************************************************************************)
StoreCall(v, m, U, known, source, c, form, new, w, id) ==
  /\ v \in Rows /\ m \in Nat /\ Good(v, m) /\ Paired(v, U)
  /\ v.legacy \subseteq known /\ WebhookChained(known, v.chain)
  /\ source \in {"webhook", "epcis"} /\ c \in Content /\ form \in {"legacy", "canonical"}
  /\ form = "canonical" => source = "webhook" /\ c \in U
  /\ new = StoreEvent(v, known, m + 1, source, c, form)
  /\ w = Merge(v, new) /\ id = StoredId(known, m + 1, source, c)

LEMMA StoreEventPaired ==
  ASSUME NEW v, NEW m, NEW U, NEW known, NEW source, NEW c, NEW form, NEW new, NEW w, NEW id,
         StoreCall(v, m, U, known, source, c, form, new, w, id)
  PROVE  /\ Paired(w, U)
         /\ v.chain \subseteq w.chain
         /\ new.canon = {} /\ \A e \in new.legacy : e.id = m + 1
         /\ source = "webhook" => InChain(w.chain, id)
<1> USE DEF StoreCall
<1> DEFINE key == KeyInLegacy(source, c)
           hit == WithKey(known, key)
           sha == Digest(form, m + 1, c)
           e == [id |-> m + 1, key |-> key, sha |-> sha, status |-> Status(source, c)]
           n == NextChainRow(v.chain, m + 1, sha)
<1>1. CASE hit # {}
  <2>1. new = Nothing /\ new.canon = {} /\ new.legacy = {}
    BY <1>1, Zenon DEF StoreEvent, Nothing
  <2>2. w = v
    BY <2>1, MergeNothing
  <2>3. source = "webhook" => InChain(w.chain, id)
    <3>1. id = (CHOOSE r \in hit : TRUE).id
      BY <1>1 DEF StoredId
    <3>2. (CHOOSE r \in hit : TRUE) \in known /\ (CHOOSE r \in hit : TRUE).key = key
      BY <1>1, Zenon DEF WithKey
    <3> QED
      BY <2>2, <3>1, <3>2, Zenon DEF WebhookChained
  <2> QED
    BY <2>1, <2>2, <2>3, Zenon
<1>2. CASE hit = {}
  <2>1. id = m + 1
    BY <1>2, Zenon DEF StoredId
  <2>2. new \in Rows
    <3>1. source \in Source
      BY Zenon DEF Source
    <3> QED
      BY <3>1, StoreEventKeepsGood
  <2>3. /\ new.legacy = {e} /\ new.canon = {}
        /\ new.chain = IF Status(source, c) = "rejected" THEN {} ELSE {n}
    BY <1>2, Zenon DEF StoreEvent
  <2>4. e.id = m + 1 /\ e.key = key /\ e.sha = sha
    BY Zenon
  <2>5. sha.form = form /\ sha.content = c
    BY Zenon DEF Digest
  <2>6. n.id = m + 1 /\ n.sha = sha
    BY Zenon DEF NextChainRow
  <2>7. source = "webhook" => new.chain = {n}
    BY <2>3, Zenon DEF Status
  <2>8. key[1] = "legacy" /\ key[2] = source
    BY KeyParts, Zenon
  <2>9. /\ w.legacy = v.legacy \cup new.legacy /\ w.canon = v.canon \cup new.canon
        /\ w.chain = v.chain \cup new.chain
    BY <2>2, MergeRows, ZenonT(60)
  <2>10. \A q \in new.chain : q = n
    BY <2>3
  <2> HIDE DEF e, n, sha, key, hit
  <2>11. w.legacy = v.legacy \cup {e} /\ w.canon = v.canon
    BY <2>3, <2>9, Zenon
  <2>12. WebhookChained(w.legacy, w.chain)
    <3> SUFFICES ASSUME NEW f \in w.legacy, NEW d \in Content, f.key = KeyInLegacy("webhook", d)
                 PROVE  InChain(w.chain, f.id)
      BY Zenon DEF WebhookChained
    <3>1. CASE f \in v.legacy
      BY <3>1, <2>9, Zenon DEF Paired, WebhookChained, InChain
    <3>2. CASE f = e
      <4>1. source = "webhook"
        BY <3>2, <2>4, <2>8, KeyParts, ZenonT(60)
      <4> QED
        BY <3>2, <4>1, <2>4, <2>6, <2>7, <2>9, Zenon DEF InChain
    <3> QED
      BY <3>1, <3>2, <2>11, Zenon
  <2>13. Matched(w)
    <3>1. \A t \in v.canon : t.id # m + 1
      BY DEF Good, IdsUpTo
    <3> QED
      BY <3>1, <2>6, <2>9, <2>10, <2>11 DEF Paired, Matched
  <2>14. EventsTwinned(w, U)
    BY <2>4, <2>5, <2>8, <2>11 DEF Paired, EventsTwinned
  <2>15. ChainTwinned(w, U)
    BY <2>5, <2>6, <2>9, <2>10, <2>11, ZenonT(60) DEF Paired, ChainTwinned
  <2>16. source = "webhook" => InChain(w.chain, id)
    BY <2>1, <2>6, <2>7, <2>9, Zenon DEF InChain
  <2> QED
    BY <2>3, <2>4, <2>9, <2>12, <2>13, <2>14, <2>15, <2>16, Zenon DEF Paired
<1> QED
  BY <1>1, <1>2, Zenon

(***************************************************************************)
(* persist_event with skip_chain_write, when the digest matches the chain  *)
(* row of the id: the content of a webhook event leaves W.                 *)
(***************************************************************************)
TwinCall(v, m, id, W, U, source, c, new, w) ==
  /\ v \in Rows /\ m \in Nat /\ Good(v, m) /\ id \in 1..m /\ Paired(v, W)
  /\ source \in Source /\ c \in Content
  /\ \A x \in W : x \in U \/ (x = c /\ source = "webhook")
  /\ new = PersistEvent(v, id, source, c, {}) /\ ~LedgerMismatch(v, id, source, c)
  /\ w = Merge(v, new)

LEMMA PersistTwinPaired ==
  ASSUME NEW v, NEW m, NEW id, NEW W, NEW U, NEW source, NEW c, NEW new, NEW w,
         TwinCall(v, m, id, W, U, source, c, new, w)
  PROVE  /\ Paired(w, U)
         /\ w.chain = v.chain /\ new.legacy = {} /\ v.canon \subseteq w.canon
         /\ \A t \in new.canon : /\ t.id = id /\ ~HasKey(v.canon, KeyInCanon(source, c))
                                 /\ \A q \in v.chain : q.id = id => q.sha = Digest("canonical", id, c)
<1> USE DEF TwinCall
<1> DEFINE key == KeyInCanon(source, c)
           sha == Digest("canonical", id, c)
           t == [id |-> id, key |-> key, sha |-> sha, content |-> c]
<1>1. new \in Rows
  BY PersistTwinKeepsGood
<1>2. /\ w.legacy = v.legacy \cup new.legacy /\ w.canon = v.canon \cup new.canon
      /\ w.chain = v.chain \cup new.chain
  BY <1>1, MergeRows, Zenon
<1>3. /\ new.legacy = {} /\ new.chain = {}
      /\ \/ new.canon = {} /\ HasKey(v.canon, key)
         \/ /\ new.canon = {t} /\ ~HasKey(v.canon, key)
            /\ \A q \in v.chain : q.id = id => q.sha = sha
  <2>1. CASE WithKey(v.canon, key) # {}
    <3>1. new = Nothing
      BY <2>1, Zenon DEF PersistEvent
    <3> QED
      BY <2>1, <3>1 DEF Nothing, WithKey, HasKey
  <2>2. CASE WithKey(v.canon, key) = {}
    <3>1. new = [canon |-> {t}, chain |-> {}, legacy |-> {}]
      BY <2>2, Zenon DEF PersistEvent
    <3>2. \A q \in v.chain : q.id = id => q.sha = sha
      BY <2>2, Zenon DEF LedgerMismatch
    <3>3. ~HasKey(v.canon, key)
      BY <2>2 DEF WithKey, HasKey
    <3> HIDE DEF t, sha, key
    <3>4. new.legacy = {} /\ new.chain = {} /\ new.canon = {t}
      BY <3>1
    <3> QED
      BY <3>2, <3>3, <3>4, Zenon
  <2> QED
    BY <2>1, <2>2, Zenon
<1>4. t.id = id /\ t.key = key /\ t.sha = sha /\ t.content = c
  OBVIOUS
<1>5. sha = Digest("canonical", id, c)
  OBVIOUS
<1> HIDE DEF t, sha
<1>6. w.legacy = v.legacy /\ w.chain = v.chain
  BY <1>2, <1>3, Zenon
<1>7. HasKey(w.canon, key) /\ \A k : HasKey(v.canon, k) => HasKey(w.canon, k)
  BY <1>2, <1>3, <1>4, Zenon DEF HasKey
<1>8. WebhookChained(w.legacy, w.chain)
  BY <1>6, Zenon DEF Paired
<1>9. Matched(w)
  BY <1>2, <1>3, <1>4, <1>5, <1>6 DEF Paired, Matched
<1>10. \A x \in W : x \in U \/ (HasKey(w.canon, KeyInCanon("webhook", x)))
  BY <1>7, Zenon
<1> HIDE DEF key
<1>11. EventsTwinned(w, U)
  BY <1>6, <1>7, <1>10, Zenon DEF Paired, EventsTwinned
<1>12. ChainTwinned(w, U)
  BY <1>2, <1>6, <1>7, <1>10, Zenon DEF Paired, ChainTwinned, InChain
<1> QED
  BY <1>2, <1>3, <1>4, <1>5, <1>6, <1>8, <1>9, <1>11, <1>12 DEF Paired, key

(***************************************************************************)
(* persist_event with its own chain row and id.                            *)
(***************************************************************************)
PersistCall(v, m, W, source, c, also, new, w) ==
  /\ v \in Rows /\ m \in Nat /\ Good(v, m) /\ Paired(v, W)
  /\ source \in Source /\ c \in Content /\ "chain" \in also
  /\ new = PersistEvent(v, m + 1, source, c, also) /\ w = Merge(v, new)

LEMMA PersistEventPaired ==
  ASSUME NEW v, NEW m, NEW W, NEW source, NEW c, NEW also, NEW new, NEW w,
         PersistCall(v, m, W, source, c, also, new, w)
  PROVE  /\ Paired(w, W)
         /\ v.chain \subseteq w.chain
         /\ \A e \in new.legacy : e.id = m + 1
         /\ \A t \in new.canon : t.id = m + 1
<1> USE DEF PersistCall
<1> DEFINE key == KeyInCanon(source, c)
           sha == Digest("canonical", m + 1, c)
           t == [id |-> m + 1, key |-> key, sha |-> sha, content |-> c]
           e == [id |-> m + 1, key |-> key, sha |-> sha, status |-> "valid"]
           n == NextChainRow(v.chain, m + 1, sha)
<1>1. CASE WithKey(v.canon, key) # {}
  <2>1. new = Nothing /\ new.canon = {} /\ new.legacy = {}
    BY <1>1 DEF PersistEvent, Nothing
  <2>2. w = v
    BY <2>1, MergeNothing, Zenon
  <2> QED
    BY <2>1, <2>2, Zenon
<1>2. CASE WithKey(v.canon, key) = {}
  <2>1. new \in Rows
    BY PersistEventKeepsGood, Zenon
  <2>2. new.canon = {t} /\ new.chain = {n} /\ new.legacy \in {{}, {e}}
    BY <1>2, Zenon DEF PersistEvent
  <2>3. /\ t.id = m + 1 /\ t.key = key /\ t.sha = sha /\ t.content = c
        /\ e.id = m + 1 /\ e.key = key /\ sha = Digest("canonical", m + 1, c)
    OBVIOUS
  <2>4. n.id = m + 1 /\ n.sha = sha
    BY DEF NextChainRow
  <2>5. key[1] = "canonical"
    BY KeyParts
  <2> HIDE DEF t, e, n, sha, key
  <2>6. /\ w.canon = v.canon \cup {t} /\ w.chain = v.chain \cup {n}
        /\ w.legacy = v.legacy \cup new.legacy
    BY <2>1, <2>2, MergeRows
  <2>7. \A f \in w.legacy : f \in v.legacy \/ f.key[1] = "canonical"
    BY <2>2, <2>3, <2>5, <2>6, Zenon
  <2>8. WebhookChained(w.legacy, w.chain)
    BY <2>6, <2>7, KeyParts DEF Paired, WebhookChained, InChain
  <2>9. Matched(w)
    <3>1. \A u \in v.canon : u.id # m + 1
      BY DEF Good, IdsUpTo
    <3>2. \A q \in v.chain : q.id # m + 1
      BY DEF Good, IdsUpTo
    <3> QED
      BY <3>1, <3>2, <2>3, <2>4, <2>6 DEF Paired, Matched
  <2>10. EventsTwinned(w, W)
    BY <2>6, <2>7, Zenon DEF Paired, EventsTwinned, HasKey
  <2>11. ChainTwinned(w, W)
    BY <2>3, <2>4, <2>6 DEF Paired, ChainTwinned, HasKey, InChain
  <2> QED
    BY <2>2, <2>3, <2>6, <2>8, <2>9, <2>10, <2>11 DEF Paired
<1> QED
  BY <1>1, <1>2, Zenon

(***************************************************************************)
(* The inductive invariant.                                                *)
(***************************************************************************)
IdsMinted(r, m) ==
  /\ \A k \in 1..Len(r.ids) : r.ids[k] \in 1..m
  /\ \A e \in r.seen : e.id \in 1..m

OnlyHolderWrites(r, s) ==
  r.tx # Nothing \/ r.pc \in {"batch", "canon"} => lock = s

SessionInv(s) ==
  /\ Good(MyView(s), minted)
  /\ OnlyHolderWrites(sess[s], s)
  /\ IdsMinted(sess[s], minted)
  /\ sess[s].pc = "batch" => legacy \subseteq sess[s].seen

Committed == View(Nothing)

StoresOK ==
  /\ minted \in Nat
  /\ View(Nothing) \in Rows
  /\ lock \in Session \cup {NoSession}
  /\ sess \in [Session -> SessionState]
  /\ \A s \in Session : InRange(sess[s])
  /\ Good(Committed, minted)
  /\ \A s \in Session : SessionInv(s)

BooksOK ==
  /\ DOMAIN charges \subseteq Nat
  /\ invoices \in Seq(Nat)
  /\ requests \in 0..MaxRequests /\ faults \in 0..MaxFaults

IInv == StoresOK /\ BooksOK
-----------------------------------------------------------------------------
(***************************************************************************)
(* An id that was minted stays minted, and a session that keeps its ids    *)
(* and the rows it read keeps them minted.                                 *)
(***************************************************************************)
LEMMA IdsStayMinted ==
  ASSUME NEW q, NEW r, NEW m \in Nat, NEW n \in Nat, m <= n,
         IdsMinted(q, m), r.ids = q.ids, r.seen = q.seen
  PROVE  IdsMinted(r, n)
<1>1. \A x \in 1..m : x \in 1..n
  OBVIOUS
<1>2. \A k \in 1..Len(q.ids) : q.ids[k] \in 1..n
  BY <1>1 DEF IdsMinted
<1>3. \A e \in q.seen : e.id \in 1..n
  BY <1>1, SMTT(30) DEF IdsMinted
<1> QED
  BY <1>2, <1>3 DEF IdsMinted

LEMMA CommittedRows ==
  ASSUME StoresOK
  PROVE  /\ [legacy |-> legacy, canon |-> canon, chain |-> chain] \in Rows
         /\ Committed = [legacy |-> legacy, canon |-> canon, chain |-> chain]
BY DEF StoresOK, Committed, View, Merge, Nothing, Rows

LEMMA CommittedIsGood ==
  ASSUME StoresOK
  PROVE  /\ chain \in SUBSET ChainRow /\ Linked(chain)
         /\ UniqueKeys(legacy) /\ UniqueKeys(canon)
         /\ \A e \in legacy :
              IF e.status = "rejected" THEN \A r \in chain : r.id # e.id
              ELSE \E r \in chain : r.id = e.id /\ r.sha = e.sha
<1> DEFINE c == [legacy |-> legacy, canon |-> canon, chain |-> chain]
<1>1. c.legacy = legacy /\ c.canon = canon /\ c.chain = chain
  OBVIOUS
<1>2. c \in Rows /\ Good(c, minted)
  BY CommittedRows DEF StoresOK
<1> HIDE DEF c
<1>3. c.chain \in SUBSET ChainRow
  BY <1>2 DEF Rows
<1>4. Linked(c.chain) /\ ChainedIn(c) /\ UniqueKeys(c.legacy) /\ UniqueKeys(c.canon)
  BY <1>2 DEF Good
<1> QED
  BY <1>1, <1>3, <1>4 DEF ChainedIn

LEMMA ViewRows ==
  ASSUME StoresOK, NEW d \in Rows
  PROVE  /\ View(d) \in Rows
         /\ View(d).legacy = legacy \cup d.legacy
         /\ View(d).canon = canon \cup d.canon
         /\ View(d).chain = chain \cup d.chain
<1> DEFINE c == [legacy |-> legacy, canon |-> canon, chain |-> chain]
<1>1. c \in Rows /\ c.legacy = legacy /\ c.canon = canon /\ c.chain = chain
  BY CommittedRows
<1> HIDE DEF c
<1>2. Merge(c, d) \in Rows /\ Merge(c, d).legacy = legacy \cup d.legacy
      /\ Merge(c, d).canon = canon \cup d.canon /\ Merge(c, d).chain = chain \cup d.chain
  BY <1>1, MergeRows
<1> QED
  BY <1>2 DEF View, c

LEMMA ViewMerge ==
  ASSUME StoresOK, NEW d \in Rows, NEW e \in Rows
  PROVE  View(Merge(d, e)) = Merge(View(d), e)
BY CommittedRows, MergeAssociates DEF View

LEMMA NothingInRows == Nothing \in Rows
BY DEF Nothing, Rows

(***************************************************************************)
(* The loop over a request's events moves on and leaves the rest alone.    *)
(***************************************************************************)
LEMMA AdvanceMoves ==
  ASSUME NEW r \in SessionState, r.i <= Len(r.events),
         NEW next \in {"canon", "commit"}, NEW a, a = Advance(r, next)
  PROVE  /\ a \in SessionState
         /\ a.events = r.events /\ a.seen = r.seen /\ a.ids = r.ids /\ a.tx = r.tx
         /\ a.kind = r.kind /\ a.billable = r.billable /\ a.claim = r.claim
         /\ \/ a.pc = r.pc /\ a.i = r.i + 1 /\ a.i <= Len(r.events)
            \/ a.pc = next /\ a.i = 1 /\ r.i = Len(r.events)
<1>1. r.i \in Nat \ {0} /\ Len(r.events) \in Nat
  BY DEF SessionState
<1>2. CASE r.i < Len(r.events)
  <2>1. a = [r EXCEPT !.i = r.i + 1]
    BY <1>2 DEF Advance
  <2>2. r.i + 1 \in Nat \ {0} /\ r.i + 1 <= Len(r.events)
    BY <1>1, <1>2
  <2>3. a \in SessionState
    BY SMTT(30), <2>1, <2>2 DEF SessionState
  <2> QED
    BY ZenonT(30), <2>1, <2>2, <2>3 DEF SessionState
<1>3. CASE ~(r.i < Len(r.events))
  <2>1. a = [r EXCEPT !.i = 1, !.pc = next]
    BY <1>3 DEF Advance
  <2>2. r.i = Len(r.events)
    BY <1>1, <1>3
  <2>3. a \in SessionState
    <3>1. 1 \in Nat \ {0}
      OBVIOUS
    <3> QED
      BY ZenonT(30), <2>1, <3>1 DEF SessionState
  <2> QED
    BY <2>1, <2>2, <2>3 DEF SessionState
<1> QED
  BY <1>2, <1>3

(***************************************************************************)
(* A step of one session that commits nothing.                             *)
(***************************************************************************)
LEMMA SessionStepKeeps ==
  ASSUME StoresOK, NEW s \in Session, NEW r \in SessionState,
         sess' = [sess EXCEPT ![s] = r],
         UNCHANGED tables,
         minted' \in Nat, minted <= minted',
         InRange(r), IdsMinted(r, minted'), Good(View(r.tx), minted'),
         r.tx # Nothing \/ r.pc \in {"batch", "canon"} => lock' = s,
         r.pc = "batch" => legacy \subseteq r.seen,
         \/ lock' = lock
         \/ lock \in {NoSession, s} /\ lock' \in {NoSession, s}
  PROVE  StoresOK'
<1>1. /\ sess \in [Session -> SessionState] /\ minted \in Nat
      /\ lock \in Session \cup {NoSession}
      /\ View(Nothing) \in Rows
  BY DEF StoresOK
<1>2. /\ sess' \in [Session -> SessionState]
      /\ sess'[s] = r
      /\ \A t \in Session \ {s} : sess'[t] = sess[t]
  BY <1>1
<1>3. \A t \in Session : InRange(sess'[t])
  BY <1>2 DEF StoresOK
<1>4. Committed' = Committed /\ View(Nothing)' = View(Nothing)
  BY DEF tables, Committed, View
<1>5. Good(Committed', minted')
  BY <1>1, <1>4, GoodGrows DEF StoresOK, Committed
<1>6. ASSUME NEW t \in Session
      PROVE  SessionInv(t)'
  <2>1. CASE t = s
    <3>1. MyView(t)' = View(r.tx)
      BY <2>1, <1>2 DEF MyView, View, tables
    <3> QED
      BY <3>1, <2>1, <1>2 DEF SessionInv, OnlyHolderWrites, tables
  <2>2. CASE t # s
    <3>1. MyView(t)' = MyView(t) /\ sess'[t] = sess[t] /\ legacy' = legacy
      BY <2>2, <1>2, Zenon DEF MyView, View, tables
    <3>2. MyView(t) \in Rows
      <4>1. sess[t].tx \in Rows
        BY <1>1 DEF SessionState
      <4> QED
        BY <4>1, ViewRows, Zenon DEF StoresOK, MyView
    <3>3. SessionInv(t)
      BY DEF StoresOK
    <3>4. Good(MyView(t), minted')
      BY <3>2, <3>3, <1>1, GoodGrows, Zenon DEF SessionInv
    <3>5. IdsMinted(sess[t], minted')
      BY <3>3, <1>1, IdsStayMinted, Zenon DEF SessionInv
    <3>6. OnlyHolderWrites(sess[t], t)'
      BY <3>1, <3>3, <2>2, SessionAssumption, Zenon DEF SessionInv, OnlyHolderWrites
    <3> QED
      BY <3>1, <3>3, <3>4, <3>5, <3>6, Zenon DEF SessionInv
  <2> QED
    BY <2>1, <2>2
<1>7. lock' \in Session \cup {NoSession}
  BY <1>1, Zenon
<1> QED
  BY <1>1, <1>2, <1>3, <1>4, <1>5, <1>6, <1>7, Zenon DEF StoresOK

(***************************************************************************)
(* What a session in a transaction can rely on.                            *)
(***************************************************************************)
LEMMA InTransaction ==
  ASSUME StoresOK, NEW s \in Session
  PROVE  /\ minted \in Nat
         /\ sess[s] \in SessionState /\ sess[s].tx \in Rows /\ InRange(sess[s])
         /\ MyView(s) \in Rows /\ Good(MyView(s), minted)
         /\ MyView(s).legacy = legacy \cup sess[s].tx.legacy
         /\ sess[s].pc \in {"ready", "batch", "canon", "fallback"} => Current(s) \in Content
<1>1. sess[s] \in SessionState /\ InRange(sess[s]) /\ minted \in Nat
  BY DEF StoresOK
<1>2. sess[s].tx \in Rows /\ sess[s].events \in Seq(Content) /\ sess[s].i \in Nat \ {0}
  BY <1>1 DEF SessionState
<1>3. MyView(s) \in Rows /\ MyView(s).legacy = legacy \cup sess[s].tx.legacy
  BY <1>1, <1>2, ViewRows, Zenon DEF MyView
<1>4. sess[s].pc \in {"ready", "batch", "canon", "fallback"} => Current(s) \in Content
  BY <1>1, <1>2 DEF InRange, Current
<1> QED
  BY <1>1, <1>2, <1>3, <1>4 DEF StoresOK, SessionInv

(***************************************************************************)
(* store_event as a step of a transaction: the ids minted, the view that   *)
(* results, and the id it reports, which is minted whether the key was     *)
(* known or not.                                                           *)
(***************************************************************************)
LEMMA StoreEventStep ==
  ASSUME NEW v \in Rows, NEW m \in Nat, Good(v, m),
         NEW known, v.legacy \subseteq known, \A e \in known : e.id \in 1..m,
         NEW source \in Source, NEW c \in Content, NEW form \in {"legacy", "canonical"},
         NEW new, new = StoreEvent(v, known, m + 1, source, c, form),
         NEW id, id = StoredId(known, m + 1, source, c),
         NEW n, n = IF new = Nothing THEN m ELSE m + 1
  PROVE  /\ n \in Nat /\ m <= n
         /\ new \in Rows /\ Merge(v, new) \in Rows /\ Good(Merge(v, new), n)
         /\ id \in 1..n
<1> DEFINE hit == WithKey(known, KeyInLegacy(source, c))
<1>1. new \in Rows /\ Merge(v, new) \in Rows /\ Good(Merge(v, new), m + 1)
  BY StoreEventKeepsGood
<1>2. CASE hit # {}
  <2>1. new = Nothing /\ n = m
    BY <1>2, Zenon DEF StoreEvent
  <2>2. id = (CHOOSE r \in hit : TRUE).id
    BY <1>2 DEF StoredId
  <2>3. (CHOOSE r \in hit : TRUE) \in known
    BY <1>2 DEF WithKey
  <2>4. id \in 1..m
    BY <2>2, <2>3, Zenon
  <2> QED
    BY <2>1, <2>4, MergeNothing
<1>3. CASE hit = {}
  <2>1. id = m + 1
    BY <1>3 DEF StoredId
  <2>2. new.legacy # {}
    BY ZenonT(30), <1>3 DEF StoreEvent
  <2>3. n = m + 1
    <3>1. new # Nothing
      BY <2>2 DEF Nothing
    <3> QED
      BY <3>1, Zenon
  <2> QED
    BY <1>1, <2>1, <2>3
<1> QED
  BY <1>2, <1>3

LEMMA IdleIsFine ==
  ASSUME NEW m \in Nat
  PROVE  /\ IdleSession \in SessionState
         /\ InRange(IdleSession) /\ IdsMinted(IdleSession, m)
         /\ IdleSession.pc = "idle" /\ IdleSession.tx = Nothing
<1>1. 1 \in Nat \ {0} /\ 0 \in Nat
  OBVIOUS
<1>2. << >> \in Seq(Content) /\ << >> \in Seq(Nat)
  OBVIOUS
<1>3. IdleSession \in SessionState
  BY <1>1, <1>2, NothingInRows DEF IdleSession, SessionState
<1>4. /\ IdleSession.pc = "idle" /\ IdleSession.tx = Nothing
      /\ IdleSession.ids = << >> /\ IdleSession.seen = {}
  BY DEF IdleSession
<1>5. InRange(IdleSession)
  BY <1>4 DEF InRange
<1>6. IdsMinted(IdleSession, m)
  BY <1>4, Len(<< >>) = 0 DEF IdsMinted
<1> QED
  BY <1>3, <1>4, <1>5, <1>6

(***************************************************************************)
(* A step that handles one event of a request and moves on to the next, or *)
(* to the COMMIT.                                                          *)
(***************************************************************************)
LEMMA AdvanceToCommit ==
  ASSUME StoresOK, NEW s \in Session, NEW r \in SessionState,
         r.pc = sess[s].pc, r.i = sess[s].i, r.events = sess[s].events,
         r.ids = sess[s].ids, r.seen = sess[s].seen,
         r.pc \in {"ready", "canon", "fallback"}, r.pc = "ready" => r.kind # "webhook",
         sess' = [sess EXCEPT ![s] = Advance(r, "commit")],
         UNCHANGED tables,
         minted' \in Nat, minted <= minted', Good(View(r.tx), minted'),
         r.tx # Nothing \/ r.pc = "canon" => lock' = s,
         \/ lock' = lock
         \/ lock \in {NoSession, s} /\ lock' \in {NoSession, s}
  PROVE  StoresOK'
<1> DEFINE a == Advance(r, "commit")
<1>1. /\ sess[s] \in SessionState /\ InRange(sess[s])
      /\ IdsMinted(sess[s], minted) /\ minted \in Nat
  BY DEF StoresOK, SessionInv
<1>2. r.i <= Len(r.events)
  BY <1>1, Zenon DEF InRange
<1>3. /\ a \in SessionState
      /\ a.events = r.events /\ a.seen = r.seen /\ a.ids = r.ids /\ a.tx = r.tx
      /\ a.kind = r.kind
      /\ \/ a.pc = r.pc /\ a.i = r.i + 1 /\ a.i <= Len(r.events)
         \/ a.pc = "commit" /\ a.i = 1 /\ r.i = Len(r.events)
  BY <1>2, AdvanceMoves
<1> HIDE DEF a
<1>4. InRange(a)
  BY <1>1, <1>3, Zenon DEF InRange
<1>5. IdsMinted(a, minted')
  BY <1>1, <1>3, IdsStayMinted, Zenon
<1>6. a.tx # Nothing \/ a.pc \in {"batch", "canon"} => lock' = s
  BY <1>3, Zenon
<1>7. a.pc # "batch"
  BY <1>3
<1>8. sess' = [sess EXCEPT ![s] = a]
  BY DEF a
<1>9. Good(View(a.tx), minted')
  BY <1>3
<1> QED
  BY ZenonT(30), <1>3, <1>4, <1>5, <1>6, <1>7, <1>8, <1>9, SessionStepKeeps
-----------------------------------------------------------------------------
(***************************************************************************)
(* One lemma per action.                                                   *)
(***************************************************************************)
LEMMA ReceiveKeeps ==
  ASSUME StoresOK, NEW s \in Session, Receive(s)
  PROVE  StoresOK'
<1>1. PICK kind \in {"webhook", "compat", "epcis", "portal"}, events \in Batches :
        sess' = [sess EXCEPT ![s] = [IdleSession EXCEPT
                   !.pc = "ready", !.kind = kind, !.events = events]]
  BY ZenonT(30) DEF Receive
<1> DEFINE r == [IdleSession EXCEPT !.pc = "ready", !.kind = kind, !.events = events]
<1>2. minted \in Nat
  BY DEF StoresOK
<1>3. events \in Seq(Content) /\ events # << >>
  BY BatchesAssumption
<1>4. 1 <= Len(events)
  BY <1>3
<1>5. /\ r \in SessionState /\ r.tx = Nothing /\ r.pc = "ready"
      /\ r.i = 1 /\ r.events = events /\ r.ids = << >> /\ r.seen = {}
  <2>1. IdleSession \in SessionState
    BY <1>2, IdleIsFine
  <2>2. r \in SessionState
    BY ZenonT(30), <2>1, <1>3 DEF SessionState
  <2> QED
    BY <2>2 DEF IdleSession
<1> HIDE DEF r
<1>6. InRange(r)
  BY <1>4, <1>5 DEF InRange
<1>7. sess' = [sess EXCEPT ![s] = r] /\ UNCHANGED <<tables, minted, lock>>
  BY ZenonT(30), <1>1 DEF Receive, r
<1>8. minted' \in Nat /\ minted <= minted'
  BY <1>2, <1>7
<1>9. IdsMinted(r, minted')
  BY <1>5 DEF IdsMinted
<1>10. Good(View(r.tx), minted')
  BY <1>5, <1>7 DEF StoresOK, Committed
<1>11. ~(r.tx # Nothing \/ r.pc \in {"batch", "canon"}) /\ r.pc # "batch"
  BY <1>5
<1> QED
  BY ZenonT(30), <1>5, <1>6, <1>7, <1>8, <1>9, <1>10, <1>11, SessionStepKeeps

LEMMA BeginBatchKeeps ==
  ASSUME StoresOK, NEW s \in Session, BeginBatch(s)
  PROVE  StoresOK'
<1> DEFINE r == [sess[s] EXCEPT !.pc = "batch", !.seen = legacy]
<1>1. /\ minted \in Nat /\ sess[s] \in SessionState /\ InRange(sess[s])
      /\ Good(View(sess[s].tx), minted)
  BY InTransaction, Zenon DEF MyView
<1>2. legacy \subseteq LegacyRow
  BY CommittedRows DEF Rows
<1>3. /\ r \in SessionState /\ r.tx = sess[s].tx /\ r.pc = "batch" /\ r.seen = legacy
      /\ r.i = sess[s].i /\ r.events = sess[s].events /\ r.ids = sess[s].ids
  <2>1. r \in SessionState
    BY ZenonT(30), <1>1, <1>2 DEF SessionState
  <2> QED
    BY <2>1, <1>1, Zenon DEF SessionState
<1> HIDE DEF r
<1>4. InRange(r)
  BY <1>1, <1>3 DEF InRange, BeginBatch
<1>5. /\ sess' = [sess EXCEPT ![s] = r] /\ UNCHANGED <<tables, minted>>
      /\ lock \in {NoSession, s} /\ lock' = s
  BY DEF BeginBatch, AcquireChainLock, r
<1>6. minted' \in Nat /\ minted <= minted' /\ Good(View(r.tx), minted')
  BY SMTT(60), <1>1, <1>3, <1>5
<1>7. IdsMinted(r, minted')
  <2>1. \A e \in legacy : e.id \in 1..minted
    BY CommittedRows, SMTT(30) DEF StoresOK, Good, IdsUpTo
  <2>2. IdsMinted(sess[s], minted)
    BY DEF StoresOK, SessionInv
  <2> QED
    BY <2>1, <2>2, <1>3, <1>5, Zenon DEF IdsMinted
<1>8. legacy \subseteq r.seen
  BY <1>3
<1> QED
  BY ZenonT(30), <1>3, <1>4, <1>5, <1>6, <1>7, <1>8, SessionStepKeeps

LEMMA StoreEventsBatchKeeps ==
  ASSUME StoresOK, NEW s \in Session, StoreEventsBatch(s)
  PROVE  StoresOK'
<1> DEFINE v == MyView(s)
           c == Current(s)
           known == sess[s].seen \cup sess[s].tx.legacy
           id == StoredId(known, minted + 1, "webhook", c)
           new == StoreEvent(v, known, minted + 1, "webhook", c, "canonical")
           r == [sess[s] EXCEPT !.tx = Merge(sess[s].tx, new),
                                !.ids = Append(sess[s].ids, id)]
           a == Advance(r, "canon")
<1>1. /\ sess[s].pc = "batch"
      /\ minted' = IF new = Nothing THEN minted ELSE minted + 1
      /\ sess' = [sess EXCEPT ![s] = a]
      /\ UNCHANGED <<tables, lock>>
  BY DEF StoreEventsBatch
<1>2. /\ minted \in Nat /\ sess[s] \in SessionState /\ sess[s].tx \in Rows
      /\ InRange(sess[s]) /\ v \in Rows /\ Good(v, minted)
      /\ v.legacy = legacy \cup sess[s].tx.legacy /\ c \in Content
  BY <1>1, InTransaction
<1>3. /\ lock = s /\ legacy \subseteq sess[s].seen
      /\ IdsMinted(sess[s], minted)
  BY <1>1, Zenon DEF StoresOK, SessionInv, OnlyHolderWrites
<1> HIDE DEF v, c
<1>4. v.legacy \subseteq known
  BY <1>2, <1>3
<1>5. \A e \in known : e.id \in 1..minted
  BY ZenonT(30), <1>2, <1>3 DEF IdsMinted, Good, IdsUpTo
<1> HIDE DEF known, a
<1>6. /\ minted' \in Nat /\ minted <= minted' /\ new \in Rows
      /\ Good(Merge(v, new), minted') /\ id \in 1..minted'
  <2>1. "webhook" \in Source /\ "canonical" \in {"legacy", "canonical"}
    BY DEF Source
  <2> QED
    BY SMTT(60), <1>1, <1>2, <1>4, <1>5, <2>1, StoreEventStep
<1> HIDE DEF new, id
<1>7. View(Merge(sess[s].tx, new)) = Merge(v, new) /\ Merge(sess[s].tx, new) \in Rows
  BY ZenonT(30), <1>2, <1>6, ViewMerge, MergeRows DEF MyView, v
<1>8. /\ Append(sess[s].ids, id) \in Seq(Nat)
      /\ Len(Append(sess[s].ids, id)) = Len(sess[s].ids) + 1
      /\ \A k \in 1..(Len(sess[s].ids) + 1) : Append(sess[s].ids, id)[k] \in 1..minted'
  <2>1. sess[s].ids \in Seq(Nat) /\ id \in Nat
    BY <1>2, <1>6 DEF SessionState
  <2>2. \A k \in 1..Len(sess[s].ids) : sess[s].ids[k] \in 1..minted'
    <3>1. \A x \in 1..minted : x \in 1..minted'
      BY <1>2, <1>6
    <3> QED
      BY <3>1, <1>3 DEF IdsMinted
  <2>3. /\ Append(sess[s].ids, id) \in Seq(Nat)
        /\ Len(Append(sess[s].ids, id)) = Len(sess[s].ids) + 1
        /\ \A k \in 1..Len(sess[s].ids) : Append(sess[s].ids, id)[k] = sess[s].ids[k]
        /\ Append(sess[s].ids, id)[Len(sess[s].ids) + 1] = id
    BY <2>1
  <2>4. Len(sess[s].ids) \in Nat
    BY <2>1
  <2>5. \A k \in 1..(Len(sess[s].ids) + 1) :
          k \in 1..Len(sess[s].ids) \/ k = Len(sess[s].ids) + 1
    BY <2>4
  <2> QED
    BY <1>6, <2>2, <2>3, <2>5, ZenonT(60)
<1>9. /\ r \in SessionState /\ r.tx = Merge(sess[s].tx, new) /\ r.pc = "batch"
      /\ r.ids = Append(sess[s].ids, id) /\ r.seen = sess[s].seen
      /\ r.i = sess[s].i /\ r.events = sess[s].events
  <2>1. r \in SessionState
    BY ZenonT(30), <1>2, <1>7, <1>8 DEF SessionState
  <2> QED
    BY <2>1, <1>1, <1>2, Zenon DEF SessionState
<1> HIDE DEF r
<1>10. r.i <= Len(r.events) /\ r.i \in Nat \ {0} /\ Len(r.ids) = r.i
  BY SMTT(60), <1>1, <1>2, <1>8, <1>9 DEF InRange, SessionState
<1>11. /\ a \in SessionState
       /\ a.events = r.events /\ a.seen = r.seen /\ a.ids = r.ids /\ a.tx = r.tx
       /\ \/ a.pc = r.pc /\ a.i = r.i + 1 /\ a.i <= Len(r.events)
          \/ a.pc = "canon" /\ a.i = 1 /\ r.i = Len(r.events)
  BY SMTT(60), <1>9, <1>10, AdvanceMoves DEF a
<1>12. InRange(a)
  BY SMTT(60), <1>9, <1>10, <1>11 DEF InRange
<1>13. IdsMinted(a, minted')
  <2>1. \A e \in a.seen : e.id \in 1..minted'
    BY SMTT(60), <1>2, <1>3, <1>6, <1>9, <1>11 DEF IdsMinted
  <2>2. \A k \in 1..Len(a.ids) : a.ids[k] \in 1..minted'
    BY <1>8, <1>9, <1>11, Zenon
  <2> QED
    BY <2>1, <2>2 DEF IdsMinted
<1>14. Good(View(a.tx), minted')
  BY <1>6, <1>7, <1>9, <1>11
<1>15. lock' = s /\ legacy \subseteq a.seen /\ lock' = lock
  BY <1>1, <1>3, <1>9, <1>11
<1> QED
  BY ZenonT(30), <1>1, <1>6, <1>11, <1>12, <1>13, <1>14, <1>15, SessionStepKeeps

LEMMA PersistCanonicalKeeps ==
  ASSUME StoresOK, NEW s \in Session, PersistCanonical(s)
  PROVE  StoresOK'
<1> DEFINE v == MyView(s)
           c == Current(s)
           id == sess[s].ids[sess[s].i]
           new == PersistEvent(v, id, "webhook", c, {})
           r == [sess[s] EXCEPT !.tx = Merge(sess[s].tx, new),
                                !.billable = sess[s].billable \cup {id}]
<1>1. /\ sess[s].pc = "canon"
      /\ sess' = [sess EXCEPT ![s] = Advance(r, "commit")]
      /\ UNCHANGED <<tables, minted, lock>>
  BY DEF PersistCanonical
<1>2. /\ minted \in Nat /\ sess[s] \in SessionState /\ sess[s].tx \in Rows
      /\ InRange(sess[s]) /\ v \in Rows /\ Good(v, minted) /\ c \in Content
  BY <1>1, InTransaction
<1>3. lock = s /\ IdsMinted(sess[s], minted)
  BY <1>1, Zenon DEF StoresOK, SessionInv, OnlyHolderWrites
<1> HIDE DEF v, c
<1>4. id \in 1..minted
  <2>1. sess[s].i \in 1..Len(sess[s].ids)
    BY <1>1, <1>2 DEF InRange, SessionState
  <2> QED
    BY <2>1, <1>3, Zenon DEF IdsMinted
<1> HIDE DEF id
<1>5. new \in Rows /\ Good(Merge(v, new), minted)
  <2>1. "webhook" \in Source
    BY DEF Source
  <2> QED
    BY <1>2, <1>4, <2>1, PersistTwinKeepsGood
<1> HIDE DEF new
<1>6. View(Merge(sess[s].tx, new)) = Merge(v, new) /\ Merge(sess[s].tx, new) \in Rows
  BY ZenonT(30), <1>2, <1>5, ViewMerge, MergeRows DEF MyView, v
<1>7. /\ r \in SessionState /\ r.tx = Merge(sess[s].tx, new) /\ r.pc = "canon"
      /\ r.ids = sess[s].ids /\ r.seen = sess[s].seen
      /\ r.i = sess[s].i /\ r.events = sess[s].events
  <2>1. sess[s].billable \cup {id} \in SUBSET Nat
    BY <1>2, <1>4 DEF SessionState
  <2>2. r \in SessionState
    BY ZenonT(30), <1>2, <1>6, <2>1 DEF SessionState
  <2> QED
    BY <2>2, <1>1, <1>2, Zenon DEF SessionState
<1> HIDE DEF r
<1>8. minted' \in Nat /\ minted <= minted' /\ Good(View(r.tx), minted')
  BY <1>1, <1>2, <1>5, <1>6, <1>7
<1> QED
  BY ZenonT(30), <1>1, <1>3, <1>7, <1>8, AdvanceToCommit

LEMMA FallBackKeeps ==
  ASSUME StoresOK, NEW s \in Session, FallBack(s)
  PROVE  StoresOK'
<1> DEFINE r == [sess[s] EXCEPT !.pc = "fallback", !.i = 1, !.seen = {}, !.ids = <<>>,
                                !.tx = Nothing, !.billable = {}]
<1>1. /\ minted \in Nat /\ sess[s] \in SessionState /\ InRange(sess[s])
  BY InTransaction
<1>2. /\ r \in SessionState /\ r.tx = Nothing /\ r.pc = "fallback" /\ r.seen = {}
      /\ r.i = 1 /\ r.events = sess[s].events /\ r.ids = << >>
  <2>1. 1 \in Nat \ {0} /\ << >> \in Seq(Nat)
    OBVIOUS
  <2>2. r \in SessionState
    BY ZenonT(30), <1>1, <2>1, NothingInRows DEF SessionState
  <2> QED
    BY <2>2, <1>1, Zenon DEF SessionState
<1>3. /\ sess[s].pc \in {"batch", "canon"}
      /\ sess' = [sess EXCEPT ![s] = r] /\ UNCHANGED <<tables, minted>>
      /\ lock' = lock \/ (lock = s /\ lock' = NoSession)
  BY Zenon DEF FallBack, ReleaseChainLock
<1> HIDE DEF r
<1>4. InRange(r)
  <2>1. 1 <= Len(sess[s].events)
    BY <1>1, <1>3 DEF InRange, SessionState
  <2> QED
    BY <1>2, <2>1, Zenon DEF InRange
<1>5. minted' \in Nat /\ minted <= minted' /\ IdsMinted(r, minted')
  BY <1>1, <1>2, <1>3 DEF IdsMinted
<1>6. Good(View(r.tx), minted')
  BY <1>2, <1>3, Zenon DEF StoresOK, Committed
<1>7. ~(r.tx # Nothing \/ r.pc \in {"batch", "canon"}) /\ r.pc # "batch"
  BY <1>2
<1> QED
  BY ZenonT(30), <1>2, <1>3, <1>4, <1>5, <1>6, <1>7, SessionStepKeeps

LEMMA RollbackKeeps ==
  ASSUME StoresOK, NEW s \in Session, Rollback(s)
  PROVE  StoresOK'
<1> DEFINE r == IdleSession
<1>1. minted \in Nat
  BY DEF StoresOK
<1>2. /\ sess' = [sess EXCEPT ![s] = r] /\ UNCHANGED <<tables, minted>>
      /\ lock' = lock \/ (lock = s /\ lock' = NoSession)
  BY DEF Rollback, ReleaseChainLock
<1>3. minted' \in Nat /\ minted <= minted'
  BY <1>1, <1>2
<1>4. r \in SessionState /\ InRange(r) /\ IdsMinted(r, minted') /\ r.pc = "idle" /\ r.tx = Nothing
  BY <1>3, IdleIsFine, Zenon
<1> HIDE DEF r
<1>5. Good(View(r.tx), minted')
  BY <1>2, <1>4, Zenon DEF StoresOK, Committed
<1>6. ~(r.tx # Nothing \/ r.pc \in {"batch", "canon"}) /\ r.pc # "batch"
  BY <1>4
<1> QED
  BY ZenonT(30), <1>2, <1>3, <1>4, <1>5, <1>6, SessionStepKeeps

LEMMA SkipSinglyKeeps ==
  ASSUME StoresOK, NEW s \in Session, SkipSingly(s)
  PROVE  StoresOK'
<1>1. /\ minted \in Nat /\ sess[s] \in SessionState /\ Good(View(sess[s].tx), minted)
  BY InTransaction DEF MyView
<1>2. /\ sess[s].pc \in {"ready", "fallback"}
      /\ sess[s].pc = "ready" => sess[s].kind # "webhook"
      /\ sess' = [sess EXCEPT ![s] = Advance(sess[s], "commit")]
      /\ UNCHANGED <<tables, minted, lock>>
  BY Zenon DEF SkipSingly
<1>3. sess[s].tx # Nothing => lock = s
  BY DEF StoresOK, SessionInv, OnlyHolderWrites
<1>4. minted' \in Nat /\ minted <= minted' /\ Good(View(sess[s].tx), minted')
  BY <1>1, <1>2
<1> QED
  BY ZenonT(30), <1>1, <1>2, <1>3, <1>4, AdvanceToCommit

LEMMA ViewMergeTwice ==
  ASSUME StoresOK, NEW d \in Rows, NEW e \in Rows, NEW f \in Rows
  PROVE  /\ View(Merge(Merge(d, e), f)) = Merge(Merge(View(d), e), f)
         /\ Merge(Merge(d, e), f) \in Rows
<1>1. Merge(d, e) \in Rows
  BY MergeRows, Zenon
<1>2. View(Merge(d, e)) = Merge(View(d), e)
  BY ViewMerge
<1> QED
  BY <1>1, <1>2, ViewMerge, MergeRows, Zenon

LEMMA StoreSinglyKeeps ==
  ASSUME StoresOK, NEW s \in Session, StoreSingly(s)
  PROVE  StoresOK'
<1> DEFINE v == MyView(s)
           c == Current(s)
           id == StoredId(v.legacy, minted + 1, "webhook", c)
           new == StoreEvent(v, v.legacy, minted + 1, "webhook", c, "canonical")
           w == Merge(v, new)
           twin == PersistEvent(w, id, "webhook", c, {})
           r == [sess[s] EXCEPT !.tx = Merge(Merge(sess[s].tx, new), twin),
                                !.billable = sess[s].billable \cup {id}]
<1>1. /\ sess[s].pc = "fallback"
      /\ lock \in {NoSession, s} /\ lock' = s
      /\ minted' = IF new = Nothing THEN minted ELSE minted + 1
      /\ sess' = [sess EXCEPT ![s] = Advance(r, "commit")]
      /\ UNCHANGED tables
  BY DEF StoreSingly, AcquireChainLock
<1>2. /\ minted \in Nat /\ sess[s] \in SessionState /\ sess[s].tx \in Rows
      /\ v \in Rows /\ Good(v, minted) /\ c \in Content
  BY <1>1, InTransaction, Zenon
<1> HIDE DEF v, c
<1>3. "webhook" \in Source
  BY DEF Source
<1>4. /\ minted' \in Nat /\ minted <= minted' /\ new \in Rows
      /\ w \in Rows /\ Good(w, minted') /\ id \in 1..minted'
  <2>1. \A e \in v.legacy : e.id \in 1..minted
    BY <1>2, Zenon DEF Good, IdsUpTo
  <2> QED
    BY <1>1, <1>2, <1>3, <2>1, StoreEventStep
<1> HIDE DEF new, id
<1>5. twin \in Rows /\ Good(Merge(w, twin), minted')
  <2> HIDE DEF w
  <2> QED
    BY <1>2, <1>3, <1>4, PersistTwinKeepsGood, Zenon
<1> HIDE DEF twin
<1>6. /\ View(Merge(Merge(sess[s].tx, new), twin)) = Merge(w, twin)
      /\ Merge(Merge(sess[s].tx, new), twin) \in Rows
  BY <1>2, <1>4, <1>5, ViewMergeTwice, Zenon DEF MyView, v
<1> HIDE DEF w
<1>7. /\ r \in SessionState /\ r.tx = Merge(Merge(sess[s].tx, new), twin)
      /\ r.pc = "fallback" /\ r.ids = sess[s].ids /\ r.seen = sess[s].seen
      /\ r.i = sess[s].i /\ r.events = sess[s].events
  <2>1. sess[s].billable \cup {id} \in SUBSET Nat
    BY <1>2, <1>4 DEF SessionState
  <2>2. r \in SessionState
    BY ZenonT(30), <1>2, <1>6, <2>1 DEF SessionState
  <2> QED
    BY SMTT(30), <2>2, <1>1, <1>2 DEF SessionState
<1> HIDE DEF r
<1>8. Good(View(r.tx), minted')
  BY <1>5, <1>6, <1>7, Zenon
<1> QED
  BY ZenonT(30), <1>1, <1>4, <1>7, <1>8, AdvanceToCommit

(***************************************************************************)
(* One event of the EPCIS or compat route, whatever rows d it wrote.       *)
(***************************************************************************)
LEMMA WriteAndAdvance ==
  ASSUME StoresOK, NEW s \in Session, NEW d \in Rows,
         sess[s].pc = "ready", sess[s].kind # "webhook",
         sess' = [sess EXCEPT ![s] = Advance([sess[s] EXCEPT !.tx = d], "commit")],
         UNCHANGED tables, lock \in {NoSession, s}, lock' = s,
         minted' \in Nat, minted <= minted', Good(View(d), minted')
  PROVE  StoresOK'
<1> DEFINE r == [sess[s] EXCEPT !.tx = d]
<1>1. sess[s] \in SessionState
  BY InTransaction
<1>2. /\ r \in SessionState /\ r.tx = d
      /\ r.pc = "ready" /\ r.ids = sess[s].ids /\ r.seen = sess[s].seen
      /\ r.i = sess[s].i /\ r.events = sess[s].events /\ r.kind # "webhook"
  <2>1. r \in SessionState
    BY ZenonT(30), <1>1 DEF SessionState
  <2> QED
    BY ZenonT(30), <2>1, <1>1 DEF SessionState
<1>3. sess' = [sess EXCEPT ![s] = Advance(r, "commit")]
  OBVIOUS
<1> HIDE DEF r
<1> QED
  BY ZenonT(30), <1>2, <1>3, AdvanceToCommit

LEMMA IngestEpcisKeeps ==
  ASSUME StoresOK, NEW s \in Session, IngestEpcis(s)
  PROVE  StoresOK'
<1> DEFINE v == MyView(s)
           c == Current(s)
           new == StoreEvent(v, v.legacy, minted + 1, "epcis", c, "legacy")
           w == Merge(v, new)
           twin == IF new = Nothing THEN Nothing
                   ELSE PersistEvent(w, minted + 2, "epcis", c, {})
           d == Merge(Merge(sess[s].tx, new), twin)
<1>1. /\ sess[s].pc = "ready" /\ sess[s].kind = "epcis"
      /\ lock \in {NoSession, s} /\ lock' = s
      /\ minted' = IF new = Nothing THEN minted ELSE minted + 2
      /\ sess' = [sess EXCEPT ![s] = Advance([sess[s] EXCEPT !.tx = d], "commit")]
      /\ UNCHANGED tables
  BY DEF IngestEpcis, AcquireChainLock
<1>2. /\ minted \in Nat /\ sess[s].tx \in Rows
      /\ v \in Rows /\ Good(v, minted) /\ c \in Content
  BY <1>1, InTransaction
<1> HIDE DEF v, c
<1>3. "epcis" \in Source
  BY Zenon DEF Source
<1>4. new \in Rows /\ w \in Rows /\ Good(w, minted + 1)
  BY <1>2, <1>3, StoreEventKeepsGood, Zenon
<1>5. minted' \in Nat /\ minted <= minted' /\ twin \in Rows /\ Good(Merge(w, twin), minted')
  <2>1. CASE new = Nothing
    <3>1. twin = Nothing /\ minted' = minted
      BY <2>1, <1>1, Zenon
    <3>2. w = v
      BY <2>1, <1>2, MergeNothing, Zenon
    <3> QED
      BY <3>1, <3>2, <1>2, MergeNothing
  <2>2. CASE new # Nothing
    <3>1. twin = PersistEvent(w, minted + 2, "epcis", c, {}) /\ minted' = minted + 2
      BY <2>2, <1>1
    <3>2. minted + 1 \in Nat /\ minted + 2 \in Nat /\ minted + 1 <= minted + 2
          /\ minted + 2 \in 1..(minted + 2) /\ minted <= minted + 2
      BY <1>2
    <3> HIDE DEF w, new, twin
    <3>3. Good(w, minted + 2)
      BY <1>4, <3>2, GoodGrows, Zenon
    <3>4. twin \in Rows /\ Good(Merge(w, twin), minted + 2)
      BY <3>1, <3>2, <3>3, <1>2, <1>3, <1>4, PersistTwinKeepsGood
    <3> QED
      BY <3>1, <3>2, <3>4
  <2> QED
    BY <2>1, <2>2, Zenon
<1> HIDE DEF new, twin
<1>6. View(d) = Merge(w, twin) /\ d \in Rows
  BY <1>2, <1>4, <1>5, ViewMergeTwice, Zenon DEF MyView, v
<1> HIDE DEF w, d
<1>7. Good(View(d), minted')
  BY <1>5, <1>6, Zenon
<1> QED
  BY ZenonT(30), <1>1, <1>5, <1>6, <1>7, WriteAndAdvance

LEMMA IngestCompatKeeps ==
  ASSUME StoresOK, NEW s \in Session, IngestCompat(s)
  PROVE  StoresOK'
<1> DEFINE v == MyView(s)
           c == Current(s)
           new == StoreEvent(v, v.legacy, minted + 1, "webhook", c, "legacy")
           w == Merge(v, new)
           twin == PersistEvent(w, minted + 2, "webhook", c, {"chain"})
           one == Merge(sess[s].tx, new)
           both == Merge(one, twin)
<1>1. /\ sess[s].pc = "ready" /\ sess[s].kind = "compat"
      /\ lock \in {NoSession, s} /\ lock' = s
      /\ minted' = IF new = Nothing /\ twin = Nothing THEN minted ELSE minted + 2
      /\ \/ sess' = [sess EXCEPT ![s] = Advance([sess[s] EXCEPT !.tx = both], "commit")]
         \/ sess' = [sess EXCEPT ![s] = Advance([sess[s] EXCEPT !.tx = one], "commit")]
      /\ UNCHANGED tables
  BY DEF IngestCompat, AcquireChainLock
<1>2. /\ minted \in Nat /\ sess[s].tx \in Rows
      /\ v \in Rows /\ Good(v, minted) /\ c \in Content
  BY <1>1, InTransaction, Zenon
<1> HIDE DEF v, c
<1>3. "webhook" \in Source
  BY DEF Source
<1>4. new \in Rows /\ w \in Rows /\ Good(w, minted + 1)
  BY <1>2, <1>3, StoreEventKeepsGood, Zenon
<1>5. twin \in Rows /\ Good(Merge(w, twin), minted + 2)
  <2> DEFINE m == minted + 1
  <2>1. m \in Nat /\ m + 1 = minted + 2
    BY <1>2
  <2>2. "chain" \in {"chain"}
    OBVIOUS
  <2> HIDE DEF m, w
  <2>3. twin = PersistEvent(w, m + 1, "webhook", c, {"chain"})
    BY <2>1, Zenon
  <2>4. Good(w, m)
    BY <1>4, Zenon DEF m
  <2> HIDE DEF twin
  <2>5. twin \in Rows /\ Good(Merge(w, twin), m + 1)
    BY SMTT(30), <2>1, <2>2, <2>3, <2>4, <1>2, <1>3, <1>4, PersistEventKeepsGood
  <2> QED
    BY <2>1, <2>5, Zenon
<1>6. /\ minted' \in Nat /\ minted <= minted'
      /\ Good(w, minted') /\ Good(Merge(w, twin), minted')
  <2>1. CASE new = Nothing /\ twin = Nothing
    <3>1. w = v /\ Merge(w, twin) = v /\ minted' = minted
      BY <2>1, <1>1, <1>2, MergeNothing, Zenon
    <3> QED
      BY <3>1, <1>2
  <2>2. CASE ~(new = Nothing /\ twin = Nothing)
    <3>1. minted' = minted + 2
      BY <2>2, <1>1, Zenon
    <3>2. minted + 1 \in Nat /\ minted + 2 \in Nat /\ minted + 1 <= minted + 2
      BY <1>2
    <3> HIDE DEF w, new, twin
    <3>3. Good(w, minted + 2)
      BY <1>4, <3>2, GoodGrows, Zenon
    <3> QED
      BY <1>2, <1>5, <3>1, <3>3
  <2> QED
    BY <2>1, <2>2, Zenon
<1> HIDE DEF new, twin
<1>7. View(one) = w /\ one \in Rows
  BY ZenonT(30), <1>2, <1>4, ViewMerge, MergeRows DEF MyView, v
<1>8. View(both) = Merge(w, twin) /\ both \in Rows
  BY <1>2, <1>4, <1>5, ViewMergeTwice, Zenon DEF MyView, v
<1> HIDE DEF w, one, both
<1>9. Good(View(one), minted') /\ Good(View(both), minted')
  BY <1>6, <1>7, <1>8
<1>10. CASE sess' = [sess EXCEPT ![s] = Advance([sess[s] EXCEPT !.tx = both], "commit")]
  BY ZenonT(30), <1>1, <1>6, <1>8, <1>9, <1>10, WriteAndAdvance
<1>11. CASE sess' = [sess EXCEPT ![s] = Advance([sess[s] EXCEPT !.tx = one], "commit")]
  BY ZenonT(30), <1>1, <1>6, <1>7, <1>9, <1>11, WriteAndAdvance
<1> QED
  BY <1>1, <1>10, <1>11, Zenon

LEMMA IngestPortalKeeps ==
  ASSUME StoresOK, NEW s \in Session, IngestPortal(s)
  PROVE  StoresOK'
<1> DEFINE v == MyView(s)
           c == Current(s)
           also == {"chain", "legacy"}
           new == PersistEvent(v, minted + 1, "portal", c, also)
           d == Merge(sess[s].tx, new)
           r == [sess[s] EXCEPT !.pc = "commit", !.tx = d]
<1>1. /\ sess[s].pc = "ready" /\ sess[s].kind = "portal"
      /\ lock \in {NoSession, s} /\ lock' = s
      /\ minted' = IF new = Nothing THEN minted ELSE minted + 1
      /\ sess' = [sess EXCEPT ![s] = r]
      /\ UNCHANGED tables
  BY DEF IngestPortal, AcquireChainLock
<1>2. /\ minted \in Nat /\ sess[s] \in SessionState /\ sess[s].tx \in Rows
      /\ v \in Rows /\ Good(v, minted) /\ c \in Content
  BY <1>1, InTransaction, Zenon
<1>3. "chain" \in also
  BY Zenon
<1> HIDE DEF v, c, also
<1>4. new \in Rows /\ Good(Merge(v, new), minted + 1)
  <2>1. "portal" \in Source
    BY Zenon DEF Source
  <2> QED
    BY <1>2, <1>3, <2>1, PersistEventKeepsGood
<1>5. minted' \in Nat /\ minted <= minted' /\ Good(Merge(v, new), minted')
  <2>1. CASE new = Nothing
    <3>1. Merge(v, new) = v /\ minted' = minted
      BY <2>1, <1>1, <1>2, MergeNothing, Zenon
    <3> QED
      BY <3>1, <1>2
  <2>2. CASE new # Nothing
    BY <2>2, <1>1, <1>2, <1>4
  <2> QED
    BY <2>1, <2>2, Zenon
<1> HIDE DEF new
<1>6. View(d) = Merge(v, new) /\ d \in Rows
  BY ZenonT(30), <1>2, <1>4, ViewMerge, MergeRows DEF MyView, v
<1> HIDE DEF d
<1>7. /\ r \in SessionState /\ r.tx = d /\ r.pc = "commit"
      /\ r.ids = sess[s].ids /\ r.seen = sess[s].seen
  <2>1. r \in SessionState
    BY ZenonT(30), <1>2, <1>6 DEF SessionState
  <2> QED
    BY <2>1, <1>2, Zenon DEF SessionState
<1> HIDE DEF r
<1>8. InRange(r)
  BY <1>7 DEF InRange
<1>9. IdsMinted(r, minted')
  <2>1. IdsMinted(sess[s], minted)
    BY DEF StoresOK, SessionInv
  <2> QED
    BY ZenonT(30), <2>1, <1>2, <1>5, <1>7, IdsStayMinted
<1>10. Good(View(r.tx), minted')
  BY <1>5, <1>6, <1>7, Zenon
<1> QED
  BY ZenonT(30), <1>1, <1>5, <1>7, <1>8, <1>9, <1>10, SessionStepKeeps

(***************************************************************************)
(* A COMMIT makes the view of the lock's holder the committed state; no    *)
(* other session has rows of its own then.                                 *)
(***************************************************************************)
LEMMA CommitKeeps ==
  ASSUME StoresOK, NEW s \in Session, Commit(s)
  PROVE  StoresOK'
<1> DEFINE r == IF sess[s].billable = {} THEN IdleSession
                ELSE [IdleSession EXCEPT !.pc = "billing", !.billable = sess[s].billable]
           v == MyView(s)
           d == sess[s].tx
<1>1. /\ legacy' = legacy \cup d.legacy /\ canon' = canon \cup d.canon
      /\ chain' = chain \cup d.chain /\ minted' = minted
      /\ lock' = lock \/ (lock = s /\ lock' = NoSession)
      /\ sess' = [sess EXCEPT ![s] = r]
  BY Zenon DEF Commit, ReleaseChainLock
<1>2. /\ minted \in Nat /\ sess[s] \in SessionState /\ d \in Rows
      /\ v \in Rows /\ Good(v, minted)
  BY InTransaction
<1>3. /\ r \in SessionState /\ InRange(r) /\ IdsMinted(r, minted)
      /\ r.tx = Nothing /\ r.pc \in {"idle", "billing"}
  <2>1. CASE sess[s].billable = {}
    BY <2>1, <1>2, IdleIsFine, Zenon
  <2>2. CASE sess[s].billable # {}
    <3>1. r = [IdleSession EXCEPT !.pc = "billing", !.billable = sess[s].billable]
      BY <2>2, Zenon
    <3>2. IdleSession \in SessionState /\ IdleSession.tx = Nothing
          /\ IdsMinted(IdleSession, minted)
      BY <1>2, IdleIsFine, Zenon
    <3>3. sess[s].billable \in SUBSET Nat
      BY <1>2 DEF SessionState
    <3> HIDE DEF r
    <3>4. r \in SessionState
      BY ZenonT(30), <3>1, <3>2, <3>3 DEF SessionState
    <3>5. /\ r.pc = "billing" /\ r.tx = Nothing
          /\ r.ids = IdleSession.ids /\ r.seen = IdleSession.seen
      BY <3>1, <3>2, Zenon DEF SessionState
    <3> QED
      BY <3>2, <3>4, <3>5, Zenon DEF InRange, IdsMinted
  <2> QED
    BY <2>1, <2>2
<1> HIDE DEF r
<1>4. Good(View(r.tx), minted)
  BY <1>3 DEF StoresOK, Committed
<1>5. CASE d = Nothing
  <2>1. UNCHANGED tables
    BY SMTT(60), <1>1, <1>5 DEF Nothing, tables
  <2>2. minted' \in Nat /\ minted <= minted' /\ IdsMinted(r, minted') /\ Good(View(r.tx), minted')
    BY SMTT(60), <1>1, <1>2, <1>3, <1>4
  <2>3. ~(r.tx # Nothing \/ r.pc \in {"batch", "canon"}) /\ r.pc # "batch"
    BY <1>3
  <2> QED
    BY ZenonT(30), <1>1, <1>3, <2>1, <2>2, <2>3, SessionStepKeeps
<1>6. CASE d # Nothing
  <2>1. lock = s
    BY <1>6 DEF StoresOK, SessionInv, OnlyHolderWrites
  <2>2. sess \in [Session -> SessionState] /\ lock \in Session \cup {NoSession}
    BY Zenon DEF StoresOK
  <2>3. /\ sess' \in [Session -> SessionState] /\ sess'[s] = r
        /\ \A t \in Session \ {s} : sess'[t] = sess[t]
    BY <1>1, <1>3, <2>2
  <2>4. View(Nothing)' = v
    BY ZenonT(30), <1>1 DEF View, Merge, Nothing, v, MyView
  <2>5. \A t \in Session \ {s} : sess[t].tx = Nothing /\ sess[t].pc \notin {"batch", "canon"}
    BY <2>1 DEF StoresOK, SessionInv, OnlyHolderWrites
  <2>6. \A t \in Session : sess'[t].tx = Nothing /\ sess'[t].pc \notin {"batch", "canon"}
    BY SMTT(30), <1>3, <2>3, <2>5
  <2>7. \A t \in Session : InRange(sess'[t]) /\ IdsMinted(sess'[t], minted')
    BY SMTT(30), <1>1, <1>3, <2>3 DEF StoresOK, SessionInv
  <2>8. \A t \in Session : MyView(t)' = v
    BY SMTT(30), <2>4, <2>6 DEF MyView, View
  <2> HIDE DEF v
  <2>9. \A t \in Session : SessionInv(t)'
    BY <1>1, <1>2, <2>6, <2>7, <2>8, Zenon DEF SessionInv, OnlyHolderWrites
  <2>10. lock' \in Session \cup {NoSession}
    BY <1>1, <2>2
  <2> QED
    BY ZenonT(30), <1>1, <1>2, <2>3, <2>4, <2>7, <2>9, <2>10 DEF StoresOK, Committed
<1> QED
  BY <1>5, <1>6

(***************************************************************************)
(* Charging a label touches neither store.                                 *)
(***************************************************************************)
LEMMA BillingKeeps ==
  ASSUME StoresOK, NEW s \in Session, NEW r \in SessionState,
         \/ r = IdleSession
         \/ /\ r.tx = sess[s].tx /\ r.ids = sess[s].ids /\ r.seen = sess[s].seen
            /\ r.pc = "billing",
         sess' = [sess EXCEPT ![s] = r], UNCHANGED <<tables, minted, lock>>
  PROVE  StoresOK'
<1>1. minted \in Nat /\ Good(View(sess[s].tx), minted)
  BY InTransaction DEF MyView
<1>2. IdsMinted(sess[s], minted) /\ (sess[s].tx # Nothing => lock = s)
  BY ZenonT(30) DEF StoresOK, SessionInv, OnlyHolderWrites
<1>3. minted' \in Nat /\ minted <= minted'
  BY <1>1
<1>4. InRange(r) /\ IdsMinted(r, minted') /\ r.pc \in {"idle", "billing"}
  BY ZenonT(30), <1>1, <1>2, IdleIsFine DEF InRange, IdsMinted
<1>5. Good(View(r.tx), minted')
  BY <1>1, IdleIsFine, Zenon DEF StoresOK, Committed
<1>6. r.tx # Nothing \/ r.pc \in {"batch", "canon"} => lock' = s
  BY <1>1, <1>2, <1>4, IdleIsFine, Zenon
<1>7. r.pc # "batch"
  BY <1>4, Zenon
<1> QED
  BY ZenonT(30), <1>3, <1>4, <1>5, <1>6, <1>7, SessionStepKeeps

LEMMA AfterLabelIsFine ==
  ASSUME NEW r \in SessionState, r.pc = "billing", NEW id, NEW a, a = AfterLabel(r, id)
  PROVE  /\ a \in SessionState
         /\ \/ a = IdleSession
            \/ a.tx = r.tx /\ a.ids = r.ids /\ a.seen = r.seen /\ a.pc = "billing"
         /\ a.claim = 0 /\ a.billable \subseteq r.billable
<1>1. CASE r.billable = {id}
  <2>1. 0 \in Nat
    OBVIOUS
  <2>2. a = IdleSession /\ a \in SessionState
    BY <1>1, <2>1, IdleIsFine, Zenon DEF AfterLabel
  <2>3. IdleSession.claim = 0 /\ IdleSession.billable = {}
    BY DEF IdleSession
  <2> QED
    BY <2>2, <2>3
<1>2. CASE r.billable # {id}
  <2>1. a = [r EXCEPT !.billable = r.billable \ {id}, !.claim = 0]
    BY <1>2 DEF AfterLabel
  <2>2. r.billable \ {id} \in SUBSET Nat /\ 0 \in Nat
    BY DEF SessionState
  <2>3. a \in SessionState
    BY ZenonT(30), <2>1, <2>2 DEF SessionState
  <2> QED
    BY <2>1, <2>3 DEF SessionState
<1> QED
  BY <1>1, <1>2, Zenon

LEMMA ClaimChargeRowKeeps ==
  ASSUME StoresOK, NEW s \in Session, ClaimChargeRow(s)
  PROVE  StoresOK'
<1>1. /\ sess[s].pc = "billing" /\ UNCHANGED <<tables, minted, lock>>
  BY Zenon DEF ClaimChargeRow
<1>2. sess[s] \in SessionState
  BY InTransaction
<1>3. PICK id \in sess[s].billable :
        \/ sess' = [sess EXCEPT ![s] = [sess[s] EXCEPT !.claim = id]]
        \/ sess' = [sess EXCEPT ![s] = AfterLabel(sess[s], id)]
  BY DEF ClaimChargeRow
<1>4. CASE sess' = [sess EXCEPT ![s] = [sess[s] EXCEPT !.claim = id]]
  <2> DEFINE r == [sess[s] EXCEPT !.claim = id]
  <2>1. id \in Nat
    BY <1>2 DEF SessionState
  <2>2. r \in SessionState
    BY ZenonT(30), <2>1, <1>2 DEF SessionState
  <2>3. r.tx = sess[s].tx /\ r.ids = sess[s].ids /\ r.seen = sess[s].seen /\ r.pc = "billing"
    BY <1>1, <1>2 DEF SessionState
  <2> HIDE DEF r
  <2>4. sess' = [sess EXCEPT ![s] = r]
    BY <1>4 DEF r
  <2> QED
    BY ZenonT(30), <1>1, <2>2, <2>3, <2>4, BillingKeeps
<1>5. CASE sess' = [sess EXCEPT ![s] = AfterLabel(sess[s], id)]
  <2> DEFINE a == AfterLabel(sess[s], id)
  <2>1. sess' = [sess EXCEPT ![s] = a]
    BY <1>5, Zenon
  <2>2. a = AfterLabel(sess[s], id)
    BY Zenon
  <2> HIDE DEF a
  <2>3. /\ a \in SessionState
        /\ \/ a = IdleSession
           \/ /\ a.tx = sess[s].tx /\ a.ids = sess[s].ids /\ a.seen = sess[s].seen
              /\ a.pc = "billing"
    BY <1>1, <1>2, <2>2, AfterLabelIsFine
  <2> QED
    BY ZenonT(30), <1>1, <2>1, <2>3, BillingKeeps
<1> QED
  BY <1>3, <1>4, <1>5

LEMMA ChargeForLabelKeeps ==
  ASSUME StoresOK, NEW s \in Session, ChargeForLabel(s)
  PROVE  StoresOK'
<1>1. /\ sess[s].pc = "billing" /\ UNCHANGED <<tables, minted, lock>>
      /\ sess' = [sess EXCEPT ![s] = AfterLabel(sess[s], sess[s].claim)]
  BY DEF ChargeForLabel
<1>2. sess[s] \in SessionState
  BY InTransaction
<1>3. sess' = [sess EXCEPT ![s] = AfterLabel(sess[s], sess[s].claim)]
  BY <1>1, Zenon
<1> QED
  <2> DEFINE a == AfterLabel(sess[s], sess[s].claim)
  <2>1. sess' = [sess EXCEPT ![s] = a]
    BY <1>3
  <2>2. a = AfterLabel(sess[s], sess[s].claim)
    BY Zenon
  <2> HIDE DEF a
  <2>3. /\ a \in SessionState
        /\ \/ a = IdleSession
           \/ /\ a.tx = sess[s].tx /\ a.ids = sess[s].ids /\ a.seen = sess[s].seen
              /\ a.pc = "billing"
    BY SMTT(30), <1>1, <1>2, <2>2, AfterLabelIsFine
  <2> QED
    BY ZenonT(30), <1>1, <2>1, <2>3, BillingKeeps

(***************************************************************************)
(* The retention job shortens every session's view of the legacy table.    *)
(***************************************************************************)
LEMMA ArchiveKeeps ==
  ASSUME StoresOK, NEW S \in SUBSET legacy, ArchiveExpiredRecords(S)
  PROVE  StoresOK'
<1> DEFINE k == [legacy |-> legacy \ S, canon |-> canon, chain |-> chain]
<1>1. legacy' = legacy \ S /\ UNCHANGED <<canon, chain, minted, lock, sess>>
  BY Zenon DEF ArchiveExpiredRecords
<1>2. k \in Rows /\ k.legacy = legacy \ S /\ k.canon = canon /\ k.chain = chain
  BY CommittedRows, Zenon DEF Rows
<1>3. sess \in [Session -> SessionState] /\ minted \in Nat
  BY DEF StoresOK
<1>4. ASSUME NEW d \in Rows, Good(View(d), minted)
      PROVE  Merge(k, d) \in Rows /\ Good(Merge(k, d), minted)
  <2> HIDE DEF k
  <2>1. /\ View(d) \in Rows /\ View(d).legacy = legacy \cup d.legacy
        /\ View(d).canon = canon \cup d.canon /\ View(d).chain = chain \cup d.chain
    BY <1>4, ViewRows, Zenon
  <2>2. /\ Merge(k, d) \in Rows /\ Merge(k, d).legacy = (legacy \ S) \cup d.legacy
        /\ Merge(k, d).canon = canon \cup d.canon /\ Merge(k, d).chain = chain \cup d.chain
    BY SMTT(60), <1>2, <1>4, MergeRows
  <2> QED
    BY ZenonT(30), <1>3, <1>4, <2>1, <2>2, GoodWithLess
<1>6. View(Nothing)' = Merge(k, Nothing)
  BY <1>1, Zenon DEF View, Nothing
<1>7. ASSUME NEW t \in Session
      PROVE  MyView(t)' = Merge(k, sess[t].tx)
  BY <1>1, Zenon DEF View, MyView
<1> HIDE DEF k
<1>8. View(Nothing)' \in Rows /\ Good(Committed, minted)'
  BY <1>1, <1>4, <1>6, NothingInRows DEF StoresOK, Committed
<1>9. ASSUME NEW t \in Session
      PROVE  SessionInv(t)'
  <2>1. SessionInv(t) /\ sess[t].tx \in Rows
    BY ZenonT(30), <1>3 DEF StoresOK, SessionState
  <2>2. Good(MyView(t), minted)'
    BY ZenonT(30), <1>1, <1>4, <1>7, <2>1 DEF SessionInv, MyView
  <2>3. OnlyHolderWrites(sess[t], t)' /\ IdsMinted(sess[t], minted)'
    BY <1>1, <2>1, Zenon DEF SessionInv, OnlyHolderWrites, IdsMinted
  <2> QED
    BY ZenonT(30), <1>1, <2>1, <2>2, <2>3 DEF SessionInv
<1> QED
  BY <1>1, <1>8, <1>9, Zenon DEF StoresOK

LEMMA StutterKeeps ==
  ASSUME StoresOK, UNCHANGED <<tables, minted, lock, sess>>
  PROVE  StoresOK'
<1>1. UNCHANGED <<legacy, canon, chain, minted, lock, sess>>
  BY Zenon DEF tables
<1>2. View(Nothing)' = View(Nothing) /\ Committed' = Committed
  BY SMTT(30), <1>1 DEF View, Committed
<1>3. ASSUME NEW t \in Session
      PROVE  SessionInv(t)'
  <2>1. MyView(t)' = MyView(t)
    BY <1>1, Zenon DEF MyView, View
  <2>2. SessionInv(t)
    BY DEF StoresOK
  <2> QED
    BY <1>1, <2>1, <2>2, Zenon DEF SessionInv, OnlyHolderWrites
<1> QED
  BY <1>1, <1>2, <1>3, Zenon DEF StoresOK

(***************************************************************************)
(* The bookkeeping that is not about the stores.                           *)
(***************************************************************************)
LEMMA CountersKeep ==
  ASSUME BooksOK, UNCHANGED <<charges, invoices>>,
         \/ requests' = requests
         \/ requests < MaxRequests /\ requests' = requests + 1,
         faults' = faults \/ Fault
  PROVE  BooksOK'
<1>1. requests' \in 0..MaxRequests
  BY BoundsAssumption DEF BooksOK
<1>2. faults' \in 0..MaxFaults
  BY BoundsAssumption DEF BooksOK, Fault
<1> QED
  BY <1>1, <1>2, Zenon DEF BooksOK

LEMMA BooksKeep ==
  ASSUME IInv, [Next]_vars
  PROVE  BooksOK'
<1> USE DEF IInv
<1>1. ASSUME NEW s \in Session, ClaimChargeRow(s)
      PROVE  BooksOK'
  <2>1. PICK id \in sess[s].billable :
          \/ charges' = [x \in DOMAIN charges \cup {id} |->
                           IF x = id THEN "pending" ELSE charges[x]]
          \/ UNCHANGED charges
    BY SMTT(30), <1>1 DEF ClaimChargeRow
  <2>2. id \in Nat
    BY <1>1, InTransaction, Zenon DEF SessionState
  <2>3. DOMAIN charges' \subseteq Nat
    BY <2>1, <2>2, Zenon DEF BooksOK
  <2>4. faults' \in 0..MaxFaults
    BY <1>1, BoundsAssumption DEF ClaimChargeRow, BooksOK, Fault
  <2>5. UNCHANGED <<invoices, requests>>
    BY <1>1 DEF ClaimChargeRow
  <2> QED
    BY <2>3, <2>4, <2>5, Zenon DEF BooksOK
<1>2. ASSUME NEW s \in Session, ChargeForLabel(s)
      PROVE  BooksOK'
  <2>1. sess[s].claim \in Nat
    BY <1>2, InTransaction, Zenon DEF SessionState
  <2>2. DOMAIN charges' \subseteq Nat
    BY <1>2 DEF ChargeForLabel, BooksOK
  <2>3. invoices' \in Seq(Nat)
    <3>1. invoices' = Append(invoices, sess[s].claim) \/ invoices' = invoices
      BY ZenonT(30), <1>2 DEF ChargeForLabel
    <3>2. invoices \in Seq(Nat)
      BY DEF BooksOK
    <3>3. Append(invoices, sess[s].claim) \in Seq(Nat)
      BY <2>1, <3>2
    <3> QED
      BY <3>1, <3>2, <3>3, Zenon
  <2>4. faults' \in 0..MaxFaults
    BY SMTT(60), <1>2, BoundsAssumption DEF ChargeForLabel, BooksOK, Fault
  <2>5. requests' = requests
    BY <1>2 DEF ChargeForLabel
  <2> QED
    BY SMTT(30), <2>2, <2>3, <2>4, <2>5 DEF BooksOK
<1>3. ASSUME NEW s \in Session, Receive(s)
      PROVE  BooksOK'
  BY <1>3, CountersKeep, Zenon DEF Receive, billing
<1>4. ASSUME NEW s \in Session,
             BeginBatch(s) \/ StoreEventsBatch(s) \/ PersistCanonical(s) \/ StoreSingly(s)
      PROVE  BooksOK'
  BY <1>4, CountersKeep, Zenon DEF BeginBatch, StoreEventsBatch, PersistCanonical, StoreSingly, billing
<1>5. ASSUME NEW s \in Session,
             IngestEpcis(s) \/ IngestCompat(s) \/ IngestPortal(s) \/ Commit(s)
      PROVE  BooksOK'
  BY <1>5, CountersKeep, Zenon DEF IngestEpcis, IngestCompat, IngestPortal, Commit, billing
<1>6. ASSUME NEW s \in Session, RefuseMismatch(s) \/ FallBack(s) \/ SkipSingly(s) \/ Fails(s)
      PROVE  BooksOK'
  BY <1>6, CountersKeep, Zenon DEF RefuseMismatch, FallBack, SkipSingly, Fails, Rollback, billing
<1>7. ASSUME NEW S \in SUBSET legacy, ArchiveExpiredRecords(S)
      PROVE  BooksOK'
  BY <1>7, CountersKeep DEF ArchiveExpiredRecords, billing
<1>8. CASE VerificationStep
  BY ZenonT(30), <1>8, CountersKeep
  DEF VerificationStep, WalkCanonical, CountCanonical, WalkLegacy,
     CountLegacy, FindMissing, JobStep, billing
<1>9. CASE UNCHANGED vars
  BY <1>9, CountersKeep DEF vars
<1> QED
  BY SMTT(30), <1>1, <1>2, <1>3, <1>4, <1>5, <1>6, <1>7, <1>8, <1>9 DEF Next, SessionStep

LEMMA StoresKeep ==
  ASSUME StoresOK, [Next]_vars
  PROVE  StoresOK'
<1>1. ASSUME NEW s \in Session, Fails(s) \/ RefuseMismatch(s)
      PROVE  StoresOK'
  BY ZenonT(30), <1>1, RollbackKeeps DEF Fails, RefuseMismatch
<1>2. CASE VerificationStep
  <2>1. UNCHANGED <<tables, minted, lock, sess>>
    BY ZenonT(30), <1>2 DEF VerificationStep, WalkCanonical, CountCanonical, WalkLegacy,
       CountLegacy, FindMissing, JobStep
  <2> QED
    BY <2>1, StutterKeeps
<1>3. CASE UNCHANGED vars
  BY <1>3, StutterKeeps DEF vars, tables
<1> QED
  BY SMTT(30), <1>1, <1>2, <1>3, ReceiveKeeps, BeginBatchKeeps, StoreEventsBatchKeeps,
     PersistCanonicalKeeps, FallBackKeeps, StoreSinglyKeeps, SkipSinglyKeeps,
     IngestEpcisKeeps, IngestCompatKeeps, IngestPortalKeeps, CommitKeeps,
     ClaimChargeRowKeeps, ChargeForLabelKeeps, ArchiveKeeps
     DEF Next, SessionStep

LEMMA EmptyIsGood == Good(Nothing, 0)
<1>1. Linked({})
  BY DEF Linked, HeadSeq
<1> QED
  BY ZenonT(30), <1>1 DEF Good, IdsUpTo, ChainedIn, UniqueKeys, Nothing

LEMMA InitHolds ==
  ASSUME Init
  PROVE  IInv
<1>1. View(Nothing) = Nothing
  BY ZenonT(30) DEF Init, View, Merge, Nothing
<1>2. /\ minted = 0 /\ minted \in Nat /\ lock = NoSession
      /\ sess = [t \in Session |-> IdleSession]
  BY DEF Init
<1>3. /\ IdleSession \in SessionState
      /\ InRange(IdleSession) /\ IdsMinted(IdleSession, minted)
      /\ IdleSession.pc = "idle" /\ IdleSession.tx = Nothing
  BY <1>2, IdleIsFine, Zenon
<1>4. Good(View(Nothing), minted)
  BY <1>1, <1>2, EmptyIsGood, Zenon
<1>5. \A t \in Session : sess[t] = IdleSession /\ MyView(t) = View(Nothing)
  BY SMTT(30), <1>2, <1>3 DEF MyView
<1>6. \A t \in Session : SessionInv(t)
  BY <1>3, <1>4, <1>5, Zenon DEF SessionInv, OnlyHolderWrites
<1>7. StoresOK
  <2>1. sess \in [Session -> SessionState]
    BY <1>2, <1>3, Zenon
  <2> QED
    BY <1>1, <1>2, <1>3, <1>4, <1>5, <1>6, <2>1, NothingInRows DEF StoresOK, Committed
<1>8. BooksOK
  <2>1. DOMAIN charges = {} /\ invoices = << >> /\ requests = 0 /\ faults = 0
    BY DEF Init
  <2> QED
    BY <2>1, BoundsAssumption DEF BooksOK
<1> QED
  BY <1>7, <1>8, Zenon DEF IInv

(***************************************************************************)
(* The inductive invariant holds in every reachable state.                 *)
(***************************************************************************)
THEOREM LedgerInvariant == Spec => []IInv
<1>1. IInv /\ [Next]_vars => IInv'
  BY StoresKeep, BooksKeep DEF IInv
<1> QED
  BY <1>1, InitHolds, PTL DEF Spec

(***************************************************************************)
(* Types, and no loop over the events of a request leaves its list.        *)
(***************************************************************************)
THEOREM IngestTypeCorrect == Spec => []TypeOK
<1>1. IInv => TypeOK
  BY Zenon DEF IInv, StoresOK, BooksOK, TypeOK
<1> QED
  BY <1>1, LedgerInvariant, PTL

(***************************************************************************)
(* However many requests run at once and whichever of them fail, the hash  *)
(* chain of a tenant never forks, has no gap and every row links to the    *)
(* row before it (_acquire_chain_lock, the head SELECT, the INSERT).       *)
(***************************************************************************)
THEOREM ChainNeverForks == Spec => []ChainLinked
<1>1. IInv => ChainLinked
  <2> SUFFICES ASSUME IInv
               PROVE  ChainLinked
    BY Zenon
  <2>1. Linked(chain)
    BY CommittedIsGood, Zenon DEF IInv
  <2> QED
    BY <2>1 DEF Linked, ChainLinked, RowLinked
<1> QED
  BY <1>1, LedgerInvariant, PTL

(***************************************************************************)
(* An event of the legacy store is in the chain exactly once, or never if  *)
(* it was rejected, also after the retention job removed others.           *)
(***************************************************************************)
THEOREM EventsStayChained == Spec => []EventsChained
<1>1. IInv => EventsChained
  <2> SUFFICES ASSUME IInv
               PROVE  EventsChained
    OBVIOUS
  <2>1. /\ Linked(chain)
        /\ \A e \in legacy :
             IF e.status = "rejected" THEN \A r \in chain : r.id # e.id
             ELSE \E r \in chain : r.id = e.id /\ r.sha = e.sha
    BY CommittedIsGood, Zenon DEF IInv
  <2>2. \A r, q \in chain : r.id = q.id => r = q
    BY <2>1, Zenon DEF Linked
  <2> QED
    BY <2>1, <2>2 DEF EventsChained
<1> QED
  BY <1>1, LedgerInvariant, PTL

(***************************************************************************)
(* No store ever holds two events under one idempotency key, although the  *)
(* batch looks the keys up once, before its first insert.                  *)
(***************************************************************************)
THEOREM KeysStayUnique == Spec => []OneEventPerKey
<1>1. IInv => OneEventPerKey
  <2> SUFFICES ASSUME IInv
               PROVE  OneEventPerKey
    OBVIOUS
  <2>1. UniqueKeys(legacy) /\ UniqueKeys(canon)
    BY CommittedIsGood DEF IInv
  <2> QED
    BY <2>1, Zenon DEF UniqueKeys, OneEventPerKey
<1> QED
  BY <1>1, LedgerInvariant, PTL
=============================================================================

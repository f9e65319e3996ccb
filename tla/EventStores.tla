----------------------------- MODULE EventStores -----------------------------
(***************************************************************************)
(* The event stores of one tenant: the legacy table fsma.cte_events, the   *)
(* canonical table fsma.traceability_events and the hash chain they share, *)
(* with the writes that services/shared/cte_persistence and                *)
(* services/shared/canonical_persistence make to them.                     *)
(*                                                                         *)
(* A write is a function of the view its transaction has of the tables and *)
(* yields the rows it adds.  A hash is the collection of what is hashed,   *)
(* so that two hashes are equal exactly when their inputs are.  KDE and    *)
(* alert rows hang off an event row and add nothing to the properties.     *)
(***************************************************************************)
EXTENDS Naturals, Sequences

CONSTANTS
  Content,       \* the events clients report
  LegacyKey,     \* hashing.compute_idempotency_key of a content
  CanonicalKey,  \* TraceabilityEvent.compute_idempotency_key of a content
  Rejecting      \* contents whose alerts reject the event (EPCIS, advisory mode)

ASSUME RejectingAssumption == Rejecting \subseteq Content

VARIABLES
  legacy,  \* fsma.cte_events
  canon,   \* fsma.traceability_events
  chain,   \* fsma.hash_chain
  minted   \* the event ids (uuid4) handed out so far: 1..minted

tables == <<legacy, canon, chain>>

(***************************************************************************)
(* compute_event_hash (form "legacy") and compute_canonical_event_hash /   *)
(* compute_sha256_hash (form "canonical"): both include the event id.      *)
(***************************************************************************)
Digest(form, id, c) == [form |-> form, id |-> id, content |-> c]

Genesis == << >>

ChainHash(sha, prev) == Append(prev, sha)

(***************************************************************************)
(* The rows of the three tables.  An idempotency key names its formula and *)
(* the source, which both formulas include.                                *)
(***************************************************************************)
Source == {"webhook", "epcis", "portal"}

KeyInLegacy(source, c) == <<"legacy", source, LegacyKey[c]>>
KeyInCanon(source, c) == <<"canonical", source, CanonicalKey[c]>>

Key == {KeyInLegacy(source, c) : source \in Source, c \in Content}
         \cup {KeyInCanon(source, c) : source \in Source, c \in Content}

Digests == [form : {"legacy", "canonical"}, id : Nat, content : Content]

LegacyRow == [id : Nat, key : Key, sha : Digests, status : {"valid", "rejected"}]
CanonRow == [id : Nat, key : Key, sha : Digests, content : Content]
ChainRow == [seq : Nat, id : Nat, sha : Digests,
             prev : Seq(Digests), link : Seq(Digests)]

Rows == [legacy : SUBSET LegacyRow, canon : SUBSET CanonRow, chain : SUBSET ChainRow]

(***************************************************************************)
(* SELECT chain_hash, sequence_num ... ORDER BY sequence_num DESC LIMIT 1, *)
(* and the row that extends it.                                            *)
(***************************************************************************)
ChainHead(rows) == CHOOSE r \in rows : \A q \in rows : q.seq <= r.seq

HeadSeq(rows) == IF rows = {} THEN 0 ELSE ChainHead(rows).seq

HeadLink(rows) == IF rows = {} THEN Genesis ELSE ChainHead(rows).link

NextChainRow(rows, id, sha) ==
  [seq |-> HeadSeq(rows) + 1, id |-> id, sha |-> sha,
   prev |-> HeadLink(rows), link |-> ChainHash(sha, HeadLink(rows))]

(***************************************************************************)
(* A transaction sees the committed rows and the rows it has added.        *)
(***************************************************************************)
Nothing == [legacy |-> {}, canon |-> {}, chain |-> {}]

Merge(d, e) ==
  [legacy |-> d.legacy \cup e.legacy, canon |-> d.canon \cup e.canon,
   chain |-> d.chain \cup e.chain]

View(d) == Merge([legacy |-> legacy, canon |-> canon, chain |-> chain], d)

WithKey(rows, key) == {r \in rows : r.key = key}

(***************************************************************************)
(* CTEPersistence.store_event: a known key returns its row; otherwise the  *)
(* event row is inserted and, unless it is rejected, chained.  "known" is  *)
(* the set of legacy rows the idempotency check looks at.  Only the alerts *)
(* of the EPCIS route can reject.                                          *)
(***************************************************************************)
Status(source, c) ==
  IF source = "epcis" /\ c \in Rejecting THEN "rejected" ELSE "valid"

MutStoreEventChainsRejected(v, known, id, source, c, form) ==
  LET sha == Digest(form, id, c) IN
  IF WithKey(known, KeyInLegacy(source, c)) # {} THEN Nothing
  ELSE [legacy |-> {[id |-> id, key |-> KeyInLegacy(source, c), sha |-> sha,
                     status |-> Status(source, c)]},
        canon |-> {},
        chain |-> {NextChainRow(v.chain, id, sha)}]

StoreEvent(v, known, id, source, c, form) ==
  LET sha == Digest(form, id, c) IN
  IF WithKey(known, KeyInLegacy(source, c)) # {} THEN Nothing
  ELSE [legacy |-> {[id |-> id, key |-> KeyInLegacy(source, c), sha |-> sha,
                     status |-> Status(source, c)]},
        canon |-> {},
        chain |-> IF Status(source, c) = "rejected" THEN {}
                  ELSE {NextChainRow(v.chain, id, sha)}]

StoredId(known, id, source, c) ==
  LET hit == WithKey(known, KeyInLegacy(source, c)) IN
  IF hit = {} THEN id ELSE (CHOOSE r \in hit : TRUE).id

(***************************************************************************)
(* CanonicalEventStore.persist_event: a known key returns its row;         *)
(* otherwise the canonical row is inserted, chained unless                 *)
(* skip_chain_write ("chain" is in also), and copied to the legacy table,  *)
(* under the canonical key, if dual_write ("legacy" is in also).           *)
(***************************************************************************)
PersistEvent(v, id, source, c, also) ==
  LET sha == Digest("canonical", id, c)
      key == KeyInCanon(source, c)
  IN
  IF WithKey(v.canon, key) # {} THEN Nothing
  ELSE [canon |-> {[id |-> id, key |-> key, sha |-> sha, content |-> c]},
        chain |-> IF "chain" \notin also THEN {} ELSE {NextChainRow(v.chain, id, sha)},
        legacy |-> IF "legacy" \notin also \/ WithKey(v.legacy, key) # {} THEN {}
                   ELSE {[id |-> id, key |-> key, sha |-> sha, status |-> "valid"]}]

(***************************************************************************)
(* With skip_chain_write a new canonical row must match the chain row of   *)
(* its id, if there is one: "Canonical content does not match the existing *)
(* ledger event hash" is raised otherwise.                                 *)
(***************************************************************************)
LedgerMismatch(v, id, source, c) ==
  /\ WithKey(v.canon, KeyInCanon(source, c)) = {}
  /\ \E r \in v.chain : r.id = id /\ r.sha # Digest("canonical", id, c)
=============================================================================

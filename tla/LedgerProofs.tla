---------------------------- MODULE LedgerProofs -----------------------------
(***************************************************************************)
(* Ingest implements AppendOnlyLedger: the chain, read in order of its     *)
(* sequence numbers, is a log that only grows at its end.  Then what rests *)
(* on the pairing of TwinProofs: the charges, and the verification job.    *)
(*                                                                         *)
(* LogOf is Log for any set of rows.                                       *)
(***************************************************************************)
EXTENDS TwinProofs, SequenceTheorems, FiniteSetTheorems

RowAt(R, n) == CHOOSE q \in R : q.seq = n

LogOf(R) == [n \in 1..HeadSeq(R) |-> [id |-> RowAt(R, n).id, sha |-> RowAt(R, n).sha]]

Entry == [id : Nat, sha : Digests]

ChainIsLinked == chain \in SUBSET ChainRow /\ Linked(chain)

LEMMA RowAtPosition ==
  ASSUME NEW R, Linked(R), NEW n \in 1..HeadSeq(R)
  PROVE  RowAt(R, n) \in R /\ RowAt(R, n).seq = n
BY ZenonT(30) DEF RowAt, Linked

LEMMA LogOfLinked ==
  ASSUME NEW R \in SUBSET ChainRow, Linked(R), NEW l, l = LogOf(R)
  PROVE  /\ l \in Seq(Entry) /\ Len(l) = HeadSeq(R) /\ HeadSeq(R) \in Nat
         /\ \A n \in 1..HeadSeq(R) : l[n].id = RowAt(R, n).id /\ l[n].sha = RowAt(R, n).sha
<1>1. HeadSeq(R) \in Nat
  BY HeadOfLinked
<1>2. \A n \in 1..HeadSeq(R) :
        [id |-> RowAt(R, n).id, sha |-> RowAt(R, n).sha] \in Entry
  BY RowAtPosition, Zenon DEF ChainRow, Entry
<1>3. l \in [1..HeadSeq(R) -> Entry]
  BY <1>2 DEF LogOf
<1>4. l \in Seq(Entry)
  BY <1>1, <1>3, SeqDef
<1>5. Len(l) = HeadSeq(R)
  BY <1>1, <1>3, <1>4, LenProperties
<1> QED
  BY <1>1, <1>4, <1>5 DEF LogOf

(***************************************************************************)
(* No event is entered twice in a linked chain.                            *)
(***************************************************************************)
LEMMA LinkedEntersOnce ==
  ASSUME NEW R \in SUBSET ChainRow, Linked(R)
  PROVE  Ledger!EntersOnce(LogOf(R))
<1> DEFINE l == LogOf(R)
<1>1. /\ Len(l) = HeadSeq(R)
      /\ \A n \in 1..HeadSeq(R) : l[n].id = RowAt(R, n).id
  BY LogOfLinked, Zenon
<1> HIDE DEF l
<1>2. ASSUME NEW i \in 1..Len(l), NEW j \in 1..Len(l), l[i].id = l[j].id
      PROVE  i = j
  <2>1. RowAt(R, i) \in R /\ RowAt(R, j) \in R /\ RowAt(R, i).seq = i /\ RowAt(R, j).seq = j
    BY <1>1, RowAtPosition
  <2>2. RowAt(R, i) = RowAt(R, j)
    <3>1. RowAt(R, i).id = RowAt(R, j).id
      BY <1>1, <1>2
    <3>2. \A p, q \in R : p.id = q.id => p = q
      BY Zenon DEF Linked
    <3> QED
      BY <2>1, <3>1, <3>2
  <2> QED
    BY <2>1, <2>2, Zenon
<1> QED
  BY <1>2, Zenon DEF Ledger!EntersOnce, l

(***************************************************************************)
(* A linked chain that contains another has the other's log as a prefix.   *)
(***************************************************************************)
LEMMA LargerChainExtendsLog ==
  ASSUME NEW R \in SUBSET ChainRow, NEW T \in SUBSET ChainRow,
         Linked(R), Linked(T), R \subseteq T
  PROVE  LogOf(R) = LogOf(T) \/ Ledger!Extends(LogOf(R), LogOf(T))
<1> DEFINE l == LogOf(R)
           k == LogOf(T)
<1>1. HeadSeq(R) \in Nat /\ HeadSeq(T) \in Nat /\ HeadSeq(R) <= HeadSeq(T)
  <2>1. HeadSeq(R) \in Nat /\ HeadSeq(T) \in Nat
    BY HeadOfLinked, Zenon
  <2>2. CASE R = {}
    BY <2>1, <2>2, HeadOfLinked
  <2>3. CASE R # {}
    <3>1. ChainHead(R) \in T /\ HeadSeq(R) = ChainHead(R).seq
      BY <2>3, HeadOfLinked
    <3> QED
      BY <2>1, <3>1, HeadOfLinked
  <2> QED
    BY <2>2, <2>3
<1>2. \A n \in 1..HeadSeq(R) : n \in 1..HeadSeq(T) /\ RowAt(R, n) = RowAt(T, n)
  <2> TAKE n \in 1..HeadSeq(R)
  <2>1. n \in 1..HeadSeq(T)
    BY <1>1
  <2>2. RowAt(R, n) \in T /\ RowAt(R, n).seq = n
    BY RowAtPosition, Zenon
  <2>3. RowAt(T, n) \in T /\ RowAt(T, n).seq = n
    BY <2>1, RowAtPosition
  <2> QED
    BY SMTT(60), <2>1, <2>2, <2>3 DEF Linked
<1>3. CASE HeadSeq(R) = HeadSeq(T)
  BY <1>2, <1>3 DEF LogOf
<1>4. CASE HeadSeq(R) # HeadSeq(T)
  <2>1. /\ l \in Seq(Entry) /\ k \in Seq(Entry)
        /\ Len(l) = HeadSeq(R) /\ Len(k) = HeadSeq(T)
    BY LogOfLinked, Zenon
  <2>2. \A n \in 1..Len(l) : k[n] = l[n]
    BY ZenonT(30), <1>2, <2>1 DEF LogOf
  <2> HIDE DEF l, k
  <2>3. Len(l) < Len(k) /\ Len(l) \in Nat
    BY <1>1, <1>4, <2>1
  <2>4. SubSeq(k, 1, Len(l)) = l
    <3> DEFINE p == SubSeq(k, 1, Len(l))
    <3>1. \A n \in 1..Len(l) : k[n] \in Entry
      BY <2>1, <2>3, ElementOfSeq
    <3>2. 1 \in Int /\ Len(l) \in Int
      BY <2>3
    <3>3. /\ p \in Seq(Entry)
          /\ Len(p) = IF 1 <= Len(l) THEN Len(l) - 1 + 1 ELSE 0
          /\ \A n \in 1..(Len(l) - 1 + 1) : p[n] = k[1 + n - 1]
      BY <3>1, <3>2, SubSeqProperties
    <3> HIDE DEF p
    <3>4. Len(p) = Len(l) /\ \A n \in 1..Len(l) : p[n] = k[n]
      BY <2>3, <3>3
    <3>5. p = l
      BY <2>1, <2>2, <3>3, <3>4, SeqEqual
    <3> QED
      BY <3>5, Zenon DEF p
  <2> QED
    BY <2>3, <2>4 DEF Ledger!Extends, l, k
<1> QED
  BY <1>3, <1>4

(***************************************************************************)
(* Only a COMMIT adds rows; what else changes the stores is the retention  *)
(* job, which deletes legacy rows.                                         *)
(***************************************************************************)
LEMMA OnlyCommitAdds ==
  ASSUME [Next]_vars
  PROVE  \/ \E s \in Session : Commit(s)
         \/ legacy' \subseteq legacy /\ UNCHANGED <<canon, chain>>
<1> DEFINE Same == legacy' \subseteq legacy /\ UNCHANGED <<canon, chain>>
<1> USE DEF tables
<1>1. ASSUME NEW s \in Session, SessionStep(s), ~Commit(s)
      PROVE  Same
  BY <1>1, ZenonT(60) DEF SessionStep, BeginBatch, StoreEventsBatch, PersistCanonical, StoreSingly,
     IngestEpcis, IngestCompat, IngestPortal, RefuseMismatch, Rollback, ClaimChargeRow,
     ChargeForLabel
<1>2. ASSUME NEW s \in Session, Receive(s) \/ FallBack(s) \/ SkipSingly(s) \/ Fails(s)
      PROVE  Same
  BY ZenonT(30), <1>2 DEF Receive, FallBack, SkipSingly, Fails, Rollback
<1>3. ASSUME NEW S \in SUBSET legacy, ArchiveExpiredRecords(S)
      PROVE  Same
  BY <1>3 DEF ArchiveExpiredRecords
<1>4. CASE VerificationStep
  <2>1. UNCHANGED <<legacy, canon, chain>>
    BY ZenonT(30), <1>4
    DEF VerificationStep, WalkCanonical, CountCanonical, WalkLegacy, CountLegacy,
       FindMissing, JobStep
  <2> QED
    BY <2>1, Zenon
<1>5. CASE UNCHANGED vars
  BY <1>5, Zenon DEF vars
<1> QED
  BY <1>1, <1>2, <1>3, <1>4, <1>5, Zenon DEF Next

LEMMA ChainOnlyGrows ==
  ASSUME [Next]_vars
  PROVE  chain \subseteq chain'
BY OnlyCommitAdds, Zenon DEF Commit

(***************************************************************************)
(* What the readers of a tenant's chain are promised: read in order, it is *)
(* a log that only grows at its end and enters no event twice, whatever    *)
(* the writers, their failures and the retention job do.                   *)
(***************************************************************************)
THEOREM LedgerIsAppendOnly == Spec => ImplementsLedger
<1>1. Init => Ledger!Init
  <2> SUFFICES ASSUME Init
               PROVE  Log = << >>
    BY Zenon DEF Ledger!Init
  <2>1. HeadSeq(chain) = 0
    BY Zenon DEF Init, HeadSeq
  <2> QED
    BY <2>1 DEF Log
<1>2. ChainIsLinked /\ ChainIsLinked' /\ [Next]_vars => [Ledger!Grow]_Log
  <2> SUFFICES ASSUME ChainIsLinked, ChainIsLinked', [Next]_vars
               PROVE  Ledger!Grow \/ Log' = Log
    BY Zenon
  <2>1. /\ chain \in SUBSET ChainRow /\ Linked(chain)
        /\ chain' \in SUBSET ChainRow /\ Linked(chain')
    BY DEF ChainIsLinked
  <2>2. Log = LogOf(chain) /\ Log' = LogOf(chain')
    BY ZenonT(30) DEF Log, LogOf, RowAt
  <2>3. LogOf(chain) = LogOf(chain') \/ Ledger!Extends(LogOf(chain), LogOf(chain'))
    BY <2>1, ChainOnlyGrows, LargerChainExtendsLog
  <2>4. Ledger!EntersOnce(LogOf(chain'))
    BY <2>1, LinkedEntersOnce
  <2> QED
    BY <2>2, <2>3, <2>4 DEF Ledger!Grow
<1>3. IInv => ChainIsLinked
  BY CommittedIsGood DEF IInv, ChainIsLinked
<1> QED
  BY <1>1, <1>2, <1>3, LedgerInvariant, PTL DEF Spec, ImplementsLedger, Ledger!Spec
-----------------------------------------------------------------------------
(***************************************************************************)
(* Charges.  A claim is a row of label_charges that no invoice item stands *)
(* for yet and that one session holds.                                     *)
(***************************************************************************)
Claims ==
  /\ \A k \in 1..Len(invoices) : invoices[k] \in DOMAIN charges
  /\ ChargedOnce
  /\ \A s \in Session : sess[s].claim # 0 =>
       /\ sess[s].pc = "billing" /\ sess[s].claim \in DOMAIN charges
       /\ \A k \in 1..Len(invoices) : invoices[k] # sess[s].claim
       /\ \A t \in Session \ {s} : sess[t].claim # sess[s].claim

LEMMA NoClaimStep ==
  ASSUME Claims, NEW s \in Session, sess'[s].claim = 0,
         \A t \in Session \ {s} : sess'[t] = sess[t], UNCHANGED billing
  PROVE  Claims'
BY DEF Claims, ChargedOnce, billing

LEMMA EventStepsClaimNothing ==
  ASSUME StoresOK, Claims, NEW s \in Session,
         \/ BeginBatch(s) \/ StoreEventsBatch(s) \/ PersistCanonical(s) \/ FallBack(s)
         \/ StoreSingly(s) \/ SkipSingly(s)
         \/ IngestEpcis(s) \/ IngestCompat(s) \/ IngestPortal(s)
  PROVE  Claims'
<1> DEFINE OnlyS == \A t \in Session \ {s} : sess'[t] = sess[t]
<1>1. sess \in [Session -> SessionState] /\ sess[s] \in SessionState
  BY DEF StoresOK
<1>2. DOMAIN sess[s] = {"pc", "kind", "events", "i", "seen", "ids", "tx", "billable", "claim"}
  BY <1>1, ZenonT(60) DEF SessionState
<1>3. sess[s].pc # "billing"
  BY DEF BeginBatch, StoreEventsBatch, PersistCanonical, FallBack, StoreSingly, SkipSingly,
     IngestEpcis, IngestCompat, IngestPortal
<1>4. sess[s].claim = 0
  BY <1>3, Zenon DEF Claims
<1>5. ASSUME NEW tx, NEW ids, NEW billable, NEW next, NEW r,
             \/ r = sess[s]
             \/ r = [sess[s] EXCEPT !.tx = tx]
             \/ r = [sess[s] EXCEPT !.tx = tx, !.ids = ids]
             \/ r = [sess[s] EXCEPT !.tx = tx, !.billable = billable],
             sess' = [sess EXCEPT ![s] = Advance(r, next)]
      PROVE  sess'[s].claim = 0 /\ OnlyS
  <2>1. r.claim = 0 /\ DOMAIN r = DOMAIN sess[s]
    BY ZenonT(30), <1>2, <1>4, <1>5
  <2>2. Advance(r, next).claim = 0
    BY <1>2, <2>1 DEF Advance
  <2> QED
    BY <1>1, <1>5, <2>2
<1>6. CASE StoreEventsBatch(s)
  BY ZenonT(60), <1>5, <1>6, NoClaimStep DEF StoreEventsBatch
<1>7. CASE PersistCanonical(s)
  BY ZenonT(60), <1>5, <1>7, NoClaimStep DEF PersistCanonical
<1>8. CASE StoreSingly(s)
  BY ZenonT(60), <1>5, <1>8, NoClaimStep DEF StoreSingly
<1>9. CASE SkipSingly(s)
  BY ZenonT(60), <1>5, <1>9, NoClaimStep DEF SkipSingly
<1>10. CASE IngestEpcis(s)
  BY ZenonT(60), <1>5, <1>10, NoClaimStep DEF IngestEpcis
<1>11. CASE IngestCompat(s)
  BY ZenonT(60), <1>5, <1>11, NoClaimStep DEF IngestCompat
<1>12. CASE IngestPortal(s)
  <2> DEFINE d == Merge(sess[s].tx, PersistEvent(MyView(s), minted + 1, "portal", Current(s),
                                                 {"chain", "legacy"}))
  <2>1. sess' = [sess EXCEPT ![s] = [sess[s] EXCEPT !.pc = "commit", !.tx = d]]
        /\ UNCHANGED billing
    BY <1>12 DEF IngestPortal
  <2> HIDE DEF d
  <2> QED
    BY <1>1, <1>2, <1>4, <2>1, NoClaimStep
<1>13. CASE BeginBatch(s)
  <2>1. sess' = [sess EXCEPT ![s] = [sess[s] EXCEPT !.pc = "batch", !.seen = legacy]]
        /\ UNCHANGED billing
    BY <1>13 DEF BeginBatch
  <2> QED
    BY <1>1, <1>2, <1>4, <2>1, NoClaimStep
<1>14. CASE FallBack(s)
  <2>1. sess' = [sess EXCEPT ![s] = [sess[s] EXCEPT !.pc = "fallback", !.i = 1, !.seen = {},
                   !.ids = <<>>, !.tx = Nothing, !.billable = {}]]
        /\ UNCHANGED billing
    BY <1>14 DEF FallBack
  <2> QED
    BY <1>1, <1>2, <1>4, <2>1, NoClaimStep
<1> QED
  BY <1>6, <1>7, <1>8, <1>9, <1>10, <1>11, <1>12, <1>13, <1>14

LEMMA FreshSessionsClaimNothing ==
  ASSUME StoresOK, Claims, NEW s \in Session, Receive(s) \/ Rollback(s) \/ Commit(s)
  PROVE  Claims'
<1>1. sess \in [Session -> SessionState]
  BY DEF StoresOK
<1>2. ASSUME NEW r, r.claim = 0, sess' = [sess EXCEPT ![s] = r], UNCHANGED billing
      PROVE  Claims'
  BY <1>1, <1>2, NoClaimStep
<1>3. CASE Receive(s)
  <2>1. PICK kind, events :
          sess' = [sess EXCEPT ![s] = [IdleSession EXCEPT
                     !.pc = "ready", !.kind = kind, !.events = events]]
    BY ZenonT(30), <1>3 DEF Receive
  <2>2. [IdleSession EXCEPT !.pc = "ready", !.kind = kind, !.events = events].claim = 0
    BY Zenon DEF IdleSession
  <2> QED
    BY <1>2, <1>3, <2>1, <2>2, ZenonT(30) DEF Receive
<1>4. CASE Rollback(s)
  BY <1>2, <1>4, IdleFields, Zenon DEF Rollback
<1>5. CASE Commit(s)
  <2> DEFINE r == IF sess[s].billable = {} THEN IdleSession
                  ELSE [IdleSession EXCEPT !.pc = "billing", !.billable = sess[s].billable]
  <2>1. r.claim = 0
    BY DEF IdleSession
  <2>2. sess' = [sess EXCEPT ![s] = r] /\ UNCHANGED billing
    BY <1>5 DEF Commit
  <2> HIDE DEF r
  <2> QED
    BY <1>2, <2>1, <2>2, Zenon
<1> QED
  BY <1>3, <1>4, <1>5

(***************************************************************************)
(* The claim is a new row, so no invoice item and no other session has it. *)
(***************************************************************************)
LEMMA ClaimChargeRowClaims ==
  ASSUME StoresOK, Claims, NEW s \in Session, ClaimChargeRow(s)
  PROVE  Claims'
<1>1. /\ sess[s].pc = "billing" /\ sess[s].claim = 0 /\ UNCHANGED invoices
      /\ sess[s] \in SessionState /\ sess \in [Session -> SessionState]
  BY Zenon DEF ClaimChargeRow, StoresOK
<1>2. PICK id \in sess[s].billable :
        \/ /\ id \notin DOMAIN charges
           /\ charges' = [x \in DOMAIN charges \cup {id} |->
                            IF x = id THEN "pending" ELSE charges[x]]
           /\ sess' = [sess EXCEPT ![s] = [sess[s] EXCEPT !.claim = id]]
        \/ /\ sess' = [sess EXCEPT ![s] = AfterLabel(sess[s], id)]
           /\ UNCHANGED charges
  BY Zenon DEF ClaimChargeRow
<1>3. CASE /\ id \notin DOMAIN charges
           /\ charges' = [x \in DOMAIN charges \cup {id} |->
                            IF x = id THEN "pending" ELSE charges[x]]
           /\ sess' = [sess EXCEPT ![s] = [sess[s] EXCEPT !.claim = id]]
  <2>1. DOMAIN charges' = DOMAIN charges \cup {id}
    BY <1>3
  <2>2. /\ sess'[s].claim = id /\ sess'[s].pc = "billing"
        /\ \A t \in Session \ {s} : sess'[t] = sess[t]
    BY <1>1, <1>3 DEF SessionState
  <2>3. \A k \in 1..Len(invoices) : invoices[k] # id
    BY <1>3 DEF Claims
  <2>4. \A t \in Session \ {s} : sess[t].claim # 0 => sess[t].claim # id
    BY <1>3 DEF Claims
  <2>5. ASSUME NEW t \in Session, sess'[t].claim # 0
        PROVE  /\ sess'[t].pc = "billing" /\ sess'[t].claim \in DOMAIN charges'
               /\ \A k \in 1..Len(invoices') : invoices'[k] # sess'[t].claim
               /\ \A u \in Session \ {t} : sess'[u].claim # sess'[t].claim
    <3>1. CASE t = s
      BY <3>1, <1>1, <2>1, <2>2, <2>3, <2>4, <2>5
    <3>2. CASE t # s
      BY <3>2, <1>1, <2>1, <2>2, <2>4, <2>5 DEF Claims
    <3> QED
      BY <3>1, <3>2
  <2>6. \A k \in 1..Len(invoices') : invoices'[k] \in DOMAIN charges'
    BY <1>1, <2>1 DEF Claims
  <2>7. ChargedOnce'
    BY <1>1 DEF Claims, ChargedOnce
  <2> QED
    BY <2>5, <2>6, <2>7 DEF Claims
<1>4. CASE sess' = [sess EXCEPT ![s] = AfterLabel(sess[s], id)] /\ UNCHANGED charges
  <2>1. AfterLabel(sess[s], id).claim = 0
    BY <1>1, AfterLabelIsFine
  <2> QED
    BY <1>1, <1>4, <2>1, NoClaimStep DEF billing
<1> QED
  BY <1>2, <1>3, <1>4

(***************************************************************************)
(* The invoice item of a claim is its first, and the claim is dropped.     *)
(***************************************************************************)
LEMMA ChargeForLabelClaims ==
  ASSUME StoresOK, BooksOK, Claims, NEW s \in Session, ChargeForLabel(s)
  PROVE  Claims'
<1> DEFINE id == sess[s].claim
<1>1. /\ sess[s].pc = "billing" /\ id # 0
      /\ sess' = [sess EXCEPT ![s] = AfterLabel(sess[s], id)]
      /\ invoices' = invoices \/ invoices' = Append(invoices, id)
  BY ZenonT(30) DEF ChargeForLabel
<1>2. sess[s] \in SessionState /\ sess \in [Session -> SessionState] /\ id \in Nat
  BY Zenon DEF StoresOK, SessionState
<1>3. /\ sess'[s].claim = 0 /\ \A t \in Session \ {s} : sess'[t] = sess[t]
  <2>1. AfterLabel(sess[s], id).claim = 0
    BY <1>1, <1>2, AfterLabelIsFine
  <2> QED
    BY <1>1, <1>2, <2>1
<1>4. DOMAIN charges' = DOMAIN charges
  BY Zenon DEF ChargeForLabel
<1>5. /\ id \in DOMAIN charges /\ \A k \in 1..Len(invoices) : invoices[k] # id
      /\ \A t \in Session \ {s} : sess[t].claim # id
  BY <1>1, Zenon DEF Claims
<1> HIDE DEF id
<1>6. CASE invoices' = invoices
  BY <1>3, <1>4, <1>6, SMTT(30) DEF Claims, ChargedOnce
<1>7. CASE invoices' = Append(invoices, id)
  <2> DEFINE n == Len(invoices)
  <2>1. n \in Nat /\ invoices \in Seq(Nat)
    BY DEF BooksOK
  <2>2. /\ Len(invoices') = n + 1 /\ invoices'[n + 1] = id
        /\ \A k \in 1..n : invoices'[k] = invoices[k]
    BY <1>2, <1>7, <2>1, AppendProperties
  <2>3. \A k \in 1..(n + 1) : k \in 1..n \/ k = n + 1
    BY <2>1
  <2>4. \A k \in 1..Len(invoices') : invoices'[k] \in DOMAIN charges'
    BY <1>4, <1>5, <2>2, <2>3 DEF Claims
  <2>5. ChargedOnce'
    <3> SUFFICES ASSUME NEW i \in 1..(n + 1), NEW j \in 1..(n + 1), invoices'[i] = invoices'[j]
                 PROVE  i = j
      BY <2>2, Zenon DEF ChargedOnce
    <3>1. CASE i \in 1..n /\ j \in 1..n
      BY <2>2, <3>1 DEF Claims, ChargedOnce
    <3>2. CASE i = n + 1 \/ j = n + 1
      BY <1>5, <2>2, <2>3, <3>2
    <3> QED
      BY <2>3, <3>1, <3>2, Zenon
  <2>6. \A t \in Session : sess'[t].claim # 0 =>
          /\ t # s /\ sess'[t] = sess[t] /\ sess[t].claim # id
    BY <1>3, <1>5
  <2>7. \A t \in Session : sess'[t].claim # 0 =>
          /\ sess'[t].pc = "billing" /\ sess'[t].claim \in DOMAIN charges'
          /\ \A k \in 1..Len(invoices') : invoices'[k] # sess'[t].claim
          /\ \A u \in Session \ {t} : sess'[u].claim # sess'[t].claim
    BY <1>3, <1>4, <2>2, <2>3, <2>6 DEF Claims
  <2> QED
    BY <2>4, <2>5, <2>7 DEF Claims
<1> QED
  BY <1>1, <1>6, <1>7

LEMMA ClaimsKeep ==
  ASSUME IInv, Claims, [Next]_vars
  PROVE  Claims'
<1> USE DEF IInv
<1>1. ASSUME NEW s \in Session, Fails(s) \/ RefuseMismatch(s)
      PROVE  Claims'
  BY <1>1, FreshSessionsClaimNothing DEF Fails, RefuseMismatch
<1>2. CASE UNCHANGED <<sess, charges, invoices>>
  BY <1>2 DEF Claims, ChargedOnce
<1>3. CASE VerificationStep
  <2>1. UNCHANGED <<sess, charges, invoices>>
    BY ZenonT(30), <1>3 DEF VerificationStep, WalkCanonical, CountCanonical, WalkLegacy,
       CountLegacy, FindMissing, JobStep, billing
  <2> QED
    BY <2>1, <1>2
<1>4. ASSUME NEW S \in SUBSET legacy, ArchiveExpiredRecords(S)
      PROVE  Claims'
  BY <1>2, <1>4 DEF ArchiveExpiredRecords, billing
<1>5. CASE UNCHANGED vars
  BY <1>2, <1>5 DEF vars
<1> QED
  BY SMTT(30), <1>1, <1>3, <1>4, <1>5, FreshSessionsClaimNothing, EventStepsClaimNothing,
     ClaimChargeRowClaims, ChargeForLabelClaims DEF Next, SessionStep

(***************************************************************************)
(* At most one Stripe invoice item per label, whichever sessions race for  *)
(* its row and wherever they crash ("charges Stripe at most once").        *)
(***************************************************************************)
THEOREM LabelsAreChargedOnce == Spec => []ChargedOnce
<1>1. Init => Claims
  BY IdleFields, Len(<< >>) = 0 DEF Init, Claims, ChargedOnce
<1>2. IInv /\ Claims /\ [Next]_vars => Claims'
  BY ClaimsKeep, Zenon
<1>3. Claims => ChargedOnce
  BY Zenon DEF Claims
<1> QED
  BY <1>1, <1>2, <1>3, LedgerInvariant, PTL DEF Spec

LEMMA ChargesStayBacked ==
  ASSUME StoresOK, PairsOK, ChargesAreBacked, [Next]_vars
  PROVE  ChargesAreBacked'
<1>1. chain \subseteq chain'
  BY ChainOnlyGrows
<1>2. CASE DOMAIN charges' = DOMAIN charges
  BY <1>1, <1>2 DEF ChargesAreBacked
<1>3. ASSUME NEW s \in Session, ClaimChargeRow(s)
      PROVE  ChargesAreBacked'
  <2>1. PICK id \in sess[s].billable : DOMAIN charges' \subseteq DOMAIN charges \cup {id}
    BY <1>3, ZenonT(60) DEF ClaimChargeRow
  <2>2. Sound(sess[s]) /\ sess[s].tx = Nothing
    BY <1>3 DEF PairsOK, Sound, ClaimChargeRow
  <2>3. InChain(chain, id)
    <3>1. InChain(View(Nothing).chain, id)
      BY <2>2, Zenon DEF Sound
    <3> QED
      BY <3>1, CommittedRows DEF Committed
  <2> QED
    BY <1>1, <2>1, <2>3 DEF ChargesAreBacked, InChain
<1>4. ASSUME NEW s \in Session, ChargeForLabel(s)
      PROVE  ChargesAreBacked'
  <2>1. DOMAIN charges' = DOMAIN charges
    BY <1>4, Zenon DEF ChargeForLabel
  <2> QED
    BY <1>2, <2>1
<1>5. CASE UNCHANGED charges
  BY <1>2, <1>5, SMTT(30)
<1>6. ASSUME NEW s \in Session, SessionStep(s), ~ClaimChargeRow(s), ~ChargeForLabel(s)
      PROVE  UNCHANGED charges
  BY <1>6 DEF SessionStep, BeginBatch, StoreEventsBatch, PersistCanonical, StoreSingly,
     IngestEpcis, IngestCompat, IngestPortal, Commit, RefuseMismatch, Rollback, billing
<1>7. ASSUME NEW s \in Session, Receive(s) \/ FallBack(s) \/ SkipSingly(s) \/ Fails(s)
      PROVE  UNCHANGED charges
  BY ZenonT(30), <1>7 DEF Receive, FallBack, SkipSingly, Fails, Rollback, billing
<1>8. ASSUME NEW S \in SUBSET legacy, ArchiveExpiredRecords(S)
      PROVE  UNCHANGED charges
  BY <1>8, Zenon DEF ArchiveExpiredRecords, billing
<1>9. VerificationStep => UNCHANGED charges
  BY ZenonT(30) DEF VerificationStep, WalkCanonical, CountCanonical, WalkLegacy,
     CountLegacy, FindMissing, JobStep, billing
<1>10. UNCHANGED vars => UNCHANGED charges
  BY Zenon DEF vars
<1> QED
  BY <1>3, <1>4, <1>5, <1>6, <1>7, <1>8, <1>9, <1>10, Zenon DEF Next

(***************************************************************************)
(* No label is charged for an event that is not in the ledger, whatever a  *)
(* fallback or a rollback took back before the commit.                     *)
(***************************************************************************)
THEOREM OnlyLedgerEventsAreCharged == Spec => []ChargesAreBacked
<1>1. Init => ChargesAreBacked
  BY DEF Init, ChargesAreBacked
<1>2. StoresOK /\ PairsOK /\ ChargesAreBacked /\ [Next]_vars => ChargesAreBacked'
  BY ChargesStayBacked, Zenon
<1> QED
  BY <1>1, <1>2, PairsHold, PTL DEF Spec
-----------------------------------------------------------------------------
(***************************************************************************)
(* The verification job.  A row that retention has orphaned stays an       *)
(* orphan: no later write uses its id.                                     *)
(***************************************************************************)
JobInv ==
  /\ VerdictSound
  /\ job.pc = "none" => job.valid
  /\ job.pc = "walked again" /\ job.length = 0 => job.empty

LEMMA OrphansStay ==
  ASSUME StoresOK, PairsOK, [Next]_vars, Orphaned
  PROVE  Orphaned'
<1>1. PICK q \in chain : ~\E t \in legacy \cup canon : t.id = q.id
  BY DEF Orphaned
<1>2. ASSUME NEW s \in Session, Commit(s)
      PROVE  Orphaned'
  <2>1. /\ legacy' = legacy \cup sess[s].tx.legacy /\ canon' = canon \cup sess[s].tx.canon
        /\ q \in chain'
    BY <1>2, ChainOnlyGrows DEF Commit
  <2>2. Fresh(sess[s].tx)
    BY Zenon DEF PairsOK, Sound
  <2>3. ~\E t \in sess[s].tx.legacy \cup sess[s].tx.canon : t.id = q.id
    BY <1>1, <2>2 DEF Fresh, InChain
  <2> QED
    BY <1>1, <2>1, <2>3 DEF Orphaned
<1>3. CASE legacy' \subseteq legacy /\ UNCHANGED <<canon, chain>>
  BY <1>1, <1>3 DEF Orphaned
<1> QED
  BY <1>2, <1>3, OnlyCommitAdds, Zenon

LEMMA ChainIsFinite ==
  ASSUME NEW R \in SUBSET ChainRow, Linked(R)
  PROVE  IsFiniteSet(R)
<1> DEFINE f == [n \in 1..HeadSeq(R) |-> RowAt(R, n)]
<1>1. HeadSeq(R) \in Nat /\ \A q \in R : q.seq <= HeadSeq(R)
  BY HeadOfLinked, Zenon
<1>2. \A n \in 1..HeadSeq(R) : RowAt(R, n) \in R /\ RowAt(R, n).seq = n
  BY RowAtPosition
<1>3. \A q \in R : q.seq \in 1..HeadSeq(R) /\ RowAt(R, q.seq) = q
  <2> TAKE q \in R
  <2>1. q.seq \in 1..HeadSeq(R)
    BY <1>1 DEF Linked, ChainRow
  <2> QED
    BY <1>2, <2>1 DEF Linked
<1>4. f \in Surjection(1..HeadSeq(R), R)
  BY <1>2, <1>3 DEF Surjection
<1>5. IsFiniteSet(1..HeadSeq(R))
  BY <1>1, FS_Interval
<1> QED
  BY <1>4, <1>5, FS_Surjection

(***************************************************************************)
(* What the SELECTs of the job find in a ledger that is sound.             *)
(***************************************************************************)
LEMMA WalksFindNothing ==
  ASSUME StoresOK, PairsOK
  PROVE  /\ \A r \in chain : RowLinked(r)
         /\ Orphaned \/ \A r \in chain : CanonicalRowOK(r)
         /\ Cardinality(chain) = 0 => chain = {}
         /\ MissingChainRows = {}
<1>1. /\ chain \in SUBSET ChainRow /\ Linked(chain)
      /\ \A e \in legacy :
           IF e.status = "rejected" THEN \A r \in chain : r.id # e.id
           ELSE \E r \in chain : r.id = e.id /\ r.sha = e.sha
  BY CommittedIsGood, Zenon
<1>2. \A r \in chain : RowLinked(r)
  BY <1>1 DEF Linked, RowLinked
<1>3. Matched(Committed) /\ Committed.canon = canon /\ Committed.chain = chain
  BY CommittedRows DEF PairsOK, Paired
<1>4. ASSUME ~Orphaned, NEW r \in chain
      PROVE  CanonicalRowOK(r)
  <2>1. \E t \in legacy \cup canon : t.id = r.id
    BY <1>4 DEF Orphaned
  <2>2. \A t \in canon : t.id = r.id =>
          r.sha = t.sha /\ t.sha = Digest("canonical", r.id, t.content)
    BY <1>3, Zenon DEF Matched
  <2> QED
    BY <2>1, <2>2 DEF CanonicalRowOK
<1>5. Cardinality(chain) = 0 => chain = {}
  BY <1>1, ChainIsFinite, FS_EmptySet
<1>6. MissingChainRows = {}
  BY <1>1, Zenon DEF MissingChainRows, NonRejected
<1> QED
  BY <1>2, <1>4, <1>5, <1>6

LEMMA JobKeeps ==
  ASSUME StoresOK, PairsOK, JobInv, [Next]_vars
  PROVE  JobInv'
<1>1. CASE UNCHANGED job
  BY <1>1, OrphansStay, Zenon DEF JobInv, VerdictSound
<1>2. CASE WalkCanonical
  <2>1. /\ job.pc = "none" /\ UNCHANGED tables
        /\ job' = [pc |-> "walked",
                   valid |-> job.valid /\ \A r \in chain : RowLinked(r) /\ CanonicalRowOK(r),
                   empty |-> chain = {}, length |-> 0]
    BY <1>2 DEF WalkCanonical, JobStep
  <2>2. job'.pc = "walked" /\ (Orphaned \/ job'.valid)
    BY <2>1, WalksFindNothing, Zenon DEF JobInv
  <2> QED
    BY <2>2, OrphansStay, ZenonT(60) DEF JobInv, VerdictSound
<1>3. CASE CountCanonical
  <2>1. job' = [pc |-> "counted", valid |-> job.valid /\ (job.empty => canon = {}),
                empty |-> job.empty, length |-> 0]
    BY <1>3, Zenon DEF CountCanonical, JobStep
  <2>2. /\ job'.pc = "counted" /\ (job'.empty <=> job.empty)
        /\ job'.valid <=> (job.valid /\ (job.empty => canon = {}))
    BY <2>1, Zenon
  <2> QED
    BY <2>2, OrphansStay, Zenon DEF JobInv, VerdictSound
<1>4. CASE WalkLegacy
  <2>1. job' = [pc |-> "walked again",
                valid |-> job.valid /\ \A r \in chain : RowLinked(r),
                empty |-> job.empty \/ chain = {}, length |-> Cardinality(chain)]
    BY <1>4, Zenon DEF WalkLegacy, JobStep
  <2>2. /\ job'.pc = "walked again" /\ job'.length = Cardinality(chain)
        /\ (job'.empty <=> (job.empty \/ chain = {}))
        /\ (job'.valid <=> (job.valid /\ \A r \in chain : RowLinked(r)))
    BY <2>1, Zenon
  <2> QED
    BY <2>2, OrphansStay, WalksFindNothing, Zenon DEF JobInv, VerdictSound
<1>5. CASE CountLegacy
  <2>1. /\ job.pc = "walked again" /\ job'.pc \in {"counted again", "done"}
        /\ (job'.empty <=> job.empty)
        /\ (job'.valid <=> (job.valid /\ (job.length = 0 => NonRejected = {})))
    BY <1>5, Zenon DEF CountLegacy, JobStep
  <2> QED
    BY <2>1, OrphansStay, Zenon DEF JobInv, VerdictSound
<1>6. CASE FindMissing
  <2>1. /\ job'.pc = "done" /\ (job'.empty <=> job.empty)
        /\ (job'.valid <=> (job.valid /\ MissingChainRows = {}))
    BY <1>6, Zenon DEF FindMissing, JobStep
  <2> QED
    BY <2>1, OrphansStay, WalksFindNothing, ZenonT(30) DEF JobInv, VerdictSound
<1>7. ASSUME NEW s \in Session, SessionStep(s)
      PROVE  UNCHANGED job
  BY <1>7, Zenon DEF SessionStep, BeginBatch, StoreEventsBatch, PersistCanonical, StoreSingly,
     IngestEpcis, IngestCompat, IngestPortal, Commit, RefuseMismatch, Rollback,
     ClaimChargeRow, ChargeForLabel
<1>8. ASSUME NEW s \in Session, Receive(s) \/ FallBack(s) \/ SkipSingly(s) \/ Fails(s)
      PROVE  UNCHANGED job
  BY ZenonT(30), <1>8 DEF Receive, FallBack, SkipSingly, Fails, Rollback
<1>9. ASSUME NEW S \in SUBSET legacy, ArchiveExpiredRecords(S)
      PROVE  UNCHANGED job
  BY <1>9 DEF ArchiveExpiredRecords
<1>10. UNCHANGED vars => UNCHANGED job
  BY Zenon DEF vars
<1> QED
  BY <1>1, <1>2, <1>3, <1>4, <1>5, <1>6, <1>7, <1>8, <1>9, <1>10 DEF Next, VerificationStep

(***************************************************************************)
(* The verification job finds nothing wrong in a ledger that is written    *)
(* while it reads, SELECT by SELECT: only a walk that saw no row at all    *)
(* and rows whose events retention has deleted make it fail.               *)
(***************************************************************************)
THEOREM VerificationIsSound == Spec => []VerdictSound
<1>1. Init => JobInv
  BY DEF Init, NoJob, JobInv, VerdictSound
<1>2. StoresOK /\ PairsOK /\ JobInv /\ [Next]_vars => JobInv'
  BY JobKeeps
<1>3. JobInv => VerdictSound
  BY Zenon DEF JobInv
<1> QED
  BY <1>1, <1>2, <1>3, PairsHold, PTL DEF Spec
-----------------------------------------------------------------------------
(***************************************************************************)
(* Every chain row of what a transaction adds has its event among it.      *)
(***************************************************************************)
Covered(d) == \A r \in d.chain : \E t \in d.legacy \cup d.canon : t.id = r.id

AllCovered == ~Orphaned /\ \A s \in Session : Covered(sess[s].tx)

LEMMA CoveredMerge ==
  ASSUME NEW d, NEW e, Covered(d), Covered(e)
  PROVE  Covered(Merge(d, e))
<1>1. /\ Merge(d, e).legacy = d.legacy \cup e.legacy
      /\ Merge(d, e).canon = d.canon \cup e.canon
      /\ Merge(d, e).chain = d.chain \cup e.chain
  BY Zenon DEF Merge
<1> QED
  BY <1>1, ZenonT(60) DEF Covered

LEMMA NothingCovered == Covered(Nothing)
BY DEF Covered, Nothing

LEMMA StoreCovered ==
  ASSUME NEW v, NEW known, NEW id, NEW source, NEW c, NEW form
  PROVE  Covered(StoreEvent(v, known, id, source, c, form))
<1> DEFINE sha == Digest(form, id, c)
           key == KeyInLegacy(source, c)
           st == Status(source, c)
           n == NextChainRow(v.chain, id, sha)
<1>n. n.id = id
  BY DEF NextChainRow
<1> HIDE DEF sha, key, st, n
<1> DEFINE e == [id |-> id, key |-> key, sha |-> sha, status |-> st]
           d == [legacy |-> {e}, canon |-> {}, chain |-> IF st = "rejected" THEN {} ELSE {n}]
<1>1. e.id = id /\ d.legacy = {e} /\ d.chain \subseteq {n}
  BY Zenon
<1>2. StoreEvent(v, known, id, source, c, form) \in {Nothing, d}
  BY Zenon DEF StoreEvent, sha, key, st, n
<1> HIDE DEF e, d
<1>3. Covered(d)
  BY <1>n, <1>1, Zenon DEF Covered
<1> QED
  BY <1>2, <1>3, NothingCovered, Zenon

LEMMA PersistCovered ==
  ASSUME NEW v, NEW id, NEW source, NEW c, NEW also
  PROVE  Covered(PersistEvent(v, id, source, c, also))
<1> DEFINE sha == Digest("canonical", id, c)
           key == KeyInCanon(source, c)
           n == NextChainRow(v.chain, id, sha)
<1>n. n.id = id
  BY DEF NextChainRow
<1> HIDE DEF sha, key, n
<1> DEFINE t == [id |-> id, key |-> key, sha |-> sha, content |-> c]
           d == [canon |-> {t}, chain |-> IF "chain" \notin also THEN {} ELSE {n},
                 legacy |-> IF "legacy" \notin also \/ WithKey(v.legacy, key) # {} THEN {}
                   ELSE {[id |-> id, key |-> key, sha |-> sha, status |-> "valid"]}]
<1>1. t.id = id /\ d.canon = {t} /\ d.chain \subseteq {n}
  BY Zenon
<1>2. PersistEvent(v, id, source, c, also) \in {Nothing, d}
  BY Zenon DEF PersistEvent, sha, key, n
<1> HIDE DEF t, d
<1>3. Covered(d)
  BY <1>n, <1>1, Zenon DEF Covered
<1> QED
  BY <1>2, <1>3, NothingCovered, Zenon

LEMMA CoveredStep ==
  ASSUME StoresOK, AllCovered, NEW s \in Session, NEW r,
         sess' = [sess EXCEPT ![s] = r], Covered(r.tx), UNCHANGED tables
  PROVE  AllCovered'
<1>1. sess'[s] = r /\ \A t \in Session : t # s => sess'[t] = sess[t]
  BY Zenon DEF StoresOK
<1>2. ~Orphaned'
  BY Zenon DEF AllCovered, Orphaned, tables
<1> QED
  BY <1>1, <1>2, Zenon DEF AllCovered

LEMMA WritesCovered ==
  ASSUME StoresOK, AllCovered, NEW s \in Session,
         \/ StoreEventsBatch(s) \/ PersistCanonical(s) \/ StoreSingly(s)
         \/ IngestEpcis(s) \/ IngestCompat(s) \/ IngestPortal(s)
  PROVE  AllCovered'
<1>r. sess[s] \in SessionState /\ Covered(sess[s].tx)
  BY Zenon DEF StoresOK, AllCovered
<1>a. ASSUME NEW d, NEW x, Covered(d), UNCHANGED tables,
             sess' = [sess EXCEPT ![s] = Advance([sess[s] EXCEPT !.tx = d, !.ids = x], "canon")]
      PROVE  AllCovered'
  <2>1. PICK r : r = Advance([sess[s] EXCEPT !.tx = d, !.ids = x], "canon")
    OBVIOUS
  <2>2. r.tx = d
    BY <1>r, <2>1 DEF Advance, SessionState
  <2> QED
    BY <1>a, <2>1, <2>2, CoveredStep, Zenon
<1>b. ASSUME NEW d, NEW x, Covered(d), UNCHANGED tables,
             sess' = [sess EXCEPT ![s] = Advance([sess[s] EXCEPT !.tx = d, !.billable = x], "commit")]
      PROVE  AllCovered'
  <2>1. PICK r : r = Advance([sess[s] EXCEPT !.tx = d, !.billable = x], "commit")
    OBVIOUS
  <2>2. r.tx = d
    BY <1>r, <2>1 DEF Advance, SessionState
  <2> QED
    BY <1>b, <2>1, <2>2, CoveredStep, Zenon
<1>c. ASSUME NEW d, Covered(d), UNCHANGED tables,
             sess' = [sess EXCEPT ![s] = Advance([sess[s] EXCEPT !.tx = d], "commit")]
      PROVE  AllCovered'
  <2>1. PICK r : r = Advance([sess[s] EXCEPT !.tx = d], "commit")
    OBVIOUS
  <2>2. r.tx = d
    BY <1>r, <2>1 DEF Advance, SessionState
  <2> QED
    BY <1>c, <2>1, <2>2, CoveredStep, Zenon
<1>d. ASSUME NEW d, Covered(d), UNCHANGED tables,
             sess' = [sess EXCEPT ![s] = [sess[s] EXCEPT !.pc = "commit", !.tx = d]]
      PROVE  AllCovered'
  <2>1. PICK r : r = [sess[s] EXCEPT !.pc = "commit", !.tx = d]
    OBVIOUS
  <2>2. r.tx = d
    BY <1>r, <2>1 DEF Advance, SessionState
  <2> QED
    BY <1>d, <2>1, <2>2, CoveredStep, Zenon
<1>1. CASE StoreEventsBatch(s)
  <2>1. PICK new, id : /\ Covered(new)
                       /\ sess' = [sess EXCEPT ![s] = Advance([sess[s] EXCEPT
                            !.tx = Merge(sess[s].tx, new), !.ids = Append(sess[s].ids, id)], "canon")]
                       /\ UNCHANGED tables
    BY <1>1, StoreCovered, Zenon DEF StoreEventsBatch
  <2> QED
    BY <1>r, <1>a, <2>1, CoveredMerge, Zenon
<1>2. CASE PersistCanonical(s)
  <2>1. PICK new, id : /\ Covered(new)
                       /\ sess' = [sess EXCEPT ![s] = Advance([sess[s] EXCEPT
                            !.tx = Merge(sess[s].tx, new), !.billable = sess[s].billable \cup {id}], "commit")]
                       /\ UNCHANGED tables
    BY <1>2, PersistCovered, Zenon DEF PersistCanonical
  <2> QED
    BY <1>r, <1>b, <2>1, CoveredMerge, Zenon
<1>3. CASE StoreSingly(s)
  <2> DEFINE v == MyView(s)
             id == StoredId(v.legacy, minted + 1, "webhook", Current(s))
             new == StoreEvent(v, v.legacy, minted + 1, "webhook", Current(s), "canonical")
             twin == PersistEvent(Merge(v, new), id, "webhook", Current(s), {})
  <2>1. /\ Covered(new) /\ Covered(twin)
        /\ sess' = [sess EXCEPT ![s] = Advance([sess[s] EXCEPT
             !.tx = Merge(Merge(sess[s].tx, new), twin),
             !.billable = sess[s].billable \cup {id}], "commit")]
        /\ UNCHANGED tables
    <3>1. Covered(new) /\ Covered(twin)
      BY StoreCovered, PersistCovered, Zenon
    <3> QED
      BY <1>3, <3>1, Zenon DEF StoreSingly
  <2> HIDE DEF new, twin, id
  <2> QED
    BY <1>r, <1>b, <2>1, CoveredMerge, Zenon
<1>4. CASE IngestEpcis(s)
  <2>1. PICK new, twin :
          /\ Covered(new) /\ Covered(twin)
          /\ sess' = [sess EXCEPT ![s] = Advance([sess[s] EXCEPT
               !.tx = Merge(Merge(sess[s].tx, new), twin)], "commit")]
          /\ UNCHANGED tables
    BY <1>4, StoreCovered, PersistCovered, NothingCovered, ZenonT(60) DEF IngestEpcis
  <2> QED
    BY <1>r, <1>c, <2>1, CoveredMerge, Zenon
<1>5. CASE IngestCompat(s)
  <2>1. PICK d : /\ Covered(d)
                 /\ sess' = [sess EXCEPT ![s] = Advance([sess[s] EXCEPT !.tx = d], "commit")]
                 /\ UNCHANGED tables
    BY <1>5, <1>r, StoreCovered, PersistCovered, CoveredMerge, Zenon DEF IngestCompat
  <2> QED
    BY <1>r, <1>c, <2>1, CoveredMerge, Zenon
<1>6. CASE IngestPortal(s)
  <2>1. PICK new : /\ Covered(new)
                   /\ sess' = [sess EXCEPT ![s] = [sess[s] EXCEPT !.pc = "commit",
                                                     !.tx = Merge(sess[s].tx, new)]]
                   /\ UNCHANGED tables
    BY <1>6, PersistCovered, Zenon DEF IngestPortal
  <2> QED
    BY <1>r, <1>d, <2>1, CoveredMerge, Zenon
<1> QED
  BY <1>1, <1>2, <1>3, <1>4, <1>5, <1>6, Zenon

LEMMA KeepsCovered ==
  ASSUME ~MayArchive, StoresOK, AllCovered, [Next]_vars
  PROVE  AllCovered'
<1>i. IdleSession.tx = Nothing
  BY DEF IdleSession
<1>1. ASSUME NEW s \in Session, NEW r, sess' = [sess EXCEPT ![s] = r],
             r.tx \in {Nothing, sess[s].tx}, UNCHANGED tables
      PROVE  AllCovered'
  BY <1>1, NothingCovered, CoveredStep, Zenon DEF AllCovered
<1>2. ASSUME NEW s \in Session, Receive(s) PROVE AllCovered'
  <2>1. PICK k, e : sess' = [sess EXCEPT ![s] = [IdleSession EXCEPT
                       !.pc = "ready", !.kind = k, !.events = e]]
    BY <1>2, Zenon DEF Receive
  <2>2. [IdleSession EXCEPT !.pc = "ready", !.kind = k, !.events = e].tx = Nothing
    BY Zenon DEF IdleSession
  <2> QED
    BY <1>1, <1>2, <2>1, <2>2, Zenon DEF Receive
<1>3. ASSUME NEW s \in Session, BeginBatch(s) \/ FallBack(s) \/ SkipSingly(s) PROVE AllCovered'
  <2>1. sess[s] \in SessionState
    BY Zenon DEF StoresOK
  <2>2. /\ [sess[s] EXCEPT !.pc = "batch", !.seen = legacy].tx = sess[s].tx
        /\ [sess[s] EXCEPT !.pc = "fallback", !.i = 1, !.seen = {}, !.ids = <<>>,
                           !.tx = Nothing, !.billable = {}].tx = Nothing
    BY <2>1 DEF SessionState
  <2>3. Advance(sess[s], "commit").tx = sess[s].tx
    BY <2>1 DEF Advance, SessionState
  <2>4. CASE BeginBatch(s)
    BY <1>1, <2>2, <2>4, Zenon DEF BeginBatch
  <2>5. CASE FallBack(s)
    BY <1>1, <2>2, <2>5, Zenon DEF FallBack
  <2>6. CASE SkipSingly(s)
    BY <1>1, <2>3, <2>6, Zenon DEF SkipSingly
  <2> QED
    BY <1>3, <2>4, <2>5, <2>6, Zenon
<1>4. ASSUME NEW s \in Session, Rollback(s) PROVE AllCovered'
  BY <1>1, <1>4, <1>i, Zenon DEF Rollback
<1>5. ASSUME NEW s \in Session, ClaimChargeRow(s) \/ ChargeForLabel(s) PROVE AllCovered'
  <2>1. sess[s] \in SessionState
    BY Zenon DEF StoresOK
  <2>2. \A id : /\ AfterLabel(sess[s], id).tx \in {Nothing, sess[s].tx}
                /\ [sess[s] EXCEPT !.claim = id].tx = sess[s].tx
    BY <2>1, <1>i DEF SessionState, AfterLabel
  <2> QED
    BY <1>1, <1>5, <2>2, Zenon DEF ClaimChargeRow, ChargeForLabel
<1>6. ASSUME NEW s \in Session, Commit(s) PROVE AllCovered'
  <2>1. PICK r : sess' = [sess EXCEPT ![s] = r] /\ r.tx = Nothing
    <3>1. \A b : [IdleSession EXCEPT !.pc = "billing", !.billable = b].tx = Nothing
      BY DEF IdleSession
    <3> QED
      BY <1>6, <1>i, <3>1, Zenon DEF Commit
  <2>2. sess'[s] = r /\ \A t \in Session : t # s => sess'[t] = sess[t]
    BY <2>1, Zenon DEF StoresOK
  <2>3. ~Orphaned'
    <3> DEFINE d == sess[s].tx
    <3>1. Covered(d) /\ ~Orphaned
      BY Zenon DEF AllCovered
    <3>2. /\ legacy' = legacy \cup d.legacy /\ canon' = canon \cup d.canon
          /\ chain' = chain \cup d.chain
      BY <1>6, Zenon DEF Commit
    <3> QED
      BY <3>1, <3>2 DEF Covered, Orphaned
  <2> QED
    BY <2>1, <2>2, <2>3, NothingCovered, Zenon DEF AllCovered
<1>7. CASE VerificationStep
  <2>1. UNCHANGED <<legacy, canon, chain, sess>>
    BY <1>7, Zenon
    DEF VerificationStep, WalkCanonical, CountCanonical, WalkLegacy, CountLegacy,
        FindMissing, JobStep, tables
  <2> QED
    BY <2>1, Zenon DEF AllCovered, Orphaned
<1>8. CASE UNCHANGED vars
  BY <1>8, Zenon DEF vars, AllCovered, Orphaned
<1>9. ~\E S \in SUBSET legacy : ArchiveExpiredRecords(S)
  BY Zenon DEF ArchiveExpiredRecords
<1> QED
  BY <1>2, <1>3, <1>4, <1>5, <1>6, <1>7, <1>8, <1>9, WritesCovered, Zenon
  DEF Next, SessionStep, Fails, RefuseMismatch

(***************************************************************************)
(* OnlyTamperingFailsVerification when the retention job does not run: the *)
(* comment of verify_chain_canonical fails by archive_expired_records      *)
(* alone (ledger_retention).  No writer, failure, savepoint or interleaving*)
(* with the job's SELECTs makes it report a fault.                         *)
(***************************************************************************)
THEOREM OnlyRetentionFailsVerification ==
  ASSUME ~MayArchive PROVE Spec => []OnlyTamperingFailsVerification
<1>1. Init => AllCovered
  BY NothingCovered DEF Init, IdleSession, AllCovered, Orphaned
<1>2. StoresOK /\ AllCovered /\ [Next]_vars => AllCovered'
  BY KeepsCovered, Zenon
<1>3. AllCovered /\ VerdictSound => OnlyTamperingFailsVerification
  BY Zenon DEF AllCovered, VerdictSound, OnlyTamperingFailsVerification
<1>4. IInv => StoresOK
  BY Zenon DEF IInv
<1> QED
  BY <1>1, <1>2, <1>3, <1>4, LedgerInvariant, VerificationIsSound, PTL DEF Spec
=============================================================================

------------------------- MODULE NotificationProofs -------------------------
(***************************************************************************)
(* Proofs about NotificationOutbox, for any number of drainers, links and  *)
(* crashes.  A tick at work on a row holds its claim, which is not stale, and*)
(* has the row to itself; the links mailed before are in what its remint   *)
(* revokes, and are revoked when the fresh one is mailed.                  *)
(***************************************************************************)
EXTENDS SchedulerProofs, NotificationOutbox

MailRecord ==
  [case : Record, token : Nat, status : {"queued", "sending"} \cup Settled, attempts : Nat,
   stale : BOOLEAN, links : SUBSET Nat]

Entry == [row : Nat, token : Nat, attempts : Nat]

AtWorkPlaces == {"loading", "revoking", "minting", "sending", "sent"}

TickRecord ==
  [pc : {"idle", "claiming"} \cup AtWorkPlaces, batch : Seq(Entry), hit : SUBSET Nat,
   fresh : Nat]

LinkOf(t, r) == t \in DOMAIN token /\ token[t].case = r

\* A row's links are links of its case, and at most one of them works.
RowSound(k) ==
  /\ mail[k] \in MailRecord /\ LinkOf(mail[k].token, mail[k].case)
  /\ \A t \in mail[k].links : LinkOf(t, mail[k].case)
  /\ \A t, u \in mail[k].links : ~token[t].revoked /\ ~token[u].revoked => t = u

EntrySound(e) == e.row \in DOMAIN mail /\ LinkOf(e.token, mail[e.row].case)

\* What a tick at work on a row knows of it: the claim is its own, every link
\* mailed before is about to be revoked, then is, except the fresh one.
WorkSound(x) ==
  LET m == mail[Head(x.batch).row] IN
  /\ m.status = "sending" /\ m.stale = FALSE
  /\ x.pc = "minting" => \A t \in m.links : token[t].revoked \/ t \in x.hit
  /\ x.pc \in {"sending", "sent"} =>
       LinkOf(x.fresh, m.case) /\ \A t \in m.links : token[t].revoked \/ t = x.fresh

TickSound(x) ==
  /\ x \in TickRecord
  /\ x.pc # "idle" => x.batch # <<>>
  /\ \A i \in DOMAIN x.batch : EntrySound(x.batch[i])
  /\ x.pc \in AtWorkPlaces => WorkSound(x)

\* A row has one tick at work on it.
OneWorker ==
  \A d, e \in Drainer :
    drainer[d].pc \in AtWorkPlaces /\ drainer[e].pc \in AtWorkPlaces
      /\ Current(d).row = Current(e).row => d = e

OutboxInvariant ==
  /\ mail \in Seq(MailRecord)
  /\ \A k \in DOMAIN mail : RowSound(k)
  /\ drainer = [d \in Drainer |-> drainer[d]]
  /\ \A d \in Drainer : TickSound(drainer[d])
  /\ OneWorker

\* Tokens are only added, keep their case, and are never unrevoked.
Ages ==
  /\ token' \in Seq(TokenRecord) /\ DOMAIN token \subseteq DOMAIN token'
  /\ \A t \in DOMAIN token :
       token'[t].case = token[t].case /\ (token[t].revoked => token'[t].revoked)

LEMMA LinkStays ==
  ASSUME Ages, NEW t, NEW r, LinkOf(t, r)
  PROVE  LinkOf(t, r)' /\ (token[t].revoked => token'[t].revoked)
BY DEF Ages, LinkOf

\* A row that keeps its record stays sound while tokens age.
LEMMA RowStays ==
  ASSUME Ages, NEW k \in DOMAIN mail, RowSound(k), mail'[k] = mail[k]
  PROVE  RowSound(k)'
<1>1. /\ mail'[k].token \in DOMAIN token' /\ token'[mail'[k].token].case = mail'[k].case
      /\ \A t \in mail'[k].links : t \in DOMAIN token' /\ token'[t].case = mail'[k].case
    BY DEF RowSound, LinkOf, Ages
<1>2. \A t, u \in mail'[k].links : ~token'[t].revoked /\ ~token'[u].revoked => t = u
    BY Zenon DEF RowSound, LinkOf, Ages
<1> QED BY <1>1, <1>2, Zenon DEF RowSound, LinkOf

LEMMA EntryStays ==
  ASSUME Ages, NEW e, EntrySound(e), DOMAIN mail \subseteq DOMAIN mail',
         mail'[e.row].case = mail[e.row].case
  PROVE  EntrySound(e)'
BY DEF EntrySound, LinkOf, Ages

\* A tick that keeps its record stays sound while tokens age and the row it
\* works on is left alone.
LEMMA TickStays ==
  ASSUME Ages, NEW x, TickSound(x), DOMAIN mail \subseteq DOMAIN mail',
         \A k \in DOMAIN mail : mail'[k].case = mail[k].case,
         \A k \in DOMAIN mail : RowSound(k),
         x.pc \in AtWorkPlaces => mail'[Head(x.batch).row] = mail[Head(x.batch).row]
  PROVE  TickSound(x)'
<1>1. \A i \in DOMAIN x.batch : EntrySound(x.batch[i])'
    BY EntryStays, Zenon DEF TickSound, EntrySound
<1>2. ASSUME x.pc \in AtWorkPlaces PROVE WorkSound(x)'
  <2>1. PICK k : k = Head(x.batch).row
      BY Zenon
  <2>2. WorkSound(x) /\ mail'[k] = mail[k] /\ k \in DOMAIN mail
    <3>1. x.batch \in Seq(Entry) /\ x.batch # <<>>
        BY <1>2, Zenon DEF TickSound, TickRecord, AtWorkPlaces
    <3>2. 1 \in DOMAIN x.batch /\ Head(x.batch) = x.batch[1]
        BY <3>1
    <3> QED BY <1>2, <2>1, <3>2, Zenon DEF TickSound, EntrySound
  <2>3. \A t \in mail[k].links : LinkOf(t, mail[k].case)
      BY <2>2, Zenon DEF RowSound
  <2> QED BY <2>1, <2>2, <2>3, Zenon DEF WorkSound, LinkOf, Ages
<1> QED BY <1>1, <1>2 DEF TickSound

\* A step of one tick that may change the row it has to itself.
TickMoves(d, x, k) ==
  /\ OutboxInvariant /\ Ages /\ d \in Drainer
  /\ drainer' = [drainer EXCEPT ![d] = x]
  /\ mail' \in Seq(MailRecord) /\ DOMAIN mail' = DOMAIN mail
  /\ \A j \in DOMAIN mail : j # k => mail'[j] = mail[j]
  /\ k \in DOMAIN mail => mail'[k].case = mail[k].case /\ RowSound(k)'
  /\ mail' = mail \/ \A e \in Drainer : e # d /\ drainer[e].pc \in AtWorkPlaces => Current(e).row # k
  /\ TickSound(x)'
  /\ x.pc \in AtWorkPlaces =>
       \A e \in Drainer : e # d /\ drainer[e].pc \in AtWorkPlaces => Current(e).row # Head(x.batch).row

LEMMA TickKeeps ==
  ASSUME NEW d, NEW x, NEW k, TickMoves(d, x, k)
  PROVE  OutboxInvariant'
<1> USE DEF TickMoves
<1>0. /\ drainer = [e \in Drainer |-> drainer[e]] /\ \A e \in Drainer : TickSound(drainer[e])
      /\ \A j \in DOMAIN mail : RowSound(j)
      /\ OneWorker
    BY Zenon DEF OutboxInvariant
<1>1. /\ drainer' = [e \in Drainer |-> drainer'[e]] /\ drainer'[d] = x
      /\ \A e \in Drainer : e # d => drainer'[e] = drainer[e]
    BY <1>0, Zenon
<1>2. ASSUME NEW j \in DOMAIN mail' PROVE RowSound(j)'
  <2>1. CASE j = k
      BY <2>1, Zenon
  <2>2. CASE j # k
    <3>1. j \in DOMAIN mail /\ RowSound(j) /\ mail'[j] = mail[j] /\ Ages
        BY <1>0, <2>2, Zenon
    <3> QED BY <3>1, RowStays, Zenon
  <2> QED BY <2>1, <2>2, Zenon
<1>3. ASSUME NEW e \in Drainer PROVE TickSound(drainer[e])'
  <2>1. CASE e = d
    <3>1. drainer'[e] = x
        BY <1>1, <2>1
    <3> QED BY <3>1, Zenon DEF TickSound, EntrySound, WorkSound, LinkOf
  <2>2. CASE e # d
    <3>1. PICK y : y = drainer[e]
        BY Zenon
    <3>2. TickSound(y) /\ drainer'[e] = y
        BY <1>0, <1>1, <2>2, <3>1, Zenon
    <3>3. y.pc \in AtWorkPlaces => mail'[Head(y.batch).row] = mail[Head(y.batch).row]
      <4> SUFFICES ASSUME y.pc \in AtWorkPlaces
                   PROVE  mail'[Head(y.batch).row] = mail[Head(y.batch).row]
          BY Zenon
      <4>1. y.batch \in Seq(Entry) /\ y.batch # <<>>
          BY <3>2, Zenon DEF TickSound, TickRecord, AtWorkPlaces
      <4>2. Head(y.batch).row \in DOMAIN mail
        <5>1. 1 \in DOMAIN y.batch /\ Head(y.batch) = y.batch[1]
            BY <4>1
        <5> QED BY <3>2, <5>1, Zenon DEF TickSound, EntrySound
      <4>3. mail' = mail \/ Head(y.batch).row # k
          BY <2>2, <3>1, Zenon DEF Current
      <4> QED BY <4>2, <4>3, Zenon
    <3>4. \A j \in DOMAIN mail : mail'[j].case = mail[j].case
        OBVIOUS
    <3>5. TickSound(y)'
        BY <1>0, <3>2, <3>3, <3>4, TickStays, Zenon
    <3>6. drainer'[e] = y
        BY <3>2
    <3> QED BY ONLY <3>5, <3>6, Zenon DEF TickSound, EntrySound, WorkSound, LinkOf
  <2> QED BY <2>1, <2>2
<1>4. OneWorker'
  <2> SUFFICES ASSUME NEW e \in Drainer, NEW f \in Drainer,
                      drainer'[e].pc \in AtWorkPlaces, drainer'[f].pc \in AtWorkPlaces,
                      Head(drainer'[e].batch).row = Head(drainer'[f].batch).row
               PROVE  e = f
      BY Zenon DEF OneWorker, Current
  <2>1. CASE e # d /\ f # d
      BY <1>0, <1>1, <2>1, Zenon DEF OneWorker, Current
  <2>2. CASE e = d /\ f # d
      BY <1>1, <2>2, Zenon DEF Current
  <2>3. CASE e # d /\ f = d
      BY <1>1, <2>3, Zenon DEF Current
  <2> QED BY <2>1, <2>2, <2>3, Zenon
<1> QED BY <1>0, <1>1, <1>2, <1>3, <1>4, Zenon DEF OutboxInvariant

\* The rest of a batch is a tick that is not yet at work.
LEMMA TickOfSound ==
  ASSUME NEW batch \in Seq(Entry), \A i \in DOMAIN batch : EntrySound(batch[i])'
  PROVE  /\ TickSound(TickOf(batch))' /\ TickOf(batch).pc \notin AtWorkPlaces
<1>1. PICK x : x = TickOf(batch)
    BY Zenon
<1>2. /\ x.pc \in {"idle", "claiming"} /\ x.batch = batch /\ x \in TickRecord
      /\ x.pc # "idle" => x.batch # <<>>
    BY <1>1, Zenon DEF TickOf, TickRecord, AtWorkPlaces
<1>3. x.pc \notin AtWorkPlaces
    BY <1>2 DEF AtWorkPlaces
<1>4. TickSound(x)'
    BY <1>2, <1>3, Zenon DEF TickSound
<1> QED BY <1>1, <1>3, <1>4, Zenon

\* The row a tick has come to, and the rest of its batch.
LEMMA AtRow ==
  ASSUME OutboxInvariant, NEW d \in Drainer, drainer[d].pc # "idle"
  PROVE  /\ drainer[d] \in TickRecord /\ TickSound(drainer[d])
         /\ Current(d) \in Entry /\ EntrySound(Current(d))
         /\ Current(d).row \in DOMAIN mail /\ RowSound(Current(d).row)
         /\ Tail(drainer[d].batch) \in Seq(Entry)
         /\ \A i \in DOMAIN Tail(drainer[d].batch) : EntrySound(Tail(drainer[d].batch)[i])
<1>1. TickSound(drainer[d]) /\ \A k \in DOMAIN mail : RowSound(k)
    BY DEF OutboxInvariant
<1>2. PICK s : s = drainer[d].batch
    BY Zenon
<1>3. s \in Seq(Entry) /\ s # <<>> /\ \A i \in DOMAIN s : EntrySound(s[i])
    BY <1>1, <1>2, Zenon DEF TickSound, TickRecord
<1>4. /\ Head(s) = s[1] /\ 1 \in DOMAIN s /\ s[1] \in Entry /\ Tail(s) \in Seq(Entry)
      /\ \A i \in DOMAIN Tail(s) : i + 1 \in DOMAIN s /\ Tail(s)[i] = s[i + 1]
    BY <1>3
<1>5. Current(d) = s[1] /\ EntrySound(s[1])
    BY <1>2, <1>3, <1>4, Zenon DEF Current
<1>6. s[1].row \in DOMAIN mail
    BY <1>5, Zenon DEF EntrySound
<1>7. \A i \in DOMAIN Tail(s) : EntrySound(Tail(s)[i])
    BY <1>3, <1>4, Zenon
<1> QED BY <1>1, <1>2, <1>4, <1>5, <1>6, <1>7, Zenon DEF TickSound

\* Entries stay sound while rows keep their cases.
LEMMA EntriesStay ==
  ASSUME Ages, NEW s \in Seq(Entry), \A i \in DOMAIN s : EntrySound(s[i]),
         DOMAIN mail \subseteq DOMAIN mail', \A k \in DOMAIN mail : mail'[k].case = mail[k].case
  PROVE  \A i \in DOMAIN s : EntrySound(s[i])'
<1> SUFFICES ASSUME NEW i \in DOMAIN s PROVE EntrySound(s[i])'
    BY Zenon
<1>1. EntrySound(s[i]) /\ s[i].row \in DOMAIN mail
    BY DEF EntrySound
<1> QED BY <1>1, EntryStays, Zenon

LEMMA MailChanges ==
  ASSUME OutboxInvariant, NEW k \in DOMAIN mail, NEW m \in MailRecord,
         mail' = [mail EXCEPT ![k] = m]
  PROVE  /\ mail' \in Seq(MailRecord) /\ DOMAIN mail' = DOMAIN mail /\ mail'[k] = m
         /\ \A j \in DOMAIN mail : j # k => mail'[j] = mail[j]
<1>1. mail \in Seq(MailRecord) /\ k \in 1..Len(mail)
    BY DEF OutboxInvariant
<1>2. mail' \in Seq(MailRecord) /\ Len(mail') = Len(mail)
    BY <1>1
<1> QED BY <1>1, <1>2, Zenon

\* The row the tick is at work on is nobody else's.
LEMMA NobodyElse ==
  ASSUME OutboxInvariant, NEW d \in Drainer, drainer[d].pc \in AtWorkPlaces
  PROVE  \A e \in Drainer : e # d /\ drainer[e].pc \in AtWorkPlaces =>
                             Current(e).row # Current(d).row
BY Zenon DEF OutboxInvariant, OneWorker

\* The outcome of a row: its links stay one, and the tick moves on.
LEMMA FinishKeeps ==
  ASSUME RemediationInvariant, OutboxInvariant, NEW d \in Drainer,
         drainer[d].pc \in AtWorkPlaces, UNCHANGED token,
         NEW status \in {"queued"} \cup Settled, NEW attempts \in Nat, NEW mailed,
         mailed = {} \/ (mailed = {drainer[d].fresh} /\ drainer[d].pc = "sending"),
         Finish(d, status, attempts, mailed)
  PROVE  OutboxInvariant'
<1>0. drainer[d].pc # "idle"
    BY Zenon DEF AtWorkPlaces
<1>1. PICK k : k = Current(d).row
    OBVIOUS
<1>2. /\ TickSound(drainer[d]) /\ drainer[d] \in TickRecord /\ k \in DOMAIN mail /\ RowSound(k)
      /\ Tail(drainer[d].batch) \in Seq(Entry)
      /\ \A i \in DOMAIN Tail(drainer[d].batch) : EntrySound(Tail(drainer[d].batch)[i])
    BY <1>0, <1>1, AtRow, Zenon
<1>3. Ages
    BY Zenon DEF Ages, RemediationInvariant, CaseTypes
<1>4. mail \in Seq(MailRecord)
    BY DEF OutboxInvariant
<1>5. PICK m : m = [mail[k] EXCEPT !.status = status, !.attempts = attempts, !.links = @ \cup mailed]
    OBVIOUS
<1>6. mail' = [mail EXCEPT ![k] = m]
  <2>1. mail' = [mail EXCEPT ![k].status = status, ![k].attempts = attempts,
                             ![k].links = @ \cup mailed]
      BY <1>1, Zenon DEF Finish
  <2>2. mail[k] \in MailRecord
      BY <1>2 DEF RowSound
  <2> QED BY <1>2, <1>4, <1>5, <2>1, <2>2, Zenon DEF MailRecord
<1>7. /\ m \in MailRecord /\ m.case = mail[k].case /\ m.token = mail[k].token
      /\ m.links = mail[k].links \cup mailed
  <2>1. mail[k] \in MailRecord /\ drainer[d].fresh \in Nat
      BY <1>2, Zenon DEF RowSound, TickRecord
  <2>2. mailed \subseteq Nat
      BY <2>1
  <2> QED BY <1>5, <2>1, <2>2, Zenon DEF MailRecord
<1>8. /\ mail' \in Seq(MailRecord) /\ DOMAIN mail' = DOMAIN mail /\ mail'[k] = m
      /\ \A j \in DOMAIN mail : j # k => mail'[j] = mail[j]
    BY <1>2, <1>6, <1>7, MailChanges, Zenon
<1>9. RowSound(k)'
  <2>1. CASE mailed = {}
      BY <1>2, <1>7, <1>8, <2>1, Zenon DEF RowSound, LinkOf
  <2>2. CASE mailed = {drainer[d].fresh} /\ drainer[d].pc = "sending"
    <3>1. WorkSound(drainer[d]) /\ drainer[d].fresh \in DOMAIN token
          /\ token[drainer[d].fresh].case = mail[k].case
          /\ \A t \in mail[k].links : token[t].revoked \/ t = drainer[d].fresh
        BY <1>1, <1>2, <2>2, Zenon DEF TickSound, WorkSound, AtWorkPlaces, Current, LinkOf
    <3> QED BY <1>2, <1>7, <1>8, <2>2, <3>1 DEF RowSound, LinkOf
  <2> QED BY <2>1, <2>2, Zenon
<1>10. PICK x : x = TickOf(Tail(drainer[d].batch))
    BY Zenon
<1>11. TickSound(x)' /\ x.pc \notin AtWorkPlaces
  <2>1. \A j \in DOMAIN mail : mail'[j].case = mail[j].case
      BY <1>7, <1>8, Zenon
  <2>2. PICK s : s = Tail(drainer[d].batch)
      BY Zenon
  <2>3. s \in Seq(Entry) /\ \A i \in DOMAIN s : EntrySound(s[i])
      BY <1>2, <2>2, Zenon
  <2>4. \A i \in DOMAIN s : EntrySound(s[i])'
      BY <1>3, <1>8, <2>1, <2>3, EntriesStay, Zenon
  <2>5. TickSound(TickOf(s))' /\ TickOf(s).pc \notin AtWorkPlaces
      BY <2>3, <2>4, TickOfSound, Zenon
  <2>6. x = TickOf(s)
      BY <1>10, <2>2, Zenon
  <2> QED BY <2>5, <2>6, Zenon
<1>12. drainer' = [drainer EXCEPT ![d] = x]
    BY <1>10, Zenon DEF Finish, NextRow
<1>13. \A e \in Drainer : e # d /\ drainer[e].pc \in AtWorkPlaces => Current(e).row # k
    BY <1>1, NobodyElse, Zenon
<1>14. TickMoves(d, x, k)
    BY <1>3, <1>7, <1>8, <1>9, <1>11, <1>12, <1>13, Zenon DEF TickMoves
<1> QED BY <1>14, TickKeeps, Zenon

\* Revoking and minting in one transaction: the tokens age, the snapshot is
\* revoked and the new link is one of the case.
LEMMA ReissueAges ==
  ASSUME RemediationInvariant, NEW r \in Record, NEW snapshot, NEW superseded,
         NEW expired \in BOOLEAN, Reissue(r, snapshot, superseded, expired)
  PROVE  /\ Ages /\ Len(token) \in Nat
         /\ Len(token) + 1 \in DOMAIN token' /\ token'[Len(token) + 1].case = r
         /\ \A t \in DOMAIN token : t \in snapshot => token'[t].revoked
<1>0. token \in Seq(TokenRecord) /\ Len(token) \in Nat /\ DOMAIN token = 1..Len(token)
    BY DEF RemediationInvariant, CaseTypes
<1> DEFINE Old(t) == LET kept == IF t \in snapshot THEN Revoked(token[t]) ELSE token[t]
                     IN IF t \in superseded THEN [kept EXCEPT !.superseded = TRUE] ELSE kept
           new == [case |-> r, revoked |-> FALSE, superseded |-> FALSE, expired |-> expired,
                   exchanged |-> FALSE, session |-> "none"]
           olds == [t \in DOMAIN token |-> Old(t)]
<1>1. ASSUME NEW t \in DOMAIN token
      PROVE  /\ Old(t) \in TokenRecord /\ Old(t).case = token[t].case
             /\ token[t].revoked \/ t \in snapshot => Old(t).revoked
  <2>1. token[t] \in TokenRecord
      BY <1>0
  <2>2. PICK kept : kept = IF t \in snapshot THEN Revoked(token[t]) ELSE token[t]
      OBVIOUS
  <2>3. /\ kept \in TokenRecord /\ kept.case = token[t].case
        /\ token[t].revoked \/ t \in snapshot => kept.revoked
      BY <2>1, <2>2, Zenon DEF TokenRecord, Revoked
  <2>4. Old(t) = IF t \in superseded THEN [kept EXCEPT !.superseded = TRUE] ELSE kept
      BY <2>2, Zenon
  <2> HIDE DEF Old
  <2> QED BY <2>3, <2>4, Zenon DEF TokenRecord
<1>2. new \in TokenRecord /\ new.case = r
    BY Zenon DEF TokenRecord
<1>3. token' = Append(olds, new)
    BY Zenon DEF Reissue
<1> HIDE DEF Old, new
<1>4. /\ olds \in Seq(TokenRecord) /\ Len(olds) = Len(token)
      /\ \A t \in DOMAIN token : olds[t] = Old(t)
    BY <1>0, <1>1
<1> HIDE DEF olds
<1>5. /\ token' \in Seq(TokenRecord) /\ Len(token') = Len(token) + 1
      /\ token'[Len(token) + 1] = new /\ DOMAIN token' = 1..(Len(token) + 1)
      /\ \A t \in DOMAIN token : token'[t] = Old(t)
    BY <1>0, <1>2, <1>3, <1>4
<1>6. DOMAIN token \subseteq DOMAIN token'
    BY <1>0, <1>5
<1>7. \A t \in DOMAIN token :
        /\ token'[t].case = token[t].case
        /\ token[t].revoked \/ t \in snapshot => token'[t].revoked
    BY <1>1, <1>5, Zenon
<1>8. Len(token) + 1 \in DOMAIN token' /\ token'[Len(token) + 1].case = r
    BY <1>0, <1>2, <1>5
<1>9. Ages
    BY <1>5, <1>6, <1>7, Zenon DEF Ages
<1> QED BY <1>0, <1>7, <1>8, <1>9, Zenon

\* A step of one tick that leaves the rows and the tokens alone.
LEMMA TickOnly ==
  ASSUME RemediationInvariant, OutboxInvariant, NEW d \in Drainer, NEW x,
         drainer' = [drainer EXCEPT ![d] = x], UNCHANGED <<mail, token>>, TickSound(x),
         \/ x.pc \notin AtWorkPlaces
         \/ drainer[d].pc \in AtWorkPlaces /\ x.batch = drainer[d].batch
  PROVE  OutboxInvariant'
<1>1. Ages
    BY Zenon DEF Ages, RemediationInvariant, CaseTypes
<1>2. TickSound(x)'
    BY Zenon DEF TickSound, EntrySound, WorkSound, LinkOf
<1>3. x.pc \in AtWorkPlaces =>
        \A e \in Drainer : e # d /\ drainer[e].pc \in AtWorkPlaces => Current(e).row # Head(x.batch).row
    BY NobodyElse DEF Current
<1>4. mail \in Seq(MailRecord) /\ \A k \in DOMAIN mail : RowSound(k)
    BY Zenon DEF OutboxInvariant
<1>5. \A k \in DOMAIN mail : RowSound(k)'
    BY <1>4, Zenon DEF RowSound, LinkOf
<1>6. TickMoves(d, x, 0)
    BY <1>1, <1>2, <1>3, <1>4, <1>5, Zenon DEF TickMoves
<1> QED BY <1>6, TickKeeps, Zenon

LEMMA DrainTenantKeeps ==
  ASSUME RemediationInvariant, OutboxInvariant, NEW d \in Drainer, DrainTenant(d)
  PROVE  OutboxInvariant'
<1>0. mail \in Seq(MailRecord) /\ \A k \in DOMAIN mail : RowSound(k)
    BY DEF OutboxInvariant
<1>a. PICK n \in DOMAIN mail : \E due \in [1..n -> DOMAIN mail] :
        drainer' = [drainer EXCEPT ![d] = TickOf([i \in 1..n |-> ReadOf(due[i])])]
    BY Zenon DEF DrainTenant
<1>1. PICK due \in [1..n -> DOMAIN mail] :
        drainer' = [drainer EXCEPT ![d] = TickOf([i \in 1..n |-> ReadOf(due[i])])]
    BY <1>a, Zenon
<1>2. PICK s : s = [i \in 1..n |-> ReadOf(due[i])]
    BY Zenon
<1>3. ASSUME NEW k \in DOMAIN mail PROVE ReadOf(k) \in Entry /\ EntrySound(ReadOf(k))
  <2>1. RowSound(k) /\ mail[k] \in MailRecord /\ k \in Nat
      BY <1>0
  <2>2. /\ ReadOf(k).row = k /\ ReadOf(k).token = mail[k].token /\ ReadOf(k) \in Entry
      BY <2>1, Zenon DEF ReadOf, Entry, MailRecord
  <2> QED BY <2>1, <2>2, Zenon DEF RowSound, EntrySound
<1>4. n \in Nat
    BY <1>0
<1>5. \A i \in 1..n : s[i] \in Entry /\ EntrySound(s[i])
    BY <1>2, <1>3, Zenon
<1>6. s \in Seq(Entry) /\ DOMAIN s = 1..n
    BY <1>2, <1>4, <1>5
<1>7. PICK x : x = TickOf(s)
    BY Zenon
<1>8. /\ x.pc \in {"idle", "claiming"} /\ x.batch = s /\ x \in TickRecord
      /\ x.pc # "idle" => x.batch # <<>>
    BY <1>6, <1>7, Zenon DEF TickOf, TickRecord
<1>9. TickSound(x) /\ x.pc \notin AtWorkPlaces
    BY <1>5, <1>6, <1>8, Zenon DEF TickSound, AtWorkPlaces
<1>10. drainer' = [drainer EXCEPT ![d] = x] /\ UNCHANGED <<mail, token>>
    BY <1>1, <1>2, <1>7, Zenon DEF DrainTenant, remediationVars
<1> QED BY <1>9, <1>10, TickOnly, Zenon

LEMMA ClaimKeeps ==
  ASSUME RemediationInvariant, OutboxInvariant, NEW d \in Drainer, Claim(d)
  PROVE  OutboxInvariant'
<1>0. drainer[d].pc = "claiming" /\ UNCHANGED token /\ drainer[d].pc # "idle"
    BY DEF Claim
<1>1. PICK k : k = Current(d).row
    BY Zenon
<1>2. /\ TickSound(drainer[d]) /\ drainer[d] \in TickRecord /\ k \in DOMAIN mail /\ RowSound(k)
      /\ Tail(drainer[d].batch) \in Seq(Entry)
      /\ \A i \in DOMAIN Tail(drainer[d].batch) : EntrySound(Tail(drainer[d].batch)[i])
    BY <1>0, <1>1, AtRow, Zenon
<1>3. CASE ~Due(k)
  <2>1. PICK x : x = TickOf(Tail(drainer[d].batch))
      OBVIOUS
  <2>2. drainer' = [drainer EXCEPT ![d] = x] /\ UNCHANGED mail
      BY <1>1, <1>3, <2>1, Zenon DEF Claim, NextRow
  <2>3. /\ x.pc \in {"idle", "claiming"} /\ x.batch = Tail(drainer[d].batch) /\ x \in TickRecord
        /\ x.pc # "idle" => x.batch # <<>>
      BY <1>2, <2>1, Zenon DEF TickOf, TickRecord
  <2>4. TickSound(x) /\ x.pc \notin AtWorkPlaces
      BY <1>2, <2>3, Zenon DEF TickSound, AtWorkPlaces
  <2> QED BY <1>0, <2>2, <2>4, TickOnly, Zenon
<1>4. CASE Due(k)
  <2>1. PICK m : m = [mail[k] EXCEPT !.status = "sending", !.stale = FALSE]
      OBVIOUS
  <2>2. PICK x : x = [drainer[d] EXCEPT !.pc = "loading"]
      BY Zenon
  <2>3. mail[k] \in MailRecord /\ mail \in Seq(MailRecord)
      BY <1>2 DEF RowSound, OutboxInvariant
  <2>4. mail' = [mail EXCEPT ![k] = m] /\ drainer' = [drainer EXCEPT ![d] = x]
    <3>1. /\ mail' = [mail EXCEPT ![k].status = "sending", ![k].stale = FALSE]
          /\ drainer' = [drainer EXCEPT ![d].pc = "loading"]
        BY <1>1, <1>4, Zenon DEF Claim
    <3>2. drainer = [e \in Drainer |-> drainer[e]]
        BY DEF OutboxInvariant
    <3> QED BY <1>2, <2>1, <2>2, <2>3, <3>1, <3>2, Zenon DEF MailRecord, TickRecord
  <2>5. /\ m \in MailRecord /\ m.case = mail[k].case /\ m.token = mail[k].token
        /\ m.links = mail[k].links /\ m.status = "sending" /\ m.stale = FALSE
      BY <2>1, <2>3, Zenon DEF MailRecord
  <2>6. /\ mail' \in Seq(MailRecord) /\ DOMAIN mail' = DOMAIN mail /\ mail'[k] = m
        /\ \A j \in DOMAIN mail : j # k => mail'[j] = mail[j]
      BY <1>2, <2>4, <2>5, MailChanges, Zenon
  <2>7. RowSound(k)'
      BY <1>0, <1>2, <2>5, <2>6, Zenon DEF RowSound, LinkOf
  <2>8. /\ x \in TickRecord /\ x.pc = "loading" /\ x.batch = drainer[d].batch
        /\ x.batch # <<>>
      BY <1>0, <1>2, <2>2, Zenon DEF TickRecord, AtWorkPlaces, TickSound
  <2>9. TickSound(x)'
    <3>1. \A i \in DOMAIN x.batch : EntrySound(x.batch[i])'
      <4>1. \A i \in DOMAIN x.batch : EntrySound(x.batch[i])
          BY <1>2, <2>8, Zenon DEF TickSound
      <4> QED BY <1>0, <4>1, <2>5, <2>6, Zenon DEF EntrySound, LinkOf
    <3>2. Head(x.batch).row = k
        BY <1>1, <2>8, Zenon DEF Current
    <3>3. WorkSound(x)'
        BY <2>5, <2>6, <2>8, <3>2, Zenon DEF WorkSound
    <3> QED BY <2>8, <3>1, <3>3, Zenon DEF TickSound
  <2>10. ASSUME NEW e \in Drainer, e # d, drainer[e].pc \in AtWorkPlaces
         PROVE  Current(e).row # k
    <3>1. TickSound(drainer[e])
        BY Zenon DEF OutboxInvariant
    <3>2. mail[Current(e).row].status = "sending" /\ mail[Current(e).row].stale = FALSE
        BY <2>10, <3>1, Zenon DEF TickSound, WorkSound, Current
    <3> QED BY <1>4, <3>2, Zenon DEF Due
  <2>11. Ages
      BY <1>0, Zenon DEF Ages, RemediationInvariant, CaseTypes
  <2>12. Head(x.batch).row = k
      BY <1>1, <2>8, Zenon DEF Current
  <2>13. TickMoves(d, x, k)
      BY <2>4, <2>5, <2>6, <2>7, <2>9, <2>10, <2>11, <2>12 DEF TickMoves
  <2> QED BY <2>13, TickKeeps, Zenon
<1> QED BY <1>3, <1>4, Zenon

LEMMA LoadTokenKeeps ==
  ASSUME RemediationInvariant, OutboxInvariant, NEW d \in Drainer, LoadToken(d)
  PROVE  OutboxInvariant'
<1>0. drainer[d].pc = "loading" /\ drainer[d].pc \in AtWorkPlaces /\ UNCHANGED token
    BY Zenon DEF LoadToken, AtWorkPlaces
<1>1. drainer[d] \in TickRecord /\ TickSound(drainer[d]) /\ RowSound(Current(d).row)
    BY <1>0, AtRow, Zenon
<1>2. CASE FinishSkipped(d)
  <2>1. mail[Current(d).row].attempts \in Nat
      BY <1>1 DEF RowSound, MailRecord
  <2> QED BY <1>0, <1>2, <2>1, FinishKeeps, Zenon DEF FinishSkipped, Settled
<1>3. CASE drainer' = [drainer EXCEPT ![d].pc = "revoking"] /\ UNCHANGED mail
  <2>1. PICK x : x = [drainer[d] EXCEPT !.pc = "revoking"]
      BY Zenon
  <2>2. drainer' = [drainer EXCEPT ![d] = x]
      BY <1>3, <2>1, Zenon DEF OutboxInvariant
  <2>3. x \in TickRecord /\ x.pc = "revoking" /\ x.batch = drainer[d].batch
      BY <1>1, <2>1, Zenon DEF TickRecord, AtWorkPlaces
  <2>4. TickSound(x)
      BY <1>0, <1>1, <2>3, Zenon DEF TickSound, WorkSound, AtWorkPlaces
  <2> QED BY <1>0, <1>3, <2>2, <2>3, <2>4, TickOnly, Zenon
<1> QED BY <1>2, <1>3, Zenon DEF LoadToken

\* Every link mailed for the row is unrevoked and of its case, or revoked.
LEMMA RemintRevokeKeeps ==
  ASSUME RemediationInvariant, OutboxInvariant, NEW d \in Drainer, RemintRevoke(d)
  PROVE  OutboxInvariant'
<1>0. /\ drainer[d].pc = "revoking" /\ drainer[d].pc \in AtWorkPlaces
      /\ UNCHANGED <<mail, token>>
    BY Zenon DEF RemintRevoke, AtWorkPlaces, remediationVars
<1>1. /\ drainer[d] \in TickRecord /\ TickSound(drainer[d]) /\ RowSound(Current(d).row)
      /\ EntrySound(Current(d)) /\ drainer[d].pc # "idle"
    BY <1>0, AtRow, Zenon
<1>2. PICK h : h = Unrevoked(token[Current(d).token].case)
    OBVIOUS
<1>3. PICK x : x = [drainer[d] EXCEPT !.pc = "minting", !.hit = h]
    OBVIOUS
<1>4. drainer' = [drainer EXCEPT ![d] = x]
    BY <1>1, <1>2, <1>3, Zenon DEF OutboxInvariant, RemintRevoke, TickRecord
<1>5. token \in Seq(TokenRecord) /\ h \subseteq Nat
    BY <1>2 DEF RemediationInvariant, CaseTypes, Unrevoked
<1>6. x \in TickRecord /\ x.pc = "minting" /\ x.batch = drainer[d].batch /\ x.hit = h
    BY <1>1, <1>3, <1>5, ZenonT(30) DEF TickRecord, AtWorkPlaces
<1>7. WorkSound(x)
  <2>1. \A t \in mail[Current(d).row].links : token[t].revoked \/ t \in h
      BY <1>1, <1>2, Zenon DEF RowSound, EntrySound, LinkOf, Unrevoked
  <2>2. WorkSound(drainer[d]) /\ Head(x.batch) = Current(d)
      BY <1>0, <1>1, <1>6, Zenon DEF TickSound, Current
  <2> QED BY <1>6, <2>1, <2>2, Zenon DEF WorkSound, Current
<1>8. TickSound(x)
    BY <1>1, <1>6, <1>7, Zenon DEF TickSound
<1> QED BY <1>0, <1>4, <1>6, <1>8, TickOnly, Zenon

LEMMA RemintFailsKeeps ==
  ASSUME RemediationInvariant, OutboxInvariant, NEW d \in Drainer,
         \/ RemintFails(d)
         \/ /\ drainer[d].pc = "sending" /\ UNCHANGED token
            /\ \E mailed \in SUBSET {drainer[d].fresh} : OnSendFailure(d, mailed)
  PROVE  OutboxInvariant'
<1>0. drainer[d].pc \in AtWorkPlaces /\ UNCHANGED token /\ drainer[d].pc # "idle"
    BY DEF RemintFails, AtWorkPlaces
<1>1. PICK mailed : /\ OnSendFailure(d, mailed)
                    /\ mailed = {} \/ (mailed = {drainer[d].fresh} /\ drainer[d].pc = "sending")
    BY Zenon DEF RemintFails
<1>2. Current(d) \in Entry
    BY <1>0, AtRow, Zenon
<1>3. PICK n : n = Current(d).attempts + 1
    BY Zenon
<1>4. n \in Nat
    BY <1>2, <1>3 DEF Entry
<1>5. PICK status : status = IF n >= MailAttempts THEN "failed" ELSE "queued"
    OBVIOUS
<1>6. status \in {"queued"} \cup Settled
    BY <1>5, Zenon DEF Settled
<1>7. Finish(d, status, n, mailed)
    BY <1>1, <1>3, <1>5, Zenon DEF OnSendFailure
<1> QED BY <1>0, <1>1, <1>4, <1>6, <1>7, FinishKeeps, Zenon

LEMMA RecordSentKeeps ==
  ASSUME RemediationInvariant, OutboxInvariant, NEW d \in Drainer, RecordSent(d)
  PROVE  OutboxInvariant'
<1>0. drainer[d].pc = "sent" /\ drainer[d].pc \in AtWorkPlaces /\ UNCHANGED token
    BY Zenon DEF RecordSent, AtWorkPlaces
<1>1. RowSound(Current(d).row)
    BY <1>0, AtRow, Zenon
<1>2. mail[Current(d).row].attempts \in Nat
    BY <1>1, Zenon DEF RowSound, MailRecord
<1> QED BY <1>0, <1>2, FinishKeeps, Zenon DEF RecordSent, FinishSent, Settled

\* The commit of the mint revokes what was mailed before, and only the fresh
\* link is left.
LEMMA RemintCommitKeeps ==
  ASSUME RemediationInvariant, OutboxInvariant, NEW d \in Drainer, RemintCommit(d)
  PROVE  OutboxInvariant' /\ Ages
<1>0. drainer[d].pc = "minting" /\ drainer[d].pc \in AtWorkPlaces /\ drainer[d].pc # "idle"
    BY Zenon DEF RemintCommit, AtWorkPlaces
<1>1. PICK k : k = Current(d).row
    BY Zenon
<1>2. /\ drainer[d] \in TickRecord /\ TickSound(drainer[d]) /\ RowSound(k) /\ k \in DOMAIN mail
      /\ EntrySound(Current(d))
    BY <1>0, <1>1, AtRow, Zenon
<1>3. PICK t0 : t0 = Current(d).token
    BY Zenon
<1>4. mail[k] \in MailRecord /\ t0 \in DOMAIN token /\ token[t0].case = mail[k].case
    BY <1>1, <1>2, <1>3, Zenon DEF EntrySound, RowSound, LinkOf
<1>5. PICK r : r = mail[k].case
    OBVIOUS
<1>6. r \in Record /\ token[t0].expired \in BOOLEAN
  <2>1. token[t0] \in TokenRecord
      BY <1>4 DEF RemediationInvariant, CaseTypes
  <2> QED BY <1>4, <1>5, <2>1, Zenon DEF MailRecord, TokenRecord
<1>7. PICK h : h = {t \in drainer[d].hit : ~token[t].revoked}
    BY Zenon
<1>8. Reissue(r, h, {t0}, token[t0].expired)
    BY <1>3, <1>4, <1>5, <1>7, Zenon DEF RemintCommit
<1>9. PICK n : n = Len(token) + 1
    BY Zenon
<1>10. /\ Ages /\ n \in Nat /\ n \in DOMAIN token' /\ token'[n].case = r
       /\ \A t \in DOMAIN token : t \in h => token'[t].revoked
    BY <1>6, <1>8, <1>9, ReissueAges
<1>11. \A t \in mail[k].links : t \in DOMAIN token /\ token[t].case = r /\ token'[t].revoked
  <2>1. \A t \in mail[k].links : t \in DOMAIN token /\ token[t].case = r
      BY <1>2, <1>5, Zenon DEF RowSound, LinkOf
  <2>2. \A t \in mail[k].links : token[t].revoked \/ t \in drainer[d].hit
      BY <1>0, <1>1, <1>2, Zenon DEF TickSound, WorkSound, Current
  <2> QED BY <1>7, <1>10, <2>1, <2>2, Zenon DEF Ages
<1>12. PICK m : m = [mail[k] EXCEPT !.token = n]
    BY Zenon
<1>13. mail' = [mail EXCEPT ![k] = m]
    BY <1>1, <1>9, <1>12, Zenon DEF RemintCommit, OutboxInvariant
<1>14. /\ m \in MailRecord /\ m.case = r /\ m.token = n /\ m.links = mail[k].links
       /\ m.status = mail[k].status /\ m.stale = mail[k].stale
    BY <1>4, <1>5, <1>10, <1>12, Zenon DEF MailRecord
<1>15. /\ mail' \in Seq(MailRecord) /\ DOMAIN mail' = DOMAIN mail /\ mail'[k] = m
       /\ \A j \in DOMAIN mail : j # k => mail'[j] = mail[j]
    BY <1>2, <1>13, <1>14, MailChanges, Zenon
<1>16. RowSound(k)'
  <2>1. \A t \in m.links : t \in DOMAIN token' /\ token'[t].case = r /\ token'[t].revoked
      BY <1>10, <1>11, <1>14, Zenon DEF Ages
  <2> QED BY <1>10, <1>14, <1>15, <2>1, Zenon DEF RowSound, LinkOf
<1>17. PICK x : x = [drainer[d] EXCEPT !.pc = "sending", !.hit = {}, !.fresh = n]
    OBVIOUS
<1>18. drainer' = [drainer EXCEPT ![d] = x]
    BY <1>2, <1>9, <1>17, Zenon DEF RemintCommit, OutboxInvariant, TickRecord
<1>19. /\ x \in TickRecord /\ x.pc = "sending" /\ x.batch = drainer[d].batch /\ x.fresh = n
       /\ Head(x.batch).row = k /\ x.batch # <<>>
    BY <1>0, <1>1, <1>2, <1>10, <1>17, Zenon DEF TickRecord, AtWorkPlaces, Current, TickSound
<1>20. TickSound(x)'
  <2>1. \A i \in DOMAIN x.batch : EntrySound(x.batch[i])'
    <3>1. x.batch \in Seq(Entry) /\ \A i \in DOMAIN x.batch : EntrySound(x.batch[i])
        BY <1>2, <1>19, Zenon DEF TickSound, TickRecord
    <3>2. \A j \in DOMAIN mail : mail'[j].case = mail[j].case
        BY <1>5, <1>14, <1>15, Zenon
    <3>3. PICK s : s = x.batch
        BY Zenon
    <3>4. \A i \in DOMAIN s : EntrySound(s[i])'
        BY <1>10, <1>15, <3>1, <3>2, <3>3, EntriesStay, Zenon
    <3> QED BY <3>3, <3>4, Zenon
  <2>2. mail[k].status = "sending" /\ mail[k].stale = FALSE
      BY <1>0, <1>1, <1>2 DEF TickSound, WorkSound, Current
  <2>3. WorkSound(x)'
      BY <1>10, <1>11, <1>14, <1>15, <1>19, <2>2, Zenon DEF WorkSound, LinkOf
  <2> QED BY <1>19, <2>1, <2>3, Zenon DEF TickSound
<1>21. \A e \in Drainer : e # d /\ drainer[e].pc \in AtWorkPlaces => Current(e).row # k
    BY <1>0, <1>1, NobodyElse
<1>22. TickMoves(d, x, k)
    BY <1>5, <1>10, <1>14, <1>15, <1>16, <1>18, <1>19, <1>20, <1>21, Zenon DEF TickMoves
<1> QED BY <1>10, <1>22, TickKeeps, Zenon

LEMMA SendKeeps ==
  ASSUME RemediationInvariant, OutboxInvariant, NEW d \in Drainer, Send(d)
  PROVE  OutboxInvariant'
<1>0. /\ drainer[d].pc = "sending" /\ drainer[d].pc \in AtWorkPlaces /\ drainer[d].pc # "idle"
      /\ UNCHANGED token
    BY Zenon DEF Send, AtWorkPlaces
<1>1. CASE \E mailed \in SUBSET {drainer[d].fresh} : OnSendFailure(d, mailed)
    BY <1>0, <1>1, RemintFailsKeeps, Zenon
<1>2. CASE /\ mail' = [mail EXCEPT ![Current(d).row].links = @ \cup {drainer[d].fresh}]
           /\ drainer' = [drainer EXCEPT ![d].pc = "sent"]
  <2>1. PICK k : k = Current(d).row
      OBVIOUS
  <2>2. /\ drainer[d] \in TickRecord /\ TickSound(drainer[d]) /\ RowSound(k) /\ k \in DOMAIN mail
      BY <1>0, <2>1, AtRow, Zenon
  <2>3. PICK n : n = drainer[d].fresh
      OBVIOUS
  <2>4. /\ n \in Nat /\ n \in DOMAIN token /\ token[n].case = mail[k].case
        /\ \A t \in mail[k].links : token[t].revoked \/ t = n
        /\ mail[k].status = "sending" /\ mail[k].stale = FALSE
      BY <1>0, <2>1, <2>2, <2>3, Zenon DEF TickSound, WorkSound, TickRecord, Current, LinkOf
  <2>5. PICK m : m = [mail[k] EXCEPT !.links = @ \cup {n}]
      BY Zenon
  <2>6. mail' = [mail EXCEPT ![k] = m]
      BY <1>2, <2>1, <2>3, <2>5, Zenon DEF OutboxInvariant
  <2>7. /\ m \in MailRecord /\ m.case = mail[k].case /\ m.token = mail[k].token
        /\ m.links = mail[k].links \cup {n} /\ m.status = "sending" /\ m.stale = FALSE
    <3>1. mail[k] \in MailRecord
        BY <2>2, Zenon DEF RowSound
    <3> QED BY <2>4, <2>5, <3>1, Zenon DEF MailRecord
  <2>8. /\ mail' \in Seq(MailRecord) /\ DOMAIN mail' = DOMAIN mail /\ mail'[k] = m
        /\ \A j \in DOMAIN mail : j # k => mail'[j] = mail[j]
      BY <2>2, <2>6, <2>7, MailChanges, Zenon
  <2>9. RowSound(k)'
      BY <1>0, <2>2, <2>4, <2>7, <2>8 DEF RowSound, LinkOf
  <2>10. PICK x : x = [drainer[d] EXCEPT !.pc = "sent"]
      BY Zenon
  <2>11. drainer' = [drainer EXCEPT ![d] = x]
      BY <1>2, <2>10, Zenon DEF OutboxInvariant
  <2>12. /\ x \in TickRecord /\ x.pc = "sent" /\ x.batch = drainer[d].batch /\ x.fresh = n
         /\ Head(x.batch).row = k /\ x.batch # <<>>
      BY <1>0, <2>1, <2>2, <2>3, <2>10, Zenon DEF TickRecord, AtWorkPlaces, Current, TickSound
  <2>13. Ages
      BY <1>0, Zenon DEF Ages, RemediationInvariant, CaseTypes
  <2>14. TickSound(x)'
    <3>1. \A i \in DOMAIN x.batch : EntrySound(x.batch[i])
        BY <2>2, <2>12, Zenon DEF TickSound, TickRecord
    <3>2. \A i \in DOMAIN x.batch : EntrySound(x.batch[i])'
        BY <1>0, <3>1, <2>7, <2>8, Zenon DEF EntrySound, LinkOf
    <3>3. WorkSound(x)'
        BY <1>0, <2>4, <2>7, <2>8, <2>12 DEF WorkSound, LinkOf
    <3> QED BY <2>12, <3>2, <3>3, Zenon DEF TickSound
  <2>15. \A e \in Drainer : e # d /\ drainer[e].pc \in AtWorkPlaces => Current(e).row # k
      BY <1>0, <2>1, NobodyElse, Zenon
  <2>16. TickMoves(d, x, k)
      BY <2>7, <2>8, <2>9, <2>11, <2>12, <2>13, <2>14, <2>15, Zenon DEF TickMoves
  <2> QED BY <2>16, TickKeeps
<1> QED BY <1>1, <1>2, Zenon DEF Send

LEMMA TickStopsKeeps ==
  ASSUME RemediationInvariant, OutboxInvariant, NEW d \in Drainer, TickStops(d)
  PROVE  OutboxInvariant'
<1>1. PICK x : x = TickOf(<<>>)
    BY Zenon
<1>2. x \in TickRecord /\ x.pc = "idle" /\ x.batch = <<>> /\ x.pc \notin AtWorkPlaces
    BY <1>1 DEF TickOf, TickRecord, AtWorkPlaces
<1>3. TickSound(x)
    BY <1>2 DEF TickSound
<1>4. drainer' = [drainer EXCEPT ![d] = x] /\ UNCHANGED <<mail, token>>
    BY <1>1, Zenon DEF TickStops, remediationVars
<1> QED BY <1>2, <1>3, <1>4, TickOnly, Zenon

\* A step that leaves the ticks alone, and the rows they are at work on.
Bystands ==
  /\ OutboxInvariant /\ Ages /\ UNCHANGED drainer
  /\ mail' \in Seq(MailRecord) /\ DOMAIN mail \subseteq DOMAIN mail'
  /\ \A k \in DOMAIN mail : mail'[k].case = mail[k].case
  /\ \A k \in DOMAIN mail' : RowSound(k)'
  /\ \A d \in Drainer : drainer[d].pc \in AtWorkPlaces =>
       mail'[Current(d).row] = mail[Current(d).row]

LEMMA BystandKeeps ==
  ASSUME Bystands
  PROVE  OutboxInvariant'
<1> USE DEF Bystands
<1>0. /\ drainer = [e \in Drainer |-> drainer[e]] /\ \A e \in Drainer : TickSound(drainer[e])
      /\ \A j \in DOMAIN mail : RowSound(j)
      /\ OneWorker
    BY Zenon DEF OutboxInvariant
<1>1. ASSUME NEW e \in Drainer PROVE TickSound(drainer[e])'
  <2>1. PICK y : y = drainer[e]
      OBVIOUS
  <2>2. TickSound(y) /\ drainer'[e] = y
      BY <1>0, <2>1, Zenon
  <2>3. y.pc \in AtWorkPlaces => mail'[Head(y.batch).row] = mail[Head(y.batch).row]
      BY <2>1, Zenon DEF Current
  <2>4. TickSound(y)'
      BY <1>0, <2>2, <2>3, TickStays, Zenon
  <2>5. drainer'[e] = y
      BY <2>2, Zenon
  <2> QED BY ONLY <2>4, <2>5 DEF TickSound, EntrySound, WorkSound, LinkOf
<1>2. OneWorker'
    BY <1>0 DEF OneWorker, Current
<1> QED BY <1>0, <1>1, <1>2, Zenon DEF OutboxInvariant

\* The steps that leave the rows alone.
LEMMA AgesKeeps ==
  ASSUME OutboxInvariant, Ages, UNCHANGED <<mail, drainer>>
  PROVE  OutboxInvariant'
<1>1. mail \in Seq(MailRecord) /\ \A k \in DOMAIN mail : RowSound(k)
    BY Zenon DEF OutboxInvariant
<1>2. ASSUME NEW k \in DOMAIN mail' PROVE RowSound(k)'
  <2>1. k \in DOMAIN mail /\ RowSound(k) /\ mail'[k] = mail[k]
      BY <1>1, Zenon
  <2> QED BY <2>1, RowStays, Zenon
<1>3. Bystands
    BY <1>1, <1>2, Zenon DEF Bystands
<1> QED BY <1>3, BystandKeeps, Zenon

LEMMA ClaimGrowsStaleKeeps ==
  ASSUME RemediationInvariant, OutboxInvariant, NEW k \in DOMAIN mail, ClaimGrowsStale(k)
  PROVE  OutboxInvariant'
<1>0. UNCHANGED <<token, drainer>>
    BY Zenon DEF ClaimGrowsStale
<1>1. Ages
    BY <1>0, Zenon DEF Ages, RemediationInvariant, CaseTypes
<1>2. mail \in Seq(MailRecord) /\ \A j \in DOMAIN mail : RowSound(j)
    BY DEF OutboxInvariant
<1>3. PICK m : m = [mail[k] EXCEPT !.stale = TRUE]
    BY Zenon
<1>4. mail' = [mail EXCEPT ![k] = m]
    BY <1>3, Zenon DEF ClaimGrowsStale
<1>5. /\ m \in MailRecord /\ m.case = mail[k].case /\ m.token = mail[k].token
      /\ m.links = mail[k].links
  <2>1. mail[k] \in MailRecord
      BY <1>2
  <2> QED BY <1>3, <2>1, Zenon DEF MailRecord
<1>6. /\ mail' \in Seq(MailRecord) /\ DOMAIN mail' = DOMAIN mail /\ mail'[k] = m
      /\ \A j \in DOMAIN mail : j # k => mail'[j] = mail[j]
    BY <1>4, <1>5, MailChanges, Zenon
<1>7. ASSUME NEW j \in DOMAIN mail' PROVE RowSound(j)'
  <2>1. CASE j = k
    <3>1. RowSound(k)
        BY <1>2, Zenon
    <3> QED BY <1>0, <1>5, <1>6, <2>1, <3>1, Zenon DEF RowSound, LinkOf
  <2>2. CASE j # k
    <3>1. j \in DOMAIN mail /\ RowSound(j) /\ mail'[j] = mail[j]
        BY <1>2, <1>6, <2>2, Zenon
    <3> QED BY <1>1, <3>1, RowStays, Zenon
  <2> QED BY <2>1, <2>2, Zenon
<1>8. ASSUME NEW d \in Drainer, drainer[d].pc \in AtWorkPlaces
      PROVE  mail'[Current(d).row] = mail[Current(d).row]
  <2>1. Current(d).row \in DOMAIN mail
      BY <1>8, AtRow, Zenon DEF AtWorkPlaces
  <2>2. Current(d).row # k
      BY <1>8, Zenon DEF ClaimGrowsStale, AtWork, AtWorkPlaces
  <2> QED BY <1>6, <2>1, <2>2, Zenon
<1>9. Bystands
    BY <1>0, <1>1, <1>5, <1>6, <1>7, <1>8, Zenon DEF Bystands
<1> QED BY <1>9, BystandKeeps, Zenon

LEMMA EnqueueKeeps ==
  ASSUME RemediationInvariant, OutboxInvariant, NEW q \in Request, LinkCommit(q),
         UNCHANGED drainer
  PROVE  OutboxInvariant'
<1>1. PICK r : r = request[q].case
    OBVIOUS
<1>2. r \in Record
    BY <1>1, Zenon DEF LinkCommit, RemediationInvariant, RequestKnows, Knows
<1>3. PICK h : h = {t \in request[q].snapshot : ~token[t].revoked}
    BY Zenon
<1>4. PICK b \in BOOLEAN : \E first : Reissue(r, h, first, b)
    BY <1>1, <1>3, Zenon DEF LinkCommit
<1>f. PICK first : Reissue(r, h, first, b)
    BY <1>4, Zenon
<1>5. PICK n : n = Len(token) + 1
    BY Zenon
<1>6. Ages /\ n \in Nat /\ n \in DOMAIN token' /\ token'[n].case = r
  <2>1. /\ Ages /\ Len(token) \in Nat
        /\ Len(token) + 1 \in DOMAIN token' /\ token'[Len(token) + 1].case = r
      BY <1>2, <1>f, ReissueAges, Zenon
  <2> QED BY <1>5, <2>1
<1>7. PICK m : m = [case |-> r, token |-> n, status |-> "queued", attempts |-> 0,
                    stale |-> FALSE, links |-> {}]
    BY Zenon
<1>8. m \in MailRecord /\ m.case = r /\ m.token = n /\ m.links = {}
    BY <1>2, <1>6, <1>7, Zenon DEF MailRecord
<1>9. mail' = Append(mail, m)
    BY <1>1, <1>5, <1>7, Zenon DEF LinkCommit
<1>10. mail \in Seq(MailRecord) /\ \A j \in DOMAIN mail : RowSound(j)
    BY Zenon DEF OutboxInvariant
<1>11. /\ mail' \in Seq(MailRecord) /\ Len(mail') = Len(mail) + 1 /\ mail'[Len(mail) + 1] = m
       /\ \A j \in DOMAIN mail : mail'[j] = mail[j]
    BY <1>8, <1>9, <1>10
<1>12. DOMAIN mail \subseteq DOMAIN mail'
       /\ \A j \in DOMAIN mail' : j \in DOMAIN mail \/ j = Len(mail) + 1
    BY <1>10, <1>11
<1>13. ASSUME NEW j \in DOMAIN mail' PROVE RowSound(j)'
  <2>1. CASE j \in DOMAIN mail
    <3>1. RowSound(j) /\ mail'[j] = mail[j]
        BY <1>10, <1>11, <2>1, Zenon
    <3> QED BY <1>6, <2>1, <3>1, RowStays, Zenon
  <2>2. CASE j = Len(mail) + 1
    <3>1. mail'[j] = m
        BY <1>11, <2>2, Zenon
    <3> QED BY <1>6, <1>8, <3>1, Zenon DEF RowSound, LinkOf
  <2> QED BY <1>12, <2>1, <2>2, Zenon
<1>14. ASSUME NEW d \in Drainer, drainer[d].pc \in AtWorkPlaces
       PROVE  mail'[Current(d).row] = mail[Current(d).row]
  <2>1. Current(d).row \in DOMAIN mail
      BY <1>14, AtRow, Zenon DEF AtWorkPlaces
  <2> QED BY <1>11, <2>1, Zenon
<1>15. Bystands
    BY <1>6, <1>11, <1>12, <1>13, <1>14, Zenon DEF Bystands
<1> QED BY <1>15, BystandKeeps, Zenon

\* The other steps on the links age them, or leave them alone.
LEMMA LinksAge ==
  ASSUME RemediationInvariant,
         \/ \E r \in Record : RevokeLink(r)
         \/ \E t \in DOMAIN token : ExpireLink(t) \/ Exchange(t)
  PROVE  Ages
<1>0. token \in Seq(TokenRecord) /\ DOMAIN token = 1..Len(token)
    BY DEF RemediationInvariant, CaseTypes
<1>1. ASSUME NEW r \in Record, RevokeLink(r) PROVE Ages
  <2>1. DOMAIN token' = DOMAIN token
      BY <1>1, Zenon DEF RevokeLink
  <2>2. ASSUME NEW t \in DOMAIN token
        PROVE  token'[t].case = token[t].case /\ (token[t].revoked => token'[t].revoked)
    <3>1. token[t] \in TokenRecord
        BY <1>0
    <3>2. token'[t] = IF t \in Unrevoked(r) THEN Revoked(token[t]) ELSE token[t]
        BY <1>1, Zenon DEF RevokeLink
    <3> QED BY <3>1, <3>2, Zenon DEF Revoked, TokenRecord
  <2>3. token' \in Seq(TokenRecord)
      BY <1>1, TokenSteps, Zenon DEF RemediationInvariant, CaseTypes
  <2> QED BY <2>1, <2>2, <2>3, Zenon DEF Ages
<1>2. ASSUME NEW t \in DOMAIN token, ExpireLink(t) \/ Exchange(t) PROVE Ages
  <2>1. token[t] \in TokenRecord
      BY <1>0
  <2>2. PICK y : /\ token' = [token EXCEPT ![t] = y]
                 /\ y.case = token[t].case /\ y.revoked = token[t].revoked
    <3>1. CASE ExpireLink(t)
      <4>1. PICK y : y = [token[t] EXCEPT !.expired = TRUE]
          BY Zenon
      <4>2. y.case = token[t].case /\ y.revoked = token[t].revoked
          BY <2>1, <4>1, Zenon DEF TokenRecord
      <4>3. token' = [token EXCEPT ![t] = y]
          BY <3>1, <4>1, Zenon DEF ExpireLink
      <4> QED BY <4>2, <4>3, Zenon
    <3>2. CASE Exchange(t)
      <4>1. PICK y : y = [token[t] EXCEPT !.exchanged = TRUE, !.session = "live"]
          OBVIOUS
      <4>2. y.case = token[t].case /\ y.revoked = token[t].revoked
          BY <2>1, <4>1, Zenon DEF TokenRecord
      <4>3. token' = [token EXCEPT ![t] = y]
          BY <1>0, <2>1, <3>2, <4>1, Zenon DEF Exchange, TokenRecord
      <4> QED BY <4>2, <4>3, Zenon
    <3> QED BY <1>2, <3>1, <3>2, Zenon
  <2>3. token' \in Seq(TokenRecord)
      BY <1>2, TokenSteps, Zenon DEF RemediationInvariant, CaseTypes
  <2> QED BY <1>0, <2>2, <2>3, Zenon DEF Ages
<1> QED BY <1>1, <1>2, Zenon

LEMMA OutboxStepKeeps ==
  ASSUME RemediationInvariant, OutboxInvariant, OutboxStep
  PROVE  RemediationInvariant' /\ OutboxInvariant'
<1>1. ASSUME NEW d \in Drainer, DrainerStep(d) \/ TickStops(d)
      PROVE  OutboxInvariant'
    BY <1>1, DrainTenantKeeps, ClaimKeeps, LoadTokenKeeps, RemintRevokeKeeps, RemintCommitKeeps,
       RemintFailsKeeps, SendKeeps, RecordSentKeeps, TickStopsKeeps, Zenon DEF DrainerStep
<1>2. ASSUME NEW k \in DOMAIN mail, ClaimGrowsStale(k)
      PROVE  OutboxInvariant'
    BY <1>2, ClaimGrowsStaleKeeps, Zenon
<1>3. UNCHANGED <<manifestVars, request>>
    BY ZenonT(30) DEF OutboxStep, DrainerStep, TickStops, ClaimGrowsStale, DrainTenant, Claim, LoadToken,
           RemintRevoke, RemintCommit, RemintFails, Send, RecordSent, remediationVars
<1>4. token' \in Seq(TokenRecord)
  <2>0. token \in Seq(TokenRecord)
      BY Zenon DEF RemediationInvariant, CaseTypes
  <2>1. ASSUME NEW d \in Drainer, RemintCommit(d) PROVE token' \in Seq(TokenRecord)
      BY <2>1, RemintCommitKeeps, Zenon DEF Ages
  <2> QED BY <2>0, <2>1, Zenon DEF OutboxStep, DrainerStep, TickStops, ClaimGrowsStale, DrainTenant,
             Claim, LoadToken, RemintRevoke, RemintFails, Send, RecordSent, remediationVars
<1>5. RemediationInvariant'
  <2>1. CaseTypes'
      BY <1>3, <1>4 DEF RemediationInvariant, CaseTypes, manifestVars
  <2>2. RequestKnows'
      BY <1>3, Zenon DEF RemediationInvariant, RequestKnows, Knows, manifestVars
  <2>3. ReleaseIsLast' /\ DashboardTruthful'
      BY <1>3, Zenon DEF RemediationInvariant, ReleaseIsLast, DashboardTruthful, manifestVars
  <2> QED BY <2>1, <2>2, <2>3, Zenon DEF RemediationInvariant
<1> QED BY <1>1, <1>2, <1>5 DEF OutboxStep

LEMMA NotificationStep ==
  ASSUME RemediationInvariant, OutboxInvariant, [NotificationNext]_notificationVars
  PROVE  RemediationInvariant' /\ OutboxInvariant'
<1>1. CASE OutboxStep
    BY <1>1, OutboxStepKeeps, Zenon
<1>2. CASE UNCHANGED notificationVars
  <2>1. UNCHANGED remediationVars /\ UNCHANGED <<token, mail, drainer>>
      BY <1>2 DEF notificationVars, outboxVars, remediationVars
  <2>2. RemediationInvariant'
      BY <2>1, RemediationStep, Zenon
  <2>3. Ages
      BY <2>1, Zenon DEF Ages, RemediationInvariant, CaseTypes
  <2> QED BY <2>1, <2>2, <2>3, AgesKeeps, Zenon
<1>3. CASE (IntakeStep \/ LinkStep) /\ UNCHANGED outboxVars
  <2>1. UNCHANGED drainer
      BY <1>3, Zenon DEF outboxVars
  <2>2. RemediationInvariant'
      BY <1>3, RemediationStep, Zenon DEF RemediationNext
  <2>3. ASSUME NEW q \in Request, LinkCommit(q) PROVE OutboxInvariant'
      BY <2>1, <2>3, EnqueueKeeps, Zenon
  <2>4. ASSUME \/ \E r \in Record : RevokeLink(r)
               \/ \E t \in DOMAIN token : ExpireLink(t) \/ Exchange(t)
        PROVE  OutboxInvariant'
    <3>1. UNCHANGED mail
        BY <2>4, Zenon DEF RevokeLink, ExpireLink, Exchange
    <3> QED BY <2>1, <2>4, <3>1, LinksAge, AgesKeeps, Zenon
  <2>5. ASSUME \/ IntakeStep
               \/ \E q \in Request : LinkRevoke(q) \/ \E r \in Record : LinkRead(q, r)
        PROVE  OutboxInvariant'
    <3>1. UNCHANGED <<token, mail>>
        BY <2>5, Zenon DEF IntakeStep, IngestRow, LinkRevoke, LinkRead
    <3>2. Ages
        BY <3>1, Zenon DEF Ages, RemediationInvariant, CaseTypes
    <3> QED BY <2>1, <3>1, <3>2, AgesKeeps, Zenon
  <2> QED BY <1>3, <2>2, <2>3, <2>4, <2>5, Zenon DEF LinkStep
<1> QED BY <1>1, <1>2, <1>3, Zenon DEF NotificationNext

LEMMA NotificationInitial == NotificationInit => RemediationInvariant /\ OutboxInvariant
<1> SUFFICES ASSUME NotificationInit PROVE RemediationInvariant /\ OutboxInvariant
    OBVIOUS
<1>1. RemediationInvariant
    BY RemediationInitial, Zenon DEF NotificationInit
<1>2. mail = <<>> /\ drainer = [d \in Drainer |-> TickOf(<<>>)]
    BY DEF NotificationInit, RemediationInit, OutboxInit
<1>3. PICK x : x = TickOf(<<>>)
    BY Zenon
<1>4. x \in TickRecord /\ x.pc = "idle" /\ x.batch = <<>> /\ x.pc \notin AtWorkPlaces
    BY <1>3 DEF TickOf, TickRecord, AtWorkPlaces
<1>5. TickSound(x)
    BY <1>4 DEF TickSound
<1>6. \A d \in Drainer : drainer[d] = x
    BY <1>2, <1>3, Zenon
<1>7. OneWorker
    BY <1>4, <1>6, Zenon DEF OneWorker
<1>8. mail \in Seq(MailRecord) /\ DOMAIN mail = {}
    BY <1>2
<1>9. drainer = [d \in Drainer |-> drainer[d]]
    BY <1>2
<1> QED BY <1>1, <1>5, <1>6, <1>7, <1>8, <1>9, Zenon DEF OutboxInvariant

(***************************************************************************)
(* Of the links mailed for a row at most one works, for any number of      *)
(* drainers, rows, links and crashes: a tick revokes what was mailed for   *)
(* its row before it mails, and has the row to itself until it is done.    *)
(***************************************************************************)
THEOREM OldLinksAreDead == NotificationSpec => []DuplicateCarriesNoOldLink
<1>1. OutboxInvariant => DuplicateCarriesNoOldLink
    BY Zenon DEF OutboxInvariant, RowSound, DuplicateCarriesNoOldLink
<1>2. RemediationInvariant /\ OutboxInvariant /\ [NotificationNext]_notificationVars
        => (RemediationInvariant /\ OutboxInvariant)'
    BY NotificationStep
<1> QED BY <1>1, <1>2, NotificationInitial, PTL DEF NotificationSpec
=============================================================================

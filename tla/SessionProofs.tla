--------------------------- MODULE SessionProofs ---------------------------
(***************************************************************************)
(* Proofs about Sessions for any number of sessions, callers, tokens and    *)
(* logout-all calls.  The inductive invariant ties each refresh in flight   *)
(* to a session that was created (Created), to the revocations before its   *)
(* claim (LateIsRefused) and to the generation of its session    *)
(* (GenerationBound).                                                       *)
(***************************************************************************)
EXTENDS Sessions, TLAPS

Refreshing == {"claimed", "checking", "rotating", "marking", "answering"}

Accepted == {"checking", "rotating", "marking", "answering"}

SessionRecord ==
    [state : {"none", "full", "ghost"}, revoked : BOOLEAN, hash : Nat,
     version : Nat, born : Nat]

Stage == Refreshing \cup {"idle", "revoke", "family", "listing", "writing"}

Marks == SUBSET (Login \X Nat)

CallRecord ==
    [pc : Stage, token : Nat, login : Login \cup {0}, version : Nat,
     late : BOOLEAN, minted : Nat, marks : Marks]

Reply == [login : Login, version : Nat, late : BOOLEAN]

\* Types; the tokens in use are tokens that were minted.
SessionTypes ==
    /\ userVersion \in Nat
    /\ session \in [Login -> SessionRecord]
    /\ owner \in Seq(Login)
    /\ mapped \subseteq 1 .. Len(owner)
    /\ held \subseteq 1 .. Len(owner)
    /\ used \subseteq Nat
    /\ call \in [Caller -> CallRecord]
    /\ answered \subseteq Reply

\* Whatever refers to a session refers to one that was created.
Created ==
    /\ revoked \subseteq Owners
    /\ \A s \in Login : Exists(s) => s \in Owners
    /\ \A q \in Caller :
          /\ call[q].pc \in Refreshing \cup {"revoke", "family"} => call[q].login \in Owners
          /\ \A m \in call[q].marks : m[1] \in Owners
          /\ call[q].minted \in {0} \cup 1 .. Len(owner)
          /\ call[q].pc = "answering" \/ call[q].pc = "marking" => call[q].minted # 0
    /\ \A a \in answered : a.login \in Owners

\* A revoked session stays marked as long as its hash can be read, and a
\* refresh that came too late for it is still waiting to find out.
LateIsRefused ==
    /\ \A s \in revoked : session[s].revoked \/ session[s].state # "full"
    /\ \A q \in Caller :
          /\ call[q].pc = "claimed" /\ call[q].late => call[q].login \in revoked
          /\ call[q].pc \in Accepted => ~call[q].late
    /\ RevokedStaysRevoked

\* No hash and no refresh carries a later generation than its session's.
GenerationBound ==
    /\ \A s \in Login : session[s].state = "full" => session[s].version <= session[s].born
    /\ \A q \in Caller :
          call[q].pc \in Accepted => call[q].version <= session[call[q].login].born
    /\ GenerationEnds

SessionInvariant ==
    SessionTypes /\ Created /\ OneTokenPerSession /\ LateIsRefused /\ GenerationBound

-----------------------------------------------------------------------------
\* Minting a token leaves the owners of the others alone.
LEMMA Minting ==
    ASSUME owner \in Seq(Login), NEW s \in Login, owner' = Append(owner, s)
    PROVE  /\ owner' \in Seq(Login)
           /\ Len(owner) \in Nat
           /\ Len(owner') = Len(owner) + 1
           /\ \A k \in 1 .. Len(owner) : owner'[k] = owner[k]
           /\ owner'[Len(owner) + 1] = s
           /\ Owners' = Owners \cup {s}
           /\ \A S \in SUBSET (1 .. Len(owner)) :
                 S \cup {Len(owner) + 1} \subseteq 1 .. Len(owner')
           /\ \A S \in SUBSET (1 .. Len(owner)) : S \subseteq 1 .. Len(owner')
<1>1. /\ owner' \in Seq(Login) /\ Len(owner) \in Nat /\ Len(owner') = Len(owner) + 1
      /\ \A k \in 1 .. Len(owner) : owner'[k] = owner[k]
      /\ owner'[Len(owner) + 1] = s
    OBVIOUS
<1>2. DOMAIN owner = 1 .. Len(owner) /\ DOMAIN owner' = 1 .. Len(owner) + 1
    BY <1>1
<1>3. Owners' = Owners \cup {s}
    BY <1>1, <1>2 DEF Owners
<1>4. 1 .. Len(owner) \subseteq 1 .. Len(owner') /\ Len(owner) + 1 \in 1 .. Len(owner')
    BY <1>1
<1> QED BY <1>1, <1>3, <1>4, Zenon

\* What stays true of the sessions created when no token is minted.
LEMMA SameOwners ==
    ASSUME UNCHANGED owner
    PROVE  Owners' = Owners
BY DEF Owners

\* A caller without a request.
LEMMA IdleTyped == Idle \in CallRecord
<1>1. {} \in Marks
    BY DEF Marks
<1> QED BY <1>1 DEF CallRecord, Idle, Stage

\* The initial state, before any login.
LEMMA InitInvariant == SessionsInit => SessionInvariant
<1> SUFFICES ASSUME SessionsInit PROVE SessionInvariant
    OBVIOUS
<1> USE DEF SessionsInit
<1>1. SessionTypes
    BY IdleTyped DEF SessionTypes, SessionRecord, Absent
<1>2. Created
    BY DEF Created, Owners, Exists, Absent, Idle, Refreshing
<1>3. OneTokenPerSession
    BY DEF OneTokenPerSession, Holding, Idle
<1>4. LateIsRefused
    BY DEF LateIsRefused, RevokedStaysRevoked, Idle, Accepted
<1>5. GenerationBound
    BY DEF GenerationBound, GenerationEnds, Idle, Accepted, Absent
<1> QED BY <1>1, <1>2, <1>3, <1>4, <1>5 DEF SessionInvariant
-----------------------------------------------------------------------------
Working == {"claimed", "checking", "rotating"}

\* A step that only moves one caller's request on preserves the invariant
\* when the new request refers to created sessions, was not refused and
\* holds no claim that it did not hold before.
LEMMA CallStep ==
    ASSUME SessionInvariant, NEW q \in Caller, NEW c \in CallRecord,
           call' = [call EXCEPT ![q] = c],
           UNCHANGED <<session, owner, mapped, held, revoked, answered>>,
           userVersion' \in Nat, used' \subseteq Nat,
           c.pc \in Refreshing \cup {"revoke", "family"} => c.login \in Owners,
           \A m \in c.marks : m[1] \in Owners,
           c.minted \in {0} \cup 1 .. Len(owner),
           c.pc = "answering" \/ c.pc = "marking" => c.minted # 0,
           c.pc \in Working => call[q].pc \in Working /\ c.login = call[q].login,
           c.pc = "claimed" /\ c.late => c.login \in revoked,
           c.pc \in Accepted => ~c.late,
           c.pc \in Accepted => c.version <= session[c.login].born
    PROVE  SessionInvariant'
<1> USE DEF SessionInvariant
<1>1. SessionTypes'
    BY DEF SessionTypes
<1>2. call'[q] = c /\ \A r \in Caller : r # q => call'[r] = call[r]
    BY DEF SessionTypes
<1>3. Owners' = Owners /\ \A s \in Login : Exists(s)' = Exists(s)
    BY SameOwners DEF Exists
<1>4. Created'
    BY <1>2, <1>3 DEF Created
<1>5. \A s \in Login : Holding(s)' \subseteq Holding(s)
    BY <1>2 DEF Holding, Working
<1>6. OneTokenPerSession'
    BY <1>5 DEF OneTokenPerSession
<1>7. LateIsRefused'
    BY <1>2 DEF LateIsRefused, RevokedStaysRevoked
<1>8. GenerationBound'
    BY <1>2 DEF GenerationBound, GenerationEnds
<1> QED BY <1>1, <1>4, <1>6, <1>7, <1>8

\* The steps of a refresh or a logout that touch nothing but the request.
LEMMA RequestMoves ==
    ASSUME SessionInvariant, NEW q \in Caller,
           \/ Refuse(q) \/ TimeOutIdle(q) \/ Accept(q) \/ RotateCheck(q) \/ MarkUsed(q)
           \/ Abort(q) \/ (\E s \in Login : Logout(q, s)) \/ RevokeRead(q)
           \/ LogoutAll(q) \/ List(q)
    PROVE  SessionInvariant'
<1> USE DEF SessionInvariant
<1>t. /\ call[q] \in CallRecord /\ userVersion \in Nat
      /\ Idle \in CallRecord
    BY IdleTyped DEF SessionTypes
<1>i. CASE Return(q) /\ UNCHANGED <<userVersion, session, owner, mapped, used, held, revoked, answered>>
  <2>1. call' = [call EXCEPT ![q] = Idle]
    BY <1>i DEF Return
  <2>2. userVersion' \in Nat /\ used' \subseteq Nat
    BY <1>i DEF SessionTypes
  <2> QED BY <1>i, <1>t, <2>1, <2>2, CallStep, Zenon DEF Idle, Refreshing, Working, Accepted
<1>1. CASE Refuse(q)
    BY <1>1, <1>i DEF Refuse
<1>2. CASE Abort(q)
    BY <1>2, <1>i DEF Abort
<1>3. CASE TimeOutIdle(q)
  <2> DEFINE d == [Idle EXCEPT !.pc = "revoke", !.login = call[q].login]
  <2>1. d \in CallRecord
    BY <1>t, Zenon DEF CallRecord, Stage
  <2>2. call' = [call EXCEPT ![q] = d] /\ call[q].login \in Owners
    BY <1>3 DEF TimeOutIdle, Created, At, Refreshing
  <2>3. userVersion' \in Nat /\ used' \subseteq Nat
        /\ UNCHANGED <<session, owner, mapped, held, revoked, answered>>
    BY <1>3 DEF TimeOutIdle, SessionTypes
  <2> QED BY <2>1, <2>2, <2>3, CallStep, Zenon DEF Idle, Refreshing, Working, Accepted
<1>4. CASE Accept(q)
  <2> DEFINE d == [call[q] EXCEPT !.pc = "checking", !.version = userVersion]
  <2>1. d \in CallRecord
    BY <1>t, Zenon DEF CallRecord, Stage, Refreshing
  <2>2. call' = [call EXCEPT ![q] = d] /\ call[q].login \in Owners
        /\ call[q].pc = "claimed"
    BY <1>4, Zenon DEF Accept, Created, At, Refreshing
  <2>3. userVersion' \in Nat /\ used' \subseteq Nat
        /\ UNCHANGED <<session, owner, mapped, held, revoked, answered>>
    BY <1>4 DEF Accept, SessionTypes
  <2>4. call[q].login \in Login
    BY <2>2 DEF Owners, SessionTypes
  <2>5. ~call[q].late
    BY <1>4, <2>2, <2>4 DEF Accept, LateIsRefused
  <2>6. userVersion <= session[call[q].login].born
    BY <1>4, <1>t, <2>4 DEF Accept, GenerationBound, SessionTypes, SessionRecord
  <2> QED BY <1>t, <2>1, <2>2, <2>3, <2>5, <2>6, CallStep, Zenon
          DEF CallRecord, Created, Refreshing, Working, Accepted
<1>5. CASE RotateCheck(q)
  <2> DEFINE d == [call[q] EXCEPT !.pc = "rotating"]
  <2>1. d \in CallRecord
    BY <1>t DEF CallRecord, Stage, Refreshing
  <2>2. call[q].pc = "checking" /\ call[q].login \in Owners
    BY <1>5 DEF RotateCheck, Created, At, Refreshing
  <2>3. userVersion' \in Nat /\ used' \subseteq Nat
        /\ UNCHANGED <<userVersion, used, session, owner, mapped, held, revoked, answered>>
    BY <1>5 DEF RotateCheck, SessionTypes
  <2>4. CASE call' = [call EXCEPT ![q] = d]
    <3>1. ~call[q].late /\ call[q].version <= session[call[q].login].born
      BY <2>2 DEF LateIsRefused, GenerationBound, Accepted
    <3> QED BY <1>t, <2>1, <2>2, <2>3, <2>4, <3>1, CallStep, Zenon
            DEF CallRecord, Created, Refreshing, Working, Accepted
  <2> QED BY <1>5, <1>i, <2>3, <2>4 DEF RotateCheck
<1>6. CASE MarkUsed(q)
  <2> DEFINE d == [call[q] EXCEPT !.pc = "answering"]
  <2>1. d \in CallRecord
    BY <1>t DEF CallRecord, Stage, Refreshing
  <2>2. call' = [call EXCEPT ![q] = d] /\ call[q].pc = "marking"
        /\ call[q].login \in Owners
    BY <1>6 DEF MarkUsed, Created, At, Refreshing
  <2>3. userVersion' \in Nat /\ used' \subseteq Nat
        /\ UNCHANGED <<session, owner, mapped, held, revoked, answered>>
    BY <1>6, <1>t DEF MarkUsed, SessionTypes, CallRecord
  <2>4. ~call[q].late /\ call[q].version <= session[call[q].login].born
    BY <2>2 DEF LateIsRefused, GenerationBound, Accepted
  <2> QED BY <1>t, <2>1, <2>2, <2>3, <2>4, CallStep, Zenon
          DEF CallRecord, Created, Refreshing, Working, Accepted
<1>7. ASSUME NEW s \in Login, Logout(q, s) PROVE SessionInvariant'
  <2> DEFINE d == [Idle EXCEPT !.pc = "revoke", !.login = s]
  <2>1. d \in CallRecord
    BY <1>t, Zenon DEF CallRecord, Stage
  <2>2. call' = [call EXCEPT ![q] = d] /\ s \in Owners
    BY <1>7, Zenon DEF Logout, Created, Exists
  <2>3. userVersion' \in Nat /\ used' \subseteq Nat
        /\ UNCHANGED <<session, owner, mapped, held, revoked, answered>>
    BY <1>7, Zenon DEF Logout, SessionTypes
  <2> QED BY <2>1, <2>2, <2>3, CallStep, Zenon DEF Idle, Refreshing, Working, Accepted
<1>8. CASE RevokeRead(q)
  <2> DEFINE s == call[q].login
             d == [call[q] EXCEPT !.pc = "writing", !.marks = {<<s, session[s].hash>>}]
  <2>1. s \in Owners /\ s \in Login /\ session[s].hash \in Nat
    BY <1>8, SMTT(30) DEF RevokeRead, At, Created, SessionTypes, Owners, SessionRecord
  <2>2. {<<s, session[s].hash>>} \in Marks
    BY <2>1 DEF Marks
  <2>3. d \in CallRecord
    BY <1>t, <2>2, Zenon DEF CallRecord, Stage
  <2>4. userVersion' \in Nat /\ used' \subseteq Nat
        /\ UNCHANGED <<userVersion, used, session, owner, mapped, held, revoked, answered>>
    BY <1>8 DEF RevokeRead, SessionTypes
  <2>5. CASE call' = [call EXCEPT ![q] = d]
    <3>1. \A m \in d.marks : m[1] \in Owners
      BY <1>t, <2>1 DEF CallRecord
    <3>2. d.pc = "writing" /\ d.minted = call[q].minted
      BY <1>t DEF CallRecord
    <3>3. call[q].minted \in {0} \cup 1 .. Len(owner)
      BY DEF Created
    <3> HIDE DEF d
    <3> QED BY <2>3, <2>4, <2>5, <3>1, <3>2, <3>3, CallStep, Zenon
            DEF Refreshing, Working, Accepted
  <2> QED BY <1>8, <1>i, <2>4, <2>5, Zenon DEF RevokeRead
<1>9. CASE LogoutAll(q)
  <2> DEFINE d == [Idle EXCEPT !.pc = "listing"]
  <2>1. d \in CallRecord
    BY <1>t DEF CallRecord, Stage
  <2>2. call' = [call EXCEPT ![q] = d]
    BY <1>9 DEF LogoutAll
  <2>3. userVersion' \in Nat /\ used' \subseteq Nat
        /\ UNCHANGED <<session, owner, mapped, held, revoked, answered>>
    BY <1>9 DEF LogoutAll, SessionTypes
  <2> QED BY <2>1, <2>2, <2>3, CallStep, Zenon DEF Idle, Refreshing, Working, Accepted
<1>10. CASE List(q)
  <2> DEFINE live == {r \in Login : Exists(r) /\ ~session[r].revoked}
             seen == {<<s, session[s].hash>> : s \in live}
             d == [call[q] EXCEPT !.pc = "writing", !.marks = seen]
  <2>1. \A s \in live : s \in Login /\ s \in Owners /\ session[s].hash \in Nat
    BY DEF Created, SessionTypes, SessionRecord
  <2>2. seen \in Marks
    BY <2>1 DEF Marks
  <2>3. \A m \in seen : m[1] \in Owners
    BY <2>1
  <2>4. userVersion' \in Nat /\ used' \subseteq Nat
        /\ UNCHANGED <<userVersion, used, session, owner, mapped, held, revoked, answered>>
    BY <1>10 DEF List, SessionTypes
  <2>5. call' = [call EXCEPT ![q] = d] \/ Return(q)
    BY <1>10, Zenon DEF List
  <2> HIDE DEF seen
  <2>6. d \in CallRecord
    BY <1>t, <2>2, Zenon DEF CallRecord, Stage
  <2>7. d.pc = "writing" /\ d.minted = call[q].minted /\ d.marks = seen
    BY <1>t DEF CallRecord
  <2>8. call[q].minted \in {0} \cup 1 .. Len(owner)
    BY DEF Created
  <2> HIDE DEF d
  <2>9. CASE call' = [call EXCEPT ![q] = d]
    BY <2>3, <2>4, <2>6, <2>7, <2>8, <2>9, CallStep, Zenon DEF Refreshing, Working, Accepted
  <2> QED BY <1>i, <2>4, <2>5, <2>9
<1> QED BY <1>1, <1>2, <1>3, <1>4, <1>5, <1>6, <1>7, <1>8, <1>9, <1>10
-----------------------------------------------------------------------------
\* A login.
LEMMA CreateStep ==
    ASSUME SessionInvariant, NEW s \in Login, CreateSession(s)
    PROVE  SessionInvariant'
<1> USE DEF SessionInvariant
<1> DEFINE n == Len(owner) + 1
<1>1. /\ owner' \in Seq(Login) /\ Len(owner) \in Nat /\ Len(owner') = n
      /\ \A k \in 1 .. Len(owner) : owner'[k] = owner[k]
      /\ owner'[n] = s
      /\ Owners' = Owners \cup {s}
    BY Minting DEF CreateSession, SessionTypes
<1>2. PICK v \in 0 .. userVersion :
          session' = [session EXCEPT ![s] =
              [state |-> "full", revoked |-> FALSE, hash |-> n, version |-> v, born |-> v]]
    BY Zenon DEF CreateSession
<1>3. v \in Nat /\ n \in Nat
    BY <1>1 DEF SessionTypes
<1>4. /\ session'[s] = [state |-> "full", revoked |-> FALSE, hash |-> n,
                        version |-> v, born |-> v]
      /\ \A r \in Login : r # s => session'[r] = session[r]
    BY <1>2 DEF SessionTypes
<1>5. s \notin Owners /\ mapped' = mapped \cup {n} /\ held' = held \cup {n}
      /\ UNCHANGED <<userVersion, used, revoked, call, answered>>
    BY DEF CreateSession
<1>6. SessionTypes'
  <2>1. session' \in [Login -> SessionRecord]
    BY <1>2, <1>3 DEF SessionTypes, SessionRecord
  <2>2. mapped' \subseteq 1 .. Len(owner') /\ held' \subseteq 1 .. Len(owner')
    BY <1>5, Minting, Zenon DEF SessionTypes, CreateSession
  <2> QED BY <1>1, <1>5, <2>1, <2>2 DEF SessionTypes
<1>7. Created'
    BY <1>1, <1>4, <1>5 DEF Created, Exists
<1>8. \A k \in mapped : k \in 1 .. Len(owner) /\ owner'[k] = owner[k] /\ owner[k] \in Owners
    BY <1>1 DEF SessionTypes, Owners
<1>9. Holding(s) = {} /\ \A r \in Login : Holding(r)' = Holding(r)
    BY <1>5 DEF Holding, Created, Refreshing
<1>10. OneTokenPerSession'
    BY <1>1, <1>5, <1>8, <1>9 DEF OneTokenPerSession
<1>11. LateIsRefused'
    BY <1>4, <1>5 DEF LateIsRefused, RevokedStaysRevoked, Created, SessionTypes, Owners
<1>12. GenerationBound'
  <2>1. \A r \in Login : session'[r].state = "full" => session'[r].version <= session'[r].born
    BY <1>3, <1>4 DEF GenerationBound
  <2>2. \A q \in Caller : call[q].pc \in Accepted => call[q].login # s
    BY <1>5 DEF Created, Accepted, Refreshing
  <2>3. \A q \in Caller : call[q].pc \in Accepted => call[q].login \in Login
    BY DEF Created, Accepted, Refreshing, Owners, SessionTypes
  <2>4. \A a \in answered : a.login # s /\ a.login \in Login
    BY <1>5 DEF Created, SessionTypes, Reply
  <2> QED BY <1>4, <1>5, <2>1, <2>2, <2>3, <2>4 DEF GenerationBound, GenerationEnds
<1> QED BY <1>6, <1>7, <1>10, <1>11, <1>12

\* A TTL.
LEMMA ExpireStep ==
    ASSUME SessionInvariant, NEW s \in Login, Expire(s)
    PROVE  SessionInvariant'
<1> USE DEF SessionInvariant
<1>1. /\ session'[s] = [Absent EXCEPT !.born = session[s].born]
      /\ \A r \in Login : r # s => session'[r] = session[r]
      /\ session[s].born \in Nat
      /\ mapped' \subseteq mapped
      /\ UNCHANGED <<userVersion, owner, used, held, revoked, call, answered>>
    BY DEF Expire, SessionTypes, SessionRecord
<1>2. \A r \in Login : session'[r].born = session[r].born
    BY <1>1 DEF Absent
<1>3. session'[s].state = "none"
    BY <1>1 DEF Absent
<1>4. Owners' = Owners
    BY <1>1, SameOwners
<1>5. SessionTypes'
  <2>1. session' \in [Login -> SessionRecord]
    BY <1>1, Zenon DEF Expire, SessionTypes, SessionRecord, Absent
  <2> QED BY <1>1, <2>1 DEF SessionTypes
<1>6. Created'
    BY <1>1, <1>3, <1>4, Zenon DEF Created, Exists
<1>7. OneTokenPerSession'
    BY <1>1 DEF OneTokenPerSession, Holding
<1>8. LateIsRefused'
  <2>1. revoked \subseteq Login
    BY DEF Created, SessionTypes, Owners
  <2> QED BY <1>1, <1>3, <2>1, Zenon DEF LateIsRefused, RevokedStaysRevoked
<1>9. GenerationBound'
  <2>1. \A q \in Caller : call[q].pc \in Accepted => call[q].login \in Login
    BY DEF Created, Accepted, Refreshing, Owners, SessionTypes
  <2>2. \A a \in answered : a.login \in Login
    BY DEF SessionTypes, Reply
  <2> QED BY <1>1, <1>2, <1>3, <2>1, <2>2, Zenon DEF GenerationBound, GenerationEnds
<1> QED BY <1>5, <1>6, <1>7, <1>8, <1>9

\* GETDEL takes the only token of the session; a replay touches only the call.
LEMMA ClaimStep ==
    ASSUME SessionInvariant, NEW q \in Caller, NEW t \in held, Claim(q, t)
    PROVE  SessionInvariant'
<1> USE DEF SessionInvariant
<1>t. /\ call[q] \in CallRecord /\ Idle \in CallRecord
      /\ t \in 1 .. Len(owner) /\ owner[t] \in Login /\ owner[t] \in Owners /\ t \in Nat
    BY IdleTyped DEF SessionTypes, Owners
<1>u. UNCHANGED <<userVersion, session, owner, used, held, revoked, answered>>
    BY DEF Claim
<1>1. CASE Claimed(q, t)
  <2> DEFINE d == [Idle EXCEPT !.pc = "claimed", !.token = t, !.login = owner[t],
                               !.late = owner[t] \in revoked]
  <2>1. d.pc = "claimed" /\ d.login = owner[t] /\ d.late = (owner[t] \in revoked)
        /\ d.minted = 0 /\ d.marks = {}
    BY DEF Idle
  <2>2. d \in CallRecord
    <3>1. (owner[t] \in revoked) \in BOOLEAN
      OBVIOUS
    <3> QED BY <1>t, <3>1, Zenon DEF CallRecord, Stage, Refreshing
  <2>3. t \in mapped /\ mapped' = mapped \ {t} /\ call' = [call EXCEPT ![q] = d]
    BY <1>1 DEF Claimed
  <2> HIDE DEF d
  <2>4. call'[q] = d /\ \A r \in Caller : r # q => call'[r] = call[r]
    BY <2>3 DEF SessionTypes
  <2>5. SessionTypes'
    BY <1>u, <2>2, <2>3 DEF SessionTypes
  <2>6. Owners' = Owners /\ \A s \in Login : Exists(s)' = Exists(s)
    BY <1>u, SameOwners DEF Exists
  <2>7. Created'
    BY <1>t, <1>u, <2>1, <2>4, <2>6 DEF Created, Refreshing
  <2>8. Holding(owner[t]) = {} /\ \A k \in mapped : owner[k] = owner[t] => k = t
    BY <1>t, <2>3 DEF OneTokenPerSession
  <2>9. Holding(owner[t])' = {q} /\ \A s \in Login : s # owner[t] => Holding(s)' \subseteq Holding(s)
    BY <1>u, <2>1, <2>4, <2>8 DEF Holding
  <2>10. OneTokenPerSession'
    BY <1>u, <2>3, <2>8, <2>9 DEF OneTokenPerSession
  <2>11. LateIsRefused'
    BY <1>u, <2>1, <2>4, Zenon DEF LateIsRefused, RevokedStaysRevoked, Accepted
  <2>12. GenerationBound'
    BY <1>u, <2>1, <2>4 DEF GenerationBound, GenerationEnds, Accepted
  <2> QED BY <2>5, <2>7, <2>10, <2>11, <2>12
<1>2. CASE ~Claimed(q, t)
  <2> DEFINE d == [Idle EXCEPT !.pc = "family", !.login = owner[t]]
  <2>1. d \in CallRecord
    BY <1>t, Zenon DEF CallRecord, Stage
  <2>2. call' = [call EXCEPT ![q] = d] /\ UNCHANGED mapped
    BY <1>2 DEF Claim
  <2>3. userVersion' \in Nat /\ used' \subseteq Nat
    BY <1>u DEF SessionTypes
  <2> QED BY <1>t, <1>u, <2>1, <2>2, <2>3, CallStep, Zenon DEF Idle, Refreshing, Working, Accepted
<1> QED BY <1>1, <1>2

\* The rotation: the caller's claim is the only one, and no token is mapped.
LEMMA RotateStep ==
    ASSUME SessionInvariant, NEW q \in Caller, RotateWrite(q)
    PROVE  SessionInvariant'
<1> USE DEF SessionInvariant
<1> DEFINE n == Len(owner) + 1
           d == [call[q] EXCEPT !.pc = "marking", !.minted = n]
<1>s. PICK s \in Login : s = call[q].login
    BY DEF RotateWrite, At, SessionTypes, Created, Refreshing, Owners
<1>1. /\ call[q] \in CallRecord /\ call[q].pc = "rotating"
      /\ s \in Owners /\ s = call[q].login
    BY <1>s DEF RotateWrite, At, SessionTypes, Created, Refreshing, Owners
<1>2. /\ owner' \in Seq(Login) /\ Len(owner) \in Nat /\ Len(owner') = n
      /\ \A k \in 1 .. Len(owner) : owner'[k] = owner[k]
      /\ owner'[n] = s
      /\ Owners' = Owners
    BY <1>1, Minting, Zenon DEF RotateWrite, SessionTypes
<1>3. /\ call' = [call EXCEPT ![q] = d]
      /\ mapped' = (mapped \ {call[q].token}) \cup {n}
      /\ UNCHANGED <<userVersion, used, held, revoked, answered>>
    BY Zenon DEF RotateWrite
<1>4. d \in CallRecord /\ d.pc = "marking" /\ d.minted = n /\ d.login = s
      /\ d.marks = call[q].marks /\ d.late = call[q].late /\ d.version = call[q].version
  <2>1. n \in Nat /\ "marking" \in Stage
    BY <1>2 DEF Stage, Refreshing
  <2> HIDE DEF n
  <2> QED BY <1>1, <2>1, Zenon DEF CallRecord
<1> HIDE DEF d
<1>5. call'[q] = d /\ \A r \in Caller : r # q => call'[r] = call[r]
    BY <1>3 DEF SessionTypes
<1>6. /\ session'[s] = [session[s] EXCEPT !.state = Revive(s), !.hash = n,
                                          !.version = call[q].version]
      /\ \A r \in Login : r # s => session'[r] = session[r]
      /\ session' \in [Login -> SessionRecord]
  <2>1. session[s] \in SessionRecord /\ Revive(s) \in {"none", "full", "ghost"}
        /\ call[q].version \in Nat /\ n \in Nat
    BY <1>1, <1>2 DEF SessionTypes, SessionRecord, Revive, Exists, CallRecord
  <2>2. [session[s] EXCEPT !.state = Revive(s), !.hash = n, !.version = call[q].version]
           \in SessionRecord
    BY <2>1, Zenon DEF SessionRecord
  <2>3. session' = [session EXCEPT ![s] =
           [session[s] EXCEPT !.state = Revive(s), !.hash = n, !.version = call[q].version]]
    BY <1>1, Zenon DEF RotateWrite, Rotated
  <2> QED BY <1>1, <2>2, <2>3, Zenon DEF SessionTypes
<1>7. /\ session'[s].revoked = session[s].revoked /\ session'[s].born = session[s].born
      /\ session'[s].state = Revive(s) /\ session'[s].version = call[q].version
    BY <1>1, <1>6 DEF SessionTypes, SessionRecord
<1>8. \A r \in Login : session'[r].revoked = session[r].revoked
                     /\ session'[r].born = session[r].born
                     /\ (session'[r].state = "full" => session[r].state = "full")
    BY <1>6, <1>7, Zenon DEF Revive
<1>9. SessionTypes'
  <2>1. (mapped \ {call[q].token}) \in SUBSET (1 .. Len(owner)) /\ held \in SUBSET (1 .. Len(owner))
        /\ owner \in Seq(Login) /\ owner' = Append(owner, s)
    BY <1>1 DEF SessionTypes, RotateWrite
  <2>2. mapped' \subseteq 1 .. Len(owner') /\ held' \subseteq 1 .. Len(owner')
    BY <1>1, <1>3, <2>1, Minting, Zenon
  <2> QED BY <1>2, <1>3, <1>4, <1>6, <2>2 DEF SessionTypes
<1>10. Created'
  <2>1. \A r \in Login : Exists(r)' => r \in Owners
    BY <1>1, <1>6 DEF Created, Exists
  <2>2. \A r \in Caller : call[r].minted \in {0} \cup 1 .. Len(owner')
    BY <1>2 DEF Created
  <2>3. \A r \in Caller :
          /\ call'[r].pc \in Refreshing \cup {"revoke", "family"} => call'[r].login \in Owners
          /\ \A m \in call'[r].marks : m[1] \in Owners
          /\ call'[r].minted \in {0} \cup 1 .. Len(owner')
          /\ call'[r].pc = "answering" \/ call'[r].pc = "marking" => call'[r].minted # 0
    BY <1>1, <1>2, <1>4, <1>5, <2>2 DEF Created
  <2> QED BY <1>2, <1>3, <2>1, <2>3 DEF Created
<1>11. \A k \in mapped : k \in 1 .. Len(owner) /\ k # n /\ owner'[k] = owner[k]
    BY <1>2 DEF SessionTypes
<1>12. q \in Holding(s) /\ Holding(s) = {q}
    BY <1>1 DEF OneTokenPerSession, Holding
<1>13. \A k \in mapped : owner[k] # s
    BY <1>1, <1>12 DEF OneTokenPerSession
<1>14. Holding(s)' = {} /\ \A r \in Login : Holding(r)' \subseteq Holding(r)
    BY <1>4, <1>5, <1>12 DEF Holding
<1>15. OneTokenPerSession'
  <2> SUFFICES ASSUME NEW r \in Login
               PROVE  /\ \A k, l \in mapped' : owner'[k] = r /\ owner'[l] = r => k = l
                      /\ \A p, o \in Holding(r)' : p = o
                      /\ (\E k \in mapped' : owner'[k] = r) => Holding(r)' = {}
    BY DEF OneTokenPerSession
  <2>1. \A k \in mapped' : k = n \/ (k \in mapped /\ owner'[k] = owner[k])
    BY <1>3, <1>11
  <2>2. owner'[n] = s
    BY <1>2
  <2> HIDE DEF n
  <2>3. CASE r = s
    BY <1>13, <1>14, <2>1, <2>2, <2>3
  <2>4. CASE r # s
    BY <1>14, <2>1, <2>2, <2>4 DEF OneTokenPerSession
  <2> QED BY <2>3, <2>4
<1>16. ~call[q].late /\ call[q].version <= session[s].born
    BY <1>1 DEF LateIsRefused, GenerationBound, Accepted
<1>17. LateIsRefused'
  <2>1. revoked \subseteq Login
    BY DEF Created, SessionTypes, Owners
  <2> QED BY <1>3, <1>4, <1>5, <1>8, <1>16, <2>1 DEF LateIsRefused, RevokedStaysRevoked
<1>18. GenerationBound'
  <2>1. \A r \in Caller : call[r].pc \in Accepted => call[r].login \in Login
    BY DEF Created, Accepted, Refreshing, Owners, SessionTypes
  <2>2. \A a \in answered : a.login \in Login
    BY DEF SessionTypes, Reply
  <2>3. \A r \in Login : session'[r].state = "full" => session'[r].version <= session'[r].born
    BY <1>6, <1>7, <1>16, Zenon DEF GenerationBound
  <2>4. \A r \in Caller : call'[r].pc \in Accepted =>
                              call'[r].version <= session'[call'[r].login].born
    BY <1>1, <1>4, <1>5, <1>8, <1>16, <2>1 DEF GenerationBound
  <2> QED BY <1>3, <1>8, <2>2, <2>3, <2>4 DEF GenerationBound, GenerationEnds
<1> QED BY <1>9, <1>10, <1>15, <1>17, <1>18

\* The answer carries the generation the rotation stored.
LEMMA IssueStep ==
    ASSUME SessionInvariant, NEW q \in Caller, IssueTokens(q)
    PROVE  SessionInvariant'
<1> USE DEF SessionInvariant
<1> DEFINE a == [login |-> call[q].login, version |-> call[q].version, late |-> call[q].late]
<1>1. /\ call[q] \in CallRecord /\ call[q].pc = "answering"
      /\ call[q].login \in Owners /\ call[q].login \in Login
      /\ call[q].minted \in 1 .. Len(owner)
    BY DEF IssueTokens, At, SessionTypes, Created, Refreshing, Owners
<1>2. /\ held' = held \cup {call[q].minted} /\ answered' = answered \cup {a}
      /\ call' = [call EXCEPT ![q] = Idle]
      /\ UNCHANGED <<userVersion, session, owner, mapped, used, revoked>>
    BY Zenon DEF IssueTokens, Return
<1>3. ~call[q].late /\ call[q].version <= session[call[q].login].born
    BY <1>1 DEF LateIsRefused, GenerationBound, Accepted
<1>4. a \in Reply /\ a.login = call[q].login /\ a.late = call[q].late
      /\ a.version = call[q].version
    BY <1>1 DEF Reply, CallRecord
<1> HIDE DEF a
<1>5. call'[q] = Idle /\ \A r \in Caller : r # q => call'[r] = call[r]
    BY <1>2 DEF SessionTypes
<1>6. SessionTypes'
    BY <1>1, <1>2, <1>4, IdleTyped, Zenon DEF SessionTypes
<1>7. Owners' = Owners /\ \A s \in Login : Exists(s)' = Exists(s)
    BY <1>2, SameOwners, Zenon DEF Exists
<1>8. Created'
    BY <1>1, <1>2, <1>4, <1>5, <1>7 DEF Created, Idle, Refreshing
<1>9. \A s \in Login : Holding(s)' \subseteq Holding(s)
    BY <1>5 DEF Holding, Idle
<1>10. OneTokenPerSession'
    BY <1>2, <1>9, ZenonT(60) DEF OneTokenPerSession
<1>11. LateIsRefused'
    BY <1>2, <1>3, <1>4, <1>5 DEF LateIsRefused, RevokedStaysRevoked, Idle, Accepted
<1>12. GenerationBound'
    BY <1>2, <1>3, <1>4, <1>5 DEF GenerationBound, GenerationEnds, Idle, Accepted
<1> QED BY <1>6, <1>8, <1>10, <1>11, <1>12

\* A revocation marks sessions and unmaps tokens, never the reverse.
LEMMA RevokeStep ==
    ASSUME SessionInvariant, NEW q \in Caller, RevokeWrite(q)
    PROVE  SessionInvariant'
<1> USE DEF SessionInvariant
<1> DEFINE seen == {m[1] : m \in call[q].marks}
           live == {s \in seen : Exists(s)}
<1>1. PICK ghosts \in {{}, seen \ live} :
          /\ session' = [s \in Login |->
                IF s \in live \cup ghosts
                   THEN [session[s] EXCEPT !.revoked = TRUE, !.state = Revive(s)]
                   ELSE session[s]]
          /\ revoked' = revoked \cup live \cup ghosts
    BY ZenonT(30) DEF RevokeWrite
<1>2. seen \subseteq Owners /\ live \subseteq seen /\ ghosts \subseteq seen
      /\ Owners \subseteq Login
    BY DEF Created, SessionTypes, Owners
<1>3. /\ mapped' \subseteq mapped /\ call' = [call EXCEPT ![q] = Idle]
      /\ UNCHANGED <<userVersion, owner, used, held, answered>>
    BY Zenon DEF RevokeWrite, Return
<1> DEFINE hit == live \cup ghosts
<1>4. hit \subseteq Owners /\ revoked' = revoked \cup hit
    BY <1>1, <1>2, Zenon
<1>5. \A s \in Login : session'[s] = IF s \in hit
                   THEN [session[s] EXCEPT !.revoked = TRUE, !.state = Revive(s)]
                   ELSE session[s]
    BY <1>1, Zenon
<1> HIDE DEF seen, live, hit
<1>6. /\ session' \in [Login -> SessionRecord]
      /\ \A s \in Login :
            /\ session'[s].born = session[s].born
            /\ session'[s].version = session[s].version
            /\ session'[s].state = "full" => session[s].state = "full"
            /\ session[s].revoked => session'[s].revoked
            /\ s \in hit => session'[s].revoked
            /\ s \notin hit => session'[s] = session[s]
  <2>1. \A s \in Login : session[s] \in SessionRecord /\ Revive(s) \in {"none", "full", "ghost"}
                       /\ (Revive(s) = "full" => session[s].state = "full")
    BY DEF SessionTypes, SessionRecord, Revive, Exists
  <2>2. ASSUME NEW s \in Login
        PROVE  /\ session'[s] \in SessionRecord
               /\ session'[s].born = session[s].born
               /\ session'[s].version = session[s].version
               /\ session'[s].state = "full" => session[s].state = "full"
               /\ session[s].revoked => session'[s].revoked
               /\ s \in hit => session'[s].revoked
               /\ s \notin hit => session'[s] = session[s]
    <3>1. CASE s \in hit
      <4>1. session'[s] = [session[s] EXCEPT !.revoked = TRUE, !.state = Revive(s)]
        BY <1>5, <3>1, Zenon
      <4>2. session[s] \in SessionRecord /\ Revive(s) \in {"none", "full", "ghost"}
            /\ (Revive(s) = "full" => session[s].state = "full")
        BY <2>1
      <4> QED BY <3>1, <4>1, <4>2, Zenon DEF SessionRecord
    <3>2. CASE s \notin hit
      <4>1. session'[s] = session[s]
        BY <1>5, <3>2, Zenon
      <4> QED BY <2>1, <3>2, <4>1
    <3> QED BY <3>1, <3>2
  <2>3. session' = [s \in Login |-> session'[s]]
    BY <1>1, Zenon
  <2> QED BY <2>2, <2>3
<1>7. call'[q] = Idle /\ \A r \in Caller : r # q => call'[r] = call[r]
    BY <1>3 DEF SessionTypes
<1>8. SessionTypes'
    BY <1>3, <1>6, IdleTyped DEF SessionTypes
<1>9. Owners' = Owners
    BY <1>3, SameOwners, Zenon
<1>10. Created'
  <2>1. \A s \in Login : Exists(s)' => s \in Owners
    BY <1>4, <1>6 DEF Created, Exists
  <2> QED BY <1>3, <1>4, <1>7, <1>9, <2>1 DEF Created, Idle, Refreshing
<1>11. \A s \in Login : Holding(s)' \subseteq Holding(s)
    BY <1>7 DEF Holding, Idle
<1>12. OneTokenPerSession'
    BY <1>3, <1>11, Zenon DEF OneTokenPerSession
<1>13. LateIsRefused'
  <2>1. revoked \subseteq Login /\ hit \subseteq Login
    BY <1>2, <1>4, Zenon DEF Created
  <2> QED BY <1>3, <1>4, <1>6, <1>7, <2>1 DEF LateIsRefused, RevokedStaysRevoked, Idle, Accepted
<1>14. GenerationBound'
  <2>1. \A r \in Caller : call[r].pc \in Accepted => call[r].login \in Login
    BY <1>2 DEF Created, Accepted, Refreshing
  <2>2. \A a \in answered : a.login \in Login
    BY DEF SessionTypes, Reply
  <2> QED BY <1>3, <1>6, <1>7, <2>1, <2>2 DEF GenerationBound, GenerationEnds, Idle, Accepted
<1> QED BY <1>8, <1>10, <1>12, <1>13, <1>14
-----------------------------------------------------------------------------
LEMMA StepInvariant == SessionInvariant /\ [SessionsNext]_sessionVars => SessionInvariant'
<1> SUFFICES ASSUME SessionInvariant, [SessionsNext]_sessionVars PROVE SessionInvariant'
    OBVIOUS
<1>1. CASE \E s \in Login : CreateSession(s) \/ Expire(s)
    BY <1>1, CreateStep, ExpireStep
<1>2. ASSUME NEW q \in Caller, RefreshStep(q) PROVE SessionInvariant'
    BY <1>2, ClaimStep, RequestMoves, RotateStep, IssueStep DEF RefreshStep
<1>3. ASSUME NEW q \in Caller, LogoutStep(q) PROVE SessionInvariant'
    BY <1>3, RequestMoves, RevokeStep DEF LogoutStep
<1>4. CASE UNCHANGED sessionVars
  <2> USE <1>4 DEF sessionVars
  <2>1. SessionTypes'
    BY DEF SessionInvariant, SessionTypes
  <2>2. Created'
    BY DEF SessionInvariant, Created, Owners, Exists
  <2>3. OneTokenPerSession'
    BY DEF SessionInvariant, OneTokenPerSession, Holding
  <2>4. LateIsRefused'
    BY DEF SessionInvariant, LateIsRefused, RevokedStaysRevoked
  <2>5. GenerationBound'
    BY DEF SessionInvariant, GenerationBound, GenerationEnds
  <2> QED BY <2>1, <2>2, <2>3, <2>4, <2>5 DEF SessionInvariant
<1> QED BY <1>1, <1>2, <1>3, <1>4 DEF SessionsNext

\* claim_session_by_token lets one refresh at a time into a session: at most
\* one token of it is claimable, and none while a claim is being rotated.
THEOREM OneClaimAtATime == SessionsSpec => []OneTokenPerSession
<1>1. SessionInvariant => OneTokenPerSession
    BY DEF SessionInvariant
<1> QED BY <1>1, InitInvariant, StepInvariant, PTL DEF SessionsSpec

\* No refresh that claims its token after the revocation is answered.
THEOREM RevocationHolds == SessionsSpec => []RevokedStaysRevoked
<1>1. SessionInvariant => RevokedStaysRevoked
    BY DEF SessionInvariant, LateIsRefused
<1> QED BY <1>1, InitInvariant, StepInvariant, PTL DEF SessionsSpec

\* No refresh crosses the generation its session was created under.
THEOREM GenerationHolds == SessionsSpec => []GenerationEnds
<1>1. SessionInvariant => GenerationEnds
    BY DEF SessionInvariant, GenerationBound
<1> QED BY <1>1, InitInvariant, StepInvariant, PTL DEF SessionsSpec
=============================================================================

------------------------------ MODULE Sessions ------------------------------
(***************************************************************************)
(* Refresh sessions of the admin service for one user                       *)
(* (services/admin/app/session_store.py and auth/).  A session is a Redis   *)
(* hash; a key per refresh token maps the token's hash to its session; a    *)
(* tombstone remembers every token that was rotated away.  Each Redis       *)
(* command (or MULTI pipeline) is one step, so refreshes, logouts and the   *)
(* expiry of a key interleave between any two of them.                      *)
(*                                                                         *)
(* Tokens are numbered in the order they are minted: token k belongs to     *)
(* session owner[k].                                                        *)
(***************************************************************************)
EXTENDS Integers, Sequences, FiniteSets

CONSTANTS
    Login,          \* the user's sessions (one per login, its own family)
    Caller,         \* requests in flight against the auth routers
    MaxTokens,      \* bound: refresh tokens ever minted
    MaxVersion      \* bound: logout-all calls

ASSUME SessionsAssumption ==
    MaxTokens \in Nat /\ MaxVersion \in Nat /\ IsFiniteSet(Login)

VARIABLES
    userVersion,    \* users.token_version
    session,        \* session:{id} of each login
    owner,          \* the session each token was minted for
    mapped,         \* tokens with a token_hash:{hash} key
    used,           \* tokens with a used_token tombstone
    held,           \* tokens a response has given to the client
    revoked,        \* sessions some completed write has marked revoked
    call,           \* each caller's request
    answered        \* the successful refresh responses

sessionVars ==
    <<userVersion, session, owner, mapped, used, held, revoked, call, answered>>

Token == 1 .. MaxTokens

\* A session's hash.  "ghost" is a hash that hset re-created after the key
\* expired: it lacks the fields from_redis_hash needs.
Absent == [state |-> "none", revoked |-> FALSE, hash |-> 0, version |-> 0, born |-> 0]

Idle == [pc |-> "idle", token |-> 0, login |-> 0, version |-> 0,
         late |-> FALSE, minted |-> 0, marks |-> {}]

SessionsInit ==
    /\ userVersion = 0
    /\ session = [s \in Login |-> Absent]
    /\ owner = <<>>
    /\ mapped = {} /\ used = {} /\ held = {} /\ revoked = {}
    /\ call = [q \in Caller |-> Idle]
    /\ answered = {}

Exists(s) == session[s].state # "none"

\* The sessions that were ever created.
Owners == {owner[k] : k \in DOMAIN owner}

\* HSET creates the key when it is gone.
Revive(s) == IF Exists(s) THEN session[s].state ELSE "ghost"

At(q, pc) == call[q].pc = pc

Return(q) == call' = [call EXCEPT ![q] = Idle]

-----------------------------------------------------------------------------
\* create_session: one pipeline writes the hash and the token's key.  The
\* version it stores was read from the user row at some earlier moment.
CreateSession(s) ==
    /\ s \notin Owners
    /\ Len(owner) < MaxTokens
    /\ \E v \in 0 .. userVersion :
          session' = [session EXCEPT ![s] =
              [state |-> "full", revoked |-> FALSE, hash |-> Len(owner) + 1,
               version |-> v, born |-> v]]
    /\ owner' = Append(owner, s)
    /\ mapped' = mapped \cup {Len(owner) + 1}
    /\ held' = held \cup {Len(owner) + 1}
    /\ UNCHANGED <<userVersion, used, revoked, call, answered>>

\* The TTL of the session key and of its token's key elapse.
Expire(s) ==
    /\ session[s].state = "full"
    /\ session' = [session EXCEPT ![s] = [Absent EXCEPT !.born = session[s].born]]
    /\ mapped' = {k \in mapped : owner[k] # s}
    /\ UNCHANGED <<userVersion, owner, used, held, revoked, call, answered>>

-----------------------------------------------------------------------------
\* POST /refresh, first command: GETDEL of the token's key.
Claimed(q, t) ==
    /\ t \in mapped
    /\ mapped' = mapped \ {t}
    /\ call' = [call EXCEPT ![q] =
          [Idle EXCEPT !.pc = "claimed", !.token = t, !.login = owner[t],
                       !.late = owner[t] \in revoked]]

MutClaimWithGet(q, t) ==
    /\ At(q, "idle") /\ t \in held /\ t \in mapped
    /\ call' = [call EXCEPT ![q] =
          [Idle EXCEPT !.pc = "claimed", !.token = t, !.login = owner[t],
                       !.late = owner[t] \in revoked]]
    /\ UNCHANGED <<userVersion, session, owner, mapped, used, held, revoked, answered>>

\* A token whose key is gone: 401, unless its tombstone is there and its
\* session can be read, in which case the whole family is to be revoked.
Claim(q, t) ==
    /\ At(q, "idle") /\ t \in held
    /\ \/ Claimed(q, t)
       \/ /\ t \notin mapped /\ t \in used
          /\ session[owner[t]].state = "full"
          /\ call' = [call EXCEPT ![q] =
                [Idle EXCEPT !.pc = "family", !.login = owner[t]]]
          /\ UNCHANGED mapped
    /\ UNCHANGED <<userVersion, session, owner, used, held, revoked, answered>>

\* get_session after the claim, then the checks in their order: no session or
\* an unreadable hash, revoked, idle too long, and the generation check
\* against the user row.  Whatever fails, the claimed token is already gone.
Refuse(q) ==
    /\ At(q, "claimed")
    /\ LET s == session[call[q].login] IN
          s.state # "full" \/ s.revoked \/ s.version < userVersion
    /\ Return(q)
    /\ UNCHANGED <<userVersion, session, owner, mapped, used, held, revoked, answered>>

TimeOutIdle(q) ==
    /\ At(q, "claimed")
    /\ LET s == session[call[q].login] IN s.state = "full" /\ ~s.revoked
    /\ call' = [call EXCEPT ![q] = [Idle EXCEPT !.pc = "revoke", !.login = call[q].login]]
    /\ UNCHANGED <<userVersion, session, owner, mapped, used, held, revoked, answered>>

MutNoGenerationCheck(q) ==
    /\ At(q, "claimed")
    /\ LET s == session[call[q].login] IN s.state = "full" /\ ~s.revoked
    /\ call' = [call EXCEPT ![q].pc = "checking", ![q].version = userVersion]
    /\ UNCHANGED <<userVersion, session, owner, mapped, used, held, revoked, answered>>

Accept(q) ==
    /\ At(q, "claimed")
    /\ LET s == session[call[q].login] IN
          s.state = "full" /\ ~s.revoked /\ s.version >= userVersion
    /\ call' = [call EXCEPT ![q].pc = "checking", ![q].version = userVersion]
    /\ UNCHANGED <<userVersion, session, owner, mapped, used, held, revoked, answered>>

\* update_session: EXISTS first (False becomes 401) ...
RotateCheck(q) ==
    /\ At(q, "checking")
    /\ IF Exists(call[q].login)
          THEN call' = [call EXCEPT ![q].pc = "rotating"]
          ELSE Return(q)
    /\ UNCHANGED <<userVersion, session, owner, mapped, used, held, revoked, answered>>

MutRotationRevives(q) ==
    [session EXCEPT ![call[q].login].state = Revive(call[q].login),
                    ![call[q].login].revoked = FALSE,
                    ![call[q].login].hash = Len(owner) + 1,
                    ![call[q].login].version = call[q].version]

\* ... then the pipeline: the new hash and version, the old key dropped, the
\* new key set.  is_revoked is not among the fields it writes.
Rotated(q) ==
    [session EXCEPT ![call[q].login].state = Revive(call[q].login),
                    ![call[q].login].hash = Len(owner) + 1,
                    ![call[q].login].version = call[q].version]

RotateWrite(q) ==
    /\ At(q, "rotating")
    /\ Len(owner) < MaxTokens
    /\ session' = Rotated(q)
    /\ owner' = Append(owner, call[q].login)
    /\ mapped' = (mapped \ {call[q].token}) \cup {Len(owner) + 1}
    /\ call' = [call EXCEPT ![q].pc = "marking", ![q].minted = Len(owner) + 1]
    /\ UNCHANGED <<userVersion, used, held, revoked, answered>>

\* mark_token_used.
MarkUsed(q) ==
    /\ At(q, "marking")
    /\ used' = used \cup {call[q].token}
    /\ call' = [call EXCEPT ![q].pc = "answering"]
    /\ UNCHANGED <<userVersion, session, owner, mapped, held, revoked, answered>>

\* The membership check passed: both tokens go out.
IssueTokens(q) ==
    /\ At(q, "answering")
    /\ held' = held \cup {call[q].minted}
    /\ answered' = answered \cup
          {[login |-> call[q].login, version |-> call[q].version, late |-> call[q].late]}
    /\ Return(q)
    /\ UNCHANGED <<userVersion, session, owner, mapped, used, revoked>>

\* A store error, a lost membership, a dropped connection or a crash: the
\* request ends where it is and nothing is rolled back in Redis.
Abort(q) ==
    /\ ~At(q, "idle")
    /\ Return(q)
    /\ UNCHANGED <<userVersion, session, owner, mapped, used, held, revoked, answered>>

-----------------------------------------------------------------------------
\* DELETE /sessions/{id} and /logout: get_session must read a whole hash.
Logout(q, s) ==
    /\ At(q, "idle")
    /\ session[s].state = "full"
    /\ call' = [call EXCEPT ![q] = [Idle EXCEPT !.pc = "revoke", !.login = s]]
    /\ UNCHANGED <<userVersion, session, owner, mapped, used, held, revoked, answered>>

\* revoke_session and revoke_all_for_family read the hash before they write:
\* the token they will unmap is the one they saw here.  A family sweep skips
\* a session that is revoked already.
RevokeRead(q) ==
    /\ At(q, "revoke") \/ At(q, "family")
    /\ LET s == call[q].login IN
          IF ~Exists(s) \/ (At(q, "family") /\ session[s].revoked)
             THEN Return(q)
             ELSE call' = [call EXCEPT ![q].pc = "writing",
                                       ![q].marks = {<<s, session[s].hash>>}]
    /\ UNCHANGED <<userVersion, session, owner, mapped, used, held, revoked, answered>>

\* POST /logout-all: the version is bumped and committed first; a call that
\* read it before another one committed writes the same number again, and
\* /logout of a bearer without a session id goes straight to the sweep.
LogoutAll(q) ==
    /\ At(q, "idle")
    /\ userVersion' \in {userVersion, userVersion + 1} /\ userVersion' <= MaxVersion
    /\ call' = [call EXCEPT ![q] = [Idle EXCEPT !.pc = "listing"]]
    /\ UNCHANGED <<session, owner, mapped, used, held, revoked, answered>>

\* ... then the user's sessions are listed; a ghost makes the listing raise.
List(q) ==
    /\ At(q, "listing")
    /\ IF \E s \in Login : session[s].state = "ghost"
          THEN Return(q)
          ELSE call' = [call EXCEPT ![q].pc = "writing", ![q].marks =
                  {<<s, session[s].hash>> : s \in
                      {r \in Login : Exists(r) /\ ~session[r].revoked}}]
    /\ UNCHANGED <<userVersion, session, owner, mapped, used, held, revoked, answered>>

\* The write: is_revoked on every session read, and the keys read with them.
\* A session that expired since is re-created as a ghost, unless the write
\* checks that it exists.
RevokeWrite(q) ==
    /\ At(q, "writing")
    /\ LET seen == {m[1] : m \in call[q].marks}
           live == {s \in seen : Exists(s)} IN
       \E ghosts \in {{}, seen \ live} :
          /\ session' = [s \in Login |->
                IF s \in live \cup ghosts
                   THEN [session[s] EXCEPT !.revoked = TRUE, !.state = Revive(s)]
                   ELSE session[s]]
          /\ revoked' = revoked \cup live \cup ghosts
    /\ mapped' = mapped \ {m[2] : m \in call[q].marks}
    /\ Return(q)
    /\ UNCHANGED <<userVersion, owner, used, held, answered>>

-----------------------------------------------------------------------------
RefreshStep(q) ==
    \/ \E t \in held : Claim(q, t)
    \/ Refuse(q) \/ TimeOutIdle(q) \/ Accept(q)
    \/ RotateCheck(q) \/ RotateWrite(q) \/ MarkUsed(q) \/ IssueTokens(q) \/ Abort(q)

LogoutStep(q) ==
    \/ \E s \in Login : Logout(q, s)
    \/ RevokeRead(q) \/ LogoutAll(q) \/ List(q) \/ RevokeWrite(q)

SessionsNext ==
    \/ \E s \in Login : CreateSession(s) \/ Expire(s)
    \/ \E q \in Caller : RefreshStep(q) \/ LogoutStep(q)

SessionsSpec == SessionsInit /\ [][SessionsNext]_sessionVars

-----------------------------------------------------------------------------
\* The refreshes that hold a claim on a session and have not rotated it yet.
Holding(s) ==
    {q \in Caller : call[q].login = s /\ call[q].pc \in {"claimed", "checking", "rotating"}}

\* However refreshes of one session interleave (claim_session_by_token is
\* the only gate), at most one of them is between its claim and its rotation,
\* and while one is, no token of that session can be claimed; otherwise at
\* most one can.
OneTokenPerSession ==
    \A s \in Login :
        /\ \A k, l \in mapped : owner[k] = s /\ owner[l] = s => k = l
        /\ \A q, r \in Holding(s) : q = r
        /\ (\E k \in mapped : owner[k] = s) => Holding(s) = {}

\* A refresh that claims its token after a session was marked revoked never
\* gets tokens back, even when another refresh, in flight over the
\* revocation, has since rotated the session and mapped a new token.
RevokedStaysRevoked == \A a \in answered : ~a.late

\* A refresh never hands out a token of a later generation than the one its
\* session was created under, so what logout-all cut off stays cut off even
\* when its Redis sweep fails, misses a rotation or races one.
GenerationEnds == \A a \in answered : a.version <= session[a.login].born
=============================================================================

---------------------------- MODULE Remediation ----------------------------
(***************************************************************************)
(* Supplier remediation (services/ingestion/app/remediation): a blocked    *)
(* row of a manifest becomes a case, the buyer mints a correction link for *)
(* it, the supplier exchanges the link for a session and submits patches,  *)
(* and the record is validated again and released.                         *)
(*                                                                         *)
(* A request is one transaction in READ COMMITTED: it reads in one step    *)
(* and commits in a later one, and what it read may be stale by then.      *)
(***************************************************************************)
EXTENDS Naturals, Sequences

CONSTANTS
  Record,    \* rows of the manifests
  Field,     \* the fields a case allows the supplier to correct
  Row,       \* the payloads rows are staged with: functions on Field
  Change,    \* the corrections suppliers send: functions on some of Field
  Normal,    \* the value the coercions make of each value
  Request,   \* requests the service handles at the same time
  MaxLinks,  \* bound: links the buyer mints
  MaxPatches \* bound: patches of a case

\* what a record may hold: a value the coercions take for every field
Payload == [Field -> DOMAIN Normal]

ASSUME RemediationAssumption ==
  /\ Row \subseteq Payload
  /\ \A v \in DOMAIN Normal : Normal[v] \in DOMAIN Normal
  /\ \A changes \in Change : \A f \in DOMAIN changes : changes[f] \in DOMAIN Normal

VARIABLES
  record,     \* manifest_records: payload, validation and release
  caseStatus, \* remediation_cases.status, "none" without a case
  exception,  \* exception_cases.status of the case
  mirrorLost, \* a best-effort write of the mirror failed
  patches,    \* correction_patches of the case, in the order of patch_seq
  token,      \* remediation_tokens, in the order they were minted
  mail,       \* notification_outbox: the rows that have a recipient; stale is the
              \* claim's age, links the tokens whose links were mailed
  request     \* the requests between their reads and their commit

manifestVars == <<record, caseStatus, exception, mirrorLost, patches>>
remediationVars == <<manifestVars, token, mail, request>>

NoRecord == [payload |-> <<>>, validation |-> "none", release |-> "none", from |-> <<>>]
NoRequest == [pc |-> "idle"]

RemediationInit ==
  /\ record = [r \in Record |-> NoRecord]
  /\ caseStatus = [r \in Record |-> "none"]
  /\ exception = [r \in Record |-> "none"]
  /\ mirrorLost = [r \in Record |-> FALSE]
  /\ patches = [r \in Record |-> <<>>]
  /\ token = <<>> /\ mail = <<>>
  /\ request = [q \in Request |-> NoRequest]

AllowedTransitions ==
  [detected |-> {"auto_resolution_attempted", "supplier_action_required"},
   auto_resolution_attempted |-> {"supplier_action_required", "released"},
   supplier_action_required |-> {"notification_ready", "escalated"},
   notification_ready |-> {"awaiting_supplier"},
   awaiting_supplier |-> {"correction_submitted", "escalated", "notification_ready"},
   correction_submitted |-> {"revalidating"},
   revalidating |-> {"released", "buyer_review"},
   buyer_review |-> {"notification_ready", "released", "escalated"},
   released |-> {},
   escalated |-> {"notification_ready"}]

ExceptionMirror ==
  [notification_ready |-> "awaiting_supplier", awaiting_supplier |-> "awaiting_supplier",
   correction_submitted |-> "awaiting_supplier", revalidating |-> "awaiting_supplier",
   buyer_review |-> "in_review", escalated |-> "in_review"]

Closed == {"resolved", "waived"}

(***************************************************************************)
(* transition along a path of statuses, in one transaction: every step is  *)
(* allowed and the UPDATE still finds the case where the request read it.  *)
(* The mirror of the last status is written unless the exception case is   *)
(* closed; when that write fails the transition stands.                    *)
(***************************************************************************)
MutMirrorsFirstStatus(r, path, closing) ==
  LET mirrored == IF exception[r] \in Closed THEN exception[r] ELSE ExceptionMirror[path[2]]
  IN /\ caseStatus[r] = path[1]
     /\ \A k \in 1..(Len(path) - 1) : path[k + 1] \in AllowedTransitions[path[k]]
     /\ caseStatus' = [caseStatus EXCEPT ![r] = path[Len(path)]]
     /\ exception' = [exception EXCEPT ![r] = mirrored]
     /\ UNCHANGED mirrorLost

Transition(r, path, closing) ==
  LET last == path[Len(path)]
      mirrored == IF exception[r] \in Closed THEN exception[r]
                  ELSE IF closing THEN "resolved"
                  ELSE IF last \in DOMAIN ExceptionMirror THEN ExceptionMirror[last]
                  ELSE exception[r]
  IN /\ caseStatus[r] = path[1]
     /\ \A k \in 1..(Len(path) - 1) : path[k + 1] \in AllowedTransitions[path[k]]
     /\ caseStatus' = [caseStatus EXCEPT ![r] = last]
     /\ \/ exception' = [exception EXCEPT ![r] = mirrored] /\ UNCHANGED mirrorLost
        \/ mirrorLost' = [mirrorLost EXCEPT ![r] = TRUE] /\ UNCHANGED exception

\* a request ends, with its transaction rolled back unless it committed
Answer(q) == request' = [request EXCEPT ![q] = NoRequest]

Abandon(q) ==
  /\ request[q].pc # "idle"
  /\ Answer(q)
  /\ UNCHANGED <<manifestVars, token, mail>>
-----------------------------------------------------------------------------
(***************************************************************************)
(* ingest_manifest: a row is staged with the verdict of the rules; when    *)
(* they block it, _open_case opens the exception case and the remediation  *)
(* case and moves it on.                                                   *)
(***************************************************************************)
IngestRow(r, payload, blocking) ==
  /\ record[r] = NoRecord
  /\ record' = [record EXCEPT ![r] =
       [payload |-> payload, from |-> payload, release |-> "staged",
        validation |-> IF blocking THEN "failed" ELSE "passed"]]
  /\ caseStatus' = [caseStatus EXCEPT
       ![r] = IF blocking THEN "supplier_action_required" ELSE "none"]
  /\ exception' = [exception EXCEPT ![r] = IF blocking THEN "open" ELSE "none"]
  /\ UNCHANGED <<mirrorLost, patches, token, mail, request>>

\* assign_owner; resolve_exception and waive_exception, by the buyer
AssignOwner(r) ==
  /\ exception[r] = "open"
  /\ exception' = [exception EXCEPT ![r] = "in_review"]
  /\ UNCHANGED <<record, caseStatus, mirrorLost, patches, token, mail, request>>

CloseException(r, outcome) ==
  /\ exception[r] \notin Closed \cup {"none"}
  /\ exception' = [exception EXCEPT ![r] = outcome]
  /\ UNCHANGED <<record, caseStatus, mirrorLost, patches, token, mail, request>>
-----------------------------------------------------------------------------
\* tokens.py
Unrevoked(r) == {t \in DOMAIN token : token[t].case = r /\ ~token[t].revoked}
LiveLink(t) == ~token[t].revoked /\ ~token[t].expired

(***************************************************************************)
(* revoke_tokens_for_case and issue_token in one transaction: the UPDATE   *)
(* reaches the rows of its statement snapshot that are still unrevoked,    *)
(* and ends the sessions they carry.                                       *)
(***************************************************************************)
Revoked(t) == [t EXCEPT !.revoked = TRUE, !.session = "none"]

Reissue(r, snapshot, superseded, expired) ==
  token' = Append(
    [t \in DOMAIN token |->
       LET kept == IF t \in snapshot THEN Revoked(token[t]) ELSE token[t]
       IN IF t \in superseded THEN [kept EXCEPT !.superseded = TRUE] ELSE kept],
    [case |-> r, revoked |-> FALSE, superseded |-> FALSE, expired |-> expired,
     exchanged |-> FALSE, session |-> "none"])

(***************************************************************************)
(* create_link: the case is read; the statement that revokes takes its     *)
(* snapshot; the commit moves the case on, unless it is a reissue while    *)
(* the case already awaits the supplier, and enqueues the notification.    *)
(***************************************************************************)
LinkPath(status) == <<status, "notification_ready", "awaiting_supplier">>

LinkRead(q, r) ==
  /\ request[q].pc = "idle" /\ Len(mail) < MaxLinks
  /\ caseStatus[r] \in {"supplier_action_required", "buyer_review", "escalated",
                        "awaiting_supplier"}
  /\ request' = [request EXCEPT ![q] = [pc |-> "linking", case |-> r, status |-> caseStatus[r]]]
  /\ UNCHANGED <<manifestVars, token, mail>>

LinkRevoke(q) ==
  /\ request[q].pc = "linking"
  /\ request' = [request EXCEPT ![q] =
       [pc |-> "minting", case |-> @.case, status |-> @.status,
        snapshot |-> Unrevoked(@.case)]]
  /\ UNCHANGED <<manifestVars, token, mail>>

LinkCommit(q) ==
  LET r == request[q].case
      hit == {t \in request[q].snapshot : ~token[t].revoked}
  IN /\ request[q].pc = "minting" /\ Len(mail) < MaxLinks
     /\ IF request[q].status = "awaiting_supplier"
          THEN UNCHANGED <<caseStatus, exception, mirrorLost>>
          ELSE Transition(r, LinkPath(request[q].status), FALSE)
     /\ \E first \in IF hit = {} THEN {{}} ELSE {{t} : t \in hit} :
          Reissue(r, hit, first, FALSE)
     /\ mail' = Append(mail, [case |-> r, token |-> Len(token) + 1, status |-> "queued",
                              attempts |-> 0, stale |-> FALSE, links |-> {}])
     /\ Answer(q)
     /\ UNCHANGED <<record, patches>>

\* revoke_link
RevokeLink(r) ==
  /\ Unrevoked(r) # {}
  /\ token' = [t \in DOMAIN token |->
                 IF t \in Unrevoked(r) THEN Revoked(token[t]) ELSE token[t]]
  /\ UNCHANGED <<manifestVars, mail, request>>

\* time passes: a link that still works, or a session, runs out
ExpireLink(t) ==
  /\ LiveLink(t)
  /\ token' = [token EXCEPT ![t].expired = TRUE]
  /\ UNCHANGED <<manifestVars, mail, request>>

ExpireSession(t) ==
  /\ token[t].session = "live"
  /\ token' = [token EXCEPT ![t].session = "over"]
  /\ UNCHANGED <<manifestVars, mail, request>>

\* exchange_for_session: the guarded UPDATE lets one exchange through
Exchange(t) ==
  /\ LiveLink(t) /\ ~token[t].exchanged
  /\ token' = [token EXCEPT ![t].exchanged = TRUE, ![t].session = "live"]
  /\ UNCHANGED <<manifestVars, mail, request>>
-----------------------------------------------------------------------------
(***************************************************************************)
(* submit_correction: the session, the case, the record and the tail of    *)
(* the patch chain are read ...                                            *)
(***************************************************************************)
SubmitRead(q, t) ==
  LET r == token[t].case IN
  /\ request[q].pc = "idle"
  /\ LiveLink(t) /\ token[t].session = "live"
  /\ caseStatus[r] = "awaiting_supplier"
  /\ request' = [request EXCEPT ![q] =
       [pc |-> "submitting", case |-> r, payload |-> record[r].payload,
        tail |-> Len(patches[r])]]
  /\ UNCHANGED <<manifestVars, token, mail>>

(***************************************************************************)
(* ... and one transaction inserts a patch per changed field (patch_seq is *)
(* unique in the case), writes the record with the patches applied to the  *)
(* payload that was read, moves the case on, and releases the record or    *)
(* hands it to the buyer, as the rules decide.                             *)
(***************************************************************************)
Overlay(payload, changes) ==
  [f \in Field |-> IF f \in DOMAIN changes THEN changes[f] ELSE payload[f]]

\* the coercions of revalidate_record: numbers, units and dates
Normalised(payload) == [f \in Field |-> Normal[payload[f]]]

Corrected(payload, changes) == Normalised(Overlay(payload, changes))

SubmitPath(blocking) ==
  <<"awaiting_supplier", "correction_submitted", "revalidating",
    IF blocking THEN "buyer_review" ELSE "released">>

MutLastWriterWins(q, changes, blocking) ==
  LET r == request[q].case IN
  /\ request[q].pc = "submitting"
  /\ caseStatus' = [caseStatus EXCEPT ![r] = IF blocking THEN "buyer_review" ELSE "released"]
  /\ patches' = [patches EXCEPT ![r] = Append(@, changes)]
  /\ record' = [record EXCEPT
       ![r].payload = Corrected(request[q].payload, changes),
       ![r].validation = IF blocking THEN "failed" ELSE "passed",
       ![r].release = IF blocking THEN @ ELSE "released"]
  /\ Answer(q)
  /\ UNCHANGED <<exception, mirrorLost, token, mail>>

MutStaleTailAccepted(q, changes, blocking) ==
  LET r == request[q].case IN
  /\ request[q].pc = "submitting"
  /\ Transition(r, SubmitPath(blocking), ~blocking)
  /\ patches' = [patches EXCEPT ![r] = Append(@, changes)]
  /\ record' = [record EXCEPT
       ![r].payload = Corrected(request[q].payload, changes),
       ![r].validation = IF blocking THEN "failed" ELSE "passed",
       ![r].release = IF blocking THEN @ ELSE "released"]
  /\ Answer(q)
  /\ UNCHANGED <<token, mail>>

SubmitCommit(q, changes, blocking) ==
  LET r == request[q].case IN
  /\ request[q].pc = "submitting"
  /\ Len(patches[r]) = request[q].tail
  /\ Transition(r, SubmitPath(blocking), ~blocking)
  /\ patches' = [patches EXCEPT ![r] = Append(@, changes)]
  /\ record' = [record EXCEPT
       ![r].payload = Corrected(request[q].payload, changes),
       ![r].validation = IF blocking THEN "failed" ELSE "passed",
       ![r].release = IF blocking THEN @ ELSE "released"]
  /\ Answer(q)
  /\ UNCHANGED <<token, mail>>

\* release_manifest: rows that passed at the intake, staged when they were read
ReleaseRead(q, r) ==
  /\ request[q].pc = "idle"
  /\ record[r].validation = "passed" /\ record[r].release = "staged"
  /\ request' = [request EXCEPT ![q] = [pc |-> "releasing", case |-> r]]
  /\ UNCHANGED <<manifestVars, token, mail>>

ReleaseCommit(q) ==
  /\ request[q].pc = "releasing"
  /\ record' = [record EXCEPT ![request[q].case].release = "released"]
  /\ Answer(q)
  /\ UNCHANGED <<caseStatus, exception, mirrorLost, patches, token, mail>>
-----------------------------------------------------------------------------
BuyerStep ==
  \/ \E r \in Record :
       \/ AssignOwner(r)
       \/ \E outcome \in Closed : CloseException(r, outcome)
  \/ \E q \in Request :
       \/ \E r \in Record : ReleaseRead(q, r)
       \/ ReleaseCommit(q)

\* the life of the links: minted and revoked by the buyer, used by the supplier
LinkStep ==
  \/ \E r \in Record : RevokeLink(r)
  \/ \E t \in DOMAIN token : ExpireLink(t) \/ Exchange(t)
  \/ \E q \in Request :
       \/ \E r \in Record : LinkRead(q, r)
       \/ LinkRevoke(q) \/ LinkCommit(q)

SupplierStep ==
  \/ \E t \in DOMAIN token : ExpireSession(t)
  \/ \E q \in Request :
       \/ \E t \in DOMAIN token : SubmitRead(q, t)
       \/ /\ request[q].pc = "submitting"
          /\ Len(patches[request[q].case]) < MaxPatches
          /\ \E changes \in Change, blocking \in BOOLEAN :
               SubmitCommit(q, changes, blocking)

IntakeStep ==
  \E r \in Record, blocking \in BOOLEAN :
    \E payload \in Row : IngestRow(r, payload, blocking)

RemediationNext ==
  \/ IntakeStep \/ BuyerStep \/ LinkStep \/ SupplierStep
  \/ \E q \in Request : Abandon(q)

RemediationSpec == RemediationInit /\ [][RemediationNext]_remediationVars
-----------------------------------------------------------------------------
(***************************************************************************)
(* The payload of a record is what its patches make of the row that was    *)
(* staged, in the order of patch_seq: no correction is applied without its *)
(* patch, and none of an earlier session is lost under a later one         *)
(* (corrections.py, apply_patches: "Derive the current record from the     *)
(* original plus ordered patches").  A request may have read the record    *)
(* before another session's correction, the buyer's review and a new link. *)
(***************************************************************************)
PatchesExplainRecord ==
  \A r \in Record : record[r] # NoRecord =>
    \E trail \in [0..Len(patches[r]) -> Payload] :
      /\ trail[0] = record[r].from
      /\ \A k \in DOMAIN patches[r] : trail[k] = Corrected(trail[k - 1], patches[r][k])
      /\ trail[Len(patches[r])] = record[r].payload

(***************************************************************************)
(* A released record is in the canonical store as it is: no request that   *)
(* read it before its release changes it or its patches afterwards.        *)
(***************************************************************************)
ReleasedIsFrozen ==
  [][\A r \in Record : record[r].release = "released" =>
       record'[r] = record[r] /\ patches'[r] = patches[r]]_remediationVars

(***************************************************************************)
(* "Coarse states are mirrored into fsma.exception_cases so existing buyer *)
(* dashboards stay truthful" (state.py:4): unless a write of the mirror    *)
(* failed or the buyer closed the exception case, it says who must act,    *)
(* and it is closed once the record is released.                           *)
(***************************************************************************)
DashboardTruthful ==
  \A r \in Record :
    \/ mirrorLost[r] \/ exception[r] \in Closed \cup {"none"}
    \/ caseStatus[r] = "supplier_action_required"
    \/ /\ caseStatus[r] \in DOMAIN ExceptionMirror
       /\ exception[r] = ExceptionMirror[caseStatus[r]]
=============================================================================

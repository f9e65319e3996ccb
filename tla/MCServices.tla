----------------------------- MODULE MCServices -----------------------------
(***************************************************************************)
(* The request-driven services for TLC: supplier remediation, the FDA      *)
(* request workflow and its deadline monitor, refresh sessions, the        *)
(* idempotency middleware, inbound e-mail and usage reports.  They share   *)
(* no state, so a behaviour is about one of them, its focus.               *)
(***************************************************************************)
EXTENDS Remediation, RequestWorkflow, DeadlineMonitor, Sessions, Idempotency,
        InboundEmail, UsageReporting, TLC

VARIABLE focus  \* the part a behaviour is about

vars == <<focus, remediationVars, requestVars, deadlineVars, sessionVars,
          idempotencyVars, emailVars, usageVars>>

mcField == {"f", "g"}
mcNormal == [blank |-> "blank", alias |-> "good", good |-> "good"]
mcRow == {[f \in mcField |-> "blank"]}
mcChange == {[x \in {f} |-> "alias"] : f \in mcField}

Interchangeable == Permutations(Handler)

Init ==
  /\ focus \in {"remediation", "requests", "deadlines", "sessions", "posts", "email", "usage"}
  /\ RemediationInit /\ RequestInit /\ DeadlineInit /\ SessionsInit
  /\ IdempotencyInit /\ EmailInit /\ UsageInit

Next ==
  /\ UNCHANGED focus
  /\ \/ /\ focus = "remediation" /\ RemediationNext
        /\ UNCHANGED <<requestVars, deadlineVars, sessionVars, idempotencyVars, emailVars, usageVars>>
     \/ /\ focus = "requests" /\ RequestNext
        /\ UNCHANGED <<remediationVars, deadlineVars, sessionVars, idempotencyVars, emailVars, usageVars>>
     \/ /\ focus = "deadlines" /\ DeadlineNext
        /\ UNCHANGED <<remediationVars, requestVars, sessionVars, idempotencyVars, emailVars, usageVars>>
     \/ /\ focus = "sessions" /\ SessionsNext
        /\ UNCHANGED <<remediationVars, requestVars, deadlineVars, idempotencyVars, emailVars, usageVars>>
     \/ /\ focus = "posts" /\ IdempotencyNext
        /\ UNCHANGED <<remediationVars, requestVars, deadlineVars, sessionVars, emailVars, usageVars>>
     \/ /\ focus = "email" /\ EmailNext
        /\ UNCHANGED <<remediationVars, requestVars, deadlineVars, sessionVars, idempotencyVars, usageVars>>
     \/ /\ focus = "usage" /\ UsageNext
        /\ UNCHANGED <<remediationVars, requestVars, deadlineVars, sessionVars, idempotencyVars, emailVars>>

Spec == Init /\ [][Next]_vars
=============================================================================

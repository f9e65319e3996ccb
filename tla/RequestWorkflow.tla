-------------------------- MODULE RequestWorkflow --------------------------
(***************************************************************************)
(* One FDA request case (services/shared/request_workflow/): its status,    *)
(* the signoffs, the versioned response packages and the submission log.    *)
(* Every operation is a transaction that reads the case, checks the status  *)
(* it read and later writes; no UPDATE repeats the check, so what another   *)
(* handler commits in between is overwritten.  The model gives each         *)
(* statement whose result is used later a step of its own.                  *)
(***************************************************************************)
EXTENDS Integers, Sequences, FiniteSets, FiniteSetsExt

CONSTANTS
    Handler,        \* requests in flight against the case
    MaxPackages     \* bound: response packages

ASSUME RequestAssumption == MaxPackages \in Nat

VARIABLES
    status,         \* request_cases.package_status
    signoffs,       \* signoff types in request_signoffs
    packages,       \* response_packages: the version numbers, in insert order
    filed,          \* submission_log: the force flags of its entries
    handler

requestVars == <<status, signoffs, packages, filed, handler>>

SignoffType ==
    {"scope_approval", "package_review", "final_approval", "submission_authorization"}

RequiredSignoffs == {"scope_approval", "final_approval"}

SignoffStatus ==
    [scope_approval           |-> "exception_triage",
     package_review           |-> "internal_review",
     final_approval           |-> "ready",
     submission_authorization |-> "ready"]

\* The statuses each operation accepts.
MutAmendFromReady ==
    [scope    |-> {"intake", "scoping"},
     collect  |-> {"scoping", "collecting"},
     gaps     |-> {"collecting", "gap_analysis"},
     assemble |-> {"gap_analysis", "exception_triage", "assembling", "internal_review"},
     submit   |-> {"ready", "submitted", "amended"},
     amend    |-> {"submitted", "amended", "assembling", "ready"}]

AllowedIn ==
    [scope    |-> {"intake", "scoping"},
     collect  |-> {"scoping", "collecting"},
     gaps     |-> {"collecting", "gap_analysis"},
     assemble |-> {"gap_analysis", "exception_triage", "assembling", "internal_review"},
     submit   |-> {"ready", "submitted", "amended"},
     amend    |-> {"submitted", "amended", "assembling"}]

\* Where the three preparatory operations leave the case.
PreparedStatus ==
    [scope |-> "scoping", collect |-> "collecting", gaps |-> "gap_analysis"]

NotBusy == [op |-> "none", pc |-> "idle", prior |-> "none", version |-> 0, force |-> FALSE]

RequestInit ==
    /\ status = "none"
    /\ signoffs = {}
    /\ packages = <<>>
    /\ filed = {}
    /\ handler = [h \in Handler |-> NotBusy]

On(h, pc) == handler[h].pc = pc

Done(h) == handler' = [handler EXCEPT ![h] = NotBusy]

\* _get_case and the status check of an operation.
Admit(h, op, force) ==
    /\ On(h, "idle")
    /\ status \in AllowedIn[op]
    /\ handler' = [handler EXCEPT ![h] =
          [NotBusy EXCEPT !.op = op, !.pc = "admitted", !.force = force,
                          !.prior = IF op = "amend" THEN status ELSE "none"]]
    /\ UNCHANGED <<status, signoffs, packages, filed>>

-----------------------------------------------------------------------------
CreateRequestCase ==
    /\ status = "none"
    /\ status' = "intake"
    /\ UNCHANGED <<signoffs, packages, filed, handler>>

\* update_scope, collect_records and run_gap_analysis after their check.
Prepare(h) ==
    /\ On(h, "admitted") /\ handler[h].op \in DOMAIN PreparedStatus
    /\ status' = PreparedStatus[handler[h].op]
    /\ Done(h)
    /\ UNCHANGED <<signoffs, packages, filed>>

\* add_signoff asks only that the case exists; a repeated type inserts
\* nothing but still moves the status.
AddSignoff(t) ==
    /\ status # "none"
    /\ signoffs' = signoffs \cup {t}
    /\ status' = SignoffStatus[t]
    /\ UNCHANGED <<packages, filed, handler>>

-----------------------------------------------------------------------------
\* assemble_response_package: COALESCE(MAX(version_number), 0) + 1.
MutCountedVersion == Len(packages) + 1

NextVersion == Max({0} \cup {packages[k] : k \in DOMAIN packages}) + 1

ReadVersion(h) ==
    /\ \/ On(h, "admitted") /\ handler[h].op = "assemble"
       \/ On(h, "readmitted")
    /\ handler' = [handler EXCEPT ![h].pc = "assembling", ![h].version = NextVersion]
    /\ UNCHANGED <<status, signoffs, packages, filed>>

\* The package and the status commit together; inside an amendment the
\* handler goes on to its last write.
CommitPackage(h) ==
    /\ On(h, "assembling")
    /\ Len(packages) < MaxPackages
    /\ packages' = Append(packages, handler[h].version)
    /\ status' = "assembling"
    /\ IF handler[h].op = "amend"
          THEN handler' = [handler EXCEPT ![h].pc = "closing"]
          ELSE Done(h)
    /\ UNCHANGED <<signoffs, filed>>

-----------------------------------------------------------------------------
\* submit_package: check_blocking_defects runs after the status check.  The
\* other blockers depend on data outside the case and may hold or not.
MutNoDefectGate(h) == On(h, "admitted") /\ handler[h].op = "submit"

PassesDefectGate(h) ==
    /\ On(h, "admitted") /\ handler[h].op = "submit"
    /\ handler[h].force \/ RequiredSignoffs \subseteq signoffs

CheckBlockingDefects(h) ==
    /\ PassesDefectGate(h)
    /\ handler' = [handler EXCEPT ![h].pc = "cleared"]
    /\ UNCHANGED <<status, signoffs, packages, filed>>

\* The package named in the request must be one of this case.
SubmitPackage(h) ==
    /\ On(h, "cleared")
    /\ packages # <<>>
    /\ filed' = filed \cup {handler[h].force}
    /\ status' = "submitted"
    /\ Done(h)
    /\ UNCHANGED <<signoffs, packages>>

-----------------------------------------------------------------------------
\* create_amendment commits 'assembling' so that assembly will accept the
\* case, and assembly reads the status again.
OpenAmendment(h) ==
    /\ On(h, "admitted") /\ handler[h].op = "amend"
    /\ status' = "assembling"
    /\ handler' = [handler EXCEPT ![h].pc = "opened"]
    /\ UNCHANGED <<signoffs, packages, filed>>

ReadmitAmendment(h) ==
    /\ On(h, "opened")
    /\ handler' = [handler EXCEPT ![h].pc =
          IF status \in AllowedIn["assemble"] THEN "readmitted" ELSE "reverting"]
    /\ UNCHANGED <<status, signoffs, packages, filed>>

\* Any other exception out of assembly.
AssemblyFails(h) ==
    /\ handler[h].op = "amend" /\ handler[h].pc \in {"readmitted", "assembling"}
    /\ handler' = [handler EXCEPT ![h].pc = "reverting"]
    /\ UNCHANGED <<status, signoffs, packages, filed>>

RevertAmendment(h) ==
    /\ On(h, "reverting")
    /\ status' = IF handler[h].prior = "assembling" THEN "amended" ELSE handler[h].prior
    /\ Done(h)
    /\ UNCHANGED <<signoffs, packages, filed>>

CloseAmendment(h) ==
    /\ On(h, "closing")
    /\ status' = "amended"
    /\ Done(h)
    /\ UNCHANGED <<signoffs, packages, filed>>

\* A rejected check, a failed statement or a crash: the open transaction is
\* rolled back, what was committed stays.
GiveUp(h) ==
    /\ ~On(h, "idle")
    /\ Done(h)
    /\ UNCHANGED <<status, signoffs, packages, filed>>

-----------------------------------------------------------------------------
HandlerStep(h) ==
    \/ \E op \in DOMAIN AllowedIn, force \in BOOLEAN :
          (force => op = "submit") /\ Admit(h, op, force)
    \/ Prepare(h)
    \/ ReadVersion(h) \/ CommitPackage(h)
    \/ CheckBlockingDefects(h)
    \/ SubmitPackage(h)
    \/ OpenAmendment(h) \/ ReadmitAmendment(h) \/ AssemblyFails(h)
    \/ RevertAmendment(h) \/ CloseAmendment(h)
    \/ GiveUp(h)

RequestNext ==
    \/ CreateRequestCase
    \/ \E t \in SignoffType : AddSignoff(t)
    \/ \E h \in Handler : HandlerStep(h)

RequestSpec == RequestInit /\ [][RequestNext]_requestVars

-----------------------------------------------------------------------------
\* Concurrent assemblies may give two packages the same version, but never
\* leave a gap: the diff of version v is taken against a version v - 1 that
\* exists (assembly.py computes it for every version above 1).
DiffBaseExists ==
    \A k \in DOMAIN packages :
        packages[k] > 1 => \E j \in 1 .. k - 1 : packages[j] = packages[k] - 1

\* However signoffs, submissions and amendments race and whichever of them
\* fails half way, a case that stands as assembling, submitted or amended
\* has a package, so no amendment is the first package of its case.
FiledIsBacked ==
    status \in {"assembling", "submitted", "amended"} => packages # <<>>

\* No submission that was not forced is on record without the required
\* signoffs, although a signoff can move the case to "ready" from anywhere.
UnforcedIsSigned ==
    FALSE \in filed => RequiredSignoffs \subseteq signoffs
=============================================================================

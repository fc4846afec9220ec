--------------------------- MODULE FargateProfile ---------------------------
(***************************************************************************)
(* The AWSFargateProfile controller (exp/controllers) and the Fargate      *)
(* service (pkg/cloud/services/eks/fargate.go): the IAM role and the       *)
(* profile, by reconciles that never wait but are requeued.  A component   *)
(* of EKSWorkers.                                                          *)
(***************************************************************************)
EXTENDS Naturals

CONSTANTS FaultKinds, MaxFaults

VARIABLES
    cp,       \* the control plane object: st and Status.Ready
    profile,  \* the state of the EKS Fargate profile
    frole,    \* its IAM role exists
    fobj,     \* the stored AWSFargateProfile: st, fin, role (Spec.RoleName), ready
    fw,       \* the worker: pc and the local copy
    faults

None == "none"
NoLocal == [fin |-> FALSE, role |-> FALSE, ready |-> FALSE]
NoWork == [pc |-> "idle", loc |-> NoLocal]
Locals == [fin: BOOLEAN, role: BOOLEAN, ready: BOOLEAN]
TypeOK ==
    /\ profile \in {None, "CREATING", "ACTIVE", "CREATE_FAILED", "DELETING", "DELETE_FAILED"}
    /\ frole \in BOOLEAN
    /\ fobj.st \in {"live", "deleting", "gone"} /\ fobj.loc \in Locals /\ fw.loc \in Locals

Init(exists) ==
    /\ profile = None /\ frole = FALSE /\ fw = NoWork
    /\ fobj = [st |-> IF exists THEN "live" ELSE "gone", loc |-> NoLocal]

Fault(kind) == kind \in FaultKinds /\ faults < MaxFaults /\ faults' = faults + 1
NoFault == faults' = faults
Goto(pc) == fw' = [fw EXCEPT !.pc = pc]

\* A call that fails may have taken effect; what it changes is left to the step.
Fails == Fault("aws") /\ Goto("close")

-----------------------------------------------------------------------------
(* Reconcile *)

Start ==
    /\ fw.pc = "idle" /\ fobj.st # "gone" /\ cp.st # "gone" /\ cp.ready
    /\ fw' = [pc |-> IF fobj.st = "deleting" THEN "delProfile"
                     ELSE IF fobj.loc.fin THEN "role" ELSE "finalizer", loc |-> fobj.loc]
    /\ UNCHANGED <<profile, frole, fobj, faults>>

AddFinalizer ==
    /\ fw.pc = "finalizer"
    /\ \/ /\ NoFault /\ fobj.st # "gone" /\ fobj' = [fobj EXCEPT !.loc.fin = TRUE]
          /\ fw' = [fw EXCEPT !.loc.fin = TRUE, !.pc = "role"]
       \/ /\ IF fobj.st = "gone" THEN NoFault ELSE Fault("patch")
          /\ fw' = [fw EXCEPT !.loc.fin = TRUE, !.pc = "close"] /\ UNCHANGED fobj
    /\ UNCHANGED <<profile, frole>>

\* reconcileFargateIAMRole: the pass that names the role ends there, and the name
\* is stored before there is a role; a role that was just created needs time, so the
\* reconcile is requeued.
ReconcileRole ==
    /\ fw.pc = "role" /\ UNCHANGED <<profile, fobj>>
    /\ \/ /\ NoFault /\ ~fw.loc.role /\ UNCHANGED frole
          /\ fw' = [fw EXCEPT !.loc.role = TRUE, !.pc = "close"]
       \/ NoFault /\ fw.loc.role /\ Goto(IF frole THEN "profile" ELSE "createRole") /\ UNCHANGED frole
       \/ fw.loc.role /\ Fails /\ UNCHANGED frole
CreateRole ==
    /\ fw.pc = "createRole" /\ UNCHANGED <<profile, fobj>>
    /\ \/ NoFault /\ frole' = TRUE /\ Goto("close")
       \/ Fails /\ (UNCHANGED frole \/ frole' = TRUE)

\* reconcileFargateProfile and handleStatus; without a cluster nothing can be
\* created.
ReconcileProfile ==
    /\ fw.pc = "profile" /\ UNCHANGED <<frole, fobj>>
    /\ \/ /\ NoFault /\ (profile = None => cp.st # "gone")
          /\ profile' = IF profile = None THEN "CREATING" ELSE profile
          /\ fw' = [fw EXCEPT !.loc.ready = (profile' = "ACTIVE"), !.pc = "close"]
       \/ NoFault /\ profile = None /\ cp.st = "gone" /\ Goto("close") /\ UNCHANGED profile
       \/ Fails /\ (UNCHANGED profile \/ (profile = None /\ cp.st # "gone" /\ profile' = "CREATING"))

\* Mutation: a profile that could not be deleted is waited for.
AfterDelete_Wait(st) == IF st # None THEN "close" ELSE "delRole"

\* deleteFargateProfile: what handleStatus makes of the profile's state.  While
\* the profile is being created or deleted the reconcile is requeued; for a
\* profile that could not be deleted it is not, and the deletion goes on.
AfterDelete(st) == IF st \in {"CREATING", "DELETING"} THEN "close" ELSE "delRole"

DeleteProfile ==
    /\ fw.pc = "delProfile" /\ UNCHANGED <<frole, fobj>>
    /\ \/ /\ NoFault
          /\ profile' = IF profile \in {"ACTIVE", "CREATE_FAILED"} THEN "DELETING" ELSE profile
          /\ fw' = [fw EXCEPT !.loc.ready = FALSE, !.pc = AfterDelete(profile')]
       \/ Fails /\ UNCHANGED profile
       \/ Fails /\ profile \in {"ACTIVE", "CREATE_FAILED"} /\ profile' = "DELETING"

\* deleteFargateIAMRole: looking for a role without a name is an error.
DeleteRole ==
    /\ fw.pc = "delRole" /\ UNCHANGED <<profile, fobj>>
    /\ \/ /\ NoFault /\ fw.loc.role /\ frole' = FALSE
          /\ fw' = [fw EXCEPT !.loc.fin = FALSE, !.pc = "close"]
       \/ NoFault /\ ~fw.loc.role /\ Goto("close") /\ UNCHANGED frole
       \/ Fails /\ (UNCHANGED frole \/ (fw.loc.role /\ frole' = FALSE))

\* The deferred Close.
Close ==
    /\ fw.pc = "close" /\ fw' = NoWork /\ UNCHANGED <<profile, frole>>
    /\ \/ NoFault /\ fobj.st = "gone" /\ UNCHANGED fobj
       \/ /\ NoFault /\ fobj.st # "gone"
          /\ fobj' = [st |-> IF fobj.st = "deleting" /\ ~fw.loc.fin THEN "gone" ELSE fobj.st,
                      loc |-> fw.loc]
       \/ Fault("patch") /\ fobj.st # "gone" /\ UNCHANGED fobj

Worker ==
    \/ Start \/ AddFinalizer \/ ReconcileRole \/ CreateRole \/ ReconcileProfile
    \/ DeleteProfile \/ DeleteRole \/ Close

-----------------------------------------------------------------------------
(* EKS and the user, external *)

Progress ==
    /\ \/ NoFault /\ profile = "CREATING" /\ profile' = "ACTIVE"
       \/ Fault("update") /\ profile = "CREATING" /\ profile' = "CREATE_FAILED"
       \/ NoFault /\ profile = "DELETING" /\ profile' = None
       \/ Fault("update") /\ profile = "DELETING" /\ profile' = "DELETE_FAILED"
    /\ UNCHANGED <<frole, fobj, fw>>

DeleteObject ==
    /\ fobj.st = "live"
    /\ fobj' = [fobj EXCEPT !.st = IF fobj.loc.fin THEN "deleting" ELSE "gone"]
    /\ UNCHANGED <<profile, frole, fw>>

=============================================================================

------------------------------ MODULE NodeGroup ------------------------------
(***************************************************************************)
(* The AWSManagedMachinePool controller (exp/controllers) and the node     *)
(* group service (pkg/cloud/services/eks/nodegroup.go): launch template,   *)
(* IAM role and EKS node group of one pool, with EKS working on a request  *)
(* after it has accepted it.  A component of EKSWorkers, which adds the    *)
(* control plane, the user and the bounds.                                 *)
(*                                                                         *)
(* The configuration cfg stands for the minimal and maximal size, whose    *)
(* update also carries the size; labels, taints, the update and the repair *)
(* configuration take the same path without it.  Every AMI release asked   *)
(* for is available for the Kubernetes version of the node group.  Tags    *)
(* are left out, and the launch template is created and updated in one     *)
(* call: MachinePool has the details.                                      *)
(***************************************************************************)
EXTENDS Naturals

CONSTANTS MaxVersion, MaxRev, MaxSize, FaultKinds, MaxFaults

VARIABLES
    cp,      \* the control plane object: st and Status.Ready
    ng,      \* the node group: st, cur (its values), next (those of an update)
    role,    \* the IAM role exists
    tmpl,    \* the latest launch template version (0: no template)
    spec,    \* what is asked for, with MachinePool.Spec.Replicas as size
    pool,    \* the stored AWSManagedMachinePool: st and loc
    w,       \* the worker
    faults

None == "none"

\* The AMI releases; the latest is what EKS takes when none is asked for, which is
\* the value 0 of the spec.
Latest == 2
Values == [version: 1 .. MaxVersion, rev: 0 .. MaxRev, ami: 1 .. Latest, cfg: 0 .. 1, size: 1 .. MaxSize]
NoValues == [version |-> 1, rev |-> 0, ami |-> Latest, cfg |-> 0, size |-> 1]
NoGroup == [st |-> None, cur |-> NoValues, next |-> NoValues]
NoLocal == [fin |-> FALSE, role |-> FALSE, ready |-> FALSE, tid |-> FALSE, rev |-> 0]
FirstSpec == [version |-> 1, rev |-> 0, ami |-> 0, cfg |-> 0, size |-> 1, auto |-> FALSE]
NoWork == [pc |-> "idle", spec |-> FirstSpec, loc |-> NoLocal, seen |-> NoGroup]

Groups == [st: {None, "CREATING", "ACTIVE", "UPDATING", "DELETING", "CREATE_FAILED",
                "DELETE_FAILED"}, cur: Values, next: Values]
Specs == [version: 1 .. MaxVersion, rev: 0 .. MaxRev, ami: 0 .. 1, cfg: 0 .. 1,
          size: 1 .. MaxSize, auto: BOOLEAN]
Locals == [fin: BOOLEAN, role: BOOLEAN, ready: BOOLEAN, tid: BOOLEAN, rev: 0 .. MaxRev]
TypeOK ==
    /\ ng \in Groups /\ role \in BOOLEAN /\ tmpl \in 0 .. MaxRev /\ spec \in Specs
    /\ pool.st \in {"live", "deleting", "gone"} /\ pool.loc \in Locals
    /\ w.spec \in Specs /\ w.loc \in Locals /\ w.seen \in Groups

\* With or without a launch template, with or without the autoscaler annotation,
\* the plainest of these, or no pool at all.
Init(exists, options) ==
    /\ ng = NoGroup /\ role = FALSE /\ tmpl = 0 /\ w = NoWork
    /\ IF exists /\ options
       THEN spec \in [version: {1}, rev: {0, 1}, ami: {0}, cfg: {0}, size: {1}, auto: BOOLEAN]
       ELSE spec = FirstSpec
    /\ pool = [st |-> IF exists THEN "live" ELSE "gone", loc |-> NoLocal]

Fault(kind) == kind \in FaultKinds /\ faults < MaxFaults /\ faults' = faults + 1
NoFault == faults' = faults

Goto(pc) == w' = [w EXCEPT !.pc = pc]

\* A call that fails may have taken effect; what it changes is left to the step.
Fails == Fault("aws") /\ Goto("close")

\* PatchObject stores the local copy of the object, unless the object is gone.
PatchObject(loc, next) ==
    \/ /\ NoFault /\ pool.st # "gone"
       /\ pool' = [pool EXCEPT !.loc = loc] /\ w' = [w EXCEPT !.loc = loc, !.pc = next]
    \/ /\ IF pool.st = "gone" THEN NoFault ELSE Fault("patch")
       /\ w' = [w EXCEPT !.loc = loc, !.pc = "close"] /\ UNCHANGED pool

-----------------------------------------------------------------------------
(* Reconcile *)

\* Mutation: the finalizer is left to the deferred patch.
FirstStep_NoFinalizer(p) == IF p.st = "deleting" THEN "describeDel" ELSE "template"

FirstStep(p) ==
    IF p.st = "deleting" THEN "describeDel" ELSE IF p.loc.fin THEN "template" ELSE "finalizer"

\* Reconcile returns at once, for a deletion as well, when the control plane
\* object is gone or is not ready.
Start ==
    /\ w.pc = "idle" /\ pool.st # "gone" /\ cp.st # "gone" /\ cp.ready
    /\ w' = [NoWork EXCEPT !.pc = FirstStep(pool), !.spec = spec, !.loc = pool.loc]
    /\ UNCHANGED <<ng, role, tmpl, spec, pool, faults>>

AddFinalizer ==
    /\ w.pc = "finalizer" /\ PatchObject([w.loc EXCEPT !.fin = TRUE], "template")
    /\ UNCHANGED <<ng, role, tmpl, spec>>

\* ReconcileLaunchTemplate: the AWS calls, and storing the id and the version.
ReconcileLaunchTemplate ==
    /\ w.pc = "template"
    /\ \/ NoFault /\ w.spec.rev = 0 /\ Goto("role") /\ UNCHANGED tmpl
       \/ NoFault /\ w.spec.rev # 0 /\ tmpl' = w.spec.rev /\ Goto("templatePatch")
       \/ w.spec.rev # 0 /\ Fails /\ tmpl' \in {tmpl, w.spec.rev}
    /\ UNCHANGED <<ng, role, spec, pool>>
StoreLaunchTemplate ==
    /\ w.pc = "templatePatch"
    /\ PatchObject([w.loc EXCEPT !.tid = TRUE, !.rev = w.spec.rev], "role")
    /\ UNCHANGED <<ng, role, tmpl, spec>>

\* reconcileNodegroupIAMRole: the name in the local copy, then the role.
ReconcileRole ==
    /\ w.pc = "role"
    /\ \/ NoFault /\ role' = TRUE /\ w' = [w EXCEPT !.loc.role = TRUE, !.pc = "describe"]
       \/ /\ Fault("aws") /\ w' = [w EXCEPT !.loc.role = TRUE, !.pc = "close"]
          /\ role' \in {role, TRUE}
    /\ UNCHANGED <<ng, tmpl, spec, pool>>

\* describeNodegroup and createNodegroup, which asks for no version and, whatever the
\* spec says, for no AMI release: EKS takes the cluster's version and the latest release.
DescribeOrCreate ==
    /\ w.pc = "describe"
    /\ \/ /\ NoFault /\ ng.st # None /\ UNCHANGED ng
          /\ w' = [w EXCEPT !.seen = ng, !.pc = "setStatus"]
       \/ /\ ng.st = None
          /\ \E v \in 1 .. MaxVersion :
               LET vals == [version |-> v, rev |-> w.loc.rev, ami |-> Latest, cfg |-> w.spec.cfg,
                            size |-> w.spec.size]
               IN  ng' = [st |-> "CREATING", cur |-> vals, next |-> vals]
          /\ Fails \/ (NoFault /\ w' = [w EXCEPT !.seen = ng', !.pc = "setStatus"])
       \/ Fails /\ UNCHANGED ng
    /\ UNCHANGED <<role, tmpl, spec, pool>>

SetStatus ==
    /\ w.pc = "setStatus"
    /\ PatchObject([w.loc EXCEPT !.ready = w.seen.st \in {"ACTIVE", "UPDATING"}],
                   IF w.seen.st \in {"CREATING", "UPDATING"} THEN "wait" ELSE "replicas")
    /\ UNCHANGED <<ng, role, tmpl, spec>>

\* waitForNodegroupActive.  After an error reconcileNodegroup looks at the replicas
\* before it returns the error, and with the annotation follows a nil pointer: a
\* panic that the controller runtime turns into an error.
WaitForNodegroupActive ==
    /\ w.pc = "wait"
    /\ \/ NoFault /\ ng.st = "ACTIVE" /\ w' = [w EXCEPT !.seen = ng, !.pc = "setStatus"]
       \/ NoFault /\ ng.st = "CREATE_FAILED" /\ Goto("close")
       \/ Fault("timeout") /\ Goto("close")
    /\ UNCHANGED <<ng, role, tmpl, spec, pool>>

\* With the annotation the size is the autoscaler's.
Replicas(s, seen) == IF s.auto THEN seen.cur.size ELSE s.size

SyncReplicas ==
    /\ w.pc = "replicas"
    /\ LET size == Replicas(w.spec, w.seen)
       IN  \/ NoFault /\ size = w.spec.size /\ Goto("version") /\ UNCHANGED spec
           \/ /\ NoFault /\ size # w.spec.size /\ spec' = [spec EXCEPT !.size = size]
              /\ w' = [w EXCEPT !.spec.size = size, !.pc = "version"]
           \/ size # w.spec.size /\ Fault("patch") /\ Goto("close") /\ UNCHANGED spec
    /\ UNCHANGED <<ng, role, tmpl, pool>>

\* EKS accepts an update of an active node group only.
Update(vals, next) ==
    \/ /\ ng.st = "ACTIVE" /\ ng' = [ng EXCEPT !.st = "UPDATING", !.next = vals]
       /\ (NoFault /\ Goto(next)) \/ Fails
    \/ NoFault /\ ng.st # "ACTIVE" /\ Goto("close") /\ UNCHANGED ng
    \/ Fails /\ UNCHANGED ng

\* Mutation: with a launch template the Kubernetes version is not looked at.
NextVersion_TemplateOnly(seen, s, rev) ==
    IF rev # 0 THEN [seen EXCEPT !.rev = rev]
    ELSE IF seen.version < s.version THEN [seen EXCEPT !.version = @ + 1, !.ami = Latest]
    ELSE IF s.ami # 0 THEN [seen EXCEPT !.ami = s.ami] ELSE seen

\* A new launch template version first, then the next minor version, each with the
\* latest AMI release; then the release asked for.
NextVersion(seen, s, rev) ==
    IF rev # 0 /\ rev # seen.rev THEN [seen EXCEPT !.rev = rev, !.ami = Latest]
    ELSE IF seen.version < s.version THEN [seen EXCEPT !.version = @ + 1, !.ami = Latest]
    ELSE IF s.ami # 0 THEN [seen EXCEPT !.ami = s.ami] ELSE seen

ReconcileNodegroupVersion ==
    /\ w.pc = "version"
    /\ LET vals == NextVersion(w.seen.cur, w.spec, w.loc.rev)
       IN  IF vals = w.seen.cur THEN NoFault /\ Goto("config") /\ UNCHANGED ng
           ELSE Update([ng.cur EXCEPT !.version = vals.version, !.rev = vals.rev, !.ami = vals.ami],
                       "config")
    /\ UNCHANGED <<role, tmpl, spec, pool>>

\* reconcileNodegroupConfig compares with the description made before the update
\* of the version.
ReconcileNodegroupConfig ==
    /\ w.pc = "config"
    /\ IF w.spec.cfg = w.seen.cur.cfg /\ w.spec.size = w.seen.cur.size
       THEN NoFault /\ Goto("close") /\ UNCHANGED ng
       ELSE Update([ng.cur EXCEPT !.cfg = w.spec.cfg, !.size = w.spec.size], "close")
    /\ UNCHANGED <<role, tmpl, spec, pool>>

-----------------------------------------------------------------------------
(* Deletion *)

\* ReconcilePoolDelete goes past the IAM role when there is no node group.
DescribeDeleted ==
    /\ w.pc = "describeDel"
    /\ \/ NoFault /\ Goto(IF ng.st = None THEN "delTemplate" ELSE "delGroup")
       \/ Fails
    /\ UNCHANGED <<ng, role, tmpl, spec, pool>>

DeleteNodegroup ==
    /\ w.pc = "delGroup"
    /\ \/ /\ ng.st \in {"ACTIVE", "CREATE_FAILED", "DELETE_FAILED"}
          /\ ng' = [ng EXCEPT !.st = "DELETING"] /\ ((NoFault /\ Goto("waitDeleted")) \/ Fails)
       \/ NoFault /\ ng.st = None /\ Goto("delRole") /\ UNCHANGED ng
       \/ NoFault /\ ng.st \in {"CREATING", "UPDATING", "DELETING"} /\ Goto("close") /\ UNCHANGED ng
       \/ Fails /\ UNCHANGED ng
    /\ UNCHANGED <<role, tmpl, spec, pool>>

WaitUntilNodegroupDeleted ==
    /\ w.pc = "waitDeleted"
    /\ \/ NoFault /\ ng.st = None /\ Goto("delRole")
       \/ NoFault /\ ng.st = "DELETE_FAILED" /\ Goto("close")
       \/ Fault("timeout") /\ Goto("close")
    /\ UNCHANGED <<ng, role, tmpl, spec, pool>>

\* deleteNodegroupIAMRole: looking for a role without a name is an error.
DeleteRole ==
    /\ w.pc = "delRole"
    /\ \/ NoFault /\ w.loc.role /\ role' = FALSE /\ Goto("delTemplate")
       \/ NoFault /\ ~w.loc.role /\ Goto("close") /\ UNCHANGED role
       \/ Fails /\ (UNCHANGED role \/ (w.loc.role /\ role' = FALSE))
    /\ UNCHANGED <<ng, tmpl, spec, pool>>

\* A template that exists while its id was never stored: a panic, turned into an
\* error by the controller runtime.
DeleteLaunchTemplate ==
    /\ w.pc = "delTemplate"
    /\ \/ NoFault /\ (w.spec.rev = 0 \/ tmpl = 0) /\ Goto("finish") /\ UNCHANGED tmpl
       \/ NoFault /\ w.spec.rev # 0 /\ tmpl # 0 /\ w.loc.tid /\ tmpl' = 0 /\ Goto("finish")
       \/ NoFault /\ w.spec.rev # 0 /\ tmpl # 0 /\ ~w.loc.tid /\ Goto("close") /\ UNCHANGED tmpl
       \/ w.spec.rev # 0 /\ Fails /\ (UNCHANGED tmpl \/ (w.loc.tid /\ tmpl' = 0))
    /\ UNCHANGED <<ng, role, spec, pool>>

RemoveFinalizer ==
    /\ w.pc = "finish" /\ NoFault /\ w' = [w EXCEPT !.loc.fin = FALSE, !.pc = "close"]
    /\ UNCHANGED <<ng, role, tmpl, spec, pool>>

\* The deferred Close.
Close ==
    /\ w.pc = "close" /\ w' = NoWork
    /\ \/ NoFault /\ pool.st = "gone" /\ UNCHANGED pool
       \/ /\ NoFault /\ pool.st # "gone"
          /\ pool' = [st |-> IF pool.st = "deleting" /\ ~w.loc.fin THEN "gone" ELSE pool.st,
                      loc |-> w.loc]
       \/ Fault("patch") /\ pool.st # "gone" /\ UNCHANGED pool
    /\ UNCHANGED <<ng, role, tmpl, spec>>

Worker ==
    \/ Start \/ AddFinalizer \/ ReconcileLaunchTemplate \/ StoreLaunchTemplate
    \/ ReconcileRole \/ DescribeOrCreate \/ SetStatus \/ WaitForNodegroupActive
    \/ SyncReplicas \/ ReconcileNodegroupVersion \/ ReconcileNodegroupConfig
    \/ DescribeDeleted \/ DeleteNodegroup \/ WaitUntilNodegroupDeleted \/ DeleteRole
    \/ DeleteLaunchTemplate \/ RemoveFinalizer \/ Close

-----------------------------------------------------------------------------
(* EKS, the autoscaler and the user, external *)

Progress ==
    /\ \/ /\ ng.st = "CREATING"
          /\ \/ NoFault /\ ng' = [ng EXCEPT !.st = "ACTIVE"]
             \/ Fault("update") /\ ng' = [ng EXCEPT !.st = "CREATE_FAILED"]
       \/ /\ ng.st = "UPDATING"
          /\ \/ NoFault /\ ng' = [ng EXCEPT !.st = "ACTIVE", !.cur = ng.next]
             \/ Fault("update") /\ ng' = [ng EXCEPT !.st = "ACTIVE", !.next = ng.cur]
       \/ /\ ng.st = "DELETING"
          /\ \/ NoFault /\ ng' = NoGroup
             \/ Fault("update") /\ ng' = [ng EXCEPT !.st = "DELETE_FAILED"]
    /\ UNCHANGED <<role, tmpl, spec, pool, w>>

Autoscale ==
    /\ spec.auto /\ ng.st = "ACTIVE"
    /\ \E n \in 1 .. MaxSize \ {ng.cur.size} :
         ng' = [ng EXCEPT !.cur.size = n, !.next.size = n]
    /\ UNCHANGED <<role, tmpl, spec, pool, w>>

\* The user edits the pool (EditPool) or deletes it; without the finalizer the
\* object is gone at once.
EditPool ==
    /\ pool.st = "live"
    /\ \/ spec.version < MaxVersion /\ spec' = [spec EXCEPT !.version = @ + 1]
       \/ spec.rev \in 1 .. MaxRev - 1 /\ spec' = [spec EXCEPT !.rev = @ + 1]
       \/ spec' = [spec EXCEPT !.ami = 1 - @]
       \/ spec' = [spec EXCEPT !.cfg = 1 - @]
       \/ ~spec.auto /\ \E n \in 1 .. MaxSize \ {spec.size} : spec' = [spec EXCEPT !.size = n]
    /\ UNCHANGED <<ng, role, tmpl, pool, w>>
DeletePool ==
    /\ pool.st = "live"
    /\ pool' = [pool EXCEPT !.st = IF pool.loc.fin THEN "deleting" ELSE "gone"]
    /\ UNCHANGED <<ng, role, tmpl, spec, w>>

=============================================================================

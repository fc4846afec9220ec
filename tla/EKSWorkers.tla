----------------------------- MODULE EKSWorkers -----------------------------
(***************************************************************************)
(* The workers of an EKS cluster beside its control plane object: a        *)
(* managed node group, a Fargate profile, the bootstrap configuration of   *)
(* self-managed nodes, and what the control plane's reconcile edits in the *)
(* workload cluster for all of them.                                       *)
(*                                                                         *)
(* The controllers of node group and profile do nothing while the control  *)
(* plane is not ready, also in a deletion; the control plane's deletion    *)
(* waits until the pool object is gone (dependencyCount) and, as EKS       *)
(* refuses to delete a cluster that has one, until the Fargate profile is  *)
(* gone, but not until its object is.  The control plane itself is in      *)
(* EKSControlPlane; here a few actions stand for it.                       *)
(***************************************************************************)
EXTENDS Naturals

CONSTANTS
    MaxVersion,  \* the highest Kubernetes minor version
    MaxRev,      \* the highest launch template version
    MaxSize,     \* the largest size of the node group
    Shapes,      \* the cases considered: the objects of the cluster, whether the
                 \* edits of the workload cluster are followed, and what users do
    MaxEdits,    \* bound on what they and the autoscaler do
    FaultKinds,  \* the faults considered
    MaxFaults    \* bound on the number of faults in a behaviour

EditKinds == {"autoupgrade", "autoscale", "edit pool", "edit config"}

ASSUME WorkersAssumption ==
    /\ {MaxVersion, MaxRev, MaxSize} \subseteq Nat \ {0} /\ {MaxEdits, MaxFaults} \subseteq Nat
    /\ Shapes \subseteq SUBSET ({"pool", "fargate", "config", "workload"} \cup EditKinds)
    /\ FaultKinds \subseteq {"aws", "kube", "patch", "timeout", "update", "crash"}

VARIABLES
    cp,    \* the control plane object: st, and Status.Ready
    upg,   \* "behind": EKS upgraded the cluster past the version asked for
    up,    \* the endpoint and Status.Initialized of the control plane are stored
    shape, \* the case of this behaviour
    ng, role, tmpl, spec, pool, w,  \* the node group
    profile, frole, fobj, fw,       \* the Fargate profile
    mcl, capi, bkind, bspec, bobj, secret, scache, bw, bq,  \* the bootstrap configuration
    wopts, wl, auth, raced, aw,     \* the workload cluster
    edits, faults

Group == INSTANCE NodeGroup
Fargate == INSTANCE FargateProfile
Bootstrap == INSTANCE EKSBootstrap
Workload == INSTANCE EKSWorkload

cpVars == <<cp, upg, up>>
groupVars == <<ng, role, tmpl, spec, pool, w>>
fargateVars == <<profile, frole, fobj, fw>>
bootVars == <<mcl, capi, bkind, bspec, bobj, secret, scache, bw, bq>>
workloadVars == <<wopts, wl, auth, raced, aw>>
workerVars == <<groupVars, fargateVars, bootVars, workloadVars>>
vars == <<cpVars, workerVars, shape, edits, faults>>

TypeOK ==
    /\ cp \in [st: {"live", "deleting", "gone"}, ready: BOOLEAN]
    /\ upg \in {"none", "behind", "fixed"} /\ up \in BOOLEAN
    /\ Group!TypeOK /\ Fargate!TypeOK /\ Bootstrap!TypeOK /\ Workload!TypeOK
    /\ edits \in 0 .. MaxEdits /\ faults \in 0 .. MaxFaults

Init ==
    /\ cp = [st |-> "live", ready |-> FALSE] /\ upg = "none" /\ up = FALSE /\ shape \in Shapes
    /\ Group!Init("pool" \in shape, "edit pool" \in shape) /\ Fargate!Init("fargate" \in shape)
    /\ Bootstrap!Init("config" \in shape) /\ Workload!Init({"workload", "pool"} \cap shape = {"workload"})
    /\ edits = 0 /\ faults = 0

-----------------------------------------------------------------------------
(* The control plane *)

\* setStatus of the control plane, in reconcileNormal only: an active cluster is
\* ready unless its upgrade policy is standard and EKS upgraded it past the spec.
ControlPlaneStatus ==
    /\ cp.st = "live" /\ aw.pc = "idle"
    /\ cp.ready # (upg # "behind") /\ cp' = [cp EXCEPT !.ready = ~@]
    /\ UNCHANGED <<upg, up, workerVars, shape, edits, faults>>

\* The rest of reconcileCluster for an active cluster: the endpoint, and the
\* kubeconfig, with which Status.Initialized is set; followed where it is looked at.
ControlPlaneInitialized ==
    /\ shape \cap {"config", "workload"} # {} /\ cp.st = "live" /\ cp.ready /\ ~up /\ up' = TRUE
    /\ UNCHANGED <<cp, upg, workerVars, shape, edits, faults>>

\* The services at the end of the same reconcile.
EditWorkload ==
    /\ "workload" \in shape
    /\ Workload!Worker(cp.st = "live" /\ up, pool.st # "gone" /\ pool.loc.role, role)
    /\ UNCHANGED <<cpVars, groupVars, fargateVars, bootVars, shape, edits>>

\* dependencyCount counts the pool objects.
Dependencies == pool.st # "gone"

\* reconcileDelete, down to the removal of the finalizer.
ControlPlaneDeleted ==
    /\ cp.st = "deleting" /\ aw.pc = "idle" /\ ~Dependencies /\ profile = "none"
    /\ cp' = [cp EXCEPT !.st = "gone"]
    /\ UNCHANGED <<upg, up, workerVars, shape, edits, faults>>

-----------------------------------------------------------------------------
(* The users, the autoscaler, EKS and Cluster API *)

Act(kind) ==
    kind \in shape /\ edits < MaxEdits /\ edits' = edits + 1 /\ UNCHANGED <<shape, faults>>

\* The end of standard support, and the user setting the version of the status.
AutoUpgrade ==
    /\ Act("autoupgrade") /\ upg = "none" /\ upg' = "behind" /\ UNCHANGED <<cp, up, workerVars>>
FixVersion ==
    /\ upg = "behind" /\ cp.st # "gone" /\ upg' = "fixed"
    /\ UNCHANGED <<cp, up, workerVars, shape, edits, faults>>

DeleteControlPlane ==
    /\ cp.st = "live" /\ cp' = [cp EXCEPT !.st = "deleting"]
    /\ UNCHANGED <<upg, up, workerVars, shape, edits, faults>>

\* The steps of the node group leave everything else alone, and so on.
OnlyGroup == UNCHANGED <<cpVars, fargateVars, bootVars, workloadVars>>
OnlyFargate == UNCHANGED <<cpVars, groupVars, bootVars>>
OnlyBootstrap == UNCHANGED <<cpVars, groupVars, fargateVars, workloadVars>>

GroupWorker == Group!Worker /\ OnlyGroup /\ UNCHANGED <<shape, edits>>
GroupProgress == Group!Progress /\ OnlyGroup /\ UNCHANGED <<shape, edits>>
GroupUser ==
    \/ Act("autoscale") /\ Group!Autoscale /\ OnlyGroup
    \/ Act("edit pool") /\ Group!EditPool /\ OnlyGroup
    \/ Group!DeletePool /\ OnlyGroup /\ UNCHANGED <<shape, edits, faults>>

\* EKS maps the role of a profile that becomes active.
FargateWorker == Fargate!Worker /\ OnlyFargate /\ UNCHANGED <<workloadVars, shape, edits>>
FargateProgress ==
    /\ Fargate!Progress /\ OnlyFargate /\ UNCHANGED <<shape, edits>>
    /\ IF profile' = "ACTIVE" THEN Workload!MapFargateRole ELSE UNCHANGED workloadVars
FargateUser == Fargate!DeleteObject /\ OnlyFargate /\ UNCHANGED <<workloadVars, shape, edits, faults>>

BootstrapWorker == Bootstrap!Worker /\ OnlyBootstrap /\ UNCHANGED <<shape, edits>>
ManagedClusterWorker ==
    Bootstrap!ReconcileManagedCluster /\ OnlyBootstrap /\ UNCHANGED <<shape, edits>>
ClusterAPI ==
    /\ Bootstrap!SetInfrastructureProvisioned \/ Bootstrap!SetControlPlaneInitialized
    /\ OnlyBootstrap /\ UNCHANGED <<shape, edits>>
CacheSync == Bootstrap!CacheSync /\ OnlyBootstrap /\ UNCHANGED <<shape, edits>>
Resync == Bootstrap!Resync /\ OnlyBootstrap /\ UNCHANGED <<shape, edits>>
BootstrapUser == Act("edit config") /\ Bootstrap!EditConfig /\ OnlyBootstrap

\* The process that runs the controllers ends; the work queue of the next one holds
\* every object.
Crash ==
    /\ w.pc # "idle" \/ fw.pc # "idle" \/ bw.pc # "idle" \/ aw.pc # "idle"
    /\ Group!Fault("crash") /\ w' = Group!NoWork /\ fw' = Fargate!NoWork
    /\ bw' = Bootstrap!NoWork /\ bq' = ("config" \in shape) /\ aw' = Workload!NoWork
    /\ UNCHANGED <<cpVars, ng, role, tmpl, spec, pool, profile, frole, fobj, mcl, capi, bkind,
                   bspec, bobj, secret, scache, wopts, wl, auth, raced, shape, edits>>

Next ==
    \/ ControlPlaneStatus \/ ControlPlaneInitialized \/ EditWorkload \/ ControlPlaneDeleted
    \/ AutoUpgrade \/ FixVersion \/ DeleteControlPlane
    \/ GroupWorker \/ GroupProgress \/ GroupUser
    \/ FargateWorker \/ FargateProgress \/ FargateUser
    \/ BootstrapWorker \/ ManagedClusterWorker \/ ClusterAPI \/ CacheSync \/ Resync
    \/ BootstrapUser \/ Crash

\* The controllers keep reconciling, every object again after the sync period, and
\* EKS and Cluster API finish what they began.
Fairness ==
    /\ WF_vars(GroupWorker) /\ WF_vars(GroupProgress)
    /\ WF_vars(FargateWorker) /\ WF_vars(FargateProgress)
    /\ WF_vars(ControlPlaneStatus) /\ WF_vars(ControlPlaneInitialized)
    /\ WF_vars(EditWorkload) /\ WF_vars(ControlPlaneDeleted)
    /\ WF_vars(BootstrapWorker) /\ WF_vars(ManagedClusterWorker) /\ WF_vars(ClusterAPI)
    /\ WF_vars(CacheSync) /\ WF_vars(Resync)

Spec == Init /\ [][Next]_vars
FairSpec == Spec /\ Fairness

-----------------------------------------------------------------------------
(* Properties *)

\* A pool object that is gone leaves no node group and no launch template behind,
\* and no IAM role if nothing failed along the way (ReconcilePoolDelete looks
\* for the role only when it found a node group); a Fargate profile object no IAM
\* role, whose name is stored before the role is created, and no profile but one
\* EKS could not delete.  A pool never outlives the control plane that its
\* deletion depends on.
NoOrphanWorkers ==
    /\ pool.st = "gone" => ng.st = "none" /\ tmpl = 0 /\ (faults = 0 => ~role)
    /\ frole => fobj.loc.role
    /\ fobj.st = "gone" => ~frole /\ profile \in {"none", "DELETE_FAILED"}
    /\ cp.st = "gone" => pool.st = "gone" /\ ng.st = "none"

Healthy == pool.st = "live" /\ cp = [st |-> "live", ready |-> TRUE] /\ ng.st # "CREATE_FAILED"

NodegroupAsAsked ==
    /\ ng.st = "ACTIVE" /\ ng.cur.version >= spec.version
    /\ spec.ami # 0 => ng.cur.ami = spec.ami
    /\ ng.cur.rev = spec.rev /\ ng.cur.cfg = spec.cfg /\ ng.cur.size = spec.size

\* The condition of a Machine's configuration may stay false: a reconcile that does
\* not find the secret in its cache fails, and the next one returns early.
BootstrapDataAsAsked ==
    /\ bobj.name /\ secret # 0
    /\ bkind.owner = "MachinePool" => secret = bspec /\ bobj.cond = "true"

\* The mapping EKS made for a profile is there unless it was overwritten.
WorkloadAsAsked ==
    /\ IF wopts.off THEN wl.objs \subseteq wopts.labelled ELSE wl.eni /\ wl.env
    /\ "spec" \in auth /\ (pool.st = "live" /\ pool.loc.role => "node" \in auth)
    /\ profile = "ACTIVE" => "fargate" \in auth \cup raced

\* The node group reaches the launch template version, the Kubernetes version, the
\* AMI release, the limits and the size asked for, although EKS refuses a second update while
\* the first is in progress.  The bootstrap secret of a Machine is written, and a
\* MachinePool's follows its configuration, although no event says that the control
\* plane is initialised and the cached secret may be stale.  The workload cluster
\* gets what the spec asks for, and maps the roles of the workers, although the
\* role of a pool may not exist yet; while a pool is being deleted its missing role
\* ends every such reconcile.
WorkersConverge ==
    /\ <>[](Healthy => NodegroupAsAsked)
    /\ <>[]("config" \in shape /\ cp.st = "live" => BootstrapDataAsAsked)
    /\ <>[]("workload" \in shape /\ cp.st = "live" /\ pool.st # "deleting" => WorkloadAsAsked)

\* What keeps a pool from being deleted: the control plane, and a launch template
\* whose id was never stored.
PoolStuck == ~cp.ready \/ (tmpl # 0 /\ ~pool.loc.tid)

\* A pool that is deleted goes away, and a Fargate profile does unless its control
\* plane went before or its role was never named.
DeletionCompletes ==
    /\ pool.st = "deleting" ~> pool.st = "gone" \/ PoolStuck
    /\ fobj.st = "deleting" ~> \/ fobj.st = "gone" \/ cp.st = "gone" \/ ~cp.ready
                               \/ ~fobj.loc.role

\* "This can be fixed by changing to the version of the AWSManagedControlPlane to
\* the one reported in the status" (cluster.go, setStatus).  Not so once the
\* control plane is being deleted: it and its pools wait for each other.
FixedByVersion == upg = "fixed" ~> cp.ready

=============================================================================

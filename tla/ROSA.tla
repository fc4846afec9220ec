-------------------------------- MODULE ROSA --------------------------------
(***************************************************************************)
(* A ROSA cluster: the ROSANetwork, ROSARoleConfig, ROSAControlPlane,      *)
(* ROSAMachinePool and ROSACluster controllers and the Cluster API objects *)
(* between them.  The control plane waits for the network and the roles it *)
(* refers to; its deletion deletes the MachinePools but does not wait for  *)
(* them, since OCM deletes the last node pool only together with the       *)
(* cluster.                                                                *)
(***************************************************************************)
EXTENDS Naturals

CONSTANTS
    Networks,    \* the ROSANetworks
    Ref,         \* the one the control plane refers to, if it exists
    Shapes,      \* the cases considered: the objects that exist, networks, "roles",
                 \* "cluster" and "pool", and what the user does (EditKinds)
    MaxVersion,  \* the highest version
    MaxSize,     \* the largest size of the node pool
    MaxEdits,    \* bound on the edits
    FaultKinds,  \* the faults considered
    MaxFaults    \* bound on the number of faults in a behaviour

EditKinds == {"edit cluster", "edit pool", "delete pool", "delete network", "delete roles"}

ASSUME ROSAAssumption ==
    /\ Ref \in Networks
    /\ Shapes \subseteq SUBSET (Networks \cup {"roles", "cluster", "pool"} \cup EditKinds)
    /\ {MaxVersion, MaxSize} \subseteq Nat \ {0} /\ {MaxEdits, MaxFaults} \subseteq Nat
    /\ FaultKinds \subseteq {"aws", "ocm", "kube", "patch", "update", "install", "resync", "crash"}

VARIABLES
    stack, net, nw, cfStack, raced,         \* ROSANetwork
    iam, oidc, rc, rw,                      \* ROSARoleConfig
    ocm, spec, cp, access, cw,              \* ROSAControlPlane
    np, mp, rspec, rmp, pw, sw, halved,     \* ROSAMachinePool
    shape,          \* the case of this behaviour
    edits, faults

Network == INSTANCE ROSANetwork
Roles == INSTANCE ROSARoleConfig
ControlPlane == INSTANCE ROSAControlPlane
Pool == INSTANCE ROSAMachinePool

networkVars == <<stack, net, nw, cfStack, raced>>
roleVars == <<iam, oidc, rc, rw>>
cpVars == <<ocm, spec, cp, access, cw>>
poolVars == <<np, mp, rspec, rmp, pw, sw, halved>>
vars == <<networkVars, roleVars, cpVars, poolVars, shape, edits, faults>>

TypeOK ==
    /\ Network!TypeOK /\ Roles!TypeOK /\ ControlPlane!TypeOK /\ Pool!TypeOK
    /\ edits \in 0 .. MaxEdits /\ faults \in 0 .. MaxFaults

Init ==
    /\ shape \in Shapes
    /\ Network!Init(shape \cap Networks) /\ Roles!Init("roles" \in shape)
    /\ ControlPlane!Init("cluster" \in shape, IF "edit pool" \in shape THEN MaxVersion ELSE 1)
    /\ Pool!Init("pool" \in shape) /\ edits = 0 /\ faults = 0

-----------------------------------------------------------------------------
(* The controllers *)

NetworkWorker(n) == Network!Worker(n) /\ UNCHANGED <<roleVars, cpVars, poolVars, shape, edits>>

\* ROSANetworkRef: a network that is not there, or not ready, is waited for.
NetworkReady == net[Ref].st = "absent" \/ (net[Ref].st # "gone" /\ net[Ref].loc.ready)

\* HasAClusterUsingOperatorRolesPrefix and HasAClusterUsingOidcProvider.
RoleWorker ==
    Roles!Worker(ocm.st # "none") /\ UNCHANGED <<networkVars, cpVars, poolVars, shape, edits>>

\* RosaRoleConfigRef: the roles have to be ready in every reconcile.
RolesReady == rc.st = "absent" \/ (rc.st # "gone" /\ rc.loc.ready)

\* deleteMachinePools deletes the MachinePools that are not in deletion yet; the
\* cluster is deleted in a later reconcile, when there was none.
DeleteMachinePools ==
    /\ \/ /\ ControlPlane!NoFault /\ ControlPlane!MachinePoolsDeleted(mp # "live")
          /\ mp' = IF mp = "live" THEN "deleting" ELSE mp
       \/ ControlPlane!Fault("kube") /\ ControlPlane!MachinePoolsDeleted(FALSE) /\ UNCHANGED mp
    /\ UNCHANGED <<np, rspec, rmp, pw, sw, halved>>

ControlPlaneWorker ==
    \/ /\ \/ ControlPlane!Worker \/ ControlPlane!GetCluster(RolesReady)
          \/ ControlPlane!CreateCluster(NetworkReady)
       /\ UNCHANGED <<networkVars, roleVars, poolVars, shape, edits>>
    \/ DeleteMachinePools /\ UNCHANGED <<networkVars, roleVars, shape, edits>>

PoolWorker == Pool!PoolWorker /\ UNCHANGED <<networkVars, roleVars, cpVars, shape, edits>>
SyncNodePools == Pool!Sync /\ UNCHANGED <<networkVars, roleVars, cpVars, shape, edits>>

\* The process that runs all controllers ends; the field of the network
\* controller is nil in the next one.
Crash ==
    /\ \/ cw.pc # "idle" \/ pw.pc # "idle" \/ sw # "idle" \/ rw.pc # "idle"
       \/ \E n \in Networks : nw[n].pc # "idle"
    /\ Network!Fault("crash")
    /\ nw' = [n \in Networks |-> Network!NoWork] /\ cw' = ControlPlane!NoWork /\ rw' = Roles!NoWork
    /\ pw' = Pool!NoWork /\ sw' = "idle" /\ cfStack' = [cfStack EXCEPT !.st = Network!None]
    /\ UNCHANGED <<stack, net, raced, iam, oidc, rc, ocm, spec, cp, access, np, mp, rspec, rmp, halved, shape, edits>>

-----------------------------------------------------------------------------
(* AWS, OCM, Cluster API and the user *)

StackProgress(n) == Network!Progress(n) /\ UNCHANGED <<roleVars, cpVars, poolVars, shape, edits>>

\* OCM deletes the node pools before the cluster.
ClusterProgress ==
    /\ ocm.st = "uninstalling" => np.pool.st = "none"
    /\ ControlPlane!Progress /\ UNCHANGED <<networkVars, roleVars, poolVars, shape, edits>>
PoolProgress ==
    \/ Pool!Progress /\ UNCHANGED <<networkVars, roleVars, cpVars, shape, edits>>
    \/ Pool!MachinePoolController /\ UNCHANGED <<networkVars, roleVars, cpVars, shape, edits>>

Act(kind) == kind \in shape /\ edits < MaxEdits /\ edits' = edits + 1 /\ UNCHANGED <<shape, faults>>

\* A network is deleted after the control plane that refers to it.
User ==
    \/ Act("edit cluster") /\ ControlPlane!EditSpec /\ UNCHANGED <<networkVars, roleVars, poolVars>>
    \/ Act("edit pool") /\ Pool!EditPool /\ UNCHANGED <<networkVars, roleVars, cpVars>>
    \/ Act("delete pool") /\ Pool!DeletePool /\ UNCHANGED <<networkVars, roleVars, cpVars>>
    \/ Act("delete roles") /\ Roles!DeleteRoleConfig /\ UNCHANGED <<networkVars, cpVars, poolVars>>
    \/ ControlPlane!DeleteControlPlane /\ UNCHANGED <<networkVars, roleVars, poolVars, shape, edits, faults>>
    \/ \E n \in Networks :
          /\ n # Ref \/ cp.st \in {"absent", "gone"}
          /\ Act("delete network") /\ Network!DeleteNetwork(n) /\ UNCHANGED <<roleVars, cpVars, poolVars>>

Next ==
    \/ \E n \in Networks : NetworkWorker(n) \/ StackProgress(n)
    \/ RoleWorker \/ ControlPlaneWorker \/ PoolWorker \/ SyncNodePools \/ Crash
    \/ ClusterProgress \/ PoolProgress \/ User

\* The controllers keep reconciling; AWS, OCM and Cluster API finish what they began.
Fairness ==
    /\ \A n \in Networks : WF_vars(NetworkWorker(n)) /\ WF_vars(StackProgress(n))
    /\ WF_vars(RoleWorker) /\ WF_vars(ControlPlaneWorker) /\ WF_vars(PoolWorker) /\ WF_vars(SyncNodePools)
    /\ WF_vars(ClusterProgress) /\ WF_vars(PoolProgress)

Spec == Init /\ [][Next]_vars
FairSpec == Spec /\ Fairness

-----------------------------------------------------------------------------
(* Properties *)

\* An object that is gone left nothing behind: a control plane no cluster and no
\* node pool, although its deletion does not wait for the pools; a network no
\* stack, unless it acted on the stack of another network (the field cfStack is
\* shared); a role configuration no role and no recorded OIDC configuration.  And
\* no admin user exists whose password is not stored.
NoOrphanROSA ==
    /\ cp.st = "gone" => ocm.st = "none" /\ np.pool.st = "none"
    /\ \A n \in Networks : net[n].st = "gone" /\ n \notin raced => stack[n] = Network!None
    /\ rc.st = "gone" => ~iam.acct /\ iam.op = 0 /\ rc.loc.id \notin oidc \cup iam.prov
    /\ ocm.adm # "none" => access.pw

Asked == cp.st = "live" /\ ocm.st = "ready" /\ rc.st \in {"absent", "live"}
Agreed == spec.gate # "WaitForAcknowledge" \/ spec.version \in ocm.acked

\* The roles become ready.  The cluster reaches the configuration asked for and,
\* once the gates of the version are agreed to, the version; it gets its
\* kubeconfig; and the node pool reaches the size its objects ask for, whether they
\* were there first or the sync made them, and the version, unless the size is zero:
\* such a pool is never ready, and only ready pools are upgraded.
ROSAConverges ==
    <>[](/\ rc.st = "live" => rc.loc.ready
         /\ Asked =>
           /\ ocm.cfg = spec.cfg /\ ocm.fwd = spec.fwd
           /\ Agreed => ocm.ver = spec.version /\ access.kube
           /\ Pool!PoolReady(np.pool) /\ mp # "deleting" => rmp.st # "absent"
           /\ rmp.st = "live" /\ mp = "live" /\ rspec.version <= ocm.ver
                => /\ np.pool.st = "ready" /\ np.pool.size = rspec.size
                   /\ rspec.size # 0 => np.pool.ver >= rspec.version)

\* A deletion ends: of a control plane, although OCM refuses to delete the last
\* node pool; of a pool whose control plane went first; of a network whose stack
\* can be deleted and that did not act on another one's; and of roles no cluster
\* uses, unless an earlier attempt deleted what the deletion starts with or a failed
\* reconcile recorded the OIDC configuration without its provider.
ROSADeletionCompletes ==
    <>[](/\ cp.st # "deleting"
         /\ cp.st = "gone" => ~(rmp.st = "deleting" /\ rmp.owner)
         /\ \A n \in Networks : net[n].st = "deleting" => n \in raced \/ stack[n] = "DELETE_FAILED"
         /\ rc.st = "deleting" => ocm.st # "none" \/ Roles!CannotBeDeleted)

=============================================================================

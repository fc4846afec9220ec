-------------------------- MODULE ROSAMachinePool --------------------------
(***************************************************************************)
(* One node pool of a ROSA cluster: the ROSAMachinePool controller         *)
(* (exp/controllers/rosamachinepool_controller.go), and the part of the    *)
(* ROSACluster controller (controllers/rosacluster_controller.go) that     *)
(* creates the objects of a node pool that has none.  A component of ROSA. *)
(***************************************************************************)
EXTENDS Naturals

CONSTANTS MaxVersion, MaxSize, FaultKinds, MaxFaults

VARIABLES
    ocm, cp, spec,  \* the cluster, the control plane object and its spec
    np,     \* the node pool: st, size, ver, upg; sole: OCM made it with the
            \* cluster, and it is the only one
    mp,     \* the MachinePool object: "absent", "live", "deleting"
    rspec,  \* what the objects ask for: size, version
    rmp,    \* the stored ROSAMachinePool: st, owner, fin
    pw,     \* the reconcile of the ROSAMachinePool: pc, fin, and rspec as read
    sw,     \* the reconcile of the ROSACluster: pc
    halved, \* the MachinePool could not be created beside its ROSAMachinePool
    faults

Versions == 1 .. MaxVersion
Sizes == 0 .. MaxSize
Wanted == [size: Sizes, version: Versions]
NoNodePool == [st |-> "none", size |-> 1, ver |-> 1, upg |-> 0]
NoObject == [st |-> "absent", owner |-> FALSE, fin |-> FALSE]
NoWork == [pc |-> "idle", fin |-> FALSE, sp |-> [size |-> 1, version |-> 1]]

TypeOK ==
    /\ np \in [pool: [st: {"none", "creating", "ready", "deleting"}, size: Sizes, ver: Versions,
                      upg: 0 .. MaxVersion], sole: BOOLEAN]
    /\ mp \in {"absent", "live", "deleting"} /\ rspec \in Wanted /\ pw.sp \in Wanted
    /\ rmp \in [st: {"absent", "live", "deleting"}, owner: BOOLEAN, fin: BOOLEAN]
    /\ sw \in {"idle", "rosaPool", "pool"} /\ halved \in BOOLEAN

\* A cluster with a pool: OCM makes the node pool with the cluster, the user makes
\* the objects, or both.
Init(exists) ==
    /\ \E sole, objects \in (IF exists THEN BOOLEAN ELSE {FALSE}) :
          /\ exists => sole \/ objects
          /\ np = [pool |-> NoNodePool, sole |-> sole]
          /\ mp = (IF objects THEN "live" ELSE "absent")
          /\ rmp = [NoObject EXCEPT !.st = mp]
    /\ rspec = [size |-> 1, version |-> 1] /\ pw = NoWork /\ sw = "idle" /\ halved = FALSE

Fault(kind) == kind \in FaultKinds /\ faults < MaxFaults /\ faults' = faults + 1
NoFault == faults' = faults
Goto(pc) == pw' = [pw EXCEPT !.pc = pc]

objectVars == <<mp, rspec, rmp>>

-----------------------------------------------------------------------------
(* The ROSAMachinePool controller *)

\* Reconcile needs the owner, and a control plane that is ready or being deleted.
Reconcile ==
    /\ pw.pc = "idle" /\ rmp.st # "absent" /\ rmp.owner /\ NoFault
    /\ cp.st = "deleting" \/ (cp.st = "live" /\ cp.loc.ready)
    /\ pw' = [pc |-> IF rmp.st = "deleting" THEN "delete" ELSE IF rmp.fin THEN "get" ELSE "finalizer",
              fin |-> rmp.fin, sp |-> rspec]
    /\ UNCHANGED <<np, objectVars, sw, halved>>

\* "RosaControlPlane not found, RosaMachinePool is deleted".
ControlPlaneNotFound ==
    /\ pw.pc = "idle" /\ rmp.st = "deleting" /\ rmp.owner /\ cp.st = "gone"
    /\ \/ NoFault /\ rmp' = NoObject
       \/ Fault("patch") /\ UNCHANGED rmp
    /\ UNCHANGED <<np, mp, rspec, pw, sw, halved>>

AddFinalizer ==
    /\ pw.pc = "finalizer"
    /\ \/ /\ NoFault /\ rmp.st # "absent" /\ rmp' = [rmp EXCEPT !.fin = TRUE]
          /\ pw' = [pw EXCEPT !.fin = TRUE, !.pc = "get"]
       \/ /\ IF rmp.st = "absent" THEN NoFault ELSE Fault("patch")
          /\ pw' = [pw EXCEPT !.fin = TRUE, !.pc = "close"] /\ UNCHANGED rmp
    /\ UNCHANGED <<np, mp, rspec, sw, halved>>

\* validateMachinePoolSpec: a version above the one of the control plane's spec
\* (not the one it has) ends the reconcile.
Valid == pw.sp.version <= spec.version

\* Mutation: the size is left alone once the node pool was made.
SizeWanted_Kept == np.pool.size

\* The size updateNodePool asks for (no autoscaling).
SizeWanted == pw.sp.size

\* IsNodePoolReady: as many replicas as asked for; never if none are asked for
\* (no autoscaling).
PoolReady(p) == p.st = "ready" /\ p.size # 0

Resized == IF np.pool.size = SizeWanted THEN np
           ELSE [np EXCEPT !.pool.size = SizeWanted, !.pool.st = "creating"]

\* GetNodePool, and updateNodePool on what it found.  Here and below a call that
\* fails may have taken effect.
UpdateNodePool ==
    /\ pw.pc = "get"
    /\ \/ NoFault /\ ~Valid /\ Goto("close") /\ UNCHANGED np
       \/ NoFault /\ Valid /\ np.pool.st = "none" /\ Goto("create") /\ UNCHANGED np
       \/ /\ NoFault /\ Valid /\ np.pool.st \in {"creating", "ready"}
          /\ np' = Resized
          /\ Goto(IF PoolReady(Resized.pool) THEN "version" ELSE "close")
       \/ NoFault /\ Valid /\ np.pool.st = "deleting" /\ Goto("close") /\ UNCHANGED np
       \/ /\ Fault("ocm") /\ Valid /\ Goto("close")
          /\ UNCHANGED np \/ (np.pool.st \in {"creating", "ready"} /\ np' = Resized)
    /\ UNCHANGED <<objectVars, sw, halved>>

\* ScheduleNodePoolUpgrade, if none is scheduled: OCM refuses a version the cluster does not have.
Schedulable ==
    /\ pw.sp.version > np.pool.ver /\ np.pool.upg = 0
    /\ PoolReady(np.pool) /\ pw.sp.version <= ocm.ver

ReconcileMachinePoolVersion ==
    /\ pw.pc = "version" /\ Goto("close")
    /\ \/ /\ NoFault \/ Fault("ocm")
          /\ np' = IF Schedulable THEN [np EXCEPT !.pool.upg = pw.sp.version] ELSE np
       \/ Fault("ocm") /\ UNCHANGED np
    /\ UNCHANGED <<objectVars, sw, halved>>

\* nodePoolBuilder
NewNodePool == [st |-> "creating", size |-> pw.sp.size, ver |-> pw.sp.version, upg |-> 0]

CreateNodePool ==
    /\ pw.pc = "create" /\ Goto("close")
    /\ \/ /\ NoFault \/ Fault("ocm")
          /\ np' = IF ocm.st = "ready" /\ np.pool.st = "none" /\ pw.sp.version <= ocm.ver
                   THEN [np EXCEPT !.pool = NewNodePool] ELSE np
       \/ Fault("ocm") /\ UNCHANGED np
    /\ UNCHANGED <<objectVars, sw, halved>>

\* OCM deletes the last node pool with the cluster only.
Deletable == ~np.sole \/ ocm.st \in {"none", "uninstalling"}

\* An error of DeleteNodePool ends reconcileDelete before the finalizer goes.
Kept == np.pool.st # "none" /\ ~Deletable

DeleteNodePool ==
    /\ pw.pc = "delete"
    /\ \/ /\ \/ NoFault /\ pw' = [pw EXCEPT !.fin = Kept, !.pc = "close"]
             \/ Fault("ocm") /\ Goto("close")
          /\ np' = IF np.pool.st = "none" \/ ~Deletable THEN np
                   ELSE [np EXCEPT !.pool.st = "deleting", !.pool.upg = 0]
       \/ Fault("ocm") /\ Goto("close") /\ UNCHANGED np
    /\ UNCHANGED <<objectVars, sw, halved>>

Close ==
    /\ pw.pc = "close" /\ pw' = NoWork
    /\ \/ /\ NoFault
          /\ rmp' = IF rmp.st = "absent" \/ (rmp.st = "deleting" /\ ~pw.fin) THEN NoObject
                    ELSE [rmp EXCEPT !.fin = pw.fin]
       \/ Fault("patch") /\ UNCHANGED rmp
    /\ UNCHANGED <<np, mp, rspec, sw, halved>>

PoolWorker ==
    \/ Reconcile \/ ControlPlaneNotFound \/ AddFinalizer \/ UpdateNodePool
    \/ ReconcileMachinePoolVersion \/ CreateNodePool \/ DeleteNodePool \/ Close

-----------------------------------------------------------------------------
(* syncROSAClusterNodePools of the ROSACluster controller *)

\* The ready node pools (one in deletion may still count as such) that have no
\* ROSAMachinePool.  A control plane in deletion triggers no sync
\* (rosaControlPlaneToManagedCluster), but a resync of the ROSACluster does.
ListNodePools ==
    /\ sw = "idle" /\ cp.loc.ready
    /\ (cp.st = "live" /\ NoFault) \/ (cp.st = "deleting" /\ Fault("resync"))
    /\ np.pool.st \in {"ready", "deleting"} /\ np.pool.size # 0
    /\ rmp.st = "absent" /\ sw' = "rosaPool"
    /\ UNCHANGED <<np, objectVars, pw, halved>>

\* buildROSAMachinePool: the ROSAMachinePool asks for the version the node pool has;
\* the MachinePool asks for one replica, whatever the node pool has.
AdoptedVersion == IF np.pool.st = "none" THEN rspec.version ELSE np.pool.ver
AdoptedSize == 1

\* Each creation is tried, whatever became of the other.
CreateROSAMachinePool ==
    /\ sw = "rosaPool" /\ sw' = "pool"
    /\ \/ /\ NoFault
          /\ rmp' = IF rmp.st = "absent" THEN [NoObject EXCEPT !.st = "live"] ELSE rmp
          /\ rspec' = IF rmp.st = "absent" THEN [rspec EXCEPT !.version = AdoptedVersion] ELSE rspec
       \/ Fault("kube") /\ UNCHANGED <<rmp, rspec>>
    /\ UNCHANGED <<np, mp, pw, halved>>

CreateMachinePool ==
    /\ sw = "pool" /\ sw' = "idle"
    /\ \/ /\ NoFault /\ mp = "absent" /\ mp' = "live"
          /\ rspec' = [rspec EXCEPT !.size = AdoptedSize] /\ UNCHANGED halved
       \/ NoFault /\ mp # "absent" /\ UNCHANGED <<mp, rspec, halved>>
       \/ Fault("kube") /\ mp = "absent" /\ halved' = TRUE /\ UNCHANGED <<mp, rspec>>
    /\ UNCHANGED <<np, rmp, pw>>

Sync == ListNodePools \/ CreateROSAMachinePool \/ CreateMachinePool

-----------------------------------------------------------------------------
(* OCM, Cluster API and the user, external *)

\* The node pool of a new cluster, with one replica for every availability zone
\* (buildOCMClusterSpec), and the course of every node pool.
Progress ==
    /\ NoFault
    /\ \/ /\ ocm.st = "ready" /\ np.sole /\ np.pool.st = "none"
          /\ \E zones \in Sizes \ {0} :
                np' = [np EXCEPT !.pool = [st |-> "ready", size |-> zones, ver |-> ocm.ver, upg |-> 0]]
       \/ np.pool.st = "creating" /\ np' = [np EXCEPT !.pool.st = "ready"]
       \/ np.pool.upg # 0 /\ np' = [np EXCEPT !.pool.ver = np.pool.upg, !.pool.upg = 0]
       \/ /\ np.pool.st = "deleting" \/ (ocm.st = "uninstalling" /\ np.pool.st # "none")
          /\ np' = [np EXCEPT !.pool = NoNodePool]
    /\ UNCHANGED <<objectVars, pw, sw, halved>>

\* The MachinePool controller: it sets the owner, and deletes the ROSAMachinePool
\* before its object goes.
MachinePoolController ==
    /\ NoFault
    /\ \/ /\ mp = "live" /\ rmp.st = "live" /\ ~rmp.owner /\ rmp' = [rmp EXCEPT !.owner = TRUE]
          /\ UNCHANGED mp
       \/ /\ mp = "deleting" /\ rmp.st = "live"
          /\ rmp' = (IF rmp.fin THEN [rmp EXCEPT !.st = "deleting"] ELSE NoObject) /\ UNCHANGED mp
       \/ mp = "deleting" /\ rmp.st = "absent" /\ mp' = "absent" /\ UNCHANGED rmp
    /\ UNCHANGED <<np, rspec, pw, sw, halved>>

EditPool ==
    /\ rmp.st = "live" /\ mp = "live"
    /\ \E want \in Wanted \ {rspec} : want.version >= rspec.version /\ rspec' = want
    /\ UNCHANGED <<np, mp, rmp, pw, sw, halved>>

DeletePool ==
    /\ mp = "live" /\ mp' = "deleting"
    /\ UNCHANGED <<np, rspec, rmp, pw, sw, halved>>

=============================================================================

---------------------------- MODULE EKSBootstrap ----------------------------
(***************************************************************************)
(* The EKS bootstrap provider (bootstrap/eks/controllers): the EKSConfig   *)
(* and NodeadmConfig controllers, which write the user data of a Machine   *)
(* or a MachinePool into a secret once the cluster is initialised, and the *)
(* AWSManagedCluster controller, which tells Cluster API that it is.       *)
(*                                                                         *)
(* The work queue is part of the state: a reconcile that waits returns     *)
(* without an error, and what happens next depends on who enqueues the     *)
(* configuration again.  User data is the configuration it is made from.   *)
(* A component of EKSWorkers.                                              *)
(***************************************************************************)
EXTENDS Naturals

CONSTANTS FaultKinds, MaxFaults

VARIABLES
    cp,       \* the control plane object
    up,       \* its endpoint and Status.Initialized are stored
    mcl,      \* the AWSManagedCluster: ready, and has the endpoint
    capi,     \* Cluster.Status.Initialization: infra, init
    bkind,    \* kind: "EKSConfig" or "NodeadmConfig"; owner: "Machine" or "MachinePool";
              \* or "none" when there is no configuration
    bspec,    \* the spec of the configuration
    bobj,     \* its stored status: name (DataSecretName) and cond (DataSecretAvailable)
    secret,   \* the data of the bootstrap secret (0: none)
    scache,   \* the secret as the controller's cache has it
    bw,       \* the reconcile: pc, and copies of spec and status
    bq,       \* the configuration is in the work queue
    faults

Datas == 1 .. 2
Conds == {"unknown", "WaitingForClusterInfrastructure", "WaitingForControlPlaneInitialization",
          "DataSecretGenerationFailed", "true"}
Locals == [name: BOOLEAN, cond: Conds]
NoLocal == [name |-> FALSE, cond |-> "unknown"]
NoWork == [pc |-> "idle", spec |-> 1, loc |-> NoLocal]
Kinds == [kind: {"EKSConfig", "NodeadmConfig"}, owner: {"Machine", "MachinePool"}]
NoKind == [kind |-> "none", owner |-> "none"]

TypeOK ==
    /\ mcl \in [ready: BOOLEAN, endpoint: BOOLEAN] /\ capi \in [infra: BOOLEAN, init: BOOLEAN]
    /\ bkind \in Kinds \cup {NoKind} /\ bspec \in Datas /\ bobj \in Locals
    /\ {secret, scache} \subseteq {0} \cup Datas
    /\ bw.spec \in Datas /\ bw.loc \in Locals /\ bq \in BOOLEAN

Init(exists) ==
    /\ bkind \in IF exists THEN Kinds ELSE {NoKind}
    /\ mcl = [ready |-> FALSE, endpoint |-> FALSE] /\ capi = [infra |-> FALSE, init |-> FALSE]
    /\ bspec = 1 /\ bobj = NoLocal /\ secret = 0 /\ scache = 0 /\ bw = NoWork /\ bq = exists

clusterVars == <<mcl, capi>>

Fault(kind) == kind \in FaultKinds /\ faults < MaxFaults /\ faults' = faults + 1
NoFault == faults' = faults
Return(cond, requeue) == bw' = [bw EXCEPT !.pc = "close", !.loc.cond = cond] /\ bq' = requeue

-----------------------------------------------------------------------------
(* The controllers *)

\* AWSManagedCluster: ready as soon as the control plane object exists, and
\* enqueued by it once there is an endpoint.
ReconcileManagedCluster ==
    /\ bkind # NoKind /\ cp.st # "gone" /\ mcl # [ready |-> TRUE, endpoint |-> up]
    /\ \/ NoFault /\ mcl' = [ready |-> TRUE, endpoint |-> up]
       \/ Fault("patch") /\ UNCHANGED mcl
    /\ UNCHANGED <<capi, bkind, bspec, bobj, secret, scache, bw, bq>>

\* Without an owner or a cluster the configuration is requeued; here it has both.
Reconcile ==
    /\ bw.pc = "idle" /\ bq /\ bkind # NoKind /\ NoFault
    /\ bw' = [pc |-> "join", spec |-> bspec, loc |-> bobj] /\ bq' = FALSE
    /\ UNCHANGED <<clusterVars, bkind, bspec, bobj, secret, scache>>

\* The secret of a Machine is written once; a MachinePool's follows the spec.
Written == bw.loc.name /\ bkind.owner = "Machine" /\ scache # 0

\* A NodeadmConfig looks at the condition of the control plane as well, which the
\* failure of any of its reconciles turns to false, and asks to be requeued.
ControlPlaneNotReady == bkind.kind = "NodeadmConfig" /\ (~up \/ cp.st = "gone")

JoinWorker ==
    /\ bw.pc = "join"
    /\ \/ NoFault /\ Written /\ Return(bw.loc.cond, bq)
       \/ NoFault /\ ~Written /\ ~capi.infra /\ Return("WaitingForClusterInfrastructure", bq)
       \/ /\ NoFault /\ ~Written /\ capi.infra /\ ~capi.init
          /\ Return("WaitingForControlPlaneInitialization", bq \/ bkind.kind = "NodeadmConfig")
       \/ /\ ~Written /\ capi.infra /\ capi.init
          /\ \/ NoFault /\ ~ControlPlaneNotReady /\ bw' = [bw EXCEPT !.pc = "store"] /\ UNCHANGED bq
             \/ /\ IF ControlPlaneNotReady THEN NoFault ELSE bkind.kind = "NodeadmConfig" /\ Fault("aws")
                /\ Return("DataSecretGenerationFailed", TRUE)
             \/ Fault("kube") /\ Return("DataSecretGenerationFailed", TRUE)
    /\ UNCHANGED <<clusterVars, bkind, bspec, bobj, secret, scache>>

\* storeBootstrapData decides on the cached secret: create it, update it when its
\* data differ, or leave it alone.  A stale copy makes the API server refuse.
StoreBootstrapData ==
    /\ bw.pc = "store"
    /\ \/ /\ NoFault /\ scache = bw.spec /\ UNCHANGED secret
          /\ bw' = [bw EXCEPT !.pc = "close", !.loc = [name |-> TRUE, cond |-> "true"]] /\ UNCHANGED bq
       \/ /\ NoFault /\ scache # bw.spec /\ scache = secret /\ secret' = bw.spec
          /\ bw' = [bw EXCEPT !.pc = "close", !.loc = [name |-> TRUE, cond |-> "true"]] /\ UNCHANGED bq
       \/ /\ NoFault /\ scache # bw.spec /\ scache # secret /\ UNCHANGED secret
          /\ Return("DataSecretGenerationFailed", TRUE)
       \/ /\ Fault("kube") /\ scache # bw.spec
          /\ secret' \in IF scache = secret THEN {secret, bw.spec} ELSE {secret}
          /\ Return("DataSecretGenerationFailed", TRUE)
    /\ UNCHANGED <<clusterVars, bkind, bspec, bobj, scache>>

\* The deferred patch; a status that changed is an event of its own.
Close ==
    /\ bw.pc = "close" /\ bw' = NoWork
    /\ \/ NoFault /\ bobj' = bw.loc /\ bq' = (bq \/ bobj # bw.loc)
       \/ bobj # bw.loc /\ Fault("patch") /\ bq' = TRUE /\ UNCHANGED bobj
    /\ UNCHANGED <<clusterVars, bkind, bspec, secret, scache>>

Worker == Reconcile \/ JoinWorker \/ StoreBootstrapData \/ Close

-----------------------------------------------------------------------------
(* Cluster API, the cache and the user *)

\* A cluster whose infrastructure becomes ready enqueues the configurations of its
\* Machines, not those of its MachinePools.
ClusterToConfigs == bkind.owner = "Machine"

SetInfrastructureProvisioned ==
    /\ bkind # NoKind /\ ~capi.infra /\ mcl.ready /\ mcl.endpoint /\ NoFault
    /\ capi' = [capi EXCEPT !.infra = TRUE] /\ bq' = (bq \/ ClusterToConfigs)
    /\ UNCHANGED <<mcl, bkind, bspec, bobj, secret, scache, bw>>
SetControlPlaneInitialized ==
    /\ bkind # NoKind /\ ~capi.init /\ up /\ NoFault /\ capi' = [capi EXCEPT !.init = TRUE]
    /\ UNCHANGED <<mcl, bkind, bspec, bobj, secret, scache, bw, bq>>

CacheSync ==
    /\ scache # secret /\ scache' = secret /\ NoFault
    /\ UNCHANGED <<clusterVars, bkind, bspec, bobj, secret, bw, bq>>

\* The sync period of the manager.
Resync ==
    /\ bkind # NoKind /\ ~bq /\ bq' = TRUE /\ NoFault
    /\ UNCHANGED <<clusterVars, bkind, bspec, bobj, secret, scache, bw>>

EditConfig ==
    /\ bkind # NoKind /\ bspec' \in Datas \ {bspec} /\ bq' = TRUE
    /\ UNCHANGED <<clusterVars, bkind, bobj, secret, scache, bw>>

=============================================================================

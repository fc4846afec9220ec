---------------------------- MODULE EKSWorkload ----------------------------
(***************************************************************************)
(* The end of the AWSManagedControlPlane reconcile: the services that edit *)
(* the workload cluster, for the VPC CNI (pkg/cloud/services/awsnode),     *)
(* kube-proxy (kubeproxy) and the IAM authenticator (iamauth), whose       *)
(* ConfigMap aws-auth has other writers.  A component of EKSWorkers.       *)
(***************************************************************************)
EXTENDS Naturals, Sequences

CONSTANTS FaultKinds, MaxFaults

VARIABLES
    wopts,  \* the spec: off (VPC CNI and kube-proxy disabled), labelled (the objects
            \* that carry the PreventDeletion label)
    wl,     \* the workload cluster: objs (what EKS installed), eni (ENIConfigs for the
            \* secondary subnets), env (the environment of aws-node)
    auth,   \* the mappings in aws-auth
    raced,  \* mappings of others that were overwritten
    aw,     \* the reconcile: pc, todo (mappings), seen (as read from aws-auth)
    faults

\* What deleteCNI deletes, in its order.
CNI == <<"DaemonSet", "ServiceAccount", "ClusterRoleBinding", "ClusterRole">>
Objects == {CNI[i] : i \in DOMAIN CNI}
Mappings == {"node", "spec", "fargate"}
NoWork == [pc |-> "idle", todo |-> {}, seen |-> {}]

TypeOK ==
    /\ wopts \in [off: BOOLEAN, labelled: SUBSET Objects]
    /\ wl \in [objs: SUBSET (Objects \cup {"kube-proxy"}), eni: BOOLEAN, env: BOOLEAN]
    /\ auth \subseteq Mappings /\ raced \subseteq Mappings
    /\ aw.todo \subseteq Mappings /\ aw.seen \subseteq Mappings

Init(options) ==
    /\ wopts \in IF options THEN [off: BOOLEAN, labelled: {{}, {"DaemonSet"}}]
                 ELSE {[off |-> FALSE, labelled |-> {}]}
    /\ wl = [objs |-> Objects \cup {"kube-proxy"}, eni |-> FALSE, env |-> FALSE]
    /\ auth = {} /\ raced = {} /\ aw = NoWork

Fault(kind) == kind \in FaultKinds /\ faults < MaxFaults /\ faults' = faults + 1
NoFault == faults' = faults
Goto(pc) == aw' = [aw EXCEPT !.pc = pc]
Fails == Fault("kube") /\ aw' = NoWork

-----------------------------------------------------------------------------
(* awsnode and kubeproxy *)

Start(active) ==
    /\ aw.pc = "idle" /\ active /\ NoFault /\ Goto("cni")
    /\ UNCHANGED <<wopts, wl, auth, raced>>

\* deleteResource for the first n objects: a labelled one is left.
DeletedCNI(n) == [wl EXCEPT !.objs = @ \ ({CNI[i] : i \in 1 .. n} \ wopts.labelled)]

\* ReconcileCNI: the CNI is deleted, or configured, ENIConfigs first.
ReconcileCNI ==
    LET steps == IF wopts.off THEN [n \in 0 .. Len(CNI) |-> DeletedCNI(n)]
                 ELSE [n \in 0 .. 2 |-> [wl EXCEPT !.eni = @ \/ n > 0, !.env = @ \/ n > 1]]
    IN  /\ aw.pc = "cni"
        /\ \/ NoFault /\ wl' = steps[IF wopts.off THEN Len(CNI) ELSE 2] /\ Goto("proxy")
           \/ Fails /\ \E n \in DOMAIN steps : wl' = steps[n]
        /\ UNCHANGED <<wopts, auth, raced>>

ReconcileKubeProxy ==
    LET without == IF wopts.off THEN [wl EXCEPT !.objs = @ \ {"kube-proxy"}] ELSE wl
    IN  /\ aw.pc = "proxy"
        /\ \/ NoFault /\ wl' = without /\ Goto("roles")
           \/ Fails /\ wl' \in {wl, without}
        /\ UNCHANGED <<wopts, auth, raced>>

-----------------------------------------------------------------------------
(* iamauth *)

\* getRolesForWorkers: the role names of the pools; the mappings of the spec follow.
GetRolesForWorkers(named) ==
    /\ aw.pc = "roles"
    /\ \/ NoFault /\ aw' = [aw EXCEPT !.pc = "arn", !.todo = {"spec"} \cup (IF named THEN {"node"} ELSE {})]
       \/ Fails
    /\ UNCHANGED <<wopts, wl, auth, raced>>

\* The roles of the workers are mapped first.
Mapping == IF "node" \in aw.todo THEN "node" ELSE "spec"
Done(m) == aw' = IF aw.todo = {m} THEN NoWork ELSE [aw EXCEPT !.pc = "arn", !.todo = @ \ {m}, !.seen = {}]

\* getARNForRole: a role that does not exist ends the reconcile.
GetARNForRole(exists) ==
    /\ aw.pc = "arn"
    /\ \/ NoFault /\ (Mapping = "node" => exists) /\ Goto("read")
       \/ NoFault /\ Mapping = "node" /\ ~exists /\ aw' = NoWork
       \/ Mapping = "node" /\ Fault("aws") /\ aw' = NoWork
    /\ UNCHANGED <<wopts, wl, auth, raced>>

\* MapRole and MapUser read the mappings, ...
GetAuthConfig ==
    /\ aw.pc = "read"
    /\ \/ NoFault /\ Mapping \in auth /\ Done(Mapping)
       \/ NoFault /\ Mapping \notin auth /\ aw' = [aw EXCEPT !.pc = "save", !.seen = auth]
       \/ Fails
    /\ UNCHANGED <<wopts, wl, auth, raced>>

\* ... and saveAuthConfig reads the ConfigMap again and replaces its mappings by
\* those read before: the API server sees no conflict.
Saved == aw.seen \cup {Mapping}

SaveAuthConfig ==
    /\ aw.pc = "save"
    /\ \/ NoFault /\ auth' = Saved /\ raced' = raced \cup (auth \ Saved) /\ Done(Mapping)
       \/ Fails /\ auth' \in {auth, Saved} /\ raced' = raced \cup (auth \ auth')
    /\ UNCHANGED <<wopts, wl>>

Worker(active, named, exists) ==
    \/ Start(active) \/ ReconcileCNI \/ ReconcileKubeProxy \/ GetRolesForWorkers(named)
    \/ GetARNForRole(exists) \/ GetAuthConfig \/ SaveAuthConfig

-----------------------------------------------------------------------------
(* EKS maps the role of a Fargate profile, external *)

MapFargateRole ==
    /\ auth' = auth \cup {"fargate"} /\ raced' = raced \ {"fargate"}
    /\ UNCHANGED <<wopts, wl, aw>>

=============================================================================

----------------------------- MODULE AWSMachine -----------------------------
(***************************************************************************)
(* The life of one AWSMachine: the reconciler of                           *)
(* controllers/awsmachine_controller.go with the EC2, secret, Elastic IP   *)
(* and load balancer calls it makes, against the Kubernetes API server     *)
(* that stores the object and the AWS account that stores the resources.   *)
(*                                                                         *)
(* The work queue runs one reconcile of a machine at a time, so there is   *)
(* one reconcile in flight.  It is cut at every call that leaves the       *)
(* process: between two steps the instance may change state, the object    *)
(* may be deleted, the cache may move and the process may die.  Conditions *)
(* are left out except the one the control flow reads; Status.Ready is     *)
(* "istate is running", the two being assigned and patched together.       *)
(***************************************************************************)
EXTENDS Naturals, Sequences, FiniteSets

CONSTANTS
    Instances,      \* instance ids the account can hand out (its quota)
    Hosts,          \* dedicated host ids the account can hand out
    Eips,           \* Elastic IP allocation ids of the public IPv4 pool
    Prefixes,       \* secret prefixes uuid.NewUUID can return
    None,           \* an unset pointer or empty string
    NChunks,        \* secret entries the compressed userdata is split into
    SecretBackend,  \* "none" (insecureSkipSecretsManager), "sm" or "ssm"
    DynamicHost,    \* Spec.DynamicHostAllocation is set
    ElasticIPPool,  \* Spec.ElasticIPPool is set
    LoadBalancers,  \* types of ControlPlaneLoadBalancers(); <<>> for a worker
    ImageKnown,     \* Spec.AMI.ID or Machine.Spec.Version is set
    CanStop,        \* somebody stops and starts instances behind the controller
    FaultKinds,     \* the faults considered, out of AllFaults
    MaxFaults       \* bound on the number of faults in a behaviour

AllFaults == {"aws", "patch", "crash", "stale", "denied"}

ASSUME ConstantsAssumption ==
    /\ None \notin Instances \cup Hosts \cup Eips \cup Prefixes
    /\ NChunks \in Nat \ {0}
    /\ SecretBackend \in {"none", "sm", "ssm"}
    /\ DynamicHost \in BOOLEAN
    /\ ElasticIPPool \in BOOLEAN
    /\ LoadBalancers \in Seq({"classic", "v2"})
    /\ ImageKnown \in BOOLEAN
    /\ CanStop \in BOOLEAN
    /\ FaultKinds \subseteq AllFaults
    /\ MaxFaults \in Nat

VARIABLES
    \* AWS
    inst,     \* state of every instance id
    hosts,    \* state of every dedicated host id
    secrets,  \* the chunk stored under every prefix and index, 0 for no entry
    eips,     \* role tag and association of every Elastic IP
    lbs,      \* instances registered with every load balancer
    \* Kubernetes API server
    obj,      \* the AWSMachine as stored
    cache,    \* the AWSMachine as the controller's informer cache has it
    node,     \* Machine.Status.NodeRef is set
    mdel,     \* Machine.DeletionTimestamp is set
    \* the reconcile in flight
    pc,       \* the call it makes next, "idle" when there is none
    mem,      \* machineScope.AWSMachine
    base,     \* what the patch helper compares mem with
    loc,      \* the local variables
    faults,   \* faults so far
    \* history: what exists in AWS without the controller knowing of it
    lostHosts,   \* hosts whose id was lost before it was stored
    lostEntries  \* secret entries whose creation was not answered

awsVars == <<inst, hosts, secrets, eips, lbs>>
apiVars == <<obj, cache, node, mdel>>
ctlVars == <<pc, mem, base, loc>>
lostVars == <<lostHosts, lostEntries>>
vars == <<awsVars, apiVars, ctlVars, faults, lostVars>>

-----------------------------------------------------------------------------
(* Data *)

\* api/v1beta2/types.go: the three nested sets of instance states.
InstanceRunningStates == {"pending", "running"}
InstanceOperationalStates == InstanceRunningStates \cup {"stopping", "stopped"}
InstanceKnownStates == InstanceOperationalStates \cup {"shutting-down", "terminated"}

\* "none": never launched, "gone": no longer described.
InstanceStates == InstanceKnownStates \cup {"none", "gone"}
HostStates == {"free", "allocated", "released"}
EipRecords == [role: Instances \cup {None}, assoc: BOOLEAN]
Indexes == 0 .. NChunks - 1
LBIndexes == 1 .. Len(LoadBalancers)

\* The fields of an AWSMachine that the control flow reads or writes.
\* finalizer, pid, prefix and count are metadata and spec, istate, failed,
\* host and provFailed (condition InstanceReady has reason
\* InstanceProvisionFailed) are status.
AWSMachines ==
    [exists: BOOLEAN, deleting: BOOLEAN, finalizer: BOOLEAN,
     pid: Instances \cup {None},
     prefix: Prefixes \cup {None}, count: 0 .. NChunks,
     istate: InstanceKnownStates \cup {None}, failed: BOOLEAN,
     host: Hosts \cup {None}, provFailed: BOOLEAN]

NewAWSMachine ==
    [exists |-> TRUE, deleting |-> FALSE, finalizer |-> FALSE, pid |-> None,
     prefix |-> None, count |-> 0, istate |-> None, failed |-> FALSE,
     host |-> None, provFailed |-> FALSE]

\* node, mdel: NodeRef and DeletionTimestamp of the Machine read at the start;
\* found, fst: the instance and the state it had when it was described;
\* pfx, chunk, written, serr: secret service Create; lb, lberr: the loop over
\* the load balancers.
Locals ==
    [node: BOOLEAN, mdel: BOOLEAN,
     found: Instances \cup {None}, fst: InstanceKnownStates \cup {None},
     pfx: Prefixes \cup {None}, chunk: 0 .. NChunks, written: 0 .. NChunks,
     serr: BOOLEAN, lb: 1 .. Len(LoadBalancers) + 1, lberr: BOOLEAN]

NoLocals ==
    [node |-> FALSE, mdel |-> FALSE, found |-> None, fst |-> None,
     pfx |-> None, chunk |-> 0, written |-> 0, serr |-> FALSE,
     lb |-> 1, lberr |-> FALSE]

Labels ==
    {"idle", "delBoot", "find", "finalizer", "provision", "secret", "register",
     "create", "launch", "tagENI", "eip", "associate", "update", "tags", "lb",
     "operational", "terminate", "releaseHost", "releaseEIP", "close"}

TypeOK ==
    /\ inst \in [Instances -> InstanceStates]
    /\ hosts \in [Hosts -> HostStates]
    /\ secrets \in [Prefixes -> [Indexes -> 0 .. NChunks]]
    /\ eips \in [Eips -> EipRecords]
    /\ lbs \in [LBIndexes -> SUBSET Instances]
    /\ obj \in AWSMachines /\ cache \in AWSMachines
    /\ node \in BOOLEAN /\ mdel \in BOOLEAN
    /\ pc \in Labels
    /\ mem \in AWSMachines /\ base \in AWSMachines
    /\ loc \in Locals
    /\ faults \in 0 .. MaxFaults
    /\ lostHosts \subseteq Hosts
    /\ lostEntries \subseteq Prefixes \X Indexes

Init ==
    /\ inst = [i \in Instances |-> "none"]
    /\ hosts = [h \in Hosts |-> "free"]
    /\ secrets = [p \in Prefixes |-> [x \in Indexes |-> 0]]
    /\ eips = [e \in Eips |-> [role |-> None, assoc |-> FALSE]]
    /\ lbs = [k \in LBIndexes |-> {}]
    /\ obj = NewAWSMachine /\ cache = NewAWSMachine
    /\ node = FALSE /\ mdel = FALSE
    /\ pc = "idle"
    /\ mem = NewAWSMachine /\ base = NewAWSMachine
    /\ loc = NoLocals
    /\ faults = 0
    /\ lostHosts = {} /\ lostEntries = {}

-----------------------------------------------------------------------------
(* Faults and the patch helper *)

\* One more fault of a considered kind, within the bound.
Fault(kind) == kind \in FaultKinds /\ faults < MaxFaults /\ faults' = faults + 1

NoFault == faults' = faults

\* A Kubernetes object with a deletion timestamp and no finalizer is removed.
Collected(o) == [o EXCEPT !.exists = @ /\ ~(o.deleting /\ ~o.finalizer)]

\* patchHelper.Patch(m): the fields in which m differs from base are written,
\* metadata and spec by one call, the status by another.
Patched(m, spec, status) ==
    LET written(new, old, cur, done) == IF done /\ new # old THEN new ELSE cur
    IN  Collected(
          [exists |-> obj.exists, deleting |-> obj.deleting,
           finalizer |-> written(m.finalizer, base.finalizer, obj.finalizer, spec),
           pid |-> written(m.pid, base.pid, obj.pid, spec),
           prefix |-> written(m.prefix, base.prefix, obj.prefix, spec),
           count |-> written(m.count, base.count, obj.count, spec),
           istate |-> written(m.istate, base.istate, obj.istate, status),
           failed |-> written(m.failed, base.failed, obj.failed, status),
           host |-> written(m.host, base.host, obj.host, status),
           provFailed |->
             written(m.provFailed, base.provFailed, obj.provFailed, status)])

PatchSucceeds(m) == obj.exists /\ obj' = Patched(m, TRUE, TRUE) /\ NoFault

\* The object is gone, or one of the two calls or both fail.
PatchFails(m) ==
    \/ ~obj.exists /\ UNCHANGED obj /\ NoFault
    \/ /\ obj.exists /\ Fault("patch")
       /\ \E spec, status \in BOOLEAN :
            ~(spec /\ status) /\ obj' = Patched(m, spec, status)

Goto(label) == pc' = label

\* Mutation: the host allocated by the failed attempt is not recorded.
CreateFailed_HostForgotten(m) ==
    Goto("close") /\ mem' = [m EXCEPT !.provFailed = TRUE, !.host = base.host]

\* createInstance returned an error: the condition gets reason
\* InstanceProvisionFailed and the reconcile returns.
CreateFailed(m) == Goto("close") /\ mem' = [m EXCEPT !.provFailed = TRUE]

-----------------------------------------------------------------------------
(* Reconcile *)

\* Reconcile reads the AWSMachine from the cache and the Machine.  A machine
\* in failed state only has its bootstrap data deleted.  (The early returns
\* before the infrastructure and the bootstrap data are ready change nothing
\* that is modelled here.)
Reconcile ==
    /\ pc = "idle" /\ cache.exists
    /\ "stale" \in FaultKinds \/ cache = obj
    /\ Goto(IF cache.deleting \/ cache.failed THEN "delBoot" ELSE "find")
    /\ mem' = cache /\ base' = cache
    /\ loc' = [NoLocals EXCEPT !.node = node, !.mdel = mdel]
    /\ UNCHANGED <<awsVars, apiVars, faults, lostVars>>

InstanceIsOperational == mem.istate \in InstanceOperationalStates

\* What deleteBootstrapData is followed by: findInstance of reconcileDelete,
\* the return of a failed machine, or the rest of reconcileNormal, which first
\* marks a machine with a terminated instance as failed.
AfterDeleteBootstrapData(m) ==
    IF m.deleting THEN Goto("find") /\ mem' = m
    ELSE IF loc.found = None THEN Goto("close") /\ mem' = m
    ELSE Goto("tags") /\ mem' = [m EXCEPT !.failed = @ \/ loc.fst = "terminated"]

\* Mutation: the bootstrap data is deleted although the node has not joined.
KeepBootstrapData_Eager == SecretBackend = "none" \/ mem.prefix = None

\* Mutation: the deletion of the machine is not looked at.
KeepBootstrapData_Deleting ==
    \/ SecretBackend = "none" \/ mem.prefix = None
    \/ mem.count > 0 /\ ~mem.failed /\ InstanceIsOperational /\ ~loc.node

\* deleteEncryptedBootstrapDataSecret has nothing to delete, or not yet.
KeepBootstrapData ==
    \/ SecretBackend = "none"
    \/ mem.prefix = None
    \/ /\ mem.count > 0 /\ ~mem.failed /\ InstanceIsOperational
       /\ ~loc.node /\ ~mem.deleting

WithoutEntries(S) ==
    [secrets EXCEPT ![mem.prefix] = [x \in Indexes |-> IF x \in S THEN 0 ELSE @[x]]]

\* deleteBootstrapData: secret service Delete tries every entry 0..count-1 and
\* fails if one of the calls did, with or without its effect; prefix and count are
\* kept then.
deleteBootstrapData ==
    /\ pc = "delBoot"
    /\ \/ /\ KeepBootstrapData
          /\ AfterDeleteBootstrapData(mem)
          /\ UNCHANGED secrets /\ NoFault
       \/ /\ ~KeepBootstrapData /\ mem.count > 0
          /\ secrets' = WithoutEntries(0 .. mem.count - 1)
          /\ AfterDeleteBootstrapData([mem EXCEPT !.prefix = None, !.count = 0])
          /\ NoFault
       \/ /\ ~KeepBootstrapData /\ mem.count > 0 /\ Fault("aws")
          /\ \E kept \in SUBSET (0 .. mem.count - 1) :
               secrets' = WithoutEntries((0 .. mem.count - 1) \ kept)
          /\ Goto("close") /\ UNCHANGED mem
       \/ \* "secretPrefix present, but secretCount is not set"
          /\ ~KeepBootstrapData /\ mem.count = 0
          /\ Goto("close") /\ UNCHANGED <<mem, secrets>> /\ NoFault
    /\ UNCHANGED <<inst, hosts, eips, lbs, apiVars, base, loc, lostVars>>

Found(i) ==
    /\ loc' = [loc EXCEPT !.found = i, !.fst = inst[i]]
    /\ Goto(IF mem.deleting THEN "lb" ELSE "finalizer")
    /\ UNCHANGED mem

\* Mutation: an instance that has not come up yet is overlooked.
ByTags_RunningOnly == {i \in Instances : inst[i] = "running"}

\* GetRunningInstanceByTags: only pending and running instances are asked for.
ByTags == {i \in Instances : inst[i] \in {"pending", "running"}}

\* Mutation: ErrInstanceNotFoundByID is an error like any other.
NothingToDelete_ByTagsOnly == mem.deleting /\ mem.pid = None /\ ByTags = {}

\* Mutation: without a provider id there is no instance.
NothingToDelete_ByIdOnly ==
    mem.deleting /\ (mem.pid # None => inst[mem.pid] = "gone")

\* reconcileDelete finds no instance; not to find it by its id is no error.
NothingToDelete ==
    mem.deleting /\ IF mem.pid = None THEN ByTags = {} ELSE inst[mem.pid] = "gone"

\* findInstance of reconcileNormal and of reconcileDelete.  The latter removes
\* the finalizer when there is no instance.
findInstance ==
    /\ pc = "find"
    /\ \/ mem.pid = None /\ NoFault /\ \E i \in ByTags : Found(i)
       \/ /\ mem.pid # None /\ NoFault /\ inst[mem.pid] \in InstanceKnownStates
          /\ Found(mem.pid)
       \/ /\ NothingToDelete /\ NoFault
          /\ mem' = [mem EXCEPT !.finalizer = FALSE]
          /\ Goto("close") /\ UNCHANGED loc
       \/ /\ ~mem.deleting /\ mem.pid = None /\ ByTags = {} /\ NoFault
          /\ Goto("finalizer") /\ UNCHANGED <<mem, loc>>
       \/ \* the query fails, or the recorded instance is no longer described
          /\ \/ Fault("aws")
             \/ /\ ~NothingToDelete /\ NoFault
                /\ mem.pid # None /\ inst[mem.pid] = "gone"
          /\ mem' = [mem EXCEPT !.provFailed = @ /\ mem.deleting]
          /\ Goto("close") /\ UNCHANGED loc
    /\ UNCHANGED <<awsVars, apiVars, base, lostVars>>

-----------------------------------------------------------------------------
(* reconcileNormal *)

AfterFinalizer == Goto(IF loc.found = None THEN "provision" ELSE "eip")

addFinalizer ==
    /\ pc = "finalizer"
    /\ mem' = [mem EXCEPT !.finalizer = TRUE]
    /\ \/ mem.finalizer /\ AfterFinalizer /\ UNCHANGED obj /\ NoFault
       \/ ~mem.finalizer /\ PatchSucceeds(mem') /\ AfterFinalizer
       \/ ~mem.finalizer /\ PatchFails(mem') /\ Goto("close")
    /\ UNCHANGED <<awsVars, cache, node, mdel, base, loc, lostVars>>

\* The prefix the secrets are stored under: the recorded one or a fresh one.
SecretPrefixes ==
    IF mem.prefix # None THEN {mem.prefix}
    ELSE {p \in Prefixes : p \notin {obj.prefix, cache.prefix}
                           /\ \A x \in Indexes : secrets[p][x] = 0}

\* Mark InstanceProvisionStarted, unless the last attempt failed, and start
\* createInstance.
markProvisionStarted ==
    /\ pc = "provision" /\ UNCHANGED mem
    /\ \/ /\ \/ mem.provFailed /\ UNCHANGED obj /\ NoFault
             \/ ~mem.provFailed /\ PatchSucceeds(mem)
          /\ IF SecretBackend = "none" THEN Goto("create") /\ UNCHANGED loc
             ELSE /\ Goto("secret")
                  /\ \E p \in SecretPrefixes : loc' = [loc EXCEPT !.pfx = p]
       \/ ~mem.provFailed /\ PatchFails(mem) /\ Goto("close") /\ UNCHANGED loc
    /\ UNCHANGED <<awsVars, cache, node, mdel, base, lostVars>>

EntryExists == secrets[loc.pfx][loc.written] # 0

\* Mutation: Secrets Manager does not delete the entry of an earlier attempt.
CreateRefused_Both == EntryExists

CreateRefused == SecretBackend = "ssm" /\ EntryExists

\* One iteration of the loop of secret service Create.  An entry is named
\* after the number of entries written so far.  Secrets Manager replaces an
\* existing entry by deleting it first; SSM refuses to overwrite one.  A
\* failed chunk does not end the loop.  A call that fails may have deleted the
\* existing entry, or have stored the new one without its answer arriving.
createSecretChunk ==
    /\ pc = "secret" /\ loc.chunk < NChunks
    /\ LET failed == loc' = [loc EXCEPT !.chunk = @ + 1, !.serr = TRUE]
           store(v) == secrets' = [secrets EXCEPT ![loc.pfx][loc.written] = v]
           entry == <<loc.pfx, loc.written>>
       IN  \/ /\ ~CreateRefused /\ NoFault
              /\ store(loc.chunk + 1)
              /\ loc' = [loc EXCEPT !.chunk = @ + 1, !.written = @ + 1, !.serr = FALSE]
              /\ lostEntries' = lostEntries \ {entry}
           \/ CreateRefused /\ NoFault /\ failed /\ UNCHANGED <<secrets, lostEntries>>
           \/ /\ Fault("aws") /\ failed /\ UNCHANGED lostEntries
              /\ UNCHANGED secrets \/ (SecretBackend = "sm" /\ EntryExists /\ store(0))
           \/ /\ ~CreateRefused /\ Fault("aws") /\ failed
              /\ store(loc.chunk + 1) /\ lostEntries' = lostEntries \cup {entry}
    /\ Goto(IF loc.chunk + 1 = NChunks THEN "register" ELSE "secret")
    /\ UNCHANGED <<inst, hosts, eips, lbs, apiVars, mem, base, lostHosts>>

\* Mutation: the index of the last entry is taken for the number of entries.
RecordedSecrets_OffByOne ==
    IF loc.written > 0
    THEN [mem EXCEPT !.prefix = loc.pfx, !.count = loc.written + 1] ELSE mem

RecordedSecrets ==
    IF loc.written > 0
    THEN [mem EXCEPT !.prefix = loc.pfx, !.count = loc.written] ELSE mem

\* cloudInitUserData after Create: the prefix and the count are recorded and
\* patched before the error of Create is looked at.
registerSecret ==
    /\ pc = "register"
    /\ LET m == RecordedSecrets
       IN  \/ PatchSucceeds(m) /\ ~loc.serr /\ mem' = m /\ Goto("create")
           \/ PatchSucceeds(m) /\ loc.serr /\ CreateFailed(m)
           \/ PatchFails(m) /\ CreateFailed(m)
    /\ loc' = [loc EXCEPT !.pfx = None, !.chunk = 0, !.written = 0, !.serr = FALSE]
    /\ UNCHANGED <<awsVars, cache, node, mdel, base, lostVars>>

\* AllocateHosts takes effect.
Allocate(h) == hosts[h] = "free" /\ hosts' = [hosts EXCEPT ![h] = "allocated"]

\* CreateInstance up to RunInstances: without an image the machine fails for
\* good; lookups may fail; ensureDedicatedHostAllocation reuses the host in
\* the status or allocates one.  AllocateHosts carries no client token and no
\* lookup precedes it: a host whose allocation was not answered is lost.
prepareInstance ==
    /\ pc = "create"
    /\ LET allocating == ImageKnown /\ DynamicHost /\ mem.host = None
       IN  \/ /\ ~ImageKnown /\ CreateFailed([mem EXCEPT !.failed = TRUE])
              /\ UNCHANGED <<hosts, lostHosts>> /\ NoFault
           \/ Fault("aws") /\ CreateFailed(mem) /\ UNCHANGED <<hosts, lostHosts>>
           \/ /\ ImageKnown /\ NoFault /\ Goto("launch")
              /\ ~DynamicHost \/ mem.host # None
              /\ UNCHANGED <<mem, hosts, lostHosts>>
           \/ /\ allocating /\ NoFault /\ Goto("launch") /\ UNCHANGED lostHosts
              /\ \E h \in Hosts : Allocate(h) /\ mem' = [mem EXCEPT !.host = h]
           \/ \* the host is allocated, the answer is lost
              /\ allocating /\ Fault("aws") /\ CreateFailed(mem)
              /\ \E h \in Hosts : Allocate(h) /\ lostHosts' = lostHosts \cup {h}
           \/ \* no host is available
              /\ allocating /\ NoFault /\ \A h \in Hosts : hosts[h] # "free"
              /\ CreateFailed(mem) /\ UNCHANGED <<hosts, lostHosts>>
    /\ UNCHANGED <<inst, secrets, eips, lbs, apiVars, base, loc, lostEntries>>

\* RunInstances; the provider id is set as soon as it returns.
runInstance ==
    /\ pc = "launch"
    /\ \/ /\ NoFault
          /\ \E i \in Instances :
               /\ inst[i] = "none"
               /\ inst' = [inst EXCEPT ![i] = "pending"]
               /\ mem' = [mem EXCEPT !.pid = i]
               /\ loc' = [loc EXCEPT !.found = i, !.fst = "pending"]
          /\ Goto("tagENI")
       \/ /\ Fault("aws") \/ (NoFault /\ \A i \in Instances : inst[i] # "none")
          /\ CreateFailed(mem) /\ UNCHANGED <<inst, loc>>
       \/ \* the instance is launched, the answer is lost
          /\ Fault("aws") /\ CreateFailed(mem) /\ UNCHANGED loc
          /\ \E i \in Instances :
               inst[i] = "none" /\ inst' = [inst EXCEPT ![i] = "pending"]
    /\ UNCHANGED <<hosts, secrets, eips, lbs, apiVars, base, lostVars>>

\* The end of CreateInstance: security groups and tags of the network
\* interfaces of the new instance.
tagNetworkInterfaces ==
    /\ pc = "tagENI"
    /\ \/ Goto("eip") /\ UNCHANGED mem /\ NoFault
       \/ Fault("aws") /\ CreateFailed(mem)
    /\ UNCHANGED <<awsVars, apiVars, base, loc, lostVars>>

\* Mutation: an address that was not associated in time is not found again.
RoleEips_Associated(i) ==
    {e \in Eips : eips[e].role = i /\ (i = None \/ eips[e].assoc)}

RoleEips(i) == {e \in Eips : eips[e].role = i}

\* ReconcileElasticIPFromPublicPool up to the association: nothing to do
\* without a pool, come back later unless the instance was running, otherwise
\* reuse an unassociated address with the role of the instance or allocate one
\* (and learn of it, or not).
reconcileElasticIP ==
    /\ pc = "eip" /\ UNCHANGED mem
    /\ \/ /\ NoFault /\ UNCHANGED eips
          /\ \/ ~ElasticIPPool /\ Goto("update")
             \/ ElasticIPPool /\ loc.fst # "running" /\ Goto("close")
             \/ /\ ElasticIPPool /\ loc.fst = "running"
                /\ IF \E e \in RoleEips(loc.found) : ~eips[e].assoc
                   THEN Goto("associate")
                   ELSE RoleEips(loc.found) # {} /\ Goto("update")
             \/ \* the pool is exhausted
                /\ ElasticIPPool /\ loc.fst = "running"
                /\ RoleEips(loc.found) = {} /\ RoleEips(None) = {}
                /\ Goto("close")
       \/ /\ ElasticIPPool /\ loc.fst = "running"
          /\ RoleEips(loc.found) = {}
          /\ \E e \in RoleEips(None) :
               eips' = [eips EXCEPT ![e].role = loc.found]
          /\ (NoFault /\ Goto("associate")) \/ (Fault("aws") /\ Goto("close"))
       \/ /\ ElasticIPPool /\ loc.fst = "running" /\ Fault("aws")
          /\ Goto("close") /\ UNCHANGED eips
    /\ UNCHANGED <<inst, hosts, secrets, lbs, apiVars, base, loc, lostVars>>

\* AssociateAddress; AWS refuses an instance that is on its way out.
associateAddress ==
    /\ pc = "associate" /\ UNCHANGED mem
    /\ \/ /\ inst[loc.found] \in InstanceOperationalStates
          /\ \E e \in RoleEips(loc.found) :
               ~eips[e].assoc /\ eips' = [eips EXCEPT ![e].assoc = TRUE]
          /\ (NoFault /\ Goto("update")) \/ (Fault("aws") /\ Goto("close"))
       \/ /\ \/ Fault("aws")
             \/ inst[loc.found] \notin InstanceOperationalStates /\ NoFault
          /\ Goto("close") /\ UNCHANGED eips
    /\ UNCHANGED <<inst, hosts, secrets, lbs, apiVars, base, loc, lostVars>>

\* SetProviderID, SetInstanceID, SetInstanceState and the switch on the state.
updateState ==
    /\ pc = "update"
    /\ mem' = [mem EXCEPT !.pid = loc.found, !.istate = loc.fst,
                          !.provFailed = FALSE]
    /\ Goto("delBoot") /\ NoFault
    /\ UNCHANGED <<awsVars, apiVars, base, loc, lostVars>>

\* ensureTags: an error ends the reconcile.
ensureTags ==
    /\ pc = "tags" /\ UNCHANGED mem
    /\ (Goto("lb") /\ NoFault) \/ (Goto("close") /\ Fault("aws"))
    /\ UNCHANGED <<awsVars, apiVars, base, loc, lostVars>>

\* reconcileOperationalState: addresses, security groups, metadata options.
reconcileOperationalState ==
    /\ pc = "operational" /\ Goto("close") /\ UNCHANGED mem
    /\ NoFault \/ (InstanceIsOperational /\ Fault("aws"))
    /\ UNCHANGED <<awsVars, apiVars, base, loc, lostVars>>

-----------------------------------------------------------------------------
(* reconcileLBAttachment, called by reconcileNormal and by reconcileDelete *)

\* Mutation: the deletion of the Machine is not looked at.
MustDeregister_AWSMachineOnly ==
    mem.deleting \/ mem.istate \notin InstanceRunningStates

\* "to prevent sending request to a not-ready control plane machines"
MustDeregister ==
    mem.deleting \/ loc.mdel \/ mem.istate \notin InstanceRunningStates

\* One load balancer has been handled; err is the error the loop has so far.
LBDone(err) == loc' = [loc EXCEPT !.lb = @ + 1, !.lberr = err]

\* deregisterInstanceFromClassicLB is returned from within the loop: the other
\* load balancers and the errors so far are dropped.
LBReturn(err) ==
    loc' = [loc EXCEPT !.lb = Len(LoadBalancers) + 1, !.lberr = err]

\* Mutation: v2 load balancers are handled like the classic one.
LBLeave_Returns(err) == LBReturn(err)

LBLeave(err) ==
    IF LoadBalancers[loc.lb] = "classic" THEN LBReturn(err)
    ELSE LBDone(loc.lberr \/ err)

deregisterFromLB ==
    /\ pc = "lb" /\ loc.lb \in LBIndexes /\ MustDeregister
    /\ \/ /\ lbs' = [lbs EXCEPT ![loc.lb] = @ \ {loc.found}]
          /\ (LBLeave(FALSE) /\ NoFault) \/ (LBLeave(TRUE) /\ Fault("aws"))
       \/ Fault("aws") /\ LBLeave(TRUE) /\ UNCHANGED lbs
       \/ \* AccessDenied and NotFound do not stop a deletion
          /\ mem.deleting /\ Fault("denied") /\ LBLeave(FALSE) /\ UNCHANGED lbs
    /\ UNCHANGED <<inst, hosts, secrets, eips, apiVars, pc, mem, base, lostVars>>

\* A target group accepts running instances only: ErrInstanceNotRunning is
\* tolerated and the reconcile comes back.
registerWithLB ==
    /\ pc = "lb" /\ loc.lb \in LBIndexes /\ ~MustDeregister
    /\ LET accepted == LoadBalancers[loc.lb] = "classic" \/ mem.istate = "running"
       IN  \/ /\ lbs' = [lbs EXCEPT ![loc.lb] =
                           IF accepted THEN @ \cup {loc.found} ELSE @]
              /\ (LBDone(loc.lberr) /\ NoFault) \/ (LBDone(TRUE) /\ Fault("aws"))
           \/ Fault("aws") /\ LBDone(TRUE) /\ UNCHANGED lbs
    /\ UNCHANGED <<inst, hosts, secrets, eips, apiVars, pc, mem, base, lostVars>>

\* What the two callers do with the error of the loop.
leaveLB ==
    /\ pc = "lb" /\ loc.lb \notin LBIndexes /\ NoFault
    /\ Goto(CASE loc.lberr -> "close"
              [] ~loc.lberr /\ ~mem.deleting -> "operational"
              [] ~loc.lberr /\ mem.deleting /\ loc.fst = "shutting-down" -> "close"
              [] ~loc.lberr /\ mem.deleting /\ loc.fst = "terminated" -> "releaseHost"
              [] OTHER -> "terminate")
    /\ UNCHANGED <<awsVars, apiVars, mem, base, loc, lostVars>>

-----------------------------------------------------------------------------
(* reconcileDelete, from the switch on the state of the instance *)

\* Case Terminated: release the host recorded in the status, patch, remove the
\* finalizer.  ReleaseHosts may also report the host as unsuccessful without
\* returning an error.
releaseDedicatedHost ==
    /\ pc = "releaseHost" /\ Goto("close")
    /\ LET drop == mem' = [mem EXCEPT !.finalizer = FALSE]
           release == hosts' = [hosts EXCEPT ![mem.host] = "released"]
       IN  \/ /\ ~DynamicHost \/ mem.host = None
              /\ drop /\ UNCHANGED <<obj, hosts>> /\ NoFault
           \/ /\ DynamicHost /\ mem.host # None
              /\ \/ release /\ PatchSucceeds(mem) /\ drop
                 \/ release /\ PatchFails(mem) /\ UNCHANGED mem
                 \/ Fault("aws") /\ (UNCHANGED hosts \/ release) /\ UNCHANGED <<mem, obj>>
                 \/ /\ Fault("aws") /\ obj.exists /\ drop
                    /\ obj' = Patched(mem, TRUE, TRUE) /\ UNCHANGED hosts
    /\ UNCHANGED <<inst, secrets, eips, lbs, cache, node, mdel, base, loc, lostVars>>

\* Default case: patch the condition, then TerminateInstances.
terminateInstance ==
    /\ pc = "terminate"
    /\ LET m == [mem EXCEPT !.provFailed = FALSE]
           i == loc.found
           terminate == inst' = [inst EXCEPT ![i] =
                           IF @ \in {"terminated", "gone"} THEN @ ELSE "shutting-down"]
       IN  /\ mem' = m
           /\ \/ /\ PatchSucceeds(m) /\ terminate
                 /\ Goto(IF ElasticIPPool THEN "releaseEIP" ELSE "close")
              \/ PatchFails(m) /\ Goto("close") /\ UNCHANGED inst
              \/ /\ Fault("aws") /\ obj.exists /\ obj' = Patched(m, TRUE, TRUE)
                 /\ Goto("close") /\ (UNCHANGED inst \/ terminate)
    /\ UNCHANGED <<hosts, secrets, eips, lbs, cache, node, mdel, base, loc, lostVars>>

\* ReleaseElasticIP, after the termination and only in this reconcile.
releaseElasticIP ==
    /\ pc = "releaseEIP" /\ Goto("close")
    /\ \/ /\ NoFault \/ Fault("aws")
          /\ eips' = [e \in Eips |-> IF eips[e].role = loc.found
                                     THEN [role |-> None, assoc |-> FALSE]
                                     ELSE eips[e]]
       \/ Fault("aws") /\ UNCHANGED eips
    /\ UNCHANGED <<inst, hosts, secrets, lbs, apiVars, mem, base, loc, lostVars>>

-----------------------------------------------------------------------------

\* The host the reconcile has allocated is lost if its id was not stored.
ForgetHost == lostHosts' = lostHosts \cup ({mem.host} \ {None, obj'.host})

\* The deferred machineScope.Close(): a last patch, whatever was returned.
close ==
    /\ pc = "close" /\ Goto("idle")
    /\ PatchSucceeds(mem) \/ PatchFails(mem)
    /\ mem' = NewAWSMachine /\ base' = NewAWSMachine /\ loc' = NoLocals
    /\ ForgetHost
    /\ UNCHANGED <<awsVars, cache, node, mdel, lostEntries>>

ReconcileStep ==
    \/ deleteBootstrapData \/ findInstance \/ addFinalizer
    \/ markProvisionStarted \/ createSecretChunk \/ registerSecret
    \/ prepareInstance \/ runInstance \/ tagNetworkInterfaces
    \/ reconcileElasticIP \/ associateAddress \/ updateState
    \/ ensureTags \/ reconcileOperationalState
    \/ deregisterFromLB \/ registerWithLB \/ leaveLB
    \/ releaseDedicatedHost \/ terminateInstance \/ releaseElasticIP
    \/ close

\* The process dies between two calls; its successor lists the objects anew.
Crash ==
    /\ pc # "idle" /\ Fault("crash") /\ Goto("idle")
    /\ mem' = NewAWSMachine /\ base' = NewAWSMachine /\ loc' = NoLocals
    /\ cache' = obj
    /\ UNCHANGED <<awsVars, obj, node, mdel, lostEntries>> /\ ForgetHost

-----------------------------------------------------------------------------
(* The environment *)

\* The watch brings the cache up to the stored object.
CacheSync ==
    /\ cache # obj /\ cache' = obj
    /\ UNCHANGED <<awsVars, obj, node, mdel, ctlVars, faults, lostVars>>

\* https://docs.aws.amazon.com/AWSEC2/latest/UserGuide/ec2-instance-lifecycle.html
InstanceProgress(i) ==
    /\ \/ inst[i] = "pending" /\ inst' = [inst EXCEPT ![i] = "running"]
       \/ inst[i] = "stopping" /\ inst' = [inst EXCEPT ![i] = "stopped"]
       \/ inst[i] = "shutting-down" /\ inst' = [inst EXCEPT ![i] = "terminated"]
    /\ eips' = [e \in Eips |->
                  IF eips[e].role = i /\ inst'[i] = "terminated"
                  THEN [eips[e] EXCEPT !.assoc = FALSE] ELSE eips[e]]
    /\ UNCHANGED <<hosts, secrets, lbs, apiVars, ctlVars, faults, lostVars>>

\* A user, a spot interruption or a hardware fault ends the instance; a
\* terminated one is forgotten; with CanStop users stop and start it.
InstanceDisturbed(i) ==
    /\ \/ /\ inst[i] \in InstanceOperationalStates
          /\ inst' = [inst EXCEPT ![i] = "shutting-down"]
       \/ inst[i] = "terminated" /\ inst' = [inst EXCEPT ![i] = "gone"]
       \/ CanStop /\ inst[i] = "running" /\ inst' = [inst EXCEPT ![i] = "stopping"]
       \/ CanStop /\ inst[i] = "stopped" /\ inst' = [inst EXCEPT ![i] = "pending"]
    /\ UNCHANGED <<hosts, secrets, eips, lbs, apiVars, ctlVars, faults, lostVars>>

\* A node joins with the recorded provider id and the Machine controller sets
\* NodeRef, which only the handling of bootstrap data reads.
NodeJoins ==
    /\ ~node /\ SecretBackend # "none"
    /\ obj.pid # None /\ inst[obj.pid] = "running"
    /\ node' = TRUE
    /\ UNCHANGED <<awsVars, obj, cache, mdel, ctlVars, faults, lostVars>>

\* The Machine is deleted first, which only the load balancer attachment reads.
DeleteMachine ==
    /\ ~mdel /\ LoadBalancers # <<>> /\ mdel' = TRUE
    /\ UNCHANGED <<awsVars, obj, cache, node, ctlVars, faults, lostVars>>

DeleteAWSMachine ==
    /\ obj.exists /\ ~obj.deleting
    /\ obj' = Collected([obj EXCEPT !.deleting = TRUE])
    /\ UNCHANGED <<awsVars, cache, node, mdel, ctlVars, faults, lostVars>>

Next ==
    \/ Reconcile \/ ReconcileStep \/ Crash
    \/ CacheSync \/ NodeJoins \/ DeleteMachine \/ DeleteAWSMachine
    \/ \E i \in Instances : InstanceProgress(i) \/ InstanceDisturbed(i)

Spec == Init /\ [][Next]_vars

\* A reconcile is requeued on an error, by a watch event and by the periodic
\* resync, its steps are not suspended forever, watches deliver, and AWS
\* finishes the transitions it has started.
FairSpec ==
    /\ Spec
    /\ WF_vars(Reconcile) /\ WF_vars(ReconcileStep) /\ WF_vars(CacheSync)
    /\ \A i \in Instances : WF_vars(InstanceProgress(i))

-----------------------------------------------------------------------------
(* Properties *)

Live(i) == inst[i] \in InstanceRunningStates
Gone == ~obj.exists

\* However often RunInstances, its answer, the patch of the provider id or the
\* process is lost between two reconciles, a machine never has two instances
\* pending or running: createInstance is only reached after findInstance.
OneLiveInstance == \A i, j \in Instances : Live(i) /\ Live(j) => i = j

\* "Register the finalizer after first read operation from AWS to avoid
\* orphaning AWS resources on delete": while an instance of the machine lives,
\* the stored object exists and carries the finalizer.
NoOrphanInstance == \A i \in Instances : Live(i) => obj.exists /\ obj.finalizer

\* The machine and its instance, as ResourceLifecycle has them.
Lifecycle ==
    INSTANCE ResourceLifecycle
        WITH Kinds <- {Instances},
             object <- IF Gone THEN "gone" ELSE IF obj.deleting THEN "deleting" ELSE "live",
             finalizer <- obj.exists /\ obj.finalizer,
             owned <- {i \in Instances : Live(i)}

\* Every step of the reconcile, of EC2 and of the API server is one the abstract
\* lifecycle allows, or leaves it alone: an instance is never launched beside a
\* live one or for an object without the finalizer, and the finalizer stays
\* until the instance is shutting down.
ImplementsLifecycle == Lifecycle!Spec

\* Whatever else fails, an instance that boots and has no node yet finds every
\* entry its userdata points at, until the machine fails or is deleted.
BootstrapKept ==
    \A i \in Instances :
        (SecretBackend # "none" /\ Live(i) /\ obj.pid = i /\ ~node
            /\ ~obj.failed /\ ~obj.deleting)
          => obj.prefix # None /\ \A x \in 0 .. obj.count - 1 :
                                     secrets[obj.prefix][x] # 0

\* "Register the Secret ARN immediately to avoid orphaning whatever AWS resources
\* have been created": when the machine is gone no userdata is left in the secret
\* store, save the entries whose creation was never answered.
NoOrphanSecrets ==
    Gone /\ pc = "idle" => \A p \in Prefixes, x \in Indexes :
                              secrets[p][x] # 0 => <<p, x>> \in lostEntries

\* The userdata the instance is launched with points at all the chunks of the
\* bootstrap data, in their order.
LaunchedWithWholeUserData ==
    pc = "launch" /\ SecretBackend # "none" =>
        /\ mem.count = NChunks
        /\ \A x \in Indexes : secrets[mem.prefix][x] = x + 1

AllocatedHosts == {h \in Hosts : hosts[h] = "allocated"}

\* However often provisioning is retried, whichever calls and patches fail and
\* whenever the process dies, a machine never holds two dedicated hosts, save
\* those whose id was lost before it could be stored.
OneHost == \A g, h \in AllocatedHosts \ lostHosts : g = h

\* No instance ever holds two addresses of the pool, although an address is
\* allocated by one call and associated by another.
OneAddress == \A e, f \in Eips : eips[e].role = eips[f].role /\ e # f
                                    => eips[e].role = None

\* No address of the pool is left with the instance of a machine that is gone.
AddressReleased == Gone /\ pc = "idle" => \A e \in Eips : eips[e].role = None

\* The controller terminates a control plane instance only after it has left
\* every load balancer.  (An AccessDenied is tolerated by reconcileDelete, so
\* "denied" faults are excluded.)
DrainedBeforeTermination ==
    [][(pc = "terminate" /\ inst' # inst) =>
          \A k \in LBIndexes : loc.found \notin lbs[k]]_vars

\* "it is required to remove the machine from the ELB as soon as the machine or
\* infra machine gets deleted or when the machine is in a not running state":
\* a registered instance does not keep getting requests for ever.
LeavesLoadBalancer ==
    \A i \in Instances, k \in LBIndexes :
        LET unready == mdel \/ inst[i] \in {"stopping", "stopped"}
        IN  i \in lbs[k] /\ unready ~>
              i \notin lbs[k] \/ ~unready
                \/ inst[i] \notin InstanceOperationalStates

\* A deleted machine is gone eventually, whatever was done before.
DeletionCompletes == obj.exists /\ obj.deleting ~> Gone

\* A machine that is let be, and whose instance is, gets a running instance.
ProvisioningCompletes ==
    <>( \/ obj.istate = "running" \/ obj.failed \/ obj.deleting \/ Gone
        \/ \E i \in Instances :
             inst[i] \in {"stopping", "shutting-down", "terminated"} )
=============================================================================

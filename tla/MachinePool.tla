----------------------------- MODULE MachinePool -----------------------------
(***************************************************************************)
(* An AWSMachinePool: exp/controllers/awsmachinepool_controller.go with    *)
(* the launch template of pkg/cloud/services/ec2/launchtemplate.go, the    *)
(* Auto Scaling group, instance refresh and lifecycle hooks of             *)
(* pkg/cloud/services/autoscaling, the AWSMachines of                      *)
(* awsmachinepool_machines.go and the Ignition objects in S3.              *)
(*                                                                         *)
(* A reconcile is cut at every call that leaves the process.  The group is *)
(* read once, at the start, and the copy is used to the end, while the     *)
(* Auto Scaling service launches and ends instances, a refresh replaces    *)
(* them, an external autoscaler scales, users edit the pool and the        *)
(* process may die.  A launch template's configuration (instance type,     *)
(* AMI, key, security groups, name of the bootstrap secret) is one value,  *)
(* the bootstrap data another; conditions and events are left out.         *)
(***************************************************************************)
EXTENDS Naturals, Sequences, FiniteSets

CONSTANTS
    Ids,         \* instance ids
    Configs,     \* launch template configurations, out of Nat
    Datas,       \* bootstrap data, by its hash, out of Nat
    Tags,        \* additional tags
    HookSpecs,   \* specifications of the lifecycle hook, out of Nat; 0 is none
    Sizes,       \* numbers of replicas asked for and maximum sizes
    Modes,       \* the kinds of pool considered, out of AllModes
    EditKinds,   \* the fields that are edited, out of AllEdits
    MaxEdits,    \* bound on the number of edits in a behaviour
    FaultKinds,  \* the faults considered, out of AllFaults
    MaxFaults    \* bound on the number of faults in a behaviour

AllEdits == {"config", "data", "tags", "hook", "suspend", "replicas", "max",
             "rebalance", "delete"}
AllFaults == {"aws", "patch", "crash", "timeout", "instance"}

\* s3: Ignition with storageType ClusterObjectStore; machines: the feature gate
\* MachinePoolMachines; external: replicas are managed by an autoscaler;
\* norefresh: RefreshPreferences.Disable.
AllModes == [s3: BOOLEAN, machines: BOOLEAN, external: BOOLEAN, norefresh: BOOLEAN]

ASSUME PoolAssumption ==
    /\ Configs \subseteq Nat \ {0} /\ Datas \subseteq Nat \ {0}
    /\ HookSpecs \subseteq Nat /\ 0 \in HookSpecs
    /\ Sizes \subseteq Nat \ {0}
    /\ Modes \subseteq AllModes
    /\ EditKinds \subseteq AllEdits /\ FaultKinds \subseteq AllFaults
    /\ MaxEdits \in Nat /\ MaxFaults \in Nat

VARIABLES
    \* AWS
    lt,       \* versions of the launch template, oldest first; <<>>: none
    asg,      \* the Auto Scaling group
    ins,      \* configuration of every instance of the group, 0: not running
    refresh,  \* the unfinished instance refresh
    objects,  \* hashes of the bootstrap data stored in S3
    \* Kubernetes
    obj,      \* the AWSMachinePool as stored
    mp,       \* bootstrap data and replicas of the MachinePool
    ams,      \* the AWSMachine of every instance id, with its owner Machine
    seen,     \* ids with an AWSMachine according to the controller's cache
    \* the reconcile in flight
    pc, mem, loc,
    \* history and bounds
    mode,     \* the kind of pool
    missed,   \* a new version was created and its instance refresh never asked for
    edits, faults

awsVars == <<lt, asg, ins, refresh, objects>>
k8sVars == <<obj, mp, ams, seen>>
ctlVars == <<pc, mem, loc>>
vars == <<awsVars, k8sVars, ctlVars, mode, missed, edits, faults>>

-----------------------------------------------------------------------------
(* Data *)

Nothing == 0
Zeroable(S) == S \cup {Nothing}
MinSize == 1

NoASG == [st |-> "none", desired |-> 0, max |-> 0, hook |-> 0, sus |-> FALSE,
          rebalance |-> FALSE, tags |-> {}]
ASGs == [st: {"none", "active", "deleting"}, desired: Nat,
         max: Zeroable(Sizes), hook: HookSpecs, sus: BOOLEAN, rebalance: BOOLEAN,
         tags: SUBSET Tags]
Versions == [cfg: Configs, data: Datas]
Running == {i \in Ids : ins[i] # Nothing}
NoRefresh == [st |-> "none", todo |-> {}]
UnfinishedStates == {"Pending", "InProgress", "Cancelling"}
Refreshes == [st: UnfinishedStates \cup {"none"}, todo: SUBSET Ids]

\* cfg, tags, hook, sus, max and rebalance are the spec; ltID (Status.LaunchTemplateID is
\* set), ver (Status.LaunchTemplateVersion is) and pids (Spec.ProviderIDList) are
\* written by the controller, as is the annotation applied, the last applied tags.
AWSMachinePools ==
    [exists: BOOLEAN, deleting: BOOLEAN, finalizer: BOOLEAN,
     cfg: Configs, tags: SUBSET Tags, hook: HookSpecs, sus: BOOLEAN, max: Sizes,
     rebalance: BOOLEAN,
     ltID: BOOLEAN, ver: BOOLEAN, applied: SUBSET Tags, pids: SUBSET Ids]

MachinePools == [data: Zeroable(Datas), replicas: Nat]

NoMachine == [st |-> "none", owner |-> "none"]
AMs == [st: {"none", "live", "deleting"}, owner: {"none", "live", "deleted"}]

\* replicas: MachinePool.Spec.Replicas as read; asg, ids: the group as findASG
\* read it; cur: the launch template's latest version as GetLaunchTemplate read
\* it; data: the bootstrap data; more: more than the bootstrap data changed;
\* del: bootstrap data of the pruned version; list, todo: pool machines.
Locals == [replicas: Nat, asg: ASGs, ids: SUBSET Ids, cur: Seq(Versions),
           data: Zeroable(Datas), more: BOOLEAN, del: Zeroable(Datas),
           list: SUBSET Ids, todo: SUBSET Ids]

NoLocals == [replicas |-> 0, asg |-> NoASG, ids |-> {}, cur |-> <<>>, data |-> 0,
             more |-> FALSE, del |-> 0, list |-> {}, todo |-> {}]

Labels ==
    {"idle", "finalizer", "findASG", "getLT", "putObject", "createLT", "patchLT",
     "ltID", "ltVersion", "canStart", "cancel", "prune", "delObject", "newVersion",
     "patchVersion", "refresh", "createASG", "list", "createMachines", "orphans",
     "hooks", "replicas", "updateASG", "processes", "tags", "close",
     "dMachines", "dFindASG", "dASG", "dWait", "dGetLT", "dLT"}

TypeOK ==
    /\ lt \in Seq(Versions)
    /\ asg \in ASGs
    /\ ins \in [Ids -> Zeroable(Configs)]
    /\ refresh \in Refreshes
    /\ objects \subseteq Datas
    /\ obj \in AWSMachinePools /\ mem \in AWSMachinePools
    /\ mp \in MachinePools
    /\ ams \in [Ids -> AMs] /\ seen \subseteq Ids
    /\ pc \in Labels
    /\ loc \in Locals
    /\ mode \in Modes /\ missed \in BOOLEAN
    /\ edits \in 0 .. MaxEdits /\ faults \in 0 .. MaxFaults

Init ==
    /\ lt = <<>> /\ asg = NoASG /\ ins = [i \in Ids |-> Nothing]
    /\ refresh = NoRefresh /\ objects = {}
    /\ \E c \in Configs, s \in Sizes, n \in Sizes :
         /\ obj = [exists |-> TRUE, deleting |-> FALSE, finalizer |-> FALSE,
                   cfg |-> c, tags |-> {}, hook |-> 0, sus |-> FALSE, max |-> s,
                   rebalance |-> FALSE,
                   ltID |-> FALSE, ver |-> FALSE, applied |-> {}, pids |-> {}]
         /\ mp = [data |-> Nothing, replicas |-> n]
         /\ \A d \in Configs : c <= d
         /\ \A d \in Sizes : n <= d
    /\ ams = [i \in Ids |-> NoMachine] /\ seen = {}
    /\ pc = "idle" /\ mem = obj /\ loc = NoLocals
    /\ mode \in Modes /\ missed = FALSE /\ edits = 0 /\ faults = 0

-----------------------------------------------------------------------------
(* Faults and patches *)

Fault(kind) == kind \in FaultKinds /\ faults < MaxFaults /\ faults' = faults + 1
NoFault == faults' = faults
Goto(label) == pc' = label

Collected(o) == [o EXCEPT !.exists = @ /\ ~(o.deleting /\ ~o.finalizer)]

\* MachinePoolScope.PatchObject: the fields the controller writes.
PatchObject(m) ==
    /\ obj.exists /\ NoFault
    /\ obj' = Collected([obj EXCEPT !.finalizer = m.finalizer, !.ltID = m.ltID,
                                    !.ver = m.ver, !.applied = m.applied,
                                    !.pids = m.pids])

\* The call fails, or the object is gone.
PatchFails == (Fault("patch") \/ (~obj.exists /\ NoFault)) /\ UNCHANGED obj

\* A patch in the middle of a reconcile, then on to the label next.
PatchThen(m, next) ==
    \/ PatchObject(m) /\ Goto(next)
    \/ PatchFails /\ Goto("close")

-----------------------------------------------------------------------------
(* reconcileNormal *)

\* Reconcile reads the AWSMachinePool and the MachinePool.
Reconcile ==
    /\ pc = "idle" /\ obj.exists
    /\ mem' = obj /\ loc' = [NoLocals EXCEPT !.replicas = mp.replicas]
    /\ Goto(IF ~obj.deleting THEN "finalizer"
            ELSE IF mode.machines THEN "dMachines" ELSE "dFindASG")
    /\ UNCHANGED <<awsVars, k8sVars, mode, missed, edits, faults>>

\* Nothing is done before the bootstrap data secret is there.
AfterFinalizer == IF mp.data = Nothing THEN "close" ELSE "findASG"

\* Mutation: the finalizer waits for the patch at the end of the reconcile.
AddFinalizer_Late ==
    /\ pc = "finalizer" /\ mem' = [mem EXCEPT !.finalizer = TRUE]
    /\ Goto(AfterFinalizer) /\ UNCHANGED obj /\ NoFault
    /\ UNCHANGED <<awsVars, mp, ams, seen, loc, mode, missed, edits>>

\* "Register finalizer immediately to avoid orphaning AWS resources".
AddFinalizer ==
    /\ pc = "finalizer" /\ mem' = [mem EXCEPT !.finalizer = TRUE]
    /\ \/ mem.finalizer /\ Goto(AfterFinalizer) /\ UNCHANGED obj /\ NoFault
       \/ ~mem.finalizer /\ PatchThen(mem', AfterFinalizer)
    /\ UNCHANGED <<awsVars, mp, ams, seen, loc, mode, missed, edits>>

\* findASG: one copy of the group for the whole reconcile.
FindASG ==
    /\ pc = "findASG" /\ Goto("getLT")
    /\ loc' = [loc EXCEPT !.asg = asg, !.ids = Running]
    /\ UNCHANGED <<awsVars, k8sVars, mem, mode, missed, edits, faults>>

\* What follows once the bootstrap data is where the template will point.
LTLabel(cur) == IF cur = <<>> THEN "createLT" ELSE "ltID"

\* GetRawBootstrapData, GetLaunchTemplate and DiscoverLaunchTemplateAMI.
GetLaunchTemplate ==
    /\ pc = "getLT"
    /\ loc' = [loc EXCEPT !.data = mp.data,
                          !.cur = IF lt = <<>> THEN <<>> ELSE <<lt[Len(lt)]>>]
    /\ Goto(IF mode.s3 THEN "putObject" ELSE LTLabel(loc'.cur))
    /\ UNCHANGED <<awsVars, k8sVars, mem, mode, missed, edits, faults>>

\* CreateForMachinePool, in every reconcile: the key is the hash of the data.
CreateForMachinePool ==
    /\ pc = "putObject" /\ objects' = objects \cup {loc.data}
    /\ Goto(LTLabel(loc.cur))
    /\ UNCHANGED <<lt, asg, ins, refresh, k8sVars, mem, loc, mode, missed, edits, faults>>

\* Mutation: without pool machines, a group that exists is taken for up to date.
AfterLaunchTemplate_NoUpdate ==
    IF loc.asg.st = "none" THEN "createASG"
    ELSE IF mode.machines THEN "list" ELSE "close"

\* What follows ReconcileLaunchTemplate.
AfterLaunchTemplate ==
    IF loc.asg.st = "none" THEN "createASG"
    ELSE IF mode.machines THEN "list" ELSE "hooks"

NewVersion == [cfg |-> mem.cfg, data |-> loc.data]

CreateLaunchTemplate ==
    /\ pc = "createLT" /\ lt' = <<NewVersion>>
    /\ mem' = [mem EXCEPT !.ltID = TRUE] /\ Goto("patchLT")
    /\ UNCHANGED <<asg, ins, refresh, objects, k8sVars, loc, mode, missed, edits, faults>>

PatchLaunchTemplateID ==
    /\ pc = "patchLT" /\ PatchThen(mem, AfterLaunchTemplate)
    /\ UNCHANGED <<awsVars, mp, ams, seen, mem, loc, mode, missed, edits>>

\* "If launchTemplate already exists but LaunchTemplateID field in the status
\* is empty, get the ID and update the status."
RecordLaunchTemplateID ==
    /\ pc = "ltID" /\ mem' = [mem EXCEPT !.ltID = TRUE]
    /\ \/ mem.ltID /\ Goto("ltVersion") /\ UNCHANGED obj /\ NoFault
       \/ ~mem.ltID /\ PatchThen(mem', "ltVersion")
    /\ UNCHANGED <<awsVars, mp, ams, seen, loc, mode, missed, edits>>

Current == loc.cur[1]

\* Mutation: a difference in the configuration is overlooked.
MoreChanged_TagsOnly == mem.tags # mem.applied

\* needsUpdate, amiChanged, userDataSecretKeyChanged or tagsChanged.
MoreChanged == mem.cfg # Current.cfg \/ mem.tags # mem.applied

\* The comparison of the latest version with what is asked for now.
AfterComparison ==
    IF MoreChanged /\ loc.asg.st # "none" THEN "canStart"
    ELSE IF MoreChanged \/ loc.data # Current.data THEN "prune"
    ELSE AfterLaunchTemplate

RecordLaunchTemplateVersion ==
    /\ pc = "ltVersion"
    /\ mem' = [mem EXCEPT !.ver = TRUE]
    /\ loc' = [loc EXCEPT !.more = MoreChanged]
    /\ \/ mem.ver /\ Goto(AfterComparison) /\ UNCHANGED obj /\ NoFault
       \/ ~mem.ver /\ PatchThen(mem', AfterComparison)
    /\ UNCHANGED <<awsVars, mp, ams, seen, mode, missed, edits>>

\* Mutation: a refresh that has not started yet is not counted.
BlockingStates_NotPending == {"InProgress", "Cancelling"}

\* The states in which CanStartASGInstanceRefresh answers no.
BlockingStates == UnfinishedStates

\* CanStartASGInstanceRefresh.  While a refresh is unfinished the template is
\* left as it is and the reconcile comes back in 30 seconds.
CanStartASGInstanceRefresh ==
    /\ pc = "canStart"
    /\ Goto(IF refresh.st \notin BlockingStates THEN "prune"
            ELSE IF refresh.st = "Cancelling" THEN "close" ELSE "cancel")
    /\ UNCHANGED <<awsVars, k8sVars, mem, loc, mode, missed, edits, faults>>

\* CancelASGInstanceRefresh; ActiveInstanceRefreshNotFound is no error.
CancelASGInstanceRefresh ==
    /\ pc = "cancel" /\ Goto("close")
    /\ refresh' = IF refresh.st \in {"Pending", "InProgress"}
                  THEN [refresh EXCEPT !.st = "Cancelling"] ELSE refresh
    /\ UNCHANGED <<lt, asg, ins, objects, k8sVars, mem, loc, mode, missed, edits, faults>>

\* Mutation: one version more is kept.
MinCountToAllowPrune_4 == 4

MinCountToAllowPrune == 3

Without(s, k) == SubSeq(s, 1, k - 1) \o SubSeq(s, k + 1, Len(s))

\* The middle one of the page of three versions that the service returns, from
\* the oldest up or from the newest down.
VersionToPrune == {2, Len(lt) - 1}

PruneLaunchTemplateVersions ==
    /\ pc = "prune"
    /\ \/ /\ Len(lt) < MinCountToAllowPrune
          /\ Goto("newVersion") /\ UNCHANGED <<lt, loc>>
       \/ /\ Len(lt) >= MinCountToAllowPrune
          /\ \E k \in VersionToPrune :
               lt' = Without(lt, k) /\ loc' = [loc EXCEPT !.del = lt[k].data]
          /\ Goto(IF mode.s3 THEN "delObject" ELSE "newVersion")
    /\ UNCHANGED <<asg, ins, refresh, objects, k8sVars, mem, mode, missed, edits, faults>>

\* DeleteForMachinePool; a failure is logged and the reconcile goes on.
DeleteForMachinePool ==
    /\ pc = "delObject" /\ Goto("newVersion")
    /\ objects' \in {objects \ {loc.del}, objects}
    /\ UNCHANGED <<lt, asg, ins, refresh, k8sVars, mem, loc, mode, missed, edits, faults>>

\* runPostLaunchTemplateUpdateOperation is due once the version exists.
RefreshDue == loc.more /\ loc.asg.st # "none" /\ ~mode.norefresh

CreateLaunchTemplateVersion ==
    /\ pc = "newVersion" /\ lt' = Append(lt, NewVersion)
    /\ Goto("patchVersion")
    /\ UNCHANGED <<asg, ins, refresh, objects, k8sVars, mem, loc, mode, missed, edits, faults>>

PatchLaunchTemplateVersion ==
    /\ pc = "patchVersion" /\ mem' = [mem EXCEPT !.ver = TRUE]
    /\ \/ /\ PatchObject(mem') /\ UNCHANGED missed
          /\ Goto(IF RefreshDue THEN "refresh" ELSE AfterLaunchTemplate)
       \/ PatchFails /\ Goto("close") /\ missed' = (missed \/ RefreshDue)
    /\ UNCHANGED <<awsVars, mp, ams, seen, loc, mode, edits>>

\* StartASGInstanceRefresh replaces every instance there is; AWS refuses it
\* while another refresh is unfinished.
StartASGInstanceRefresh ==
    /\ pc = "refresh"
    /\ IF refresh.st = "none"
       THEN /\ refresh' = [st |-> "Pending", todo |-> Running]
            /\ Goto(AfterLaunchTemplate) /\ UNCHANGED missed
       ELSE Goto("close") /\ missed' = TRUE /\ UNCHANGED refresh
    /\ UNCHANGED <<lt, asg, ins, objects, k8sVars, mem, loc, mode, edits, faults>>

InRange(n, m) == MinSize <= n /\ n <= m.max

\* createPool and CreateASG.  A number of replicas out of range is an error
\* unless an autoscaler manages it; the group then starts at its minimum.
CreateASG ==
    /\ pc = "createASG" /\ Goto("close")
    /\ IF InRange(loc.replicas, mem) \/ mode.external
       THEN asg' = [st |-> "active", max |-> mem.max, hook |-> mem.hook,
                    sus |-> FALSE, rebalance |-> mem.rebalance, tags |-> mem.tags,
                    desired |-> IF InRange(loc.replicas, mem) THEN loc.replicas
                                ELSE MinSize]
       ELSE UNCHANGED asg
    /\ UNCHANGED <<lt, ins, refresh, objects, k8sVars, mem, loc, mode, missed, edits, faults>>

\* getAWSMachines lists from the cache.
GetAWSMachines ==
    /\ pc = "list" /\ Goto("createMachines")
    /\ loc' = [loc EXCEPT !.list = seen, !.todo = loc.ids \ seen]
    /\ UNCHANGED <<awsVars, k8sVars, mem, mode, missed, edits, faults>>

\* Mutation: machines of the group's instances, and not the others, are orphans.
Orphans_Swapped == loc.list \cap loc.ids

\* AWSMachines of the listing whose instance is not in the copy of the group.
Orphans == loc.list \ loc.ids

\* createAWSMachinesIfNotExists: one AWSMachine for every instance of the copy
\* that still exists and has none in the listing.  (A second AWSMachine for
\* the same instance is not told apart from the first.)
CreateAWSMachinesIfNotExists ==
    /\ pc = "createMachines"
    /\ \/ /\ loc.todo = {} /\ Goto("orphans") /\ UNCHANGED ams
          /\ loc' = [loc EXCEPT !.todo = Orphans]
       \/ \E i \in loc.todo :
            /\ loc' = [loc EXCEPT !.todo = @ \ {i}] /\ UNCHANGED pc
            /\ ams' = IF ins[i] # Nothing /\ ams[i].st = "none"
                      THEN [ams EXCEPT ![i] = [st |-> "live", owner |-> "none"]]
                      ELSE ams
    /\ UNCHANGED <<awsVars, obj, mp, seen, mem, mode, missed, edits, faults>>

\* deleteOrphanedAWSMachines: the owner Machine is deleted, or the AWSMachine
\* when it has none; one that no longer exists is an error.
DeleteOrphanedAWSMachines ==
    /\ pc = "orphans"
    /\ \/ loc.todo = {} /\ Goto("hooks") /\ UNCHANGED <<ams, loc>>
       \/ \E i \in loc.todo :
            /\ loc' = [loc EXCEPT !.todo = @ \ {i}]
            /\ IF ams[i].st = "none" THEN Goto("close") ELSE UNCHANGED pc
            /\ ams' = IF ams[i].st = "none" THEN ams
                      ELSE IF ams[i].owner = "none" THEN [ams EXCEPT ![i].st = "deleting"]
                      ELSE [ams EXCEPT ![i].owner = "deleted"]
    /\ UNCHANGED <<awsVars, obj, mp, seen, mem, mode, missed, edits, faults>>

\* ReconcileLifecycleHooks: the hook is created, updated or deleted.
ReconcileLifecycleHooks ==
    /\ pc = "hooks" /\ asg' = [asg EXCEPT !.hook = mem.hook] /\ Goto("replicas")
    /\ UNCHANGED <<lt, ins, refresh, objects, k8sVars, mem, loc, mode, missed, edits, faults>>

\* MachinePool replicas follow the group when an autoscaler manages it.
SetReplicas ==
    /\ pc = "replicas"
    /\ \/ /\ mode.external => loc.replicas = loc.asg.desired
          /\ Goto("updateASG") /\ UNCHANGED <<mp, loc>> /\ NoFault
       \/ /\ mode.external /\ loc.replicas # loc.asg.desired
          /\ \/ /\ mp' = [mp EXCEPT !.replicas = loc.asg.desired] /\ NoFault
                /\ loc' = [loc EXCEPT !.replicas = loc.asg.desired]
                /\ Goto("updateASG")
             \/ Fault("patch") /\ Goto("close") /\ UNCHANGED <<mp, loc>>
    /\ UNCHANGED <<awsVars, obj, ams, seen, mem, mode, missed, edits>>

\* The desired capacity after UpdateASG, which omits it for an autoscaler's
\* group; the service keeps it within the maximum.
UpdatedCapacity ==
    IF ~mode.external THEN loc.replicas
    ELSE IF asg.desired > mem.max THEN mem.max ELSE asg.desired

\* diffASG
DiffASG ==
    \/ ~mode.external /\ loc.replicas # loc.asg.desired
    \/ mem.max # loc.asg.max \/ mem.rebalance # loc.asg.rebalance

\* updatePool up to UpdateASG, which the service refuses for a capacity out of
\* range.
UpdateASG ==
    /\ pc = "updateASG"
    /\ \/ ~DiffASG /\ Goto("processes") /\ UNCHANGED asg
       \/ /\ DiffASG /\ InRange(UpdatedCapacity, mem) /\ Goto("processes")
          /\ asg' = [asg EXCEPT !.desired = UpdatedCapacity, !.max = mem.max,
                             !.rebalance = mem.rebalance]
       \/ DiffASG /\ ~InRange(UpdatedCapacity, mem) /\ Goto("close") /\ UNCHANGED asg
    /\ UNCHANGED <<lt, ins, refresh, objects, k8sVars, mem, loc, mode, missed, edits, faults>>

\* SuspendProcesses or ResumeProcesses, by the difference with the copy.
UpdateProcesses ==
    /\ pc = "processes" /\ Goto("tags")
    /\ asg' = IF loc.asg.sus # mem.sus THEN [asg EXCEPT !.sus = mem.sus] ELSE asg
    /\ UNCHANGED <<lt, ins, refresh, objects, k8sVars, mem, loc, mode, missed, edits, faults>>

\* UpdateResourceTags of the group, with the difference between the annotation
\* and the tags asked for.
UpdatedTags == (asg.tags \cup (mem.tags \ mem.applied)) \ (mem.applied \ mem.tags)

\* ReconcileTags, then the status and the provider ids from the copy.
ReconcileTags ==
    /\ pc = "tags" /\ Goto("close")
    /\ asg' = IF mem.tags # mem.applied THEN [asg EXCEPT !.tags = UpdatedTags] ELSE asg
    /\ mem' = [mem EXCEPT !.applied = mem.tags, !.pids = loc.ids]
    /\ UNCHANGED <<lt, ins, refresh, objects, k8sVars, loc, mode, missed, edits, faults>>

-----------------------------------------------------------------------------
(* reconcileDelete *)

Deleting == {i \in seen : ams[i].st = "deleting"}

\* reconcileDeleteAWSMachines: Machines that own an AWSMachine under deletion
\* are deleted.  An AWSMachine without one makes it call Delete with a nil
\* Machine: the panic is recovered by the controller and the reconcile ends.
ReconcileDeleteAWSMachines ==
    /\ pc = "dMachines"
    /\ \/ /\ \A i \in Deleting : ams[i].owner # "none"
          /\ ams' = [i \in Ids |-> IF i \in Deleting
                                   THEN [ams[i] EXCEPT !.owner = "deleted"] ELSE ams[i]]
          /\ Goto("dFindASG")
       \/ \E i \in Deleting : ams[i].owner = "none" /\ Goto("close") /\ UNCHANGED ams
    /\ UNCHANGED <<awsVars, obj, mp, seen, mem, loc, mode, missed, edits, faults>>

\* A group whose deletion is in progress is not waited for.
DeleteLabel == IF asg.st = "active" THEN "dASG" ELSE "dGetLT"

FindASGToDelete ==
    /\ pc = "dFindASG" /\ Goto(DeleteLabel)
    /\ UNCHANGED <<awsVars, k8sVars, mem, loc, mode, missed, edits, faults>>

\* DeleteASG with ForceDelete.
DeleteASG ==
    /\ pc = "dASG" /\ asg' = [asg EXCEPT !.st = "deleting"] /\ Goto("dWait")
    /\ UNCHANGED <<lt, ins, refresh, objects, k8sVars, mem, loc, mode, missed, edits, faults>>

\* The waiter of DeleteASGAndWait gives up after 15 minutes.
WaitASGDeleted ==
    /\ pc = "dWait"
    /\ \/ asg.st = "none" /\ Goto("dGetLT") /\ NoFault
       \/ asg.st # "none" /\ Fault("timeout") /\ Goto("close")
    /\ UNCHANGED <<awsVars, k8sVars, mem, loc, mode, missed, edits>>

\* There is no launch template to delete.
TemplateLeft == lt = <<>>

GetLaunchTemplateToDelete ==
    /\ pc = "dGetLT"
    /\ IF TemplateLeft THEN Goto("close") /\ mem' = [mem EXCEPT !.finalizer = FALSE]
       ELSE Goto("dLT") /\ UNCHANGED mem
    /\ UNCHANGED <<awsVars, k8sVars, loc, mode, missed, edits, faults>>

\* Mutation: the template is taken for known once its version is.
KnownTemplate_Version == mem.ver

\* DeleteLaunchTemplate is called with the id of the status.
KnownTemplate == mem.ltID

DeleteLaunchTemplate ==
    /\ pc = "dLT" /\ Goto("close")
    /\ IF KnownTemplate THEN lt' = <<>> /\ mem' = [mem EXCEPT !.finalizer = FALSE]
       ELSE UNCHANGED <<lt, mem>>
    /\ UNCHANGED <<asg, ins, refresh, objects, k8sVars, loc, mode, missed, edits, faults>>

-----------------------------------------------------------------------------
(* The end of a reconcile *)

\* machinePoolScope.Close
Close ==
    /\ pc = "close" /\ Goto("idle") /\ loc' = NoLocals
    /\ PatchObject(mem) \/ PatchFails
    /\ mem' = obj'
    /\ UNCHANGED <<awsVars, mp, ams, seen, mode, missed, edits>>

\* The calls whose failure ends the reconcile with an error.  A call that took effect
\* while its answer was lost ends as a crash right after it does: whatever the
\* reconcile had changed in the object before a call is stored by then, so the last
\* patch of a reconcile that fails there writes nothing.
FallibleCalls ==
    {"findASG", "getLT", "putObject", "createLT", "canStart", "cancel", "prune",
     "newVersion", "refresh", "createASG", "list", "createMachines", "orphans",
     "hooks", "updateASG", "processes", "tags", "dFindASG", "dASG", "dGetLT", "dLT"}

CallFails ==
    /\ pc \in FallibleCalls /\ Fault("aws") /\ Goto("close")
    /\ missed' = (missed \/ pc = "refresh")
    /\ UNCHANGED <<awsVars, k8sVars, mem, loc, mode, edits>>

Crash ==
    /\ pc # "idle" /\ Fault("crash") /\ Goto("idle")
    /\ missed' = (missed \/ (pc \in {"patchVersion", "refresh"} /\ RefreshDue))
    /\ mem' = obj /\ loc' = NoLocals
    /\ UNCHANGED <<awsVars, k8sVars, mode, edits>>

ReconcileStep ==
    \/ AddFinalizer \/ FindASG \/ GetLaunchTemplate \/ CreateForMachinePool
    \/ CreateLaunchTemplate \/ PatchLaunchTemplateID \/ RecordLaunchTemplateID
    \/ RecordLaunchTemplateVersion \/ CanStartASGInstanceRefresh
    \/ CancelASGInstanceRefresh \/ PruneLaunchTemplateVersions
    \/ DeleteForMachinePool \/ CreateLaunchTemplateVersion
    \/ PatchLaunchTemplateVersion \/ StartASGInstanceRefresh \/ CreateASG
    \/ GetAWSMachines \/ CreateAWSMachinesIfNotExists \/ DeleteOrphanedAWSMachines
    \/ ReconcileLifecycleHooks \/ SetReplicas \/ UpdateASG \/ UpdateProcesses
    \/ ReconcileTags \/ ReconcileDeleteAWSMachines \/ FindASGToDelete \/ DeleteASG
    \/ WaitASGDeleted \/ GetLaunchTemplateToDelete \/ DeleteLaunchTemplate
    \/ Close

-----------------------------------------------------------------------------
(* Auto Scaling *)

\* Ids are not reused while an AWSMachine or a copy of the group names them.
FreshIds == {i \in Ids : /\ ins[i] = Nothing /\ ams[i].st = "none"
                         /\ i \notin seen \cup obj.pids \cup loc.ids \cup loc.list}

\* The group launches from the latest version of the template, ends instances
\* above its capacity or under deletion, and disappears with its last one.
ASGProgress ==
    /\ \/ /\ asg.st = "active" /\ Cardinality(Running) < asg.desired /\ lt # <<>>
          /\ \E i \in FreshIds : ins' = [ins EXCEPT ![i] = lt[Len(lt)].cfg]
          /\ UNCHANGED <<asg, refresh>>
       \/ /\ \/ asg.st = "active" /\ Cardinality(Running) > asg.desired
             \/ asg.st = "deleting"
          /\ \E i \in Running : ins' = [ins EXCEPT ![i] = Nothing]
          /\ UNCHANGED <<asg, refresh>>
       \/ /\ asg.st = "deleting" /\ Running = {}
          /\ asg' = NoASG /\ refresh' = NoRefresh /\ UNCHANGED ins
    /\ UNCHANGED <<lt, objects, k8sVars, ctlVars, mode, missed, edits, faults>>

\* An instance fails or is interrupted.
InstanceLost ==
    /\ Fault("instance")
    /\ \E i \in Running : ins' = [ins EXCEPT ![i] = Nothing]
    /\ UNCHANGED <<lt, asg, refresh, objects, k8sVars, ctlVars, mode, missed, edits>>

\* An unfinished refresh starts, replaces the instances it found one by one,
\* and ends; a cancelled one ends.
RefreshProgress ==
    /\ \/ /\ refresh.st = "Pending" /\ UNCHANGED ins
          /\ refresh' = [refresh EXCEPT !.st = "InProgress"]
       \/ /\ refresh.st = "InProgress" /\ refresh.todo \cap Running # {}
          /\ \E i \in refresh.todo \cap Running :
               /\ ins' = [ins EXCEPT ![i] = Nothing]
               /\ refresh' = [refresh EXCEPT !.todo = @ \ {i}]
       \/ /\ refresh.st = "InProgress" /\ refresh.todo \cap Running = {}
          /\ refresh' = NoRefresh /\ UNCHANGED ins
       \/ refresh.st = "Cancelling" /\ refresh' = NoRefresh /\ UNCHANGED ins
    /\ UNCHANGED <<lt, asg, objects, k8sVars, ctlVars, mode, missed, edits, faults>>

-----------------------------------------------------------------------------
(* Kubernetes and users *)

\* The watch brings the cache of AWSMachines up to date.
MachineCacheSync ==
    /\ seen # {i \in Ids : ams[i].st # "none"}
    /\ seen' = {i \in Ids : ams[i].st # "none"}
    /\ UNCHANGED <<awsVars, obj, mp, ams, ctlVars, mode, missed, edits, faults>>

\* Cluster API gives a new AWSMachine its Machine, deletes the AWSMachine of a
\* deleted Machine, and the AWSMachine controller ends the instance and lets go.
MachineProgress(i) ==
    /\ \/ /\ ams[i] = [st |-> "live", owner |-> "none"]
          /\ ams' = [ams EXCEPT ![i].owner = "live"] /\ UNCHANGED ins
       \/ /\ ams[i] = [st |-> "live", owner |-> "deleted"]
          /\ ams' = [ams EXCEPT ![i].st = "deleting"] /\ UNCHANGED ins
       \/ /\ ams[i].st = "deleting"
          /\ ams' = [ams EXCEPT ![i] = NoMachine] /\ ins' = [ins EXCEPT ![i] = Nothing]
    /\ UNCHANGED <<lt, asg, refresh, objects, obj, mp, seen, ctlVars, mode, missed, edits, faults>>

\* The bootstrap provider stores the first bootstrap data.
BootstrapReady ==
    /\ mp.data = Nothing
    /\ \E d \in Datas : (\A e \in Datas : d <= e) /\ mp' = [mp EXCEPT !.data = d]
    /\ UNCHANGED <<awsVars, obj, ams, seen, ctlVars, mode, missed, edits, faults>>

Edited(kind) == kind \in EditKinds /\ edits < MaxEdits /\ edits' = edits + 1

\* A user edits the pool, the bootstrap token is rotated, the autoscaler or a
\* user changes the number of replicas.
Edit ==
    /\ obj.exists /\ ~obj.deleting
    /\ \/ /\ Edited("config") /\ UNCHANGED <<mp, asg>>
          /\ \E c \in Configs \ {obj.cfg} : obj' = [obj EXCEPT !.cfg = c]
       \/ /\ Edited("tags") /\ UNCHANGED <<mp, asg>>
          /\ \E t \in SUBSET Tags \ {obj.tags} : obj' = [obj EXCEPT !.tags = t]
       \/ /\ Edited("hook") /\ UNCHANGED <<mp, asg>>
          /\ \E k \in HookSpecs \ {obj.hook} : obj' = [obj EXCEPT !.hook = k]
       \/ /\ Edited("suspend") /\ UNCHANGED <<mp, asg>>
          /\ obj' = [obj EXCEPT !.sus = ~@]
       \/ /\ Edited("max") /\ UNCHANGED <<mp, asg>>
          /\ \E n \in Sizes \ {obj.max} : obj' = [obj EXCEPT !.max = n]
       \/ /\ Edited("rebalance") /\ UNCHANGED <<mp, asg>>
          /\ obj' = [obj EXCEPT !.rebalance = ~@]
       \/ /\ Edited("data") /\ mp.data # Nothing /\ UNCHANGED <<obj, asg>>
          /\ \E d \in Datas \ {mp.data} : mp' = [mp EXCEPT !.data = d]
       \/ /\ Edited("replicas") /\ ~mode.external /\ UNCHANGED <<obj, asg>>
          /\ \E n \in Sizes \ {mp.replicas} : mp' = [mp EXCEPT !.replicas = n]
       \/ /\ Edited("replicas") /\ mode.external /\ asg.st = "active"
          /\ \E n \in Sizes \ {asg.desired} :
               n <= asg.max /\ asg' = [asg EXCEPT !.desired = n]
          /\ UNCHANGED <<obj, mp>>
       \/ /\ Edited("delete") /\ UNCHANGED <<mp, asg>>
          /\ obj' = Collected([obj EXCEPT !.deleting = TRUE])
    /\ UNCHANGED <<lt, ins, refresh, objects, ams, seen, ctlVars, mode, missed, faults>>

Next ==
    \/ Reconcile \/ ReconcileStep \/ CallFails \/ Crash
    \/ ASGProgress \/ InstanceLost \/ RefreshProgress
    \/ MachineCacheSync \/ BootstrapReady \/ Edit
    \/ \E i \in Ids : MachineProgress(i)

Spec == Init /\ [][Next]_vars

\* The work queue and the periodic resync bring a pool back, steps are not
\* suspended for ever, watches deliver, and AWS and Cluster API do their part.
FairSpec ==
    /\ Spec
    /\ WF_vars(Reconcile) /\ WF_vars(ReconcileStep)
    /\ WF_vars(ASGProgress) /\ WF_vars(RefreshProgress)
    /\ WF_vars(MachineCacheSync) /\ WF_vars(BootstrapReady)
    /\ \A i \in Ids : WF_vars(MachineProgress(i))

-----------------------------------------------------------------------------
(* Properties *)

\* A pool that is gone leaves no launch template and no group that is not
\* being deleted, at whatever call the process died or was told of an error.
NoOrphanPool == ~obj.exists => lt = <<>> /\ asg.st # "active"

\* The pool, its template and its group, as ResourceLifecycle has them.
Lifecycle ==
    INSTANCE ResourceLifecycle
        WITH Kinds <- {{"template"}, {"group"}},
             object <- IF ~obj.exists THEN "gone" ELSE IF obj.deleting THEN "deleting" ELSE "live",
             finalizer <- obj.exists /\ obj.finalizer,
             owned <- {r \in {"template", "group"} :
                          IF r = "template" THEN lt # <<>> ELSE asg.st = "active"}

\* Every step is one that the abstract lifecycle allows: neither the template nor
\* the group is created for an object that could vanish, and the finalizer stays
\* until the template is gone and the group's deletion was accepted, at whatever
\* call the process died or was told of an error.
ImplementsLifecycle == Lifecycle!Spec

\* "We ensure that the number of versions does not grow without bound": a
\* version created and not recorded, or pruned and not replaced, included.
VersionsBounded == Len(lt) <= 3

\* The template is only changed when the refresh that the change calls for can
\* start: "If template is updated when refresh cannot be started, that change
\* will not trigger a refresh".
RefreshCanStart == pc = "refresh" => refresh.st = "none"

\* An AWSMachine is deleted as an orphan only when its instance has ended,
\* although the copy of the group and the listing are both out of date.
OnlyOrphansDeleted ==
    [][\A i \in Ids : pc = "orphans" /\ i \in loc.todo \ loc'.todo
          => ins[i] = Nothing]_vars

Settled ==
    /\ asg.st = "active" /\ lt # <<>>
    /\ lt[Len(lt)].cfg = obj.cfg /\ lt[Len(lt)].data = mp.data
    /\ asg.hook = obj.hook /\ asg.sus = obj.sus /\ obj.tags \subseteq asg.tags
    /\ asg.max = obj.max /\ asg.rebalance = obj.rebalance
    /\ mp.replicas = asg.desired /\ obj.pids = Running /\ refresh = NoRefresh

\* Whatever was edited in between, and whatever failed, launch template, group
\* and status come to agree with the pool, unless its replicas are out of range.
PoolConverges ==
    <>[](obj.deleting \/ ~obj.exists \/ ~InRange(mp.replicas, obj) \/ Settled)

\* Instances of an older configuration are all replaced, unless the start of a
\* refresh was lost between two calls.
RolloutCompletes ==
    <>[](obj.deleting \/ ~obj.exists \/ missed \/ mode.norefresh
           \/ \A i \in Running : ins[i] = obj.cfg)

\* A pool whose launch template is recorded goes away when it is deleted.
PoolDeletionCompletes == obj.deleting /\ obj.ltID ~> ~obj.exists

\* A deleted pool goes away.
DeletedPoolGoesAway == obj.exists /\ obj.deleting ~> ~obj.exists

\* "S3 objects should be deleted as soon as possible if they're not used
\* anymore": the bootstrap data of the version that instances are launched from
\* is there when no reconcile is under way.
BootstrapDataServed ==
    mode.s3 /\ pc = "idle" /\ lt # <<>> => lt[Len(lt)].data \in objects
==============================================================================

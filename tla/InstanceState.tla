---------------------------- MODULE InstanceState ----------------------------
(***************************************************************************)
(* Instance state notifications of one cluster (feature gate               *)
(* EventBridgeInstanceState).  The AWSCluster worker sets up an            *)
(* EventBridge rule that sends state changes to an SQS queue and tears it  *)
(* down (pkg/cloud/services/instancestate); the workers of the AWSMachines *)
(* put their instance ids into the pattern of that one rule, by reading    *)
(* it and writing it back; the AwsInstanceStateReconciler                  *)
(* (exp/instancestate) keeps the URLs of the queues to poll in a map which *)
(* its start-up goroutine also writes, and starts a goroutine per queue    *)
(* and second that receives messages, labels the AWSMachine and deletes    *)
(* the message.  All of these run at the same time.                        *)
(***************************************************************************)
EXTENDS Naturals, FiniteSets

CONSTANTS
    Machines,    \* AWSMachines of the cluster, each with its instance
    Pollers,     \* goroutines that poll the queue at the same time
    FaultKinds,  \* the faults considered, out of AllFaults
    MaxEvents,   \* bound on the failures and deletions the environment causes
    MaxFaults    \* bound on the number of faults in a behaviour

AllFaults == {"aws", "api", "timeout", "crash"}

ASSUME InstanceStateAssumption ==
    FaultKinds \subseteq AllFaults /\ MaxFaults \in Nat /\ MaxEvents \in Nat

VARIABLES
    \* AWS
    rule,     \* the EventBridge rule: its state and the instances of its pattern
    target,   \* the queue is a target of the rule
    queue,    \* the SQS queue: it exists, and its policy admits the rule
    msgs,     \* the message about every state change of every instance
    ins,      \* state of every machine's instance
    \* Kubernetes
    cluster,  \* the AWSCluster: "live", "deleting" or "gone"
    mach,     \* the AWSMachines: st, known (Spec.InstanceID is stored), labelled
    \* the controller process
    cl,       \* the worker of the AWSCluster: its next call
    wk,       \* the worker of every AWSMachine: next call, pattern read, state seen
    rc,       \* the AwsInstanceStateReconciler's worker
    boot,     \* its start-up goroutine
    poll,     \* the polling goroutines, with the message they hold
    urls,     \* who stored the queue's URL in queueURLs, None: it is not there
    \* history and bounds
    excused,  \* a call of DeleteEC2Events failed, which is not fatal
    handled,  \* messages processMessage has returned for
    events, faults

awsVars == <<rule, target, queue, msgs, ins>>
trackVars == <<rc, boot, urls>>
procVars == <<cl, wk, trackVars, poll>>
vars == <<awsVars, cluster, mach, procVars, excused, handled, events, faults>>

-----------------------------------------------------------------------------
(* Data *)

Changes == {"shutting-down", "terminated"}
None == "none"
Messages == Machines \X Changes
NoRule == [st |-> "none", ids |-> {}]
Idle == [pc |-> "idle", ids |-> {}, seen |-> "running"]
NoPoll == [pc |-> "idle", msg |-> <<>>]

InstanceStates == {"running"} \cup Changes
Rules == [st: {"none", "DISABLED", "ENABLED"}, ids: SUBSET Machines]
Queues == [exists: BOOLEAN, policy: BOOLEAN]
Deliveries == {"none", "visible", "inflight", "deleted", "lost"}
AWSMachines == [st: {"live", "failed", "deleting", "gone"}, known: BOOLEAN, labelled: BOOLEAN]
Works == [pc: {"idle", "addPut", "close", "removePut", "terminate"},
          ids: SUBSET Machines, seen: InstanceStates]
Polls == [pc: {"idle", "process", "delete"}, msg: Messages \cup {<<>>}]

TypeOK ==
    /\ rule \in Rules /\ target \in BOOLEAN /\ queue \in Queues
    /\ msgs \in [Messages -> Deliveries]
    /\ ins \in [Machines -> InstanceStates]
    /\ cluster \in {"live", "deleting", "gone"}
    /\ mach \in [Machines -> AWSMachines]
    /\ cl \in {"idle", "rules", "targets", "policy", "deleteRule", "deleteQueue", "finish"}
    /\ wk \in [Machines -> Works]
    /\ rc \in {"idle", "store"}
    /\ boot \in {"getURL", "store", "done"}
    /\ poll \in [Pollers -> Polls]
    /\ urls \in {None, "reconcile", "startup"}
    /\ excused \in BOOLEAN /\ handled \subseteq Messages
    /\ events \in 0 .. MaxEvents /\ faults \in 0 .. MaxFaults

\* The machines' instances are running; their ids are not stored yet.
Init ==
    /\ rule = NoRule /\ target = FALSE
    /\ queue = [exists |-> FALSE, policy |-> FALSE]
    /\ msgs = [x \in Messages |-> "none"]
    /\ ins = [m \in Machines |-> "running"]
    /\ cluster = "live"
    /\ mach = [m \in Machines |-> [st |-> "live", known |-> FALSE, labelled |-> FALSE]]
    /\ cl = "idle" /\ wk = [m \in Machines |-> Idle]
    /\ rc = "idle" /\ boot = "getURL" /\ poll = [p \in Pollers |-> NoPoll]
    /\ urls = None /\ excused = FALSE /\ handled = {} /\ events = 0 /\ faults = 0

Fault(kind) == kind \in FaultKinds /\ faults < MaxFaults /\ faults' = faults + 1
NoFault == faults' = faults
Event == events < MaxEvents /\ events' = events + 1

-----------------------------------------------------------------------------
(* The AWSCluster worker: ReconcileEC2Events and DeleteEC2Events.  An error   *)
(* of either is logged and does not stop the cluster reconcile.  A call that   *)
(* fails may have taken effect; where the controller goes on in the same way   *)
(* after a failure, that is the case of a call that succeeded.                 *)

elseVars == <<ins, cluster, mach, wk, trackVars, poll, handled, events>>

\* reconcileSQSQueue; that the queue exists already is no error.  A reconcile
\* that finds everything in place changes nothing and is left out.
InPlace == queue.exists /\ rule.st # "none" /\ target /\ queue.policy
ReconcileSQSQueue ==
    /\ cl = "idle" /\ cluster = "live" /\ ~InPlace
    /\ \/ /\ queue' = [queue EXCEPT !.exists = TRUE]
          /\ (NoFault /\ cl' = "rules") \/ (Fault("aws") /\ UNCHANGED cl)
       \/ Fault("aws") /\ UNCHANGED <<cl, queue>>
    /\ UNCHANGED <<rule, target, msgs, excused, elseVars>>

\* "create in disabled state so the rule doesn't pick up all EC2 instances"
NewRule == [st |-> "DISABLED", ids |-> {}]

\* reconcileRules: DescribeRule, and createRule if there is none.  No worker
\* writes a rule it did not find, so the two calls can be one step.
ReconcileRule ==
    /\ cl = "rules"
    /\ \/ /\ rule' = IF rule.st = "none" THEN NewRule ELSE rule
          /\ (NoFault /\ cl' = "targets") \/ (Fault("aws") /\ cl' = "idle")
       \/ Fault("aws") /\ cl' = "idle" /\ UNCHANGED rule
    /\ UNCHANGED <<target, queue, msgs, excused, elseVars>>

\* GetQueueUrl, GetQueueAttributes, ListTargetsByRule, and PutTargets unless the
\* queue is a target.
PutTargets ==
    /\ cl = "targets"
    /\ \/ target' = TRUE /\ ((NoFault /\ cl' = "policy") \/ (Fault("aws") /\ cl' = "idle"))
       \/ Fault("aws") /\ cl' = "idle" /\ UNCHANGED target
    /\ UNCHANGED <<rule, queue, msgs, excused, elseVars>>

\* createPolicyForRule, unless the queue has a policy.
CreatePolicyForRule ==
    /\ cl = "policy" /\ cl' = "idle"
    /\ \/ NoFault /\ queue' = [queue EXCEPT !.policy = TRUE]
       \/ Fault("aws") /\ UNCHANGED queue
    /\ UNCHANGED <<rule, target, msgs, excused, elseVars>>

\* Mutation: the events are deleted while machines are still there.
NoDependents_Ignored == TRUE

\* "AWSCluster has no dependent CAPI resources, proceeding with its deletion"
NoDependents == \A m \in Machines : mach[m].st = "gone"

\* deleteRules: RemoveTargets, then DeleteRule; not found is no error.
RemoveTargets ==
    /\ cl = "idle" /\ cluster = "deleting" /\ NoDependents
    /\ \/ NoFault /\ target' = FALSE /\ cl' = "deleteRule" /\ UNCHANGED excused
       \/ Fault("aws") /\ cl' = "finish" /\ excused' = TRUE /\ (UNCHANGED target \/ target' = FALSE)
    /\ UNCHANGED <<rule, queue, msgs, elseVars>>

DeleteRule ==
    /\ cl = "deleteRule"
    /\ \/ NoFault /\ rule' = NoRule /\ cl' = "deleteQueue" /\ UNCHANGED excused
       \/ Fault("aws") /\ cl' = "finish" /\ excused' = TRUE /\ (UNCHANGED rule \/ rule' = NoRule)
    /\ UNCHANGED <<target, queue, msgs, elseVars>>

\* deleteSQSQueue takes the messages along.
DeleteSQSQueue ==
    /\ cl = "deleteQueue" /\ cl' = "finish"
    /\ \/ /\ NoFault /\ queue' = [exists |-> FALSE, policy |-> FALSE]
          /\ msgs' = [x \in Messages |->
                         IF msgs[x] \in {"visible", "inflight"} THEN "lost" ELSE msgs[x]]
          /\ UNCHANGED excused
       \/ Fault("aws") /\ excused' = TRUE /\ UNCHANGED <<queue, msgs>>
    /\ UNCHANGED <<rule, target, elseVars>>

\* The rest of reconcileDelete: another reconcile is needed, which deletes the
\* events again, or the finalizer is removed.
FinishClusterDeletion ==
    /\ cl = "finish" /\ cl' = "idle" /\ cluster' \in {"gone", "deleting"}
    /\ excused' = (excused /\ cluster' = "gone")
    /\ UNCHANGED <<awsVars, mach, wk, trackVars, poll, handled, events, faults>>

ClusterWorker ==
    \/ ReconcileSQSQueue \/ ReconcileRule \/ PutTargets
    \/ CreatePolicyForRule \/ RemoveTargets \/ DeleteRule \/ DeleteSQSQueue
    \/ FinishClusterDeletion

-----------------------------------------------------------------------------
(* The workers of the AWSMachines *)

othersOfWorker == <<target, queue, cluster, cl, trackVars, poll, excused, handled, events>>
EndWork(m) == wk' = [wk EXCEPT ![m] = Idle]

\* reconcileNormal has found the instance: AddInstanceToEventPattern describes
\* the rule, and without one the reconcile fails.  A reconcile of a machine
\* whose id is stored and in the pattern of its running instance changes nothing.
AddDescribe(m) ==
    /\ wk[m].pc = "idle" /\ mach[m].st = "live"
    /\ ~(mach[m].known /\ m \in rule.ids /\ ins[m] # "terminated")
    /\ \/ /\ NoFault /\ rule.st # "none"
          /\ wk' = [wk EXCEPT ![m] = IF m \in rule.ids
                                     THEN [pc |-> "close", ids |-> {}, seen |-> ins[m]]
                                     ELSE [pc |-> "addPut", ids |-> rule.ids, seen |-> ins[m]]]
       \/ Fault("aws") /\ EndWork(m)
    /\ UNCHANGED <<rule, msgs, ins, mach, othersOfWorker>>

\* Mutation: the pattern is written without the ids that were read.
WithInstance_Alone(ids, m) == {m}

WithInstance(ids, m) == ids \cup {m}

\* PutRule replaces the whole pattern by the one read, with the instance added.
AddPut(m) ==
    /\ wk[m].pc = "addPut"
    /\ \/ /\ rule' = [st |-> "ENABLED", ids |-> WithInstance(wk[m].ids, m)]
          /\ \/ NoFault /\ wk' = [wk EXCEPT ![m].pc = "close", ![m].ids = {}]
             \/ Fault("aws") /\ EndWork(m)
       \/ Fault("aws") /\ EndWork(m) /\ UNCHANGED rule
    /\ UNCHANGED <<msgs, ins, mach, othersOfWorker>>

\* The rest of reconcileNormal and the deferred patch: Spec.InstanceID is
\* stored, and a terminated instance makes the machine fail for good.
CloseMachine(m) ==
    /\ wk[m].pc = "close" /\ EndWork(m)
    /\ \/ /\ NoFault
          /\ mach' = [mach EXCEPT ![m].known = TRUE,
                         ![m].st = IF @ = "live" /\ wk[m].seen = "terminated" THEN "failed"
                                   ELSE @]
       \/ Fault("api") /\ UNCHANGED mach
    /\ UNCHANGED <<rule, msgs, ins, othersOfWorker>>

\* reconcileDelete: RemoveInstanceFromEventPattern, whose errors do not matter.
RemoveDescribe(m) ==
    /\ wk[m].pc = "idle" /\ mach[m].st = "deleting"
    /\ \E failed \in BOOLEAN :
          /\ IF failed THEN Fault("aws") ELSE NoFault
          /\ wk' = [wk EXCEPT ![m] = IF failed \/ m \notin rule.ids
                                     THEN [pc |-> "terminate", ids |-> {}, seen |-> ins[m]]
                                     ELSE [pc |-> "removePut", ids |-> rule.ids, seen |-> ins[m]]]
    /\ UNCHANGED <<rule, msgs, ins, mach, othersOfWorker>>

\* Mutation: the rule stays enabled when its last instance is removed.
RemainingState_Enabled(ids) == "ENABLED"

RemainingState(ids) == IF ids = {} THEN "DISABLED" ELSE "ENABLED"

\* PutRule creates the rule again when it was deleted since it was read.
RemovePut(m) ==
    /\ wk[m].pc = "removePut" /\ wk' = [wk EXCEPT ![m].pc = "terminate", ![m].ids = {}]
    /\ \/ /\ NoFault
          /\ LET ids == wk[m].ids \ {m}
             IN  rule' = [st |-> RemainingState(ids), ids |-> ids]
       \/ Fault("aws") /\ UNCHANGED rule
    /\ UNCHANGED <<msgs, ins, mach, othersOfWorker>>

\* A state change of the instance, which EventBridge reports if the pattern of
\* the enabled rule matches: one without ids matches every instance.
Reported(m) == rule.st = "ENABLED" /\ (m \in rule.ids \/ rule.ids = {})
Delivered == target /\ queue.exists /\ queue.policy
ChangeTo(m, state) ==
    /\ ins' = [ins EXCEPT ![m] = state]
    /\ msgs' = IF Reported(m) /\ Delivered
               THEN [msgs EXCEPT ![<<m, state>>] = "visible"] ELSE msgs

\* The instance is terminated, its termination is awaited, or the machine goes.
TerminateOrFinish(m) ==
    /\ wk[m].pc = "terminate" /\ EndWork(m)
    /\ \/ /\ NoFault /\ wk[m].seen = "running"
          /\ IF ins[m] = "running" THEN ChangeTo(m, "shutting-down") ELSE UNCHANGED <<ins, msgs>>
          /\ UNCHANGED mach
       \/ /\ wk[m].seen = "shutting-down"
          /\ NoFault /\ UNCHANGED <<ins, msgs, mach>>
       \/ /\ NoFault /\ wk[m].seen = "terminated"
          /\ mach' = [mach EXCEPT ![m].st = "gone"] /\ UNCHANGED <<ins, msgs>>
       \/ Fault("aws") /\ wk[m].seen = "running" /\ UNCHANGED <<ins, msgs, mach>>
    /\ UNCHANGED <<rule, othersOfWorker>>

MachineWorker(m) ==
    \/ AddDescribe(m) \/ AddPut(m) \/ CloseMachine(m)
    \/ RemoveDescribe(m) \/ RemovePut(m) \/ TerminateOrFinish(m)

-----------------------------------------------------------------------------
(* The AwsInstanceStateReconciler: which queues are polled *)

othersOfTracking == <<awsVars, cluster, mach, cl, wk, poll, excused, handled, events>>

\* Mutation: only a cluster that is gone is forgotten.
Forgotten_GoneOnly == cluster = "gone"

\* "Handle deleted clusters"; a cluster not found is handled alike.
Forgotten == cluster # "live"

\* Mutation: the check whether the queue is tracked is inverted.
ReconcileTracking_Inverted ==
    /\ rc = "idle" /\ ~Forgotten /\ urls # None
    /\ \/ NoFault /\ queue.exists /\ rc' = "store"
       \/ Fault("aws") /\ UNCHANGED rc
    /\ UNCHANGED <<boot, urls, othersOfTracking>>

\* Reconcile looks the queue up unless it is tracked; without a queue it is done.
ReconcileTracking ==
    /\ rc = "idle" /\ ~Forgotten /\ urls = None
    /\ \/ NoFault /\ queue.exists /\ rc' = "store"
       \/ Fault("aws") /\ UNCHANGED rc
    /\ UNCHANGED <<boot, urls, othersOfTracking>>

ForgetQueue ==
    /\ rc = "idle" /\ Forgotten /\ urls # None /\ urls' = None
    /\ UNCHANGED <<rc, boot, faults, othersOfTracking>>

StoreQueueURL ==
    /\ rc = "store" /\ rc' = "idle" /\ urls' = "reconcile"
    /\ UNCHANGED <<boot, faults, othersOfTracking>>

TrackingWorker == ReconcileTracking \/ ForgetQueue \/ StoreQueueURL

\* watchQueuesForInstanceEvents starts with all the clusters there are; its
\* errors are ignored.
StartUpGetURL ==
    /\ boot = "getURL"
    /\ \/ NoFault /\ boot' = IF cluster # "gone" /\ queue.exists THEN "store" ELSE "done"
       \/ Fault("aws") /\ boot' = "done"
    /\ UNCHANGED <<rc, urls, othersOfTracking>>

StartUpStore ==
    /\ boot = "store" /\ boot' = "done" /\ urls' = "startup"
    /\ UNCHANGED <<rc, faults, othersOfTracking>>

StartUp == StartUpGetURL \/ StartUpStore

-----------------------------------------------------------------------------
(* The polling goroutines, one per tracked queue and second *)

othersOfPoller == <<rule, target, queue, ins, cluster, cl, wk, trackVars, excused, events>>

\* Mutation: receiving a message removes it from the queue.
ReceivedAs_Deleted == "deleted"

ReceivedAs == "inflight"

\* ReceiveMessage returns a visible message, none, or an error: the last two
\* end the goroutine, and the next tick starts another one.
ReceiveMessage(p) ==
    /\ poll[p].pc = "idle" /\ boot = "done" /\ urls # None
    /\ \E x \in Messages :
          /\ msgs[x] = "visible" /\ msgs' = [msgs EXCEPT ![x] = ReceivedAs]
          /\ poll' = [poll EXCEPT ![p] = [pc |-> "process", msg |-> x]]
    /\ UNCHANGED <<mach, handled, faults, othersOfPoller>>

\* processMessage labels the machine with that instance id; errors are logged.
ProcessMessage(p) ==
    LET x == poll[p].msg
        m == x[1]
    IN  /\ poll[p].pc = "process" /\ poll' = [poll EXCEPT ![p].pc = "delete"]
        /\ handled' = handled \cup {x}
        /\ \/ /\ NoFault
              /\ mach' = IF mach[m].known /\ mach[m].st \in {"live", "failed"}
                         THEN [mach EXCEPT ![m].labelled = TRUE] ELSE mach
           \/ Fault("api") /\ UNCHANGED mach
        /\ UNCHANGED <<msgs, othersOfPoller>>

\* "We currently deletes the message regardless"
DeleteMessage(p) ==
    LET x == poll[p].msg
    IN  /\ poll[p].pc = "delete" /\ poll' = [poll EXCEPT ![p] = NoPoll]
        /\ \/ /\ NoFault
              /\ msgs' = IF msgs[x] = "lost" THEN msgs ELSE [msgs EXCEPT ![x] = "deleted"]
           \/ Fault("aws") /\ UNCHANGED msgs
        /\ UNCHANGED <<mach, handled, othersOfPoller>>

Poller(p) == ReceiveMessage(p) \/ ProcessMessage(p) \/ DeleteMessage(p)

\* SQS shows a message again that was received and not deleted in time.
VisibilityTimeout(x) ==
    /\ msgs[x] = "inflight" /\ msgs' = [msgs EXCEPT ![x] = "visible"]
    /\ IF \E p \in Pollers : poll[p].msg = x THEN Fault("timeout") ELSE NoFault
    /\ UNCHANGED <<rule, target, queue, ins, cluster, mach, procVars, excused, handled, events>>

-----------------------------------------------------------------------------
(* The environment *)

\* An instance is terminated behind the controllers' back.
InstanceFails(m) ==
    /\ Event /\ ins[m] = "running" /\ ChangeTo(m, "shutting-down")
    /\ UNCHANGED <<rule, target, queue, cluster, mach, procVars, excused, handled, faults>>

InstanceTerminates(m) ==
    /\ ins[m] = "shutting-down" /\ ChangeTo(m, "terminated")
    /\ UNCHANGED <<rule, target, queue, cluster, mach, procVars, excused, handled, events, faults>>

DeleteMachine(m) ==
    /\ Event /\ mach[m].st \in {"live", "failed"}
    /\ mach' = [mach EXCEPT ![m].st = "deleting"]
    /\ UNCHANGED <<awsVars, cluster, procVars, excused, handled, faults>>

DeleteCluster ==
    /\ Event /\ cluster = "live" /\ cluster' = "deleting"
    /\ UNCHANGED <<awsVars, mach, procVars, excused, handled, faults>>

\* The process ends and starts again: workers, goroutines and queueURLs are new.
Crash ==
    /\ Fault("crash")
    /\ cl' = "idle" /\ wk' = [m \in Machines |-> Idle] /\ rc' = "idle" /\ boot' = "getURL"
    /\ poll' = [p \in Pollers |-> NoPoll] /\ urls' = None
    /\ excused' = (excused /\ cluster = "gone")
    /\ UNCHANGED <<awsVars, cluster, mach, handled, events>>

Next ==
    \/ ClusterWorker \/ TrackingWorker \/ StartUp \/ DeleteCluster \/ Crash
    \/ \E m \in Machines : MachineWorker(m) \/ InstanceFails(m) \/ InstanceTerminates(m)
                           \/ DeleteMachine(m)
    \/ \E p \in Pollers : Poller(p)
    \/ \E x \in Messages : VisibilityTimeout(x)

Spec == Init /\ [][Next]_vars

\* Workers and goroutines run; objects are reconciled again and again (errors
\* are requeued, and the informers resync); AWS finishes what it started.
Fairness ==
    /\ WF_vars(ClusterWorker) /\ WF_vars(TrackingWorker) /\ WF_vars(StartUp)
    /\ \A m \in Machines : WF_vars(MachineWorker(m)) /\ WF_vars(InstanceTerminates(m))
    /\ \A p \in Pollers : WF_vars(Poller(p))
    /\ \A x \in Messages : WF_vars(VisibilityTimeout(x))

FairSpec == Spec /\ Fairness

-----------------------------------------------------------------------------
(* Properties *)

\* The enabled rule never has an empty pattern, which would send the state
\* changes of all instances of the account to the cluster's queue, whichever
\* order the machines' workers read and write the pattern in.
NeverCatchAll == rule.st = "ENABLED" => rule.ids # {}

\* A cluster whose deletion met no failure of DeleteEC2Events leaves neither a
\* rule nor a queue behind: no machine's worker writes the rule, and so creates
\* it again, after it was deleted.
NoOrphanEvents ==
    cluster = "gone" /\ ~excused => rule.st = "none" /\ ~target /\ ~queue.exists

\* A message leaves the queue only after processMessage ran for it, however the
\* process crashes and however often the message is received.
AtLeastOnce == \A x \in Messages : msgs[x] = "deleted" => x \in handled

\* Updates of the one pattern by several workers are lost, but not for good:
\* the instance of every machine that stays ends up in the pattern of the
\* enabled rule, which reaches the queue.
PatternConverges ==
    \A m \in Machines :
        <>[](cluster = "live" /\ mach[m].st = "live" => m \in rule.ids /\ Reported(m) /\ Delivered)

\* Every message in the queue of a live cluster is processed eventually, also
\* when the process restarts and has to learn the queue's URL again.
EventProcessed ==
    \A x \in Messages : msgs[x] = "visible" ~> x \in handled \/ cluster # "live"

\* A deleted cluster's queue is not polled for ever, unless the start-up
\* goroutine stored its URL late.
QueueForgotten == <>[](cluster # "live" => urls # "reconcile")
=============================================================================

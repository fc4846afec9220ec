------------------------- MODULE InstanceStateProofs -------------------------
(* Theorems about InstanceState, for any number of machines and goroutines.  *)
EXTENDS InstanceState, TLAPS

USE DEF awsVars, trackVars, procVars

-----------------------------------------------------------------------------
(* Types *)

\* A goroutine that is not between two polls holds a message.
Holding == \A p \in Pollers : poll[p].pc # "idle" => poll[p].msg \in Messages

TypeInv == TypeOK /\ Holding

\* The count of faults stays within its bound.
LEMMA FaultType ==
    ASSUME TypeOK, NEW k, Fault(k) \/ NoFault
    PROVE  faults' \in 0 .. MaxFaults
BY InstanceStateAssumption DEF Fault, NoFault, TypeOK

\* The count of environment events stays within its bound.
LEMMA EventType == ASSUME TypeOK, Event PROVE events' \in 0 .. MaxEvents
BY InstanceStateAssumption DEF Event, TypeOK

\* The types hold of the initial state.
LEMMA TypeInit == Init => TypeInv
<1> SUFFICES ASSUME Init PROVE TypeInv
  OBVIOUS
<1> USE DEF Init
<1>1. rule \in Rules /\ queue \in Queues /\ msgs \in [Messages -> Deliveries]
  BY DEF NoRule, Rules, Queues, Deliveries
<1>2. mach \in [Machines -> AWSMachines]
  BY DEF AWSMachines
<1>3. wk \in [Machines -> Works] /\ ins \in [Machines -> InstanceStates]
  BY DEF Idle, Works, InstanceStates
<1>4. poll \in [Pollers -> Polls] /\ Holding
  BY DEF NoPoll, Polls, Holding
<1>5. events \in 0 .. MaxEvents /\ faults \in 0 .. MaxFaults
  BY InstanceStateAssumption
<1>6. TypeOK
  BY <1>1, <1>2, <1>3, <1>4, <1>5 DEF TypeOK, None
<1> QED BY <1>4, <1>6 DEF TypeInv

\* The values the steps give to the rule, the queue, the machines, their
\* workers and the polling goroutines have their types.
LEMMA RecordTypes ==
    /\ \A q \in Queues, b \in BOOLEAN :
         [q EXCEPT !.exists = b] \in Queues /\ [q EXCEPT !.policy = b] \in Queues
    /\ [exists |-> FALSE, policy |-> FALSE] \in Queues
    /\ NoRule \in Rules /\ NewRule \in Rules
    /\ \A a \in AWSMachines : /\ [a EXCEPT !.st = "gone"] \in AWSMachines
                             /\ [a EXCEPT !.st = "deleting"] \in AWSMachines
                             /\ [a EXCEPT !.labelled = TRUE] \in AWSMachines
    /\ Idle \in Works
    /\ NoPoll \in Polls /\ \A x \in Messages : [pc |-> "process", msg |-> x] \in Polls
BY DEF Queues, Rules, NoRule, NewRule, AWSMachines, Idle, Works, InstanceStates, NoPoll, Polls

\* A state change of an instance, and the message it may cause, are typed.
LEMMA ChangeType ==
    ASSUME TypeOK, NEW m \in Machines, NEW s \in Changes, ChangeTo(m, s)
    PROVE  ins' \in [Machines -> InstanceStates] /\ msgs' \in [Messages -> Deliveries]
BY DEF TypeOK, ChangeTo, InstanceStates, Deliveries

\* Every step of the AWSCluster worker keeps the types.
LEMMA ClusterWorkerType == TypeInv /\ ClusterWorker => TypeInv'
<1> SUFFICES ASSUME TypeInv, ClusterWorker PROVE TypeInv'
  OBVIOUS
<1> USE FaultType, RecordTypes DEF TypeInv, Holding, elseVars
<1>1. CASE ReconcileSQSQueue
  BY <1>1 DEF ReconcileSQSQueue, TypeOK
<1>2. CASE ReconcileRule
  BY <1>2 DEF ReconcileRule, TypeOK
<1>3. CASE PutTargets
  BY <1>3 DEF PutTargets, TypeOK
<1>4. CASE CreatePolicyForRule
  BY <1>4 DEF CreatePolicyForRule, TypeOK
<1>5. CASE RemoveTargets
  BY <1>5 DEF RemoveTargets, TypeOK
<1>6. CASE DeleteRule
  BY <1>6 DEF DeleteRule, TypeOK
<1>7. CASE DeleteSQSQueue
  <2>1. msgs' \in [Messages -> Deliveries]
    BY <1>7 DEF DeleteSQSQueue, TypeOK, Deliveries
  <2> QED BY <1>7, <2>1 DEF DeleteSQSQueue, TypeOK
<1>8. CASE FinishClusterDeletion
  BY <1>8 DEF FinishClusterDeletion, TypeOK
<1> QED BY <1>1, <1>2, <1>3, <1>4, <1>5, <1>6, <1>7, <1>8 DEF ClusterWorker

\* Every step of a machine's worker keeps the types.
LEMMA MachineWorkerType ==
    ASSUME TypeInv, NEW m \in Machines, MachineWorker(m)
    PROVE  TypeInv'
<1> USE FaultType, RecordTypes DEF TypeInv, Holding, othersOfWorker, EndWork
<1>0. wk[m] \in Works /\ wk[m].ids \subseteq Machines /\ ins[m] \in InstanceStates
      /\ rule.ids \subseteq Machines /\ mach[m] \in AWSMachines
  BY DEF TypeOK, Works, Rules
<1>1. CASE AddDescribe(m)
  <2>1. wk' \in [Machines -> Works]
    <3> DEFINE w == IF m \in rule.ids THEN [pc |-> "close", ids |-> {}, seen |-> ins[m]]
                    ELSE [pc |-> "addPut", ids |-> rule.ids, seen |-> ins[m]]
    <3>1. w \in Works
      BY <1>0 DEF Works
    <3> HIDE DEF w
    <3>2. wk' = [wk EXCEPT ![m] = w] \/ wk' = [wk EXCEPT ![m] = Idle]
      BY <1>1 DEF AddDescribe, w
    <3> QED BY <3>1, <3>2 DEF TypeOK
  <2> QED BY <1>1, <2>1 DEF AddDescribe, TypeOK
<1>2. CASE AddPut(m)
  <2>1. wk' \in [Machines -> Works]
    <3>1. wk' = [wk EXCEPT ![m].pc = "close", ![m].ids = {}] \/ wk' = [wk EXCEPT ![m] = Idle]
      BY <1>2 DEF AddPut
    <3>2. [wk[m] EXCEPT !.pc = "close", !.ids = {}] \in Works
      BY <1>0 DEF Works
    <3> QED BY <3>1, <3>2 DEF TypeOK
  <2>2. rule' \in Rules
    BY <1>2, <1>0 DEF AddPut, WithInstance, TypeOK, Rules
  <2>3. faults' \in 0 .. MaxFaults
    BY <1>2 DEF AddPut
  <2>4. UNCHANGED <<msgs, ins, mach, othersOfWorker>>
    BY <1>2 DEF AddPut
  <2> QED BY <2>1, <2>2, <2>3, <2>4 DEF TypeOK
<1>3. CASE CloseMachine(m)
  <2>1. mach' \in [Machines -> AWSMachines]
    <3> DEFINE st == IF mach[m].st = "live" /\ wk[m].seen = "terminated" THEN "failed"
                     ELSE mach[m].st
    <3>1. mach' = [mach EXCEPT ![m].known = TRUE, ![m].st = st] \/ mach' = mach
      BY <1>3, <1>0 DEF CloseMachine, TypeOK
    <3>2. st \in {"live", "failed", "deleting", "gone"}
      BY <1>0 DEF AWSMachines
    <3> HIDE DEF st
    <3>3. [mach[m] EXCEPT !.known = TRUE, !.st = st] \in AWSMachines
      BY <3>2, <1>0 DEF AWSMachines
    <3> QED BY <3>1, <3>3 DEF TypeOK
  <2> QED BY <1>3, <2>1 DEF CloseMachine, TypeOK
<1>4. CASE RemoveDescribe(m)
  <2>1. PICK failed \in BOOLEAN :
          /\ IF failed THEN Fault("aws") ELSE NoFault
          /\ wk' = [wk EXCEPT ![m] = IF failed \/ m \notin rule.ids
                                     THEN [pc |-> "terminate", ids |-> {}, seen |-> ins[m]]
                                     ELSE [pc |-> "removePut", ids |-> rule.ids, seen |-> ins[m]]]
    BY <1>4 DEF RemoveDescribe
  <2>2. wk' \in [Machines -> Works]
    BY <2>1, <1>0 DEF TypeOK, Works
  <2>3. faults' \in 0 .. MaxFaults
    BY <2>1
  <2> QED BY <1>4, <2>2, <2>3 DEF RemoveDescribe, TypeOK
<1>5. CASE RemovePut(m)
  <2>1. wk' \in [Machines -> Works]
    BY <1>5, <1>0 DEF RemovePut, TypeOK, Works
  <2>2. rule' \in Rules
    BY <1>5, <1>0 DEF RemovePut, RemainingState, TypeOK, Rules
  <2>3. faults' \in 0 .. MaxFaults
    BY <1>5 DEF RemovePut
  <2>4. UNCHANGED <<msgs, ins, mach, othersOfWorker>>
    BY <1>5 DEF RemovePut
  <2> QED BY <2>1, <2>2, <2>3, <2>4 DEF TypeOK
<1>6. CASE TerminateOrFinish(m)
  <2>1. ins' \in [Machines -> InstanceStates] /\ msgs' \in [Messages -> Deliveries]
    BY <1>6, ChangeType DEF TerminateOrFinish, Changes, TypeOK
  <2>2. mach' \in [Machines -> AWSMachines]
    BY <1>6, <1>0 DEF TerminateOrFinish, TypeOK
  <2>3. faults' \in 0 .. MaxFaults
    BY <1>6 DEF TerminateOrFinish
  <2>4. wk' \in [Machines -> Works]
    BY <1>6 DEF TerminateOrFinish, TypeOK
  <2> QED BY <1>6, <2>1, <2>2, <2>3, <2>4 DEF TerminateOrFinish, TypeOK
<1> QED BY <1>1, <1>2, <1>3, <1>4, <1>5, <1>6 DEF MachineWorker

\* Tracking the queue and polling it keep the types.
LEMMA QueueType ==
    ASSUME TypeInv, TrackingWorker \/ StartUp \/ \E p \in Pollers : Poller(p)
    PROVE  TypeInv'
<1> USE FaultType, RecordTypes DEF TypeInv, Holding, othersOfTracking, othersOfPoller
<1>1. CASE TrackingWorker
  BY <1>1 DEF TrackingWorker, ReconcileTracking, ForgetQueue, StoreQueueURL, None, TypeOK
<1>2. CASE StartUp
  BY <1>2 DEF StartUp, StartUpGetURL, StartUpStore, TypeOK
<1>3. ASSUME NEW p \in Pollers, Poller(p) PROVE TypeInv'
  <2>1. CASE ReceiveMessage(p)
    <3>1. PICK x \in Messages :
             /\ msgs' = [msgs EXCEPT ![x] = "inflight"]
             /\ poll' = [poll EXCEPT ![p] = [pc |-> "process", msg |-> x]]
      BY <2>1 DEF ReceiveMessage, ReceivedAs
    <3>2. msgs' \in [Messages -> Deliveries]
      BY <3>1 DEF TypeOK, Deliveries
    <3>3. poll' \in [Pollers -> Polls] /\ Holding'
      BY <3>1 DEF TypeOK
    <3> QED BY <2>1, <3>2, <3>3 DEF ReceiveMessage, TypeOK
  <2>2. CASE ProcessMessage(p)
    <3>1. poll' = [poll EXCEPT ![p].pc = "delete"] /\ poll[p].msg \in Messages
      BY <2>2 DEF ProcessMessage
    <3>2. poll' \in [Pollers -> Polls] /\ Holding'
      <4>1. [poll[p] EXCEPT !.pc = "delete"] \in Polls
        BY DEF TypeOK, Polls
      <4>2. \A q \in Pollers : poll'[q].msg = poll[q].msg /\ (q # p => poll'[q] = poll[q])
        BY <3>1 DEF TypeOK, Polls
      <4> QED BY <3>1, <4>1, <4>2 DEF TypeOK
    <3>3. poll[p].msg[1] \in Machines
      BY <3>1 DEF Messages
    <3>4. mach' \in [Machines -> AWSMachines]
      <4> DEFINE m == poll[p].msg[1]
      <4>1. mach' = mach \/ mach' = [mach EXCEPT ![m].labelled = TRUE]
        BY <2>2 DEF ProcessMessage
      <4>2. m \in Machines
        BY <3>3
      <4> HIDE DEF m
      <4>3. [mach[m] EXCEPT !.labelled = TRUE] \in AWSMachines
        BY <4>2 DEF TypeOK
      <4> QED BY <4>1, <4>2, <4>3 DEF TypeOK
    <3>5. handled' \subseteq Messages
      BY <2>2, <3>1 DEF ProcessMessage, TypeOK
    <3> QED BY <2>2, <3>2, <3>4, <3>5 DEF ProcessMessage, TypeOK
  <2>3. CASE DeleteMessage(p)
    <3>1. poll' \in [Pollers -> Polls] /\ Holding'
      BY <2>3 DEF DeleteMessage, NoPoll, TypeOK
    <3>2. msgs' \in [Messages -> Deliveries]
      BY <2>3 DEF DeleteMessage, TypeOK, Deliveries
    <3>3. faults' \in 0 .. MaxFaults
      BY <2>3 DEF DeleteMessage
    <3> QED BY <2>3, <3>1, <3>2, <3>3 DEF DeleteMessage, TypeOK
  <2> QED BY <1>3, <2>1, <2>2, <2>3 DEF Poller
<1> QED BY <1>1, <1>2, <1>3

\* Every step keeps the types.
LEMMA TypeStep == TypeInv /\ [Next]_vars => TypeInv'
<1> SUFFICES ASSUME TypeInv, [Next]_vars PROVE TypeInv'
  OBVIOUS
<1> USE DEF TypeInv, Holding
<1>1. CASE ClusterWorker
  BY <1>1, ClusterWorkerType
<1>2. CASE TrackingWorker \/ StartUp \/ \E p \in Pollers : Poller(p)
  BY <1>2, QueueType
<1>3. CASE DeleteCluster
  BY <1>3, EventType DEF DeleteCluster, TypeOK
<1>4. CASE Crash
  <2>1. wk' \in [Machines -> Works] /\ poll' \in [Pollers -> Polls]
    BY <1>4, RecordTypes DEF Crash
  <2>2. Holding'
    BY <1>4 DEF Crash, NoPoll
  <2> QED BY <1>4, <2>1, <2>2, FaultType DEF Crash, None, TypeOK
<1>5. ASSUME NEW m \in Machines, MachineWorker(m) PROVE TypeInv'
  BY <1>5, MachineWorkerType
<1>6. ASSUME NEW m \in Machines, InstanceFails(m) \/ InstanceTerminates(m) PROVE TypeInv'
  BY <1>6, ChangeType, EventType DEF InstanceFails, InstanceTerminates, Changes, TypeOK
<1>7. ASSUME NEW m \in Machines, DeleteMachine(m) PROVE TypeInv'
  BY <1>7, EventType, RecordTypes DEF DeleteMachine, TypeOK
<1>8. ASSUME NEW x \in Messages, VisibilityTimeout(x) PROVE TypeInv'
  <2>1. msgs' \in [Messages -> Deliveries]
    BY <1>8 DEF VisibilityTimeout, TypeOK, Deliveries
  <2> QED BY <1>8, <2>1, FaultType DEF VisibilityTimeout, TypeOK
<1>9. CASE UNCHANGED vars
  BY <1>9 DEF vars, TypeOK
<1> QED BY <1>1, <1>2, <1>3, <1>4, <1>5, <1>6, <1>7, <1>8, <1>9 DEF Next

\* Every reachable state of the rule, the queue, the workers and the polling
\* goroutines is well formed, for every number of them.
THEOREM TypeCorrect == Spec => []TypeOK
<1>1. Spec => []TypeInv
  BY TypeInit, TypeStep, PTL DEF Spec
<1> QED BY <1>1, PTL DEF TypeInv

-----------------------------------------------------------------------------
(* The pattern of the rule *)

\* Only AddPut and RemovePut enable the rule: the first writes at least its own
\* instance, the second disables the rule it leaves without instances.
LEMMA PatternStep == TypeInv /\ NeverCatchAll /\ [Next]_vars => NeverCatchAll'
<1> SUFFICES ASSUME TypeInv, NeverCatchAll, [Next]_vars PROVE NeverCatchAll'
  OBVIOUS
<1> USE DEF NeverCatchAll
<1>1. CASE ClusterWorker
  BY <1>1 DEF ClusterWorker, ReconcileSQSQueue, ReconcileRule, NewRule, PutTargets,
              CreatePolicyForRule, RemoveTargets, DeleteRule, NoRule, DeleteSQSQueue,
              FinishClusterDeletion
<1>2. ASSUME NEW m \in Machines, MachineWorker(m) PROVE NeverCatchAll'
  <2>1. CASE AddPut(m)
    BY <2>1 DEF AddPut, WithInstance
  <2>2. CASE RemovePut(m)
    BY <2>2 DEF RemovePut, RemainingState
  <2>3. CASE UNCHANGED rule
    BY <2>3
  <2> QED BY <1>2, <2>1, <2>2, <2>3
          DEF MachineWorker, AddDescribe, CloseMachine, RemoveDescribe, TerminateOrFinish
<1>3. CASE UNCHANGED rule
  BY <1>3
<1> QED BY <1>1, <1>2, <1>3
        DEF Next, vars, TrackingWorker, ReconcileTracking, ForgetQueue, StoreQueueURL, StartUp,
            StartUpGetURL, StartUpStore, othersOfTracking, DeleteCluster, Crash, InstanceFails,
            InstanceTerminates, DeleteMachine, Poller, ReceiveMessage, ProcessMessage,
            DeleteMessage, othersOfPoller, VisibilityTimeout

\* The enabled rule never matches every instance of the account, however the
\* workers of any number of machines interleave their reads and writes of it
\* (AddInstanceToEventPattern, RemoveInstanceFromEventPattern).
THEOREM RuleNeverCatchAll == Spec => []NeverCatchAll
<1>1. Spec => []TypeInv
  BY TypeInit, TypeStep, PTL DEF Spec
<1>2. Init => NeverCatchAll
  BY DEF Init, NoRule, NeverCatchAll
<1> QED BY <1>1, <1>2, PatternStep, PTL DEF Spec

-----------------------------------------------------------------------------
(* The queue *)

\* A goroutine deletes a message only after processMessage has returned for it.
Processed == \A p \in Pollers : poll[p].pc = "delete" => poll[p].msg \in handled

\* A deleted message stays deleted or is sent again; only DeleteMessage, of a
\* goroutine that has processed it, deletes one.
LEMMA DeliveryStep ==
    TypeInv /\ Processed /\ AtLeastOnce /\ [Next]_vars => Processed' /\ AtLeastOnce'
<1> SUFFICES ASSUME TypeInv, Processed, AtLeastOnce, [Next]_vars
             PROVE  Processed' /\ AtLeastOnce'
  OBVIOUS
<1> USE DEF Processed, AtLeastOnce
<1>1. ASSUME UNCHANGED <<poll, handled>>, msgs \in [Messages -> Deliveries],
             \A x \in Messages : msgs'[x] = "deleted" => msgs[x] = "deleted"
      PROVE  Processed' /\ AtLeastOnce'
  BY <1>1
<1> USE DEF TypeInv, TypeOK
<1>2. CASE ClusterWorker
  <2>1. CASE DeleteSQSQueue
    BY <2>1, <1>1 DEF DeleteSQSQueue, elseVars
  <2>2. CASE UNCHANGED <<poll, handled, msgs>>
    BY <2>2, <1>1
  <2> QED BY <1>2, <2>1, <2>2 DEF ClusterWorker, ReconcileSQSQueue, ReconcileRule, PutTargets,
              CreatePolicyForRule, RemoveTargets, DeleteRule, FinishClusterDeletion, elseVars
<1>3. ASSUME NEW m \in Machines, NEW s \in Changes, ChangeTo(m, s), UNCHANGED <<poll, handled>>
      PROVE  Processed' /\ AtLeastOnce'
  BY <1>3, <1>1 DEF ChangeTo
<1>4. ASSUME NEW m \in Machines, MachineWorker(m) PROVE Processed' /\ AtLeastOnce'
  <2>1. CASE TerminateOrFinish(m)
    BY <2>1, <1>3, <1>1 DEF TerminateOrFinish, Changes, othersOfWorker
  <2>2. CASE UNCHANGED <<poll, handled, msgs>>
    BY <2>2, <1>1
  <2> QED BY <1>4, <2>1, <2>2 DEF MachineWorker, AddDescribe, AddPut, CloseMachine,
                                  RemoveDescribe, RemovePut, othersOfWorker
<1>5. ASSUME NEW m \in Machines, InstanceFails(m) \/ InstanceTerminates(m)
      PROVE  Processed' /\ AtLeastOnce'
  BY <1>5, <1>3 DEF InstanceFails, InstanceTerminates, Changes
<1>6. ASSUME NEW p \in Pollers, ReceiveMessage(p) PROVE Processed' /\ AtLeastOnce'
  BY <1>6 DEF ReceiveMessage, ReceivedAs
<1>7. ASSUME NEW p \in Pollers, ProcessMessage(p) PROVE Processed' /\ AtLeastOnce'
  BY <1>7 DEF ProcessMessage
<1>8. ASSUME NEW p \in Pollers, DeleteMessage(p) PROVE Processed' /\ AtLeastOnce'
  BY <1>8 DEF DeleteMessage, NoPoll, othersOfPoller
<1>9. ASSUME NEW x \in Messages, VisibilityTimeout(x) PROVE Processed' /\ AtLeastOnce'
  BY <1>9, <1>1 DEF VisibilityTimeout
<1>10. CASE Crash
  BY <1>10 DEF Crash, NoPoll
<1>11. CASE UNCHANGED <<poll, handled, msgs>>
  BY <1>11, <1>1
<1> QED BY <1>2, <1>4, <1>5, <1>6, <1>7, <1>8, <1>9, <1>10, <1>11
        DEF Next, vars, TrackingWorker, ReconcileTracking, ForgetQueue, StoreQueueURL, StartUp,
            StartUpGetURL, StartUpStore, othersOfTracking, DeleteCluster, DeleteMachine, Poller

\* No message leaves the queue unprocessed, whatever crashes, visibility
\* timeouts and failing calls happen and however many goroutines poll.
THEOREM MessagesProcessed == Spec => []AtLeastOnce
<1>1. Spec => []TypeInv
  BY TypeInit, TypeStep, PTL DEF Spec
<1>2. Init => Processed /\ AtLeastOnce
  BY DEF Init, NoPoll, Processed, AtLeastOnce
<1> QED BY <1>1, <1>2, DeliveryStep, PTL DEF Spec

-----------------------------------------------------------------------------
(* The deletion of the cluster's events *)

\* A machine that is gone has no worker, so no one writes its instance into,
\* or out of, the rule any more.
GoneIsQuiet == \A m \in Machines : mach[m].st = "gone" => wk[m].pc = "idle"

\* What DeleteEC2Events has removed before each of its calls, unless one failed.
Removed ==
    /\ cl = "deleteRule" => ~target
    /\ cl = "deleteQueue" => ~target /\ rule.st = "none"
    /\ (cl = "finish" \/ cluster = "gone") /\ ~excused =>
          rule.st = "none" /\ ~target /\ ~queue.exists

\* The deletion runs only when all machines are gone, and nothing runs after it.
Deleting ==
    /\ cl \in {"deleteRule", "deleteQueue", "finish"} => cluster = "deleting" /\ NoDependents
    /\ cluster = "gone" => cl = "idle" /\ NoDependents

EventsInv == GoneIsQuiet /\ Removed /\ Deleting

\* Steps that write neither the events nor the deletion's state keep it.
LEMMA EventsKept ==
    ASSUME EventsInv, UNCHANGED <<rule, target, queue, cluster, cl, excused>>,
           GoneIsQuiet', \A m \in Machines : mach[m].st = "gone" => mach'[m].st = "gone"
    PROVE  EventsInv'
BY DEF EventsInv, Removed, Deleting, NoDependents

\* Every step of the AWSCluster worker keeps EventsInv.
LEMMA EventsClusterStep == ASSUME TypeInv, EventsInv, ClusterWorker PROVE EventsInv'
<1> USE DEF EventsInv, GoneIsQuiet, Removed, Deleting, NoDependents, elseVars, TypeInv, TypeOK
<1>1. CASE ReconcileSQSQueue
  BY <1>1 DEF ReconcileSQSQueue
<1>2. CASE ReconcileRule
  BY <1>2 DEF ReconcileRule
<1>3. CASE PutTargets
  BY <1>3 DEF PutTargets
<1>4. CASE CreatePolicyForRule
  BY <1>4 DEF CreatePolicyForRule
<1>5. CASE RemoveTargets
  BY <1>5 DEF RemoveTargets
<1>6. CASE DeleteRule
  BY <1>6 DEF DeleteRule, NoRule
<1>7. CASE DeleteSQSQueue
  BY <1>7 DEF DeleteSQSQueue
<1>8. CASE FinishClusterDeletion
  BY <1>8 DEF FinishClusterDeletion
<1> QED BY <1>1, <1>2, <1>3, <1>4, <1>5, <1>6, <1>7, <1>8 DEF ClusterWorker

\* Every step of a machine's worker keeps EventsInv: the worker of a machine
\* that is not gone is not one DeleteEC2Events can run beside.
LEMMA EventsMachineStep ==
    ASSUME TypeInv, EventsInv, NEW m \in Machines, MachineWorker(m)
    PROVE  EventsInv'
<1> USE DEF othersOfWorker, EndWork, Idle, TypeInv
<1>0. wk \in [Machines -> Works] /\ mach \in [Machines -> AWSMachines]
  BY DEF TypeOK
<1>1. ASSUME mach[m].st # "gone", UNCHANGED <<target, queue, cluster, cl, excused, mach>>
      PROVE  Removed' /\ Deleting'
  BY <1>1 DEF EventsInv, Removed, Deleting, NoDependents
<1>2. CASE AddDescribe(m)
  BY <1>2, <1>1, <1>0 DEF AddDescribe, EventsInv, GoneIsQuiet
<1>3. CASE AddPut(m)
  BY <1>3, <1>1, <1>0 DEF AddPut, EventsInv, GoneIsQuiet
<1>4. CASE CloseMachine(m)
  <2>1. mach[m].st # "gone" /\ \A n \in Machines : mach'[n].st = "gone" => mach[n].st = "gone"
    BY <1>4, <1>0 DEF CloseMachine, EventsInv, GoneIsQuiet, AWSMachines
  <2>2. GoneIsQuiet'
    BY <2>1, <1>4, <1>0 DEF CloseMachine, EventsInv, GoneIsQuiet
  <2> QED BY <2>1, <2>2, <1>4 DEF CloseMachine, EventsInv, Removed, Deleting, NoDependents
<1>5. CASE RemoveDescribe(m)
  BY <1>5, <1>1, <1>0 DEF RemoveDescribe, EventsInv, GoneIsQuiet
<1>6. CASE RemovePut(m)
  BY <1>6, <1>1, <1>0 DEF RemovePut, EventsInv, GoneIsQuiet
<1>7. CASE TerminateOrFinish(m)
  <2>1. GoneIsQuiet'
    BY <1>7, <1>0 DEF TerminateOrFinish, EventsInv, GoneIsQuiet
  <2>2. \A n \in Machines : mach[n].st = "gone" => mach'[n].st = "gone"
    BY <1>7, <1>0 DEF TerminateOrFinish, AWSMachines
  <2> QED BY <2>1, <2>2, <1>7, EventsKept DEF TerminateOrFinish
<1> QED BY <1>2, <1>3, <1>4, <1>5, <1>6, <1>7 DEF MachineWorker

\* Every step keeps EventsInv.
LEMMA EventsStep == TypeInv /\ EventsInv /\ [Next]_vars => EventsInv'
<1> SUFFICES ASSUME TypeInv, EventsInv, [Next]_vars PROVE EventsInv'
  OBVIOUS
<1>0. mach \in [Machines -> AWSMachines]
  BY DEF TypeInv, TypeOK
<1>1. CASE ClusterWorker
  BY <1>1, EventsClusterStep
<1>2. ASSUME NEW m \in Machines, MachineWorker(m) PROVE EventsInv'
  BY <1>2, EventsMachineStep
<1>3. ASSUME NEW m \in Machines, DeleteMachine(m) PROVE EventsInv'
  BY <1>3, <1>0, EventsKept DEF DeleteMachine, EventsInv, GoneIsQuiet
<1>4. CASE DeleteCluster
  BY <1>4 DEF DeleteCluster, EventsInv, GoneIsQuiet, Removed, Deleting, NoDependents
<1>5. CASE Crash
  BY <1>5 DEF Crash, Idle, EventsInv, GoneIsQuiet, Removed, Deleting, NoDependents
<1>6. ASSUME NEW p \in Pollers, ProcessMessage(p) PROVE EventsInv'
  <2>1. \A n \in Machines : mach'[n].st = mach[n].st
    BY <1>6, <1>0 DEF ProcessMessage, AWSMachines
  <2> QED BY <1>6, <2>1, EventsKept DEF ProcessMessage, othersOfPoller, EventsInv, GoneIsQuiet
<1>7. CASE UNCHANGED <<rule, target, queue, cluster, cl, excused, mach, wk>>
  BY <1>7, EventsKept DEF EventsInv, GoneIsQuiet
<1> QED BY <1>1, <1>2, <1>3, <1>4, <1>5, <1>6, <1>7
        DEF Next, vars, TrackingWorker, ReconcileTracking, ForgetQueue, StoreQueueURL, StartUp,
            StartUpGetURL, StartUpStore, othersOfTracking, InstanceFails, InstanceTerminates,
            Poller, ReceiveMessage, DeleteMessage, othersOfPoller, VisibilityTimeout

\* A cluster that is gone, and whose DeleteEC2Events met no error, leaves no
\* rule, target or queue behind, for any number of machines whose workers
\* wrote the rule while the cluster lived.
THEOREM NoEventsLeft == Spec => []NoOrphanEvents
<1>1. Spec => []TypeInv
  BY TypeInit, TypeStep, PTL DEF Spec
<1>2. Init => EventsInv
  BY DEF Init, Idle, EventsInv, GoneIsQuiet, Removed, Deleting
<1>3. EventsInv => NoOrphanEvents
  BY DEF EventsInv, Removed, NoOrphanEvents
<1> QED BY <1>1, <1>2, <1>3, EventsStep, PTL DEF Spec
=============================================================================

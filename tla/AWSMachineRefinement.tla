------------------------ MODULE AWSMachineRefinement ------------------------
(* AWSMachine implements ResourceLifecycle, and what it promises about the   *)
(* other resources of the machine, for all constants.                        *)
EXTENDS AWSMachineProofs

USE DEF Goto, awsVars, apiVars, ctlVars, lostVars

-----------------------------------------------------------------------------
(* The abstract lifecycle *)

\* The API server keeps a deleted object only for its finalizer; a reconcile
\* drops the finalizer only of an object whose deletion it has seen, and a
\* deletion is never taken back.
DeletionInv ==
    /\ obj.exists /\ obj.deleting => obj.finalizer
    /\ pc # "idle" => /\ mem.deleting => obj.deleting
                      /\ base.finalizer /\ ~mem.finalizer => mem.deleting
                      /\ pc = "releaseHost" => mem.deleting

\* The fields of a patched object the lifecycle speaks of.
LEMMA PatchedLifecycle ==
    ASSUME TypeOK, NEW m \in AWSMachines, NEW s \in BOOLEAN, NEW t \in BOOLEAN
    PROVE  LET o == Patched(m, s, t)
               f == IF s /\ m.finalizer # base.finalizer THEN m.finalizer ELSE obj.finalizer
           IN  /\ o.finalizer = f /\ o.deleting = obj.deleting
               /\ o.exists = (obj.exists /\ ~(obj.deleting /\ ~f))
BY DEF Patched, Collected, TypeOK, AWSMachines

\* What a patch, whichever of its two calls succeed, does to the object: it adds
\* the finalizer, removes it, or leaves the lifecycle alone.
Outcome(m) ==
    /\ obj'.deleting = obj.deleting
    /\ obj'.exists \in BOOLEAN /\ obj'.finalizer \in BOOLEAN
    /\ \/ UNCHANGED obj
       \/ /\ obj.exists /\ obj'.finalizer = obj.finalizer
          /\ obj'.exists = ~(obj.deleting /\ ~obj.finalizer)
       \/ /\ obj.exists /\ m.finalizer # base.finalizer /\ obj'.finalizer = m.finalizer
          /\ obj'.exists = ~(obj.deleting /\ ~m.finalizer)

\* Every patch has one of these outcomes.
LEMMA PatchOutcome ==
    ASSUME TypeOK, NEW m \in AWSMachines,
           \/ PatchSucceeds(m) \/ PatchFails(m)
           \/ (obj.exists /\ obj' = Patched(m, TRUE, TRUE)) \/ UNCHANGED obj
    PROVE  Outcome(m)
<1>1. /\ m.finalizer \in BOOLEAN /\ base.finalizer \in BOOLEAN
      /\ obj.finalizer \in BOOLEAN /\ obj.exists \in BOOLEAN /\ obj.deleting \in BOOLEAN
  BY DEF TypeOK, AWSMachines
<1>2. CASE UNCHANGED obj
  BY <1>1, <1>2 DEF Outcome
<1>3. ASSUME NEW s \in BOOLEAN, NEW t \in BOOLEAN, obj.exists, obj' = Patched(m, s, t)
      PROVE  Outcome(m)
  <2> DEFINE f == IF s /\ m.finalizer # base.finalizer THEN m.finalizer ELSE obj.finalizer
  <2>1. /\ obj'.finalizer = f /\ obj'.deleting = obj.deleting
        /\ obj'.exists = (obj.exists /\ ~(obj.deleting /\ ~f))
    BY <1>3, PatchedLifecycle
  <2>2. /\ f \in BOOLEAN
        /\ f = obj.finalizer \/ (m.finalizer # base.finalizer /\ f = m.finalizer)
    BY <1>1
  <2> HIDE DEF f
  <2> QED BY <1>1, <1>3, <2>1, <2>2 DEF Outcome
<1>4. TRUE \in BOOLEAN
  OBVIOUS
<1> QED BY <1>2, <1>3, <1>4 DEF PatchSucceeds, PatchFails

\* The finalizer in memory is the stored one, or this reconcile has just added
\* it, in every step before the deferred patch.
LEMMA PatchNeutral ==
    ASSUME TypeInv, FinalizerInv, DeletionInv, pc \notin {"idle", "close"},
           NEW m \in AWSMachines, m.finalizer = mem.finalizer, Outcome(m)
    PROVE  /\ obj'.exists = obj.exists /\ obj'.deleting = obj.deleting
           /\ obj'.finalizer = obj.finalizer
<1>1. /\ m.finalizer \in BOOLEAN /\ base.finalizer \in BOOLEAN
      /\ obj.finalizer \in BOOLEAN /\ obj.exists \in BOOLEAN /\ obj.deleting \in BOOLEAN
  BY DEF TypeInv, TypeOK, AWSMachines
<1> QED BY <1>1 DEF FinalizerInv, MemInv, DeletionInv, Outcome

ObjectKept == /\ obj'.exists = obj.exists /\ obj'.deleting = obj.deleting
              /\ obj'.finalizer = obj.finalizer

Protected == /\ obj.exists /\ ~obj.deleting /\ ~obj.finalizer
             /\ obj'.exists /\ ~obj'.deleting /\ obj'.finalizer /\ UNCHANGED inst

Finished == /\ obj.exists /\ obj.deleting /\ obj.finalizer /\ NoneLive
            /\ ~obj'.exists /\ obj'.deleting /\ ~obj'.finalizer /\ UNCHANGED inst

DeletionRequested == /\ obj.exists /\ ~obj.deleting /\ obj'.exists = obj.finalizer
                     /\ obj'.deleting /\ obj'.finalizer = obj.finalizer /\ UNCHANGED inst

\* A step of the reconcile before the deferred patch adds the finalizer or
\* leaves the object's lifecycle alone, and does not forget the deletion it saw.
LEMMA ReconcileSteps ==
    ASSUME TypeInv, TypeInv', FinalizerInv, DeletionInv, ReconcileStep, ~close
    PROVE  /\ ObjectKept \/ (addFinalizer /\ Protected)
           /\ pc # "idle" /\ mem'.deleting = mem.deleting /\ UNCHANGED base
           /\ \/ mem'.finalizer = mem.finalizer \/ mem'.finalizer
              \/ ~mem'.finalizer /\ mem.deleting
           /\ pc' = "releaseHost" => mem.deleting
<1>0. /\ TypeOK /\ mem \in AWSMachines /\ obj \in AWSMachines /\ base \in AWSMachines
      /\ mem' \in AWSMachines
  BY DEF TypeInv, TypeOK
<1>1. CASE addFinalizer
  <2>1. /\ mem' = [mem EXCEPT !.finalizer = TRUE] /\ mem'.finalizer
        /\ mem'.deleting = mem.deleting /\ UNCHANGED <<base, inst>> /\ pc = "finalizer"
        /\ pc' # "releaseHost"
    BY <1>0, <1>1 DEF addFinalizer, AfterFinalizer, AWSMachines
  <2>2. Outcome(mem')
    BY <1>0, <1>1, PatchOutcome DEF addFinalizer
  <2>3. /\ base.finalizer \in BOOLEAN /\ obj.exists \in BOOLEAN
        /\ obj.deleting \in BOOLEAN /\ obj.finalizer \in BOOLEAN
    BY <1>0 DEF AWSMachines
  <2>4. ObjectKept \/ Protected
    BY <2>1, <2>2, <2>3 DEF Outcome, DeletionInv, ObjectKept, Protected
  <2> QED BY <1>1, <2>1, <2>4
<1>2. CASE markProvisionStarted \/ registerSecret \/ terminateInstance \/ releaseDedicatedHost
  <2>1. \E m \in AWSMachines :
          /\ m.finalizer = mem.finalizer
          /\ \/ PatchSucceeds(m) \/ PatchFails(m)
             \/ (obj.exists /\ obj' = Patched(m, TRUE, TRUE)) \/ UNCHANGED obj
    <3>1. CASE markProvisionStarted
      BY <1>0, <3>1 DEF markProvisionStarted
    <3>2. CASE registerSecret
      <4>0. loc \in Locals
        BY DEF TypeInv, TypeOK
      <4>1. RecordedSecrets \in AWSMachines /\ RecordedSecrets.finalizer = mem.finalizer
        BY <1>0, <4>0 DEF RecordedSecrets, Locals, AWSMachines
      <4> QED BY <3>2, <4>1 DEF registerSecret
    <3>3. CASE terminateInstance
      <4> DEFINE m == [mem EXCEPT !.provFailed = FALSE]
      <4>1. m \in AWSMachines /\ m.finalizer = mem.finalizer
        BY <1>0 DEF AWSMachines
      <4>2. \/ PatchSucceeds(m) \/ PatchFails(m)
            \/ obj.exists /\ obj' = Patched(m, TRUE, TRUE)
        BY <3>3 DEF terminateInstance
      <4> QED BY <4>1, <4>2
    <3>4. CASE releaseDedicatedHost
      BY <1>0, <3>4 DEF releaseDedicatedHost
    <3> QED BY <1>2, <3>1, <3>2, <3>3, <3>4
  <2>2. pc \notin {"idle", "close"} /\ pc' # "releaseHost" /\ UNCHANGED base
    BY <1>2 DEF markProvisionStarted, registerSecret, terminateInstance, releaseDedicatedHost,
       CreateFailed
  <2>3. ObjectKept
    BY <1>0, <2>1, <2>2, PatchOutcome, PatchNeutral DEF ObjectKept
  <2>4. /\ mem'.deleting = mem.deleting
        /\ mem'.finalizer = mem.finalizer \/ (pc = "releaseHost" /\ ~mem'.finalizer)
    <3>1. CASE markProvisionStarted
      BY <3>1 DEF markProvisionStarted
    <3>2. CASE registerSecret
      BY <1>0, <3>2 DEF registerSecret, CreateFailed, RecordedSecrets, AWSMachines
    <3>3. CASE terminateInstance
      BY <1>0, <3>3 DEF terminateInstance, AWSMachines
    <3>4. CASE releaseDedicatedHost
      BY <1>0, <3>4 DEF releaseDedicatedHost, AWSMachines
    <3> QED BY <1>2, <3>1, <3>2, <3>3, <3>4
  <2>5. pc = "releaseHost" => mem.deleting
    BY DEF DeletionInv
  <2> QED BY <2>2, <2>3, <2>4, <2>5
<1>3. CASE findInstance
  BY <1>0, <1>3 DEF findInstance, Found, NothingToDelete, ObjectKept, AWSMachines
<1>4. CASE \/ deleteBootstrapData \/ prepareInstance \/ tagNetworkInterfaces
           \/ runInstance \/ updateState
  <2>1. UNCHANGED <<obj, base>> /\ pc # "idle" /\ pc' # "releaseHost"
    BY <1>4 DEF deleteBootstrapData, AfterDeleteBootstrapData, prepareInstance,
       tagNetworkInterfaces, runInstance, updateState, CreateFailed
  <2>2. mem'.deleting = mem.deleting /\ mem'.finalizer = mem.finalizer
    <3>1. CASE deleteBootstrapData
      BY <1>0, <3>1 DEF deleteBootstrapData, AfterDeleteBootstrapData, AWSMachines
    <3>2. CASE prepareInstance
      BY <1>0, <3>2 DEF prepareInstance, CreateFailed, AWSMachines
    <3>3. CASE tagNetworkInterfaces \/ runInstance \/ updateState
      BY <1>0, <3>3 DEF tagNetworkInterfaces, runInstance, updateState, CreateFailed, AWSMachines
    <3> QED BY <1>4, <3>1, <3>2, <3>3
  <2> QED BY <2>1, <2>2 DEF ObjectKept
<1>5. CASE \/ createSecretChunk \/ reconcileElasticIP \/ associateAddress \/ ensureTags
           \/ reconcileOperationalState \/ releaseElasticIP
           \/ deregisterFromLB \/ registerWithLB
  BY <1>5 DEF createSecretChunk, reconcileElasticIP, associateAddress, ensureTags,
     reconcileOperationalState, releaseElasticIP, deregisterFromLB, registerWithLB, ObjectKept
<1>6. CASE leaveLB
  BY <1>6 DEF leaveLB, ObjectKept
<1> QED BY <1>1, <1>2, <1>3, <1>4, <1>5, <1>6 DEF ReconcileStep

\* The deferred patch adds the finalizer when an earlier patch failed, removes
\* it from an object that has nothing left, or leaves the lifecycle alone.
LEMMA CloseStep ==
    ASSUME TypeInv, FinalizerInv, DeletionInv, close
    PROVE  ObjectKept \/ Protected \/ Finished
<1>1. /\ TypeOK /\ mem \in AWSMachines /\ obj \in AWSMachines /\ base \in AWSMachines
      /\ pc = "close" /\ UNCHANGED inst
  BY DEF TypeInv, TypeOK, close
<1>2. Outcome(mem)
  BY <1>1, PatchOutcome DEF close
<1>3. base.finalizer /\ ~mem.finalizer => NoneLive /\ mem.deleting /\ obj.deleting
  BY <1>1 DEF FinalizerInv, MemInv, DeletionInv
<1>4. /\ base.finalizer \in BOOLEAN /\ mem.finalizer \in BOOLEAN /\ obj.exists \in BOOLEAN
      /\ obj.deleting \in BOOLEAN /\ obj.finalizer \in BOOLEAN
  BY <1>1 DEF AWSMachines
<1> QED BY <1>1, <1>2, <1>3, <1>4
        DEF Outcome, DeletionInv, ObjectKept, Protected, Finished

\* Every step but RunInstances keeps the object's lifecycle or is one of its
\* transitions.
LEMMA LifecycleStep ==
    ASSUME TypeInv, TypeInv', FinalizerInv, DeletionInv, [Next]_vars
    PROVE  ObjectKept \/ Protected \/ Finished \/ DeletionRequested
<1>1. CASE ReconcileStep
  BY <1>1, ReconcileSteps, CloseStep
<1>2. CASE DeleteAWSMachine
  BY <1>2 DEF DeleteAWSMachine, Collected, DeletionRequested, TypeInv, TypeOK, AWSMachines
<1>3. CASE UNCHANGED obj
  BY <1>3 DEF ObjectKept
<1> QED BY <1>1, <1>2, <1>3 DEF Next, vars, Reconcile, Crash, CacheSync, NodeJoins,
           DeleteMachine, InstanceProgress, InstanceDisturbed

\* Every step keeps DeletionInv, as long as no reconcile starts from an old cache.
LEMMA DeletionStep ==
    ASSUME "stale" \notin FaultKinds, TypeInv, TypeInv', FinalizerInv, DeletionInv, [Next]_vars
    PROVE  DeletionInv'
<1>1. (obj.exists /\ obj.deleting => obj.finalizer)'
  BY LifecycleStep DEF ObjectKept, Protected, Finished, DeletionRequested, DeletionInv
<1>2. obj.deleting => obj'.deleting
  BY LifecycleStep DEF ObjectKept, Protected, Finished, DeletionRequested
<1>3. CASE Reconcile
  BY <1>1, <1>3 DEF Reconcile, DeletionInv
<1>4. CASE ReconcileStep /\ ~close
  BY <1>1, <1>2, <1>4, ReconcileSteps DEF DeletionInv
<1>5. CASE close \/ Crash
  BY <1>1, <1>5 DEF close, Crash, DeletionInv
<1>6. CASE UNCHANGED <<pc, mem, base>>
  BY <1>1, <1>2, <1>6 DEF DeletionInv
<1> QED BY <1>3, <1>4, <1>5, <1>6 DEF Next, vars, CacheSync, NodeJoins, DeleteMachine,
           DeleteAWSMachine, InstanceProgress, InstanceDisturbed

\* Every step of AWSMachine is a step of the lifecycle, or leaves it alone.
LEMMA RefinementStep ==
    ASSUME ~CanStop, TypeInv, TypeInv', LaunchInv, FinalizerInv, DeletionInv, [Next]_vars
    PROVE  [Lifecycle!Next]_(Lifecycle!lifecycleVars)
<1> DEFINE object == IF Gone THEN "gone" ELSE IF obj.deleting THEN "deleting" ELSE "live"
           finalizer == obj.exists /\ obj.finalizer
           owned == {i \in Instances : Live(i)}
<1>0. /\ obj \in AWSMachines /\ inst \in [Instances -> InstanceStates]
      /\ obj.exists \in BOOLEAN /\ obj.finalizer \in BOOLEAN /\ obj.deleting \in BOOLEAN
  BY DEF TypeInv, TypeOK, AWSMachines
<1>1. UNCHANGED inst => UNCHANGED owned
  BY DEF Live
<1>2. ObjectKept => UNCHANGED <<object, finalizer>>
  BY DEF ObjectKept, Gone
<1>3. CASE runInstance
  <2>1. UNCHANGED <<object, finalizer>>
    BY <1>3 DEF runInstance, Gone
  <2>2. CASE UNCHANGED inst
    BY <1>1, <2>1, <2>2 DEF Lifecycle!lifecycleVars
  <2>3. ASSUME NEW i \in Instances, inst' = [inst EXCEPT ![i] = "pending"]
        PROVE  Lifecycle!Create(i)
    <3>1. NoneLive /\ finalizer
      BY <1>3 DEF runInstance, Launching, LaunchInv, FinalizerInv, MemInv
    <3>2. owned = {} /\ owned' = {i}
      BY <1>0, <2>3, <3>1 DEF NoneLive, Live, InstanceRunningStates
    <3> QED BY <2>1, <3>1, <3>2 DEF Lifecycle!Create
  <2> QED BY <1>3, <2>2, <2>3 DEF runInstance, Lifecycle!Next
<1>4. CASE ~runInstance /\ ObjectKept
  <2>1. owned' \subseteq owned
    BY <1>4, NoOtherLaunch
  <2>2. owned' = owned \ (owned \ owned')
    BY <2>1
  <2>3. Lifecycle!Release(owned \ owned')
    BY <1>2, <1>4, <2>2 DEF Lifecycle!Release
  <2> QED BY <2>3 DEF Lifecycle!Next
<1>5. CASE Protected
  BY <1>1, <1>5 DEF Protected, Gone, Lifecycle!Protect, Lifecycle!Next
<1>6. CASE Finished
  <2>1. owned = {}
    BY <1>6 DEF Finished, NoneLive
  <2> QED BY <1>1, <1>6, <2>1 DEF Finished, Gone, Lifecycle!Finish, Lifecycle!Next
<1>7. CASE DeletionRequested
  BY <1>0, <1>1, <1>7 DEF DeletionRequested, Gone, Lifecycle!RequestDeletion, Lifecycle!Next
<1> QED BY <1>3, <1>4, <1>5, <1>6, <1>7, LifecycleStep

\* While nobody stops instances and the cache is read up to date, the controller
\* with every fault, crash and retry it meets implements the abstract lifecycle:
\* an instance is launched only for an object that carries the finalizer and
\* beside no other live one, and the finalizer leaves when nothing lives.
THEOREM MachineImplementsLifecycle ==
    ~CanStop /\ "stale" \notin FaultKinds => (Spec => ImplementsLifecycle)
<1> SUFFICES ASSUME ~CanStop, "stale" \notin FaultKinds
             PROVE  Spec => Lifecycle!Spec
  BY DEF ImplementsLifecycle
<1>1. Init => FinalizerInv
  BY DEF Init, FinalizerInv, NoOrphanInstance, OnlyLive, Live, InstanceRunningStates
<1>2. /\ TypeInv /\ TypeInv' /\ LaunchInv /\ FinalizerInv /\ [Next]_vars
      => FinalizerInv'
  BY FinalizerStep
<1>3. Init => DeletionInv
  BY DEF Init, DeletionInv, NewAWSMachine
<1>4. /\ TypeInv /\ TypeInv' /\ FinalizerInv /\ DeletionInv /\ [Next]_vars
      => DeletionInv'
  BY DeletionStep
<1>5. Init => Lifecycle!Init
  BY DEF Init, Lifecycle!Init, NewAWSMachine, Gone, Live, InstanceRunningStates
<1>6. /\ TypeInv /\ TypeInv' /\ LaunchInv /\ FinalizerInv /\ DeletionInv /\ [Next]_vars
      => [Lifecycle!Next]_(Lifecycle!lifecycleVars)
  BY RefinementStep
<1> QED BY <1>1, <1>2, <1>3, <1>4, <1>5, <1>6, TypeInit, TypeStep, LaunchInit, LaunchStep, PTL
        DEF Spec, Lifecycle!Spec

-----------------------------------------------------------------------------
(* Addresses of the public IPv4 pool *)

\* An address gets the role of an instance only when no other address has it.
LEMMA AddressStep == TypeInv /\ OneAddress /\ [Next]_vars => OneAddress'
<1> SUFFICES ASSUME TypeInv, OneAddress, [Next]_vars PROVE OneAddress'
  OBVIOUS
<1>0. eips \in [Eips -> EipRecords]
  BY DEF TypeInv, TypeOK
<1>1. ASSUME \A e \in Eips : eips'[e].role \in {eips[e].role, None} PROVE OneAddress'
  BY <1>1 DEF OneAddress
<1>2. CASE reconcileElasticIP
  <2>1. CASE UNCHANGED eips
    BY <2>1, <1>1
  <2>2. ASSUME NEW e \in Eips, eips' = [eips EXCEPT ![e].role = loc.found],
               RoleEips(loc.found) = {}
        PROVE  OneAddress'
    <3>1. eips'[e].role = loc.found /\ \A f \in Eips \ {e} : eips'[f] = eips[f]
      BY <1>0, <2>2 DEF EipRecords
    <3>2. \A f \in Eips : eips[f].role # loc.found
      BY <2>2 DEF RoleEips
    <3> QED BY <3>1, <3>2 DEF OneAddress
  <2>3. RoleEips(None) \subseteq Eips
    BY DEF RoleEips
  <2> QED BY <1>2, <2>1, <2>2, <2>3 DEF reconcileElasticIP
<1>3. CASE associateAddress
  <2>1. \/ UNCHANGED eips
        \/ \E e \in Eips : eips' = [eips EXCEPT ![e].assoc = TRUE]
    BY <1>3 DEF associateAddress, RoleEips
  <2>2. \A e \in Eips : eips'[e].role = eips[e].role
    BY <1>0, <2>1 DEF EipRecords
  <2> QED BY <2>2, <1>1
<1>4. CASE releaseElasticIP
  BY <1>4, <1>1 DEF releaseElasticIP
<1>5. ASSUME NEW i \in Instances, InstanceProgress(i) PROVE OneAddress'
  <2>1. \A e \in Eips : eips'[e].role = eips[e].role
    BY <1>0, <1>5 DEF InstanceProgress, EipRecords
  <2> QED BY <2>1, <1>1
<1>6. CASE UNCHANGED eips
  BY <1>6, <1>1
<1> QED BY <1>2, <1>3, <1>4, <1>5, <1>6
        DEF Next, ReconcileStep, vars, Reconcile, deleteBootstrapData, findInstance,
            addFinalizer, markProvisionStarted, createSecretChunk, registerSecret,
            prepareInstance, runInstance, tagNetworkInterfaces, updateState, ensureTags,
            reconcileOperationalState, deregisterFromLB, registerWithLB, leaveLB,
            releaseDedicatedHost, terminateInstance, close, Crash, CacheSync, NodeJoins,
            DeleteMachine, DeleteAWSMachine, InstanceDisturbed

\* No instance ever has two addresses of the pool: an address that was allocated
\* and not associated, because a call failed or the process died, is found
\* again by its role (GetOrAllocateAddresses).
THEOREM OneAddressPerInstance == Spec => []OneAddress
<1>1. Init => OneAddress
  BY DEF Init, OneAddress
<1> QED BY <1>1, AddressStep, TypeInit, TypeStep, PTL DEF Spec

-----------------------------------------------------------------------------
(* Load balancers *)

\* The labels of a reconcile that has reached reconcileLBAttachment.
AtLBs == {"lb", "operational", "terminate", "releaseHost", "releaseEIP", "close", "idle"}

\* A deletion that met no error so far has left the load balancers it has
\* passed, and all of them when it is about to terminate the instance.
DrainInv ==
    /\ pc \notin AtLBs => loc.lb = 1
    /\ pc = "lb" /\ mem.deleting /\ ~loc.lberr =>
         \A k \in LBIndexes : k < loc.lb => loc.found \notin lbs[k]
    /\ pc = "terminate" => \A k \in LBIndexes : loc.found \notin lbs[k]

\* Either there is one load balancer or none of them is a classic one.  (The
\* loop over the load balancers ends at a classic one, with its error only.)
NoMixedLBs == Len(LoadBalancers) <= 1 \/ \A k \in LBIndexes : LoadBalancers[k] # "classic"

\* Deregistering from a load balancer, with or without an error, keeps DrainInv.
LEMMA DeregisterStep ==
    ASSUME NoMixedLBs, "denied" \notin FaultKinds, TypeInv, DrainInv, deregisterFromLB
    PROVE  DrainInv'
<1>0. /\ loc \in Locals /\ loc.lb \in 1 .. Len(LoadBalancers) /\ loc.lberr \in BOOLEAN
      /\ Len(LoadBalancers) \in Nat /\ lbs \in [LBIndexes -> SUBSET Instances]
      /\ pc = "lb" /\ pc' = "lb" /\ UNCHANGED mem
  BY Bounds DEF deregisterFromLB, LBIndexes, TypeInv, TypeOK, Locals
<1>1. SUFFICES ASSUME mem.deleting, ~loc'.lberr, NEW k \in LBIndexes, k < loc'.lb
               PROVE  loc'.found \notin lbs'[k]
  BY <1>0 DEF DrainInv, AtLBs
<1>2. loc'.found = loc.found
  BY <1>0 DEF deregisterFromLB, LBLeave, LBReturn, LBDone, Locals
<1>3. CASE LoadBalancers[loc.lb] = "classic"
  <2>1. Len(LoadBalancers) = 1 /\ loc.lb = 1 /\ k = 1
    BY <1>0, <1>3 DEF NoMixedLBs, LBIndexes
  <2>2. LBReturn(FALSE) => ~loc'.lberr
    BY <1>0 DEF LBReturn, Locals
  <2>3. LBReturn(TRUE) => loc'.lberr
    BY <1>0 DEF LBReturn, Locals
  <2>4. lbs' = [lbs EXCEPT ![loc.lb] = @ \ {loc.found}]
    BY <1>1, <1>3, <2>3 DEF deregisterFromLB, LBLeave, Fault
  <2> QED BY <1>0, <1>2, <2>1, <2>4
<1>4. CASE LoadBalancers[loc.lb] # "classic"
  <2>1. \A b \in BOOLEAN : LBDone(loc.lberr \/ b) =>
           loc'.lb = loc.lb + 1 /\ loc'.lberr = (loc.lberr \/ b)
    BY <1>0 DEF LBDone, Locals
  <2>2. /\ lbs' = [lbs EXCEPT ![loc.lb] = @ \ {loc.found}]
        /\ loc'.lb = loc.lb + 1 /\ ~loc.lberr
    BY <1>1, <1>4, <2>1 DEF deregisterFromLB, LBLeave, Fault
  <2>3. k < loc.lb => loc.found \notin lbs[k]
    BY <1>0, <1>1, <2>2 DEF DrainInv
  <2>4. k \in Nat /\ (k < loc.lb \/ k = loc.lb)
    BY <1>0, <1>1, <2>2 DEF LBIndexes
  <2> QED BY <1>0, <1>2, <2>2, <2>3, <2>4
<1> QED BY <1>3, <1>4

\* Every step keeps DrainInv.
LEMMA DrainStep ==
    ASSUME NoMixedLBs, "denied" \notin FaultKinds, TypeInv, DrainInv, [Next]_vars
    PROVE  DrainInv'
<1>0. loc \in Locals /\ mem \in AWSMachines /\ loc.lb \in 1 .. Len(LoadBalancers) + 1
      /\ Len(LoadBalancers) \in Nat
  BY Bounds DEF TypeInv, TypeOK, Locals
<1> USE DEF DrainInv, AtLBs
<1>1. CASE Reconcile
  BY <1>1 DEF Reconcile, NoLocals
<1>2. CASE deleteBootstrapData
  BY <1>0, <1>2 DEF deleteBootstrapData, AfterDeleteBootstrapData
<1>3. CASE findInstance
  <2>1. loc'.lb = loc.lb /\ pc = "find" /\ pc' \in {"lb", "finalizer", "close"}
    BY <1>0, <1>3 DEF findInstance, Found, Locals
  <2> QED BY <2>1 DEF LBIndexes
<1>4. CASE addFinalizer \/ tagNetworkInterfaces
  BY <1>4 DEF addFinalizer, AfterFinalizer, tagNetworkInterfaces, CreateFailed
<1>5. CASE markProvisionStarted \/ createSecretChunk \/ registerSecret \/ runInstance
  <2>1. loc'.lb = loc.lb /\ pc \notin AtLBs /\ pc' \notin {"lb", "terminate"}
    BY <1>0, <1>5 DEF markProvisionStarted, createSecretChunk, registerSecret, runInstance,
       CreateFailed, Locals
  <2> QED BY <2>1
<1>6. CASE prepareInstance
  BY <1>6 DEF prepareInstance, CreateFailed
<1>7. CASE reconcileElasticIP \/ associateAddress \/ updateState
  BY <1>7 DEF reconcileElasticIP, associateAddress, updateState
<1>8. CASE ensureTags
  BY <1>0, <1>8 DEF ensureTags, LBIndexes
<1>9. CASE reconcileOperationalState \/ releaseDedicatedHost \/ terminateInstance
           \/ releaseElasticIP \/ close \/ Crash
  BY <1>9 DEF reconcileOperationalState, releaseDedicatedHost, terminateInstance,
     releaseElasticIP, close, Crash
<1>10. CASE deregisterFromLB
  BY <1>10, DeregisterStep
<1>11. CASE registerWithLB
  BY <1>11 DEF registerWithLB, MustDeregister
<1>12. CASE leaveLB
  <2>1. \A k \in LBIndexes : k < loc.lb
    BY <1>0, <1>12 DEF leaveLB, LBIndexes
  <2> QED BY <1>12, <2>1 DEF leaveLB
<1>13. CASE UNCHANGED <<pc, mem, loc, lbs>>
  BY <1>13
<1> QED BY <1>1, <1>2, <1>3, <1>4, <1>5, <1>6, <1>7, <1>8, <1>9, <1>10, <1>11, <1>12, <1>13
        DEF Next, ReconcileStep, vars, CacheSync, NodeJoins, DeleteMachine, DeleteAWSMachine,
            InstanceProgress, InstanceDisturbed

\* However the calls fail, TerminateInstances is only reached when the instance
\* has left every load balancer, for any number of network load balancers or a
\* single classic one; an AccessDenied, which reconcileDelete tolerates, apart.
THEOREM Drained ==
    NoMixedLBs /\ "denied" \notin FaultKinds => (Spec => DrainedBeforeTermination)
<1> SUFFICES ASSUME NoMixedLBs, "denied" \notin FaultKinds
             PROVE  Spec => DrainedBeforeTermination
  OBVIOUS
<1>1. Init => DrainInv
  BY DEF Init, DrainInv, AtLBs
<1>2. TypeInv /\ DrainInv /\ [Next]_vars => DrainInv'
  BY DrainStep
<1>3. DrainInv /\ [Next]_vars =>
        [(pc = "terminate" /\ inst' # inst) => \A k \in LBIndexes : loc.found \notin lbs[k]]_vars
  BY DEF DrainInv
<1> QED BY <1>1, <1>2, <1>3, TypeInit, TypeStep, PTL DEF Spec, DrainedBeforeTermination

-----------------------------------------------------------------------------
(* What a patch stores of the other fields *)

\* The metadata and spec call (s) and the status call (t) store what the reconcile
\* has changed.
PatchedBy(m, s, t) ==
    LET written(new, old, cur, done) == IF done /\ new # old THEN new ELSE cur
    IN  /\ obj.exists
        /\ obj'.prefix = written(m.prefix, base.prefix, obj.prefix, s)
        /\ obj'.count = written(m.count, base.count, obj.count, s)
        /\ obj'.failed = written(m.failed, base.failed, obj.failed, t)
        /\ obj'.host = written(m.host, base.host, obj.host, t)

\* A patch that succeeds stores both parts, one that fails any of them or none;
\* without failing calls it only fails when the object is gone.
LEMMA PatchedData ==
    ASSUME TypeOK, NEW m \in AWSMachines
    PROVE  /\ PatchSucceeds(m) => PatchedBy(m, TRUE, TRUE)
           /\ obj.exists /\ obj' = Patched(m, TRUE, TRUE) => PatchedBy(m, TRUE, TRUE)
           /\ PatchFails(m) =>
                (~obj.exists /\ UNCHANGED obj) \/ \E s, t \in BOOLEAN : PatchedBy(m, s, t)
           /\ PatchFails(m) /\ "patch" \notin FaultKinds => ~obj.exists /\ UNCHANGED obj
<1>1. ASSUME NEW s \in BOOLEAN, NEW t \in BOOLEAN, obj.exists, obj' = Patched(m, s, t)
      PROVE  PatchedBy(m, s, t)
  BY <1>1 DEF PatchedBy, Patched, Collected, TypeOK, AWSMachines
<1>2. TRUE \in BOOLEAN
  OBVIOUS
<1>3. PatchSucceeds(m) => PatchedBy(m, TRUE, TRUE)
  BY <1>1, <1>2 DEF PatchSucceeds
<1>4. obj.exists /\ obj' = Patched(m, TRUE, TRUE) => PatchedBy(m, TRUE, TRUE)
  BY <1>1, <1>2
<1>5. PatchFails(m) =>
        (~obj.exists /\ UNCHANGED obj) \/ \E s, t \in BOOLEAN : PatchedBy(m, s, t)
  BY <1>1 DEF PatchFails
<1>6. PatchFails(m) /\ "patch" \notin FaultKinds => ~obj.exists /\ UNCHANGED obj
  BY DEF PatchFails, Fault
<1> QED BY <1>3, <1>4, <1>5, <1>6

\* The AWSMachine that a step of the reconcile patches, if it does: it differs from
\* the one in memory at most in the recorded secrets and the condition.
LEMMA StepPatches ==
    ASSUME TypeInv, ReconcileStep
    PROVE  \/ UNCHANGED obj
           \/ \E m \in AWSMachines, s, t \in BOOLEAN :
                /\ PatchedBy(m, s, t)
                /\ m.host = mem.host /\ m.failed = mem.failed
                /\ IF registerSecret THEN m = RecordedSecrets
                   ELSE m.prefix = mem.prefix /\ m.count = mem.count
<1>0. TypeOK /\ mem \in AWSMachines /\ loc \in Locals /\ TRUE \in BOOLEAN
  BY DEF TypeInv, TypeOK
<1>1. ASSUME NEW m \in AWSMachines,
             \/ PatchSucceeds(m) \/ PatchFails(m)
             \/ (obj.exists /\ obj' = Patched(m, TRUE, TRUE)) \/ UNCHANGED obj
      PROVE  UNCHANGED obj \/ \E s, t \in BOOLEAN : PatchedBy(m, s, t)
  BY <1>0, <1>1, PatchedData
<1>2. CASE addFinalizer
  <2> DEFINE m == [mem EXCEPT !.finalizer = TRUE]
  <2>1. /\ m \in AWSMachines /\ m.host = mem.host /\ m.failed = mem.failed
        /\ m.prefix = mem.prefix /\ m.count = mem.count
    BY <1>0 DEF AWSMachines
  <2>2. PatchSucceeds(m) \/ PatchFails(m) \/ UNCHANGED obj
    BY <1>2 DEF addFinalizer
  <2>3. ~registerSecret
    BY <1>2 DEF addFinalizer, registerSecret
  <2> HIDE DEF m
  <2> QED BY <1>1, <2>1, <2>2, <2>3
<1>3. CASE markProvisionStarted \/ releaseDedicatedHost \/ close
  <2>1. \/ PatchSucceeds(mem) \/ PatchFails(mem)
        \/ (obj.exists /\ obj' = Patched(mem, TRUE, TRUE)) \/ UNCHANGED obj
    BY <1>3 DEF markProvisionStarted, releaseDedicatedHost, close
  <2>2. ~registerSecret
    BY <1>3 DEF markProvisionStarted, releaseDedicatedHost, close, registerSecret
  <2> QED BY <1>0, <1>1, <2>1, <2>2
<1>4. CASE registerSecret
  <2> DEFINE m == RecordedSecrets
  <2>1. m \in AWSMachines /\ m.host = mem.host /\ m.failed = mem.failed
    BY <1>0 DEF RecordedSecrets, Locals, AWSMachines
  <2>2. PatchSucceeds(m) \/ PatchFails(m)
    BY <1>4 DEF registerSecret
  <2> HIDE DEF m
  <2>3. UNCHANGED obj \/ \E s, t \in BOOLEAN : PatchedBy(m, s, t)
    BY <1>1, <2>1, <2>2
  <2> QED BY <1>4, <2>1, <2>3 DEF m
<1>5. CASE terminateInstance
  <2> DEFINE m == [mem EXCEPT !.provFailed = FALSE]
  <2>1. /\ m \in AWSMachines /\ m.host = mem.host /\ m.failed = mem.failed
        /\ m.prefix = mem.prefix /\ m.count = mem.count
    BY <1>0 DEF AWSMachines
  <2>2. \/ PatchSucceeds(m) \/ PatchFails(m)
        \/ (obj.exists /\ obj' = Patched(m, TRUE, TRUE)) \/ UNCHANGED obj
    BY <1>5 DEF terminateInstance
  <2>3. ~registerSecret
    BY <1>5 DEF terminateInstance, registerSecret
  <2> HIDE DEF m
  <2> QED BY <1>1, <2>1, <2>2, <2>3
<1>6. CASE UNCHANGED obj
  BY <1>6
<1> QED BY <1>2, <1>3, <1>4, <1>5, <1>6
        DEF ReconcileStep, deleteBootstrapData, findInstance, createSecretChunk,
            prepareInstance, runInstance, tagNetworkInterfaces, reconcileElasticIP,
            associateAddress, updateState, ensureTags, reconcileOperationalState,
            deregisterFromLB, registerWithLB, leaveLB, releaseElasticIP

-----------------------------------------------------------------------------
(* Dedicated hosts *)

\* A host that is allocated and not lost is the one recorded in the status; during
\* a reconcile, the one in its copy of the object.
HostInv ==
    /\ pc = "idle" => \A h \in AllocatedHosts \ lostHosts : h = obj.host
    /\ pc # "idle" => \A h \in AllocatedHosts \ lostHosts : h = mem.host

\* A step before the deferred patch other than the allocation itself keeps the host
\* in memory, allocates none and loses none.
LEMMA HostFields ==
    ASSUME TypeInv, ReconcileStep, ~close, ~prepareInstance
    PROVE  /\ mem'.host = mem.host /\ UNCHANGED lostHosts
           /\ AllocatedHosts' \subseteq AllocatedHosts
           /\ pc # "idle" /\ pc' # "idle"
<1>0. mem \in AWSMachines /\ hosts \in [Hosts -> HostStates]
  BY DEF TypeInv, TypeOK
<1>1. pc # "idle" /\ pc' # "idle" /\ UNCHANGED lostHosts
  BY DEF ReconcileStep, deleteBootstrapData, AfterDeleteBootstrapData, findInstance,
     Found, addFinalizer, AfterFinalizer, markProvisionStarted, createSecretChunk,
     registerSecret, CreateFailed, runInstance, tagNetworkInterfaces, reconcileElasticIP,
     associateAddress, updateState, ensureTags, reconcileOperationalState, deregisterFromLB,
     registerWithLB, leaveLB, releaseDedicatedHost, terminateInstance, releaseElasticIP
<1>2. AllocatedHosts' \subseteq AllocatedHosts
  <2>1. CASE releaseDedicatedHost
    BY <1>0, <2>1 DEF releaseDedicatedHost, AllocatedHosts
  <2>2. CASE UNCHANGED hosts
    BY <2>2 DEF AllocatedHosts
  <2> QED BY <2>1, <2>2 DEF ReconcileStep, deleteBootstrapData, findInstance,
            addFinalizer, markProvisionStarted, createSecretChunk, registerSecret,
            runInstance, tagNetworkInterfaces, reconcileElasticIP, associateAddress,
            updateState, ensureTags, reconcileOperationalState, deregisterFromLB,
            registerWithLB, leaveLB, terminateInstance, releaseElasticIP
<1>3. mem'.host = mem.host
  <2>1. CASE deleteBootstrapData
    BY <1>0, <2>1 DEF deleteBootstrapData, AfterDeleteBootstrapData, AWSMachines
  <2>2. CASE findInstance \/ addFinalizer
    BY <1>0, <2>2 DEF findInstance, Found, addFinalizer, AWSMachines
  <2>3. CASE registerSecret
    BY <1>0, <2>3 DEF registerSecret, CreateFailed, RecordedSecrets, AWSMachines
  <2>4. CASE runInstance \/ tagNetworkInterfaces \/ updateState
    BY <1>0, <2>4 DEF runInstance, tagNetworkInterfaces, CreateFailed, updateState, AWSMachines
  <2>5. CASE releaseDedicatedHost \/ terminateInstance
    BY <1>0, <2>5 DEF releaseDedicatedHost, terminateInstance, AWSMachines
  <2>6. CASE UNCHANGED mem
    BY <2>6
  <2> QED BY <2>1, <2>2, <2>3, <2>4, <2>5, <2>6
          DEF ReconcileStep, markProvisionStarted, createSecretChunk, reconcileElasticIP,
              associateAddress, ensureTags, reconcileOperationalState, deregisterFromLB,
              registerWithLB, leaveLB, releaseElasticIP
<1> QED BY <1>1, <1>2, <1>3

\* A reconcile that is about to launch works on an object it did not see deleted.
LEMMA LaunchingLive ==
    ASSUME TypeInv, TypeInv', FinalizerInv, DeletionInv, Launching => ~mem.deleting, [Next]_vars
    PROVE  (Launching => ~mem.deleting)'
<1> SUFFICES ASSUME Launching' PROVE ~mem'.deleting
  OBVIOUS
<1>0. Launching => pc # "idle"
  BY DEF Launching
<1>1. CASE Launching
  <2>1. CASE ReconcileStep /\ ~close
    BY <1>1, <2>1, ReconcileSteps
  <2>2. CASE Reconcile \/ close \/ Crash
    BY <1>0, <1>1, <2>2 DEF Reconcile, close, Crash, Launching
  <2>3. CASE UNCHANGED mem
    BY <1>1, <2>3
  <2> QED BY <2>1, <2>2, <2>3 DEF Next, vars, CacheSync, NodeJoins, DeleteMachine,
             DeleteAWSMachine, InstanceProgress, InstanceDisturbed
<1>2. CASE ~Launching
  <2>1. findInstance /\ mem.pid = None /\ ByTags = {}
    BY <1>2, LaunchingStarts
  <2> QED BY <2>1 DEF findInstance, NothingToDelete, Launching
<1> QED BY <1>1, <1>2

\* Every step keeps HostInv: what a reconcile has allocated it carries until it
\* ends, and then the host is recorded or counted among the lost ones.
LEMMA HostStep ==
    ASSUME "stale" \notin FaultKinds, TypeInv, HostInv, [Next]_vars
    PROVE  HostInv'
<1>0. /\ TypeOK /\ mem \in AWSMachines /\ obj \in AWSMachines /\ hosts \in [Hosts -> HostStates]
      /\ None \notin Hosts
  BY ConstantsAssumption DEF TypeInv, TypeOK
<1>1. CASE Reconcile
  <2>1. pc = "idle" /\ pc' # "idle" /\ mem' = obj /\ UNCHANGED <<hosts, lostHosts>>
    BY <1>1 DEF Reconcile
  <2> QED BY <2>1 DEF HostInv, AllocatedHosts
<1>2. CASE ReconcileStep /\ ~close /\ ~prepareInstance
  BY <1>2, HostFields DEF HostInv
<1>3. CASE prepareInstance
  <2>1. pc = "create" /\ pc' \in {"launch", "close"}
    BY <1>3 DEF prepareInstance, CreateFailed
  <2>2. \A b : CreateFailed([mem EXCEPT !.failed = b]) => mem'.host = mem.host
    BY <1>0 DEF CreateFailed, AWSMachines
  <2>3. CreateFailed(mem) => mem'.host = mem.host
    BY <1>0 DEF CreateFailed, AWSMachines
  <2>4. CASE mem'.host = mem.host /\ UNCHANGED <<hosts, lostHosts>>
    BY <2>1, <2>4 DEF HostInv, AllocatedHosts
  <2>5. ASSUME NEW h \in Hosts, mem.host = None, hosts' = [hosts EXCEPT ![h] = "allocated"],
               mem' = [mem EXCEPT !.host = h], UNCHANGED lostHosts
        PROVE  HostInv'
    <3>1. mem'.host = h /\ AllocatedHosts \ lostHosts = {}
      BY <1>0, <2>1, <2>5 DEF HostInv, AllocatedHosts, AWSMachines
    <3>2. AllocatedHosts' \subseteq AllocatedHosts \cup {h}
      BY <1>0, <2>5 DEF AllocatedHosts
    <3> QED BY <2>1, <2>5, <3>1, <3>2 DEF HostInv
  <2>6. ASSUME NEW h \in Hosts, hosts' = [hosts EXCEPT ![h] = "allocated"],
               mem'.host = mem.host, lostHosts' = lostHosts \cup {h}
        PROVE  HostInv'
    <3>1. AllocatedHosts' \subseteq AllocatedHosts \cup {h}
      BY <1>0, <2>6 DEF AllocatedHosts
    <3> QED BY <2>1, <2>6, <3>1 DEF HostInv
  <2> QED BY <1>3, <2>2, <2>3, <2>4, <2>5, <2>6 DEF prepareInstance, Allocate
<1>4. CASE close \/ Crash
  <2>1. /\ pc # "idle" /\ pc' = "idle" /\ UNCHANGED hosts
        /\ lostHosts' = lostHosts \cup ({mem.host} \ {None, obj'.host})
    BY <1>4 DEF close, Crash, ForgetHost
  <2>2. \A h \in AllocatedHosts' \ lostHosts' : h = mem.host /\ h # None
    BY <1>0, <2>1 DEF HostInv, AllocatedHosts
  <2> QED BY <2>1, <2>2 DEF HostInv
<1>5. CASE UNCHANGED <<pc, mem, hosts, lostHosts>> /\ obj'.host = obj.host
  BY <1>5 DEF HostInv, AllocatedHosts
<1>6. DeleteAWSMachine => obj'.host = obj.host
  BY <1>0 DEF DeleteAWSMachine, Collected, AWSMachines
<1> QED BY <1>1, <1>2, <1>3, <1>4, <1>5, <1>6
        DEF Next, vars, CacheSync, NodeJoins, DeleteMachine, DeleteAWSMachine,
            InstanceProgress, InstanceDisturbed

\* With a cache that is up to date, a machine never holds two dedicated hosts whose
\* ids were not lost, whichever AWS calls and patches fail, answers are lost and
\* processes die: a retry reuses the host of the failed attempt.
THEOREM OneDedicatedHost == "stale" \notin FaultKinds => (Spec => []OneHost)
<1> SUFFICES ASSUME "stale" \notin FaultKinds PROVE Spec => []OneHost
  OBVIOUS
<1>1. Init => HostInv
  BY DEF Init, HostInv, AllocatedHosts
<1>2. TypeInv /\ HostInv /\ [Next]_vars => HostInv'
  BY HostStep
<1>3. HostInv => OneHost
  BY DEF HostInv, OneHost
<1> QED BY <1>1, <1>2, <1>3, TypeInit, TypeStep, PTL DEF Spec

-----------------------------------------------------------------------------
(* Bootstrap data in the secret store *)

Stored(p, x) == secrets[p][x] # 0

\* The entry is stored, and secret service Create was told so.
Answered(p, x) == secrets[p][x] # 0 /\ <<p, x>> \notin lostEntries
NothingAnswered == \A p \in Prefixes, x \in Indexes : ~Answered(p, x)
Creating == pc \in {"secret", "register"}

\* Prefix and count are recorded together; with one chunk the count is one.
Paired(o) == o.count = IF o.prefix = None THEN 0 ELSE 1

\* A reconcile replaces no recorded prefix by another one, and the prefix it has
\* read and kept is the stored one.
PrefixInv ==
    /\ Paired(obj)
    /\ pc # "idle" =>
         /\ Paired(mem) /\ Paired(base)
         /\ mem.prefix # None /\ base.prefix # None => mem.prefix = base.prefix
         /\ mem.prefix # None /\ mem.prefix = base.prefix => obj.prefix = base.prefix
    /\ Launching \/ (pc = "find" /\ ~mem.deleting) =>
         (base.prefix # None => mem.prefix = base.prefix)
    /\ Creating => /\ SecretBackend # "none" /\ loc.pfx \in Prefixes
                   /\ mem.prefix # None => loc.pfx = mem.prefix

\* Entries whose creation was answered are only under the prefix that is recorded, or about to be,
\* of an object with the finalizer; a deletion goes on only without entries.
EntriesInv ==
    /\ SecretBackend = "none" => NothingAnswered
    /\ NothingAnswered \/ (obj.exists /\ obj.finalizer)
    /\ pc = "idle" => \A p \in Prefixes, x \in Indexes : Answered(p, x) => p = obj.prefix
    /\ pc # "idle" =>
         /\ \A p \in Prefixes, x \in Indexes : Answered(p, x) =>
              p = mem.prefix \/ (Creating /\ p = loc.pfx /\ loc.written > 0)
         /\ base.finalizer /\ ~mem.finalizer => NothingAnswered
         /\ mem.deleting /\ pc \notin {"delBoot", "close"} => NothingAnswered
    /\ Launching => ~mem.deleting

\* What a patch of a well-paired AWSMachine stores is well paired.
LEMMA PairedPatch ==
    ASSUME NEW m, NEW s \in BOOLEAN, NEW t \in BOOLEAN, PatchedBy(m, s, t),
           Paired(m), Paired(base), Paired(obj),
           m.prefix # None /\ base.prefix # None => m.prefix = base.prefix
    PROVE  /\ Paired(obj')
           /\ m.prefix = base.prefix => obj'.prefix = obj.prefix
BY DEF PatchedBy, Paired

\* The steps that leave the bootstrap data alone.
LEMMA SecretFields ==
    ASSUME TypeInv, ReconcileStep, ~close, ~deleteBootstrapData, ~createSecretChunk,
           ~registerSecret
    PROVE  /\ mem'.prefix = mem.prefix /\ mem'.count = mem.count
           /\ UNCHANGED <<secrets, lostEntries>>
           /\ ~Creating /\ pc \notin {"idle", "delBoot", "close"} /\ pc' \notin {"idle", "find"}
           /\ Creating' => /\ SecretBackend # "none" /\ loc'.pfx \in Prefixes
                           /\ mem.prefix # None => loc'.pfx = mem.prefix
<1>0. mem \in AWSMachines /\ loc \in Locals
  BY DEF TypeInv, TypeOK
<1>1. CASE findInstance
  BY <1>0, <1>1 DEF findInstance, Found, Creating, AWSMachines
<1>2. CASE addFinalizer
  BY <1>0, <1>2 DEF addFinalizer, AfterFinalizer, Creating, AWSMachines
<1>3. CASE markProvisionStarted
  <2>1. /\ UNCHANGED <<mem, secrets, lostEntries>> /\ pc = "provision"
        /\ pc' \in {"secret", "create", "close"}
    BY <1>3 DEF markProvisionStarted
  <2>2. ASSUME pc' = "secret"
        PROVE  /\ SecretBackend # "none"
               /\ \E p \in SecretPrefixes : loc' = [loc EXCEPT !.pfx = p]
    BY <1>3, <2>2 DEF markProvisionStarted
  <2>3. \A p : p \in SecretPrefixes => p \in Prefixes /\ (mem.prefix # None => p = mem.prefix)
    BY <1>0 DEF SecretPrefixes, AWSMachines
  <2>4. \A p : loc' = [loc EXCEPT !.pfx = p] => loc'.pfx = p
    BY <1>0 DEF Locals
  <2> QED BY <2>1, <2>2, <2>3, <2>4 DEF Creating
<1>4. CASE prepareInstance \/ runInstance \/ tagNetworkInterfaces
  BY <1>0, <1>4 DEF prepareInstance, runInstance, tagNetworkInterfaces, CreateFailed,
     Creating, AWSMachines
<1>5. CASE updateState \/ releaseDedicatedHost \/ terminateInstance
  BY <1>0, <1>5 DEF updateState, releaseDedicatedHost, terminateInstance, Creating, AWSMachines
<1>6. CASE \/ reconcileElasticIP \/ associateAddress \/ ensureTags
           \/ reconcileOperationalState \/ releaseElasticIP
           \/ deregisterFromLB \/ registerWithLB
  BY <1>6 DEF reconcileElasticIP, associateAddress, ensureTags,
     reconcileOperationalState, releaseElasticIP, deregisterFromLB, registerWithLB, Creating
<1>7. CASE leaveLB
  BY <1>7 DEF leaveLB, Creating
<1> QED BY <1>1, <1>2, <1>3, <1>4, <1>5, <1>6, <1>7 DEF ReconcileStep

\* The recorded secrets of a failed or successful Create.
LEMMA RegisterFields ==
    ASSUME TypeInv, registerSecret
    PROVE  /\ mem'.prefix = RecordedSecrets.prefix /\ mem'.count = RecordedSecrets.count
           /\ IF loc.written > 0 THEN mem'.prefix = loc.pfx /\ mem'.count = loc.written
              ELSE mem'.prefix = mem.prefix /\ mem'.count = mem.count
           /\ pc = "register" /\ pc' \in {"create", "close"}
           /\ UNCHANGED <<secrets, lostEntries>>
<1>0. mem \in AWSMachines /\ loc \in Locals
  BY DEF TypeInv, TypeOK
<1>1. RecordedSecrets \in AWSMachines
  BY <1>0 DEF RecordedSecrets, Locals, AWSMachines
<1>2. mem' = RecordedSecrets \/ mem' = [RecordedSecrets EXCEPT !.provFailed = TRUE]
  BY DEF registerSecret, CreateFailed
<1>3. mem'.prefix = RecordedSecrets.prefix /\ mem'.count = RecordedSecrets.count
  BY <1>1, <1>2 DEF AWSMachines
<1>4. IF loc.written > 0
      THEN RecordedSecrets.prefix = loc.pfx /\ RecordedSecrets.count = loc.written
      ELSE RecordedSecrets = mem
  BY <1>0 DEF RecordedSecrets, AWSMachines
<1> QED BY <1>3, <1>4 DEF registerSecret, CreateFailed

\* deleteBootstrapData keeps prefix and count, or clears them when it has deleted
\* every entry.
LEMMA DeleteBootstrapFields ==
    ASSUME TypeInv, deleteBootstrapData
    PROVE  /\ pc = "delBoot" /\ pc' \in {"find", "tags", "close"} 
           /\ UNCHANGED <<obj, lostEntries>>
           /\ mem'.deleting = mem.deleting /\ (pc' = "find" => mem.deleting)
           /\ \/ /\ mem'.prefix = mem.prefix /\ mem'.count = mem.count
                 /\ pc' # "close" => KeepBootstrapData /\ UNCHANGED secrets
              \/ /\ mem'.prefix = None /\ mem'.count = 0 /\ mem.count > 0
                 /\ secrets' = WithoutEntries(0 .. mem.count - 1)
                 /\ ~KeepBootstrapData
           /\ \A p \in Prefixes, x \in Indexes : secrets'[p][x] \in {secrets[p][x], 0}
<1>0. /\ mem \in AWSMachines /\ loc \in Locals
      /\ secrets \in [Prefixes -> [Indexes -> 0 .. NChunks]]
  BY DEF TypeInv, TypeOK
<1>1. ASSUME NEW m \in AWSMachines, AfterDeleteBootstrapData(m)
      PROVE  /\ mem'.prefix = m.prefix /\ mem'.count = m.count /\ mem'.deleting = m.deleting
             /\ pc' = "find" => m.deleting
             /\ pc' \in {"find", "tags", "close"}
  BY <1>1 DEF AfterDeleteBootstrapData, AWSMachines
<1>2. ASSUME NEW S PROVE \A p \in Prefixes, x \in Indexes :
                           WithoutEntries(S)[p][x] \in {secrets[p][x], 0}
  BY <1>0 DEF WithoutEntries
<1>3. CASE KeepBootstrapData /\ AfterDeleteBootstrapData(mem) /\ UNCHANGED secrets
  BY <1>0, <1>1, <1>3 DEF deleteBootstrapData
<1>4. CASE /\ ~KeepBootstrapData /\ mem.count > 0
           /\ secrets' = WithoutEntries(0 .. mem.count - 1)
           /\ AfterDeleteBootstrapData([mem EXCEPT !.prefix = None, !.count = 0])
  <2> DEFINE m == [mem EXCEPT !.prefix = None, !.count = 0]
  <2>0. 0 \in 0 .. NChunks
    BY Bounds
  <2>1. m \in AWSMachines /\ m.prefix = None /\ m.count = 0 /\ m.deleting = mem.deleting
    BY <1>0, <2>0 DEF AWSMachines
  <2>2. AfterDeleteBootstrapData(m)
    BY <1>4
  <2> HIDE DEF m
  <2>3. /\ mem'.prefix = None /\ mem'.count = 0 /\ mem'.deleting = mem.deleting
        /\ pc' = "find" => mem.deleting
        /\ pc' \in {"find", "tags", "close"}
    BY <1>1, <2>1, <2>2
  <2> QED BY <1>2, <1>4, <2>3 DEF deleteBootstrapData
<1>5. CASE /\ Goto("close") /\ UNCHANGED mem
           /\ UNCHANGED secrets \/ \E S : secrets' = WithoutEntries(S)
  BY <1>2, <1>5 DEF deleteBootstrapData
<1> QED BY <1>3, <1>4, <1>5 DEF deleteBootstrapData

\* The patches of a reconcile keep the stored object well paired.
LEMMA PairedStep ==
    ASSUME NChunks = 1, TypeInv, PrefixInv, ReconcileStep
    PROVE  /\ Paired(obj')
           /\ mem.prefix # None /\ mem.prefix = base.prefix => obj'.prefix = base.prefix
           /\ registerSecret => Paired(RecordedSecrets)
<1>0. /\ pc # "idle" /\ mem \in AWSMachines /\ loc \in Locals /\ None \notin Prefixes
      /\ loc.written \in 0 .. 1
  BY ConstantsAssumption DEF ReconcileStep, deleteBootstrapData, findInstance, addFinalizer,
     markProvisionStarted, createSecretChunk, registerSecret, prepareInstance, runInstance,
     tagNetworkInterfaces, reconcileElasticIP, associateAddress, updateState, ensureTags,
     reconcileOperationalState, deregisterFromLB, registerWithLB, leaveLB,
     releaseDedicatedHost, terminateInstance, releaseElasticIP, close, TypeInv, TypeOK, Locals
<1>1. /\ Paired(obj) /\ Paired(mem) /\ Paired(base)
      /\ mem.prefix # None /\ base.prefix # None => mem.prefix = base.prefix
      /\ mem.prefix # None /\ mem.prefix = base.prefix => obj.prefix = base.prefix
  BY <1>0 DEF PrefixInv
<1>2. ASSUME registerSecret
      PROVE  /\ Paired(RecordedSecrets)
             /\ mem.prefix # None => RecordedSecrets.prefix = mem.prefix
             /\ base.prefix # None => mem.prefix = base.prefix
  <2>1. Creating /\ Launching
    BY <1>2 DEF registerSecret, Creating, Launching
  <2>2. CASE loc.written > 0
    <3>1. RecordedSecrets.prefix = loc.pfx /\ RecordedSecrets.count = 1
      BY <1>0, <2>2 DEF RecordedSecrets, AWSMachines
    <3> QED BY <1>0, <2>1, <3>1 DEF PrefixInv, Paired
  <2>3. CASE ~(loc.written > 0)
    BY <1>1, <2>1, <2>3 DEF RecordedSecrets, PrefixInv
  <2> QED BY <2>2, <2>3
<1>3. CASE UNCHANGED obj
  BY <1>1, <1>2, <1>3 DEF Paired
<1>4. ASSUME NEW m \in AWSMachines, NEW s \in BOOLEAN, NEW t \in BOOLEAN, PatchedBy(m, s, t),
             IF registerSecret THEN m = RecordedSecrets
             ELSE m.prefix = mem.prefix /\ m.count = mem.count
      PROVE  /\ Paired(obj')
             /\ mem.prefix # None /\ mem.prefix = base.prefix => obj'.prefix = base.prefix
  <2>1. /\ Paired(m)
        /\ m.prefix # None /\ base.prefix # None => m.prefix = base.prefix
        /\ mem.prefix # None => m.prefix = mem.prefix
    BY <1>1, <1>2, <1>4 DEF Paired
  <2> QED BY <1>1, <1>4, <2>1, PairedPatch
<1> QED BY <1>2, <1>3, <1>4, StepPatches

\* Every step keeps PrefixInv.
LEMMA PrefixStep ==
    ASSUME "stale" \notin FaultKinds, NChunks = 1,
           TypeInv, TypeInv', FinalizerInv, DeletionInv, PrefixInv, [Next]_vars
    PROVE  PrefixInv'
<1>0. /\ mem \in AWSMachines /\ loc \in Locals /\ mem.count \in 0 .. 1 /\ loc.written \in 0 .. 1
      /\ None \notin Prefixes
  BY ConstantsAssumption DEF TypeInv, TypeOK, Locals, AWSMachines
<1>1. CASE Reconcile
  BY <1>1 DEF Reconcile, PrefixInv, Launching, Creating, Paired
<1>2. CASE ReconcileStep /\ ~close
  <2>1. /\ pc # "idle" /\ mem'.deleting = mem.deleting /\ UNCHANGED base
    BY <1>2, ReconcileSteps
  <2>2. /\ Paired(obj')
        /\ mem.prefix # None /\ mem.prefix = base.prefix => obj'.prefix = base.prefix
        /\ registerSecret => Paired(RecordedSecrets)
    BY <1>2, PairedStep
  <2>3. /\ Paired(mem) /\ Paired(base)
        /\ mem.prefix # None /\ base.prefix # None => mem.prefix = base.prefix
    BY <2>1 DEF PrefixInv
  <2>4. (Launching \/ (pc = "find" /\ ~mem.deleting))'
          => Launching \/ (pc = "find" /\ ~mem.deleting /\ findInstance) \/ pc' = "find"
    BY LaunchingStarts DEF findInstance, NothingToDelete, Launching
  <2>5. CASE deleteBootstrapData
    <3>1. /\ pc' \in {"find", "tags", "close"} /\ (pc' = "find" => mem.deleting)
          /\ \/ mem'.prefix = mem.prefix /\ mem'.count = mem.count
             \/ mem'.prefix = None /\ mem'.count = 0
      BY <2>5, DeleteBootstrapFields
    <3>2. Paired(mem')
      BY <2>3, <3>1 DEF Paired
    <3> QED BY <2>1, <2>2, <2>3, <3>1, <3>2 DEF PrefixInv, Launching, Creating, Paired
  <2>6. CASE registerSecret
    <3>1. /\ mem'.prefix = RecordedSecrets.prefix /\ mem'.count = RecordedSecrets.count
          /\ mem'.prefix \in {loc.pfx, mem.prefix}
          /\ Launching /\ Creating /\ pc' \in {"create", "close"}
      BY <2>6, RegisterFields DEF Launching, Creating
    <3>2. /\ base.prefix # None => mem.prefix = base.prefix
          /\ mem.prefix # None => mem'.prefix = mem.prefix
          /\ Paired(mem')
      BY <2>2, <2>6, <3>1 DEF PrefixInv, Paired
    <3> QED BY <2>1, <2>2, <2>3, <3>1, <3>2 DEF PrefixInv, Launching, Creating, Paired
  <2>7. CASE createSecretChunk
    <3>1. /\ UNCHANGED mem /\ loc'.pfx = loc.pfx /\ pc = "secret" /\ pc' \in {"secret", "register"}
      BY <1>0, <2>7 DEF createSecretChunk, Locals
    <3> QED BY <2>1, <2>2, <2>3, <3>1 DEF PrefixInv, Launching, Creating, Paired
  <2>8. CASE ~deleteBootstrapData /\ ~registerSecret /\ ~createSecretChunk
    <3>1. /\ mem'.prefix = mem.prefix /\ mem'.count = mem.count
          /\ pc' \notin {"idle", "find"}
          /\ Creating' => /\ SecretBackend # "none" /\ loc'.pfx \in Prefixes
                          /\ mem.prefix # None => loc'.pfx = mem.prefix
      BY <1>2, <2>8, SecretFields
    <3> QED BY <2>1, <2>2, <2>3, <2>4, <3>1 DEF PrefixInv, Paired
  <2> QED BY <2>5, <2>6, <2>7, <2>8
<1>3. CASE close
  <2>1. Paired(obj')
    BY <1>3, PairedStep DEF ReconcileStep
  <2> QED BY <1>3, <2>1 DEF close, PrefixInv, Launching, Creating
<1>4. CASE Crash
  BY <1>4 DEF Crash, PrefixInv, Launching, Creating, Paired
<1>5. CASE UNCHANGED <<pc, mem, base, loc>> /\ obj'.prefix = obj.prefix /\ obj'.count = obj.count
  BY <1>5 DEF PrefixInv, Launching, Creating, Paired
<1>6. DeleteAWSMachine => obj'.prefix = obj.prefix /\ obj'.count = obj.count
  BY DEF DeleteAWSMachine, Collected, TypeInv, TypeOK, AWSMachines
<1> QED BY <1>1, <1>2, <1>3, <1>4, <1>5, <1>6
        DEF Next, vars, CacheSync, NodeJoins, DeleteMachine, DeleteAWSMachine,
            InstanceProgress, InstanceDisturbed

\* Every step keeps EntriesInv, when every patch that finds the object succeeds.
LEMMA EntriesStep ==
    ASSUME FaultKinds \cap {"patch", "crash", "stale"} = {}, NChunks = 1,
           TypeInv, TypeInv', FinalizerInv, DeletionInv, PrefixInv, EntriesInv, [Next]_vars
    PROVE  EntriesInv'
<1>0. /\ TypeOK /\ mem \in AWSMachines /\ loc \in Locals /\ obj \in AWSMachines
      /\ mem.count \in 0 .. 1 /\ loc.written \in 0 .. 1 /\ None \notin Prefixes /\ Indexes = {0}
      /\ secrets \in [Prefixes -> [Indexes -> 0 .. NChunks]]
  BY ConstantsAssumption DEF TypeInv, TypeOK, Locals, AWSMachines, Indexes
<1>1. (Launching => ~mem.deleting)'
  BY LaunchingLive DEF EntriesInv
<1>2. CASE Reconcile
  BY <1>1, <1>2 DEF Reconcile, EntriesInv, NothingAnswered, Answered
<1>3. CASE ReconcileStep /\ ~close
  <2>1. /\ pc # "idle" /\ mem'.deleting = mem.deleting /\ UNCHANGED base
        /\ obj.exists /\ obj.finalizer => obj'.exists /\ obj'.finalizer
        /\ \/ mem'.finalizer = mem.finalizer \/ mem'.finalizer
           \/ ~mem'.finalizer /\ mem.deleting
    BY <1>3, ReconcileSteps DEF ObjectKept, Protected
  <2>2. CASE deleteBootstrapData
    <3>1. /\ pc = "delBoot" /\ pc' \in {"find", "tags", "close"} /\ UNCHANGED lostEntries
          /\ \A p \in Prefixes, x \in Indexes : secrets'[p][x] \in {secrets[p][x], 0}
          /\ \/ mem'.prefix = mem.prefix /\ (pc' # "close" => KeepBootstrapData)
             \/ mem'.prefix = None /\ secrets' = WithoutEntries(0 .. mem.count - 1)
                 /\ mem.count > 0
      BY <2>2, DeleteBootstrapFields
    <3>2. NothingAnswered => NothingAnswered'
      BY <3>1 DEF NothingAnswered, Answered
    <3>3. \A p \in Prefixes, x \in Indexes : Answered(p, x)' => p = mem.prefix /\ Answered(p, x)
      BY <2>1, <3>1 DEF EntriesInv, Answered, Creating
    <3>4. CASE mem'.prefix = mem.prefix /\ (pc' # "close" => KeepBootstrapData)
      <4>1. mem.deleting /\ pc' # "close" => NothingAnswered'
        BY <1>0, <3>2, <3>3, <3>4 DEF KeepBootstrapData, EntriesInv, NothingAnswered
      <4>2. mem'.finalizer = mem.finalizer
        BY <1>0, <2>2 DEF deleteBootstrapData, AfterDeleteBootstrapData, AWSMachines
      <4> QED BY <1>1, <2>1, <3>1, <3>2, <3>3, <3>4, <4>1, <4>2 DEF EntriesInv, Creating
    <3>5. CASE mem'.prefix = None /\ secrets' = WithoutEntries(0 .. mem.count - 1)
                 /\ mem.count > 0
      <4>1. \A p \in Prefixes, x \in Indexes : p = mem.prefix => secrets'[p][x] = 0
        BY <1>0, <3>5 DEF WithoutEntries
      <4>2. NothingAnswered'
        BY <3>3, <4>1 DEF NothingAnswered, Answered
      <4> QED BY <1>1, <2>1, <3>1, <4>2 DEF EntriesInv, NothingAnswered
    <3> QED BY <3>1, <3>4, <3>5
  <2>3. CASE createSecretChunk
    <3>1. /\ pc = "secret" /\ Creating /\ Creating' /\ Launching /\ UNCHANGED mem
          /\ loc'.pfx = loc.pfx /\ loc'.written >= loc.written /\ pc' # "idle"
      <4>1. \/ loc' = [loc EXCEPT !.chunk = @ + 1, !.serr = TRUE]
            \/ loc' = [loc EXCEPT !.chunk = @ + 1, !.written = @ + 1, !.serr = FALSE]
        BY <2>3 DEF createSecretChunk
      <4>2. loc'.pfx = loc.pfx /\ loc'.written \in {loc.written, loc.written + 1}
        BY <1>0, <4>1 DEF Locals
      <4>3. loc'.written >= loc.written
        BY <1>0, <4>2
      <4> QED BY <2>3, <4>2, <4>3 DEF createSecretChunk, Creating, Launching
    <3>2. obj.exists /\ obj.finalizer /\ mem.finalizer /\ ~mem.deleting /\ SecretBackend # "none"
      BY <3>1 DEF FinalizerInv, MemInv, EntriesInv, PrefixInv, Launching
    <3>3. \A p \in Prefixes, x \in Indexes : Answered(p, x)' =>
            Answered(p, x) \/ (p = loc.pfx /\ loc'.written > 0)
      <4> DEFINE entry == <<loc.pfx, loc.written>>
      <4>1. CASE UNCHANGED <<secrets, lostEntries>>
        BY <4>1 DEF Answered
      <4>2. CASE secrets' = [secrets EXCEPT ![loc.pfx][loc.written] = 0] /\ UNCHANGED lostEntries
        BY <1>0, <4>2 DEF Answered
      <4>3. CASE /\ secrets' = [secrets EXCEPT ![loc.pfx][loc.written] = loc.chunk + 1]
                 /\ lostEntries' = lostEntries \ {entry}
                 /\ loc' = [loc EXCEPT !.chunk = @ + 1, !.written = @ + 1, !.serr = FALSE]
        <5>1. loc'.written = loc.written + 1 /\ loc'.written > 0
          BY <1>0, <4>3 DEF Locals
        <5>2. ASSUME NEW p \in Prefixes, NEW x \in Indexes, p # loc.pfx, Answered(p, x)'
              PROVE  Answered(p, x)
          <6>1. secrets'[p][x] = secrets[p][x] /\ <<p, x>> # entry
            BY <1>0, <4>3, <5>2
          <6> QED BY <4>3, <5>2, <6>1 DEF Answered
        <5> QED BY <5>1, <5>2
      <4>4. CASE /\ secrets' = [secrets EXCEPT ![loc.pfx][loc.written] = loc.chunk + 1]
                 /\ lostEntries' = lostEntries \cup {entry}
        <5>1. ASSUME NEW p \in Prefixes, NEW x \in Indexes, Answered(p, x)'
              PROVE  Answered(p, x)
          <6>1. ~(p = loc.pfx /\ x = loc.written)
            BY <4>4, <5>1 DEF Answered
          <6>2. secrets'[p][x] = secrets[p][x]
            BY <1>0, <4>4, <6>1
          <6> QED BY <4>4, <5>1, <6>2 DEF Answered
        <5> QED BY <5>1
      <4> QED BY <2>3, <4>1, <4>2, <4>3, <4>4 DEF createSecretChunk
    <3>4. \A p \in Prefixes, x \in Indexes : Answered(p, x)' =>
            p = mem.prefix \/ (p = loc.pfx /\ loc'.written > 0)
      <4>1. loc'.written \in 0 .. 1
        BY DEF TypeInv, TypeOK, Locals
      <4> QED BY <1>0, <2>1, <3>1, <3>3, <4>1 DEF EntriesInv
    <3> QED BY <1>1, <2>1, <3>1, <3>2, <3>4 DEF EntriesInv
  <2>4. CASE registerSecret
    <3>1. /\ IF loc.written > 0 THEN mem'.prefix = loc.pfx ELSE mem'.prefix = mem.prefix
          /\ Creating /\ Launching /\ pc' \in {"create", "close"}
          /\ UNCHANGED <<secrets, lostEntries>>
      BY <2>4, RegisterFields DEF Creating, Launching
    <3>2. /\ ~mem.deleting /\ (mem.prefix # None => loc.pfx = mem.prefix)
          /\ (mem'.finalizer = mem.finalizer \/ mem'.finalizer)
      BY <2>1, <3>1 DEF EntriesInv, PrefixInv
    <3>3. UNCHANGED NothingAnswered /\ \A p \in Prefixes, x \in Indexes : Answered(p, x)' <=> Answered(p, x)
      BY <3>1 DEF NothingAnswered, Answered
    <3>4. \A p \in Prefixes, x \in Indexes : Answered(p, x) => p = mem'.prefix
      BY <1>0, <2>1, <3>1, <3>2 DEF EntriesInv
    <3> QED BY <1>1, <2>1, <3>1, <3>2, <3>3, <3>4 DEF EntriesInv
  <2>5. CASE ~deleteBootstrapData /\ ~createSecretChunk /\ ~registerSecret
    <3>1. /\ mem'.prefix = mem.prefix /\ ~Creating /\ pc' # "idle"
          /\ UNCHANGED <<secrets, lostEntries>>
          /\ pc \notin {"delBoot", "close"}
      BY <1>3, <2>5, SecretFields
    <3>2. UNCHANGED NothingAnswered /\ \A p \in Prefixes, x \in Indexes : Answered(p, x)' <=> Answered(p, x)
      BY <3>1 DEF NothingAnswered, Answered
    <3> QED BY <1>1, <2>1, <3>1, <3>2 DEF EntriesInv
  <2> QED BY <2>2, <2>3, <2>4, <2>5
<1>4. CASE close
  <2>1. pc = "close" /\ pc' = "idle" /\ UNCHANGED <<secrets, lostEntries>> /\ ~Creating
    BY <1>4 DEF close, Creating
  <2>2. UNCHANGED NothingAnswered /\ \A p \in Prefixes, x \in Indexes : Answered(p, x)' <=> Answered(p, x)
    BY <2>1 DEF NothingAnswered, Answered
  <2>3. PatchedBy(mem, TRUE, TRUE) \/ (~obj.exists /\ UNCHANGED obj)
    BY <1>0, <1>4, PatchedData DEF close
  <2>4. \A p \in Prefixes, x \in Indexes : Answered(p, x) => p = mem.prefix /\ obj.exists
    BY <2>1 DEF EntriesInv, NothingAnswered
  <2>5. \A p \in Prefixes, x \in Indexes : Answered(p, x) => p = obj'.prefix
    BY <1>0, <2>1, <2>3, <2>4 DEF PatchedBy, PrefixInv
  <2>6. NothingAnswered \/ (obj'.exists /\ obj'.finalizer)
    <3>1. CASE Finished
      <4>1. Outcome(mem)
        BY <1>0, <1>4, PatchOutcome DEF close
      <4>2. base.finalizer /\ ~mem.finalizer
        <5>1. base.finalizer \in BOOLEAN /\ mem.finalizer \in BOOLEAN
          BY DEF TypeInv, TypeOK, AWSMachines
        <5> QED BY <3>1, <4>1, <5>1 DEF Finished, Outcome
      <4> QED BY <2>1, <4>2 DEF EntriesInv
    <3> QED BY <1>4, <3>1, CloseStep DEF EntriesInv, ObjectKept, Protected
  <2> QED BY <1>1, <2>1, <2>2, <2>5, <2>6 DEF EntriesInv
<1>5. CASE Crash
  BY <1>5 DEF Crash, Fault
<1>6. CASE /\ UNCHANGED <<pc, mem, base, loc, secrets, lostEntries>> /\ obj'.prefix = obj.prefix
           /\ obj.exists /\ obj.finalizer => obj'.exists /\ obj'.finalizer
  BY <1>1, <1>6 DEF EntriesInv, NothingAnswered, Answered, Creating
<1>7. DeleteAWSMachine => /\ obj'.prefix = obj.prefix
                          /\ obj.exists /\ obj.finalizer => obj'.exists /\ obj'.finalizer
  BY <1>0 DEF DeleteAWSMachine, Collected, AWSMachines
<1> QED BY <1>2, <1>3, <1>4, <1>5, <1>6, <1>7
        DEF Next, vars, CacheSync, NodeJoins, DeleteMachine, DeleteAWSMachine,
            InstanceProgress, InstanceDisturbed

\* While patches arrive and the process does not die between storing an entry and
\* recording it, bootstrap data of one entry whose creation was answered never
\* outlives the machine: whichever calls of the secret store fail, the finalizer
\* waits for the entry to be deleted.  (An entry whose answer was lost is not
\* recorded and stays; with several entries a second, shorter Create forgets the
\* last ones.)
THEOREM SecretsDeleted ==
    ~CanStop /\ NChunks = 1 /\ FaultKinds \cap {"patch", "crash", "stale"} = {}
      => (Spec => []NoOrphanSecrets)
<1> SUFFICES ASSUME ~CanStop, NChunks = 1, FaultKinds \cap {"patch", "crash", "stale"} = {}
             PROVE  Spec => []NoOrphanSecrets
  OBVIOUS
<1>0. "stale" \notin FaultKinds
  OBVIOUS
<1>1. Init => FinalizerInv /\ DeletionInv
  BY DEF Init, FinalizerInv, NoOrphanInstance, OnlyLive, Live, InstanceRunningStates,
         DeletionInv, NewAWSMachine
<1>2. /\ TypeInv /\ TypeInv' /\ LaunchInv /\ FinalizerInv /\ DeletionInv /\ [Next]_vars
      => FinalizerInv' /\ DeletionInv'
  BY <1>0, FinalizerStep, DeletionStep
<1>3. Init => PrefixInv /\ EntriesInv
  BY DEF Init, PrefixInv, EntriesInv, NothingAnswered, Answered, Launching, Creating, Paired,
         NewAWSMachine
<1>4. /\ TypeInv /\ TypeInv' /\ FinalizerInv /\ DeletionInv /\ PrefixInv /\ EntriesInv
      /\ [Next]_vars
      => PrefixInv' /\ EntriesInv'
  BY <1>0, PrefixStep, EntriesStep
<1>5. EntriesInv => NoOrphanSecrets
  BY DEF EntriesInv, NothingAnswered, Answered, NoOrphanSecrets, Gone
<1> QED BY <1>1, <1>2, <1>3, <1>4, <1>5, TypeInit, TypeStep, LaunchInit, LaunchStep, PTL DEF Spec

-----------------------------------------------------------------------------
(* Bootstrap data of an instance that boots *)

\* Between findInstance and RunInstances.
ToLaunch == Launching \/ (pc = "find" /\ ~mem.deleting)

\* A failure is never taken back, and only an instance that has not been launched
\* or is no longer alive makes the machine fail.
FailedInv ==
    /\ pc # "idle" => /\ base.failed => obj.failed /\ mem.failed
                      /\ mem.failed => obj.failed \/ NoneLive
    /\ ToLaunch => ~mem.failed

\* What the reconcile knows when it comes to the bootstrap data is not better than
\* what is the case: a node it saw is there, and the state it saw of an instance
\* that still lives was pending or running.
FoundInv ==
    /\ loc.node => node
    /\ pc = "delBoot" /\ loc.found = None => mem.deleting \/ obj.failed
    /\ pc = "delBoot" /\ loc.found # None => mem.istate = loc.fst
    /\ \A i \in Instances : loc.found = i /\ Live(i) => loc.fst \in InstanceRunningStates

\* The instance lives and nothing has made its bootstrap data superfluous.
Booting == ~node /\ ~obj.failed /\ ~obj.deleting /\ ~NoneLive

Recorded(p, n) == p # None /\ n > 0 /\ \A x \in 0 .. n - 1 : Stored(p, x)

\* Secret service Create has stored what it says, from the first entry on.
CreatedInv ==
    /\ ~Creating => loc.chunk = 0 /\ loc.written = 0
    /\ Creating => /\ loc.pfx \in Prefixes
                   /\ \A x \in 0 .. loc.written - 1 : Stored(loc.pfx, x)
                   /\ loc.chunk > 0 /\ ~loc.serr => loc.written > 0
    /\ pc = "register" => loc.chunk > 0

\* The recorded entries are stored from the launch on, and the reconcile in flight
\* has read or written the same record.
BootInv ==
    /\ Booting => Recorded(obj.prefix, obj.count)
    /\ pc # "idle" /\ Booting => mem.prefix = obj.prefix /\ mem.count = obj.count
    /\ ToLaunch /\ pc \notin {"create", "launch"} =>
         /\ mem.prefix = base.prefix /\ mem.count = base.count
         /\ obj.prefix = base.prefix /\ obj.count = base.count
    /\ pc \in {"create", "launch"} =>
         /\ Recorded(mem.prefix, mem.count)
         /\ mem.prefix = obj.prefix /\ mem.count = obj.count

BootstrapInv == SecretBackend # "none" => BootInv

\* A step before the deferred patch and the failure: only createInstance without an
\* image and an instance found terminated make the machine fail.
LEMMA FailedFields ==
    ASSUME TypeInv, LaunchInv, FinalizerInv, ReconcileStep, ~close
    PROVE  /\ mem.failed => mem'.failed
           /\ mem'.failed => mem.failed \/ NoneLive
           /\ pc # "idle" /\ UNCHANGED base
           /\ mem'.failed # mem.failed => ~ToLaunch'
<1>0. mem \in AWSMachines /\ loc \in Locals
  BY DEF TypeInv, TypeOK
<1>1. CASE deleteBootstrapData
  <2>1. ASSUME NEW m \in AWSMachines, m.failed = mem.failed, AfterDeleteBootstrapData(m)
        PROVE  \/ mem'.failed = mem.failed
               \/ /\ mem'.failed /\ pc' = "tags" /\ loc.found # None /\ loc.fst = "terminated"
    BY <1>0, <2>1 DEF AfterDeleteBootstrapData, AWSMachines
  <2>2. [mem EXCEPT !.prefix = None, !.count = 0] \in AWSMachines
        /\ [mem EXCEPT !.prefix = None, !.count = 0].failed = mem.failed
    <3>1. 0 \in 0 .. NChunks
      BY Bounds
    <3> QED BY <1>0, <3>1 DEF AWSMachines
  <2>3. \/ mem'.failed = mem.failed
        \/ /\ mem'.failed /\ pc' = "tags" /\ loc.found # None /\ loc.fst = "terminated"
    BY <1>0, <1>1, <2>1, <2>2 DEF deleteBootstrapData
  <2>4. pc = "delBoot" /\ UNCHANGED base
    BY <1>1 DEF deleteBootstrapData
  <2>5. loc.found # None /\ loc.fst = "terminated" => NoneLive
    BY <2>4 DEF FinalizerInv, MemInv, OnlyLive, NoneLive, Live, InstanceRunningStates
  <2> QED BY <2>3, <2>4, <2>5 DEF ToLaunch, Launching
<1>2. CASE prepareInstance
  <2>1. /\ pc = "create" /\ UNCHANGED base
        /\ mem'.failed = mem.failed \/ (mem'.failed /\ pc' = "close")
    BY <1>0, <1>2 DEF prepareInstance, CreateFailed, AWSMachines
  <2> QED BY <2>1 DEF LaunchInv, Launching, ToLaunch
<1>3. CASE mem'.failed = mem.failed /\ pc # "idle" /\ UNCHANGED base
  BY <1>3
<1>4. CASE findInstance \/ addFinalizer
  BY <1>0, <1>3, <1>4 DEF findInstance, Found, addFinalizer, AWSMachines
<1>5. CASE registerSecret
  BY <1>0, <1>3, <1>5 DEF registerSecret, CreateFailed, RecordedSecrets, AWSMachines
<1>6. CASE runInstance \/ tagNetworkInterfaces
  BY <1>0, <1>3, <1>6 DEF runInstance, tagNetworkInterfaces, CreateFailed, AWSMachines
<1>7. CASE updateState \/ releaseDedicatedHost \/ terminateInstance
  BY <1>0, <1>3, <1>7 DEF updateState, releaseDedicatedHost, terminateInstance, AWSMachines
<1> QED BY <1>1, <1>2, <1>3, <1>4, <1>5, <1>6, <1>7
        DEF ReconcileStep, markProvisionStarted, createSecretChunk, reconcileElasticIP,
            associateAddress, ensureTags, reconcileOperationalState, deregisterFromLB,
            registerWithLB, leaveLB, releaseElasticIP

\* No patch and no other step takes a stored failure back.
LEMMA FailureStays ==
    ASSUME TypeInv, FailedInv, [Next]_vars
    PROVE  obj.failed => obj'.failed
<1>1. CASE ReconcileStep
  <2>1. base.failed \in BOOLEAN /\ mem.failed \in BOOLEAN /\ obj.failed \in BOOLEAN
    BY DEF TypeInv, TypeOK, AWSMachines
  <2>2. pc # "idle"
    BY <1>1 DEF ReconcileStep, deleteBootstrapData, findInstance, addFinalizer,
     markProvisionStarted, createSecretChunk, registerSecret, prepareInstance, runInstance,
     tagNetworkInterfaces, reconcileElasticIP, associateAddress, updateState, ensureTags,
     reconcileOperationalState, deregisterFromLB, registerWithLB, leaveLB,
     releaseDedicatedHost, terminateInstance, releaseElasticIP, close
  <2>3. base.failed => mem.failed
    BY <2>2 DEF FailedInv
  <2>4. \A m \in AWSMachines, s, t \in BOOLEAN :
          PatchedBy(m, s, t) /\ m.failed = mem.failed => (obj.failed => obj'.failed)
    BY <2>1, <2>3 DEF PatchedBy
  <2> QED BY <1>1, <2>4, StepPatches
<1>2. CASE DeleteAWSMachine
  BY <1>2 DEF DeleteAWSMachine, Collected, TypeInv, TypeOK, AWSMachines
<1>3. CASE UNCHANGED obj
  BY <1>3
<1> QED BY <1>1, <1>2, <1>3 DEF Next, vars, Reconcile, Crash, CacheSync, NodeJoins,
           DeleteMachine, InstanceProgress, InstanceDisturbed

\* A reconcile that gets on its way to RunInstances comes from its start.
LEMMA ToLaunchStarts ==
    ASSUME TypeInv, TypeInv', FinalizerInv, DeletionInv, ToLaunch', [Next]_vars
    PROVE  /\ Reconcile \/ ToLaunch
           /\ Reconcile => ~mem'.failed /\ pc' = "find"
<1>1. CASE Reconcile
  BY <1>1 DEF Reconcile, ToLaunch, Launching
<1>2. CASE ReconcileStep /\ ~close
  <2>1. mem'.deleting = mem.deleting /\ pc # "idle"
    BY <1>2, ReconcileSteps
  <2>2. findInstance => pc = "find" /\ (Launching' => ~mem.deleting)
    BY DEF findInstance, NothingToDelete, Found, Launching
  <2>3. CASE Launching'
    BY <2>1, <2>2, <2>3, LaunchingStarts DEF ToLaunch, Reconcile
  <2>4. CASE pc' = "find" /\ ~mem'.deleting
    <3>1. CASE deleteBootstrapData
      BY <2>1, <2>4, <3>1, DeleteBootstrapFields
    <3>2. CASE createSecretChunk \/ registerSecret
      BY <2>4, <3>2 DEF createSecretChunk, registerSecret, CreateFailed
    <3>3. CASE ~deleteBootstrapData /\ ~createSecretChunk /\ ~registerSecret
      BY <1>2, <2>4, <3>3, SecretFields
    <3> QED BY <3>1, <3>2, <3>3
  <2> QED BY <2>3, <2>4 DEF ToLaunch
<1>3. CASE close \/ Crash
  BY <1>3 DEF close, Crash, ToLaunch, Launching
<1>4. CASE UNCHANGED <<pc, mem, loc>>
  BY <1>4 DEF ToLaunch, Launching, Reconcile
<1> QED BY <1>1, <1>2, <1>3, <1>4 DEF Next, vars, CacheSync, NodeJoins, DeleteMachine,
           DeleteAWSMachine, InstanceProgress, InstanceDisturbed

\* Every step keeps FailedInv.
LEMMA FailedStep ==
    ASSUME ~CanStop, "stale" \notin FaultKinds,
           TypeInv, TypeInv', LaunchInv, FinalizerInv, DeletionInv, FailedInv, [Next]_vars
    PROVE  FailedInv'
<1>1. obj.failed => obj'.failed
  BY FailureStays
<1>2. ~runInstance => (NoneLive => NoneLive')
  BY NoOtherLaunch DEF NoneLive
<1>3. CASE Reconcile
  <2>1. pc' # "idle" /\ mem' = obj /\ base' = obj /\ UNCHANGED obj
    BY <1>3 DEF Reconcile
  <2>2. ToLaunch' => ~mem'.failed
    BY <1>3, ToLaunchStarts
  <2> QED BY <2>1, <2>2 DEF FailedInv
<1>4. CASE ReconcileStep /\ ~close
  <2>1. /\ mem.failed => mem'.failed
        /\ mem'.failed => mem.failed \/ NoneLive
        /\ pc # "idle" /\ UNCHANGED base
        /\ mem'.failed # mem.failed => ~ToLaunch'
    BY <1>4, FailedFields
  <2>2. runInstance => ~mem.failed /\ mem'.failed = mem.failed
    <3>1. runInstance => ToLaunch
      BY DEF runInstance, ToLaunch, Launching
    <3>2. runInstance => mem'.failed = mem.failed
      BY DEF runInstance, CreateFailed, TypeInv, TypeOK, AWSMachines
    <3> QED BY <3>1, <3>2 DEF FailedInv
  <2>3. ~Reconcile
    BY <2>1 DEF Reconcile
  <2>4. ToLaunch' => ~mem'.failed
    BY <2>1, <2>3, ToLaunchStarts DEF FailedInv
  <2>5. mem'.failed => obj'.failed \/ NoneLive'
    BY <1>1, <1>2, <2>1, <2>2 DEF FailedInv
  <2> QED BY <1>1, <2>1, <2>4, <2>5 DEF FailedInv
<1>5. CASE close \/ Crash
  BY <1>5 DEF close, Crash, FailedInv, ToLaunch, Launching
<1>6. CASE UNCHANGED <<pc, mem, base, loc>>
  <2>1. ~runInstance
    BY <1>6 DEF runInstance, CreateFailed
  <2> QED BY <1>1, <1>2, <1>6, <2>1 DEF FailedInv, ToLaunch, Launching
<1> QED BY <1>3, <1>4, <1>5, <1>6 DEF Next, vars, CacheSync, NodeJoins, DeleteMachine,
           DeleteAWSMachine, InstanceProgress, InstanceDisturbed

\* What a step of the reconcile does to the local variables FoundInv speaks of.
LEMMA FoundFields ==
    ASSUME TypeInv, TypeInv', ReconcileStep, ~close
    PROVE  /\ UNCHANGED node /\ loc'.node = loc.node
           /\ pc' = "delBoot" => /\ loc'.found \in Instances
                                 /\ mem'.istate = loc'.fst
           /\ \/ loc'.found = loc.found /\ loc'.fst = loc.fst
              \/ /\ findInstance /\ UNCHANGED inst
                 /\ \E i \in Instances : loc'.found = i /\ loc'.fst = inst[i]
              \/ runInstance /\ loc'.fst = "pending"
<1>0. /\ loc \in Locals /\ mem \in AWSMachines /\ inst \in [Instances -> InstanceStates]
  BY DEF TypeInv, TypeOK
<1>1. CASE findInstance
  <2>1. ASSUME NEW i \in Instances, Found(i)
        PROVE  loc'.found = i /\ loc'.fst = inst[i] /\ loc'.node = loc.node
    BY <1>0, <2>1 DEF Found, Locals
  <2>2. \/ UNCHANGED loc \/ \E i \in Instances : Found(i)
    BY <1>0, <1>1 DEF findInstance, ByTags, AWSMachines
  <2>3. pc' # "delBoot" /\ UNCHANGED <<node, inst>>
    BY <1>1 DEF findInstance, Found
  <2> QED BY <1>1, <2>1, <2>2, <2>3
<1>2. CASE runInstance
  BY <1>0, <1>2 DEF runInstance, CreateFailed, Locals
<1>3. CASE updateState
  BY <1>0, <1>3 DEF updateState, AWSMachines, TypeInv, Located
<1>4. CASE createSecretChunk \/ registerSecret \/ markProvisionStarted
  BY <1>0, <1>4 DEF createSecretChunk, registerSecret, markProvisionStarted, CreateFailed, Locals
<1>5. CASE deregisterFromLB
  <2>1. loc'.found = loc.found /\ loc'.fst = loc.fst /\ loc'.node = loc.node
    BY <1>0, <1>5 DEF deregisterFromLB, LBLeave, LBReturn, LBDone, Locals
  <2> QED BY <1>5, <2>1 DEF deregisterFromLB
<1>6. CASE registerWithLB
  <2>1. loc'.found = loc.found /\ loc'.fst = loc.fst /\ loc'.node = loc.node
    BY <1>0, <1>6 DEF registerWithLB, LBDone, Locals
  <2> QED BY <1>6, <2>1 DEF registerWithLB
<1>7. CASE UNCHANGED <<loc, node>> /\ pc' # "delBoot"
  BY <1>7
<1>8. CASE deleteBootstrapData \/ addFinalizer \/ prepareInstance \/ tagNetworkInterfaces
  BY <1>7, <1>8 DEF deleteBootstrapData, AfterDeleteBootstrapData, addFinalizer, AfterFinalizer,
     prepareInstance, tagNetworkInterfaces, CreateFailed
<1>9. CASE \/ reconcileElasticIP \/ associateAddress \/ ensureTags \/ reconcileOperationalState
           \/ releaseElasticIP \/ releaseDedicatedHost \/ terminateInstance
  BY <1>7, <1>9 DEF reconcileElasticIP, associateAddress, ensureTags,
     reconcileOperationalState, releaseElasticIP, releaseDedicatedHost, terminateInstance
<1>10. CASE leaveLB
  BY <1>7, <1>10 DEF leaveLB
<1> QED BY <1>1, <1>2, <1>3, <1>4, <1>5, <1>6, <1>8, <1>9, <1>10 DEF ReconcileStep

\* Every step keeps FoundInv.
LEMMA FoundStep ==
    ASSUME ~CanStop, "stale" \notin FaultKinds,
           TypeInv, TypeInv', FinalizerInv, DeletionInv, FailedInv, FoundInv, [Next]_vars
    PROVE  FoundInv'
<1>0. None \notin Instances
  BY ConstantsAssumption
<1>1. obj.failed => obj'.failed
  BY FailureStays
<1>2. ~runInstance => \A i \in Instances : Live(i)' => Live(i)
  BY NoOtherLaunch
<1>3. CASE Reconcile
  <2>1. /\ loc'.node = node /\ loc'.found = None /\ UNCHANGED <<obj, node>> /\ mem' = obj
        /\ pc' = "delBoot" => mem'.deleting \/ mem'.failed
    BY <1>3 DEF Reconcile, NoLocals
  <2> QED BY <1>0, <2>1 DEF FoundInv
<1>4. CASE ReconcileStep /\ ~close
  <2>1. /\ UNCHANGED node /\ loc'.node = loc.node
        /\ pc' = "delBoot" => loc'.found \in Instances /\ mem'.istate = loc'.fst
        /\ \/ loc'.found = loc.found /\ loc'.fst = loc.fst
           \/ /\ findInstance /\ UNCHANGED inst
              /\ \E i \in Instances : loc'.found = i /\ loc'.fst = inst[i]
           \/ runInstance /\ loc'.fst = "pending"
    BY <1>4, FoundFields
  <2>2. runInstance => loc.found = None
    BY DEF runInstance, FinalizerInv, MemInv, Launching
  <2>3. \A i \in Instances : loc'.found = i /\ Live(i)' => loc'.fst \in InstanceRunningStates
    BY <1>0, <1>2, <2>1, <2>2 DEF FoundInv, Live, InstanceRunningStates
  <2> QED BY <1>0, <2>1, <2>3 DEF FoundInv
<1>5. CASE close \/ Crash
  BY <1>0, <1>5 DEF close, Crash, FoundInv, NoLocals
<1>6. CASE UNCHANGED <<pc, mem, loc>> /\ (node => node')
  <2>1. ~runInstance
    BY <1>6 DEF runInstance, CreateFailed
  <2> QED BY <1>1, <1>2, <1>6, <2>1 DEF FoundInv
<1> QED BY <1>3, <1>4, <1>5, <1>6 DEF Next, vars, CacheSync, NodeJoins, DeleteMachine,
           DeleteAWSMachine, InstanceProgress, InstanceDisturbed

\* Every step keeps CreatedInv.
LEMMA CreatedStep ==
    ASSUME TypeInv, TypeInv', CreatedInv, [Next]_vars
    PROVE  CreatedInv'
<1>a. /\ loc \in Locals /\ loc.written \in 0 .. NChunks /\ loc.chunk \in 0 .. NChunks
      /\ NChunks \in Nat /\ loc.written <= loc.chunk
      /\ secrets \in [Prefixes -> [Indexes -> 0 .. NChunks]]
  BY Bounds DEF TypeInv, TypeOK, Locals, Located
<1>0. /\ loc \in Locals /\ loc.written \in Nat /\ loc.chunk \in Nat /\ NChunks \in Nat
      /\ loc.written <= loc.chunk
      /\ secrets \in [Prefixes -> [Indexes -> 0 .. NChunks]]
      /\ Indexes = 0 .. NChunks - 1
  BY <1>a DEF Indexes
<1>1. CASE createSecretChunk
  <2>1. pc = "secret" /\ loc.chunk < NChunks /\ Creating /\ Creating'
    BY <1>1 DEF createSecretChunk, Creating
  <2>2. CASE /\ secrets' = [secrets EXCEPT ![loc.pfx][loc.written] = loc.chunk + 1]
             /\ loc' = [loc EXCEPT !.chunk = @ + 1, !.written = @ + 1, !.serr = FALSE]
    <3>1. /\ loc'.pfx = loc.pfx /\ loc'.written = loc.written + 1 /\ loc'.chunk = loc.chunk + 1
          /\ loc.pfx \in Prefixes /\ loc.written \in Indexes
      BY <1>0, <2>1, <2>2 DEF Locals, CreatedInv
    <3>2. \A x \in 0 .. loc.written - 1 : x \in Indexes /\ x # loc.written /\ Stored(loc.pfx, x)
      BY <1>0, <2>1, <3>1 DEF CreatedInv
    <3>3. \A x \in 0 .. loc.written - 1 : secrets'[loc.pfx][x] = secrets[loc.pfx][x]
      BY <1>0, <2>2, <3>1, <3>2
    <3>4. secrets'[loc.pfx][loc.written] = loc.chunk + 1
      BY <1>0, <2>2, <3>1
    <3>5. \A x \in 0 .. loc.written : x = loc.written \/ x \in 0 .. loc.written - 1
      BY <1>0
    <3>6. ASSUME NEW x \in 0 .. loc.written PROVE secrets'[loc.pfx][x] # 0
      <4>1. CASE x = loc.written
        BY <1>0, <3>4, <4>1
      <4>2. CASE x \in 0 .. loc.written - 1
        BY <3>2, <3>3, <4>2 DEF Stored
      <4> QED BY <3>5, <4>1, <4>2
    <3>7. loc'.written - 1 = loc.written /\ loc'.written > 0 /\ loc'.chunk > 0
      BY <1>0, <3>1
    <3>8. \A x \in 0 .. loc'.written - 1 : secrets'[loc'.pfx][x] # 0
      BY <3>1, <3>6, <3>7
    <3> QED BY <2>1, <3>1, <3>7, <3>8 DEF CreatedInv, Stored
  <2>3. CASE /\ loc' = [loc EXCEPT !.chunk = @ + 1, !.serr = TRUE]
             /\ \/ UNCHANGED secrets
                \/ \E v : secrets' = [secrets EXCEPT ![loc.pfx][loc.written] = v]
    <3>1. /\ loc'.pfx = loc.pfx /\ loc'.written = loc.written /\ loc'.chunk = loc.chunk + 1
          /\ loc'.serr /\ loc.pfx \in Prefixes /\ loc.written \in Indexes /\ loc.chunk + 1 > 0
      BY <1>0, <2>1, <2>3 DEF Locals, CreatedInv
    <3>2. \A x \in 0 .. loc.written - 1 : x \in Indexes /\ x # loc.written /\ Stored(loc.pfx, x)
      BY <1>0, <2>1, <3>1 DEF CreatedInv
    <3>3. ASSUME NEW v, secrets' = [secrets EXCEPT ![loc.pfx][loc.written] = v]
          PROVE  \A x \in 0 .. loc.written - 1 : secrets'[loc.pfx][x] = secrets[loc.pfx][x]
      BY <1>0, <3>1, <3>2, <3>3
    <3>4. \A x \in 0 .. loc.written - 1 : secrets'[loc.pfx][x] = secrets[loc.pfx][x]
      BY <2>3, <3>3
    <3> QED BY <2>1, <3>1, <3>2, <3>4 DEF CreatedInv, Stored
  <2> QED BY <1>1, <2>2, <2>3 DEF createSecretChunk
<1>2. CASE registerSecret
  BY <1>0, <1>2 DEF registerSecret, CreateFailed, CreatedInv, Creating, Locals
<1>3. CASE markProvisionStarted
  <2>1. /\ pc = "provision" /\ pc' \in {"secret", "create", "close"} /\ UNCHANGED secrets
        /\ UNCHANGED loc \/ \E p : loc' = [loc EXCEPT !.pfx = p]
    BY <1>3 DEF markProvisionStarted
  <2>2. loc'.chunk = 0 /\ loc'.written = 0
    BY <1>0, <2>1 DEF CreatedInv, Creating, Locals
  <2>3. ~close /\ ~deleteBootstrapData /\ ~createSecretChunk /\ ~registerSecret /\ ReconcileStep
    BY <1>3 DEF markProvisionStarted, close, deleteBootstrapData, createSecretChunk,
       registerSecret, ReconcileStep
  <2>4. Creating' => loc'.pfx \in Prefixes
    BY <2>3, SecretFields
  <2>5. \A x \in 0 .. loc'.written - 1 : FALSE
    BY <2>2
  <2> QED BY <2>1, <2>2, <2>4, <2>5 DEF CreatedInv, Creating, Stored
<1>4. CASE Reconcile \/ close \/ Crash
  <2>1. loc'.chunk = 0 /\ loc'.written = 0
    <3>1. loc' = NoLocals \/ loc' = [NoLocals EXCEPT !.node = node, !.mdel = mdel]
      BY <1>4 DEF Reconcile, close, Crash
    <3>2. NoLocals \in Locals /\ NoLocals.chunk = 0 /\ NoLocals.written = 0
      BY NoLocalsType DEF NoLocals
    <3> QED BY <3>1, <3>2 DEF Locals
  <2>2. pc' \in {"delBoot", "find", "idle"}
    BY <1>4 DEF Reconcile, close, Crash
  <2> QED BY <2>1, <2>2 DEF CreatedInv, Creating
<1>5. CASE ~Creating /\ ~Creating' /\ loc'.chunk = loc.chunk /\ loc'.written = loc.written
  BY <1>5 DEF CreatedInv, Creating
<1>6. CASE deleteBootstrapData \/ addFinalizer \/ prepareInstance \/ tagNetworkInterfaces
  BY <1>5, <1>6 DEF deleteBootstrapData, AfterDeleteBootstrapData, addFinalizer, AfterFinalizer,
     prepareInstance, tagNetworkInterfaces, CreateFailed, Creating
<1>7. CASE \/ reconcileElasticIP \/ associateAddress \/ ensureTags \/ reconcileOperationalState
           \/ releaseElasticIP \/ releaseDedicatedHost \/ terminateInstance \/ updateState
  BY <1>5, <1>7 DEF reconcileElasticIP, associateAddress, ensureTags, updateState,
     reconcileOperationalState, releaseElasticIP, releaseDedicatedHost, terminateInstance, Creating
<1>8. CASE leaveLB
  BY <1>5, <1>8 DEF leaveLB, Creating
<1>9. CASE findInstance \/ runInstance
  BY <1>0, <1>5, <1>9 DEF findInstance, Found, runInstance, CreateFailed, Creating, Locals
<1>10. CASE deregisterFromLB
  <2>1. loc'.chunk = loc.chunk /\ loc'.written = loc.written
    BY <1>0, <1>10 DEF deregisterFromLB, LBLeave, LBReturn, LBDone, Locals
  <2> QED BY <1>5, <1>10, <2>1 DEF deregisterFromLB, Creating
<1>11. CASE registerWithLB
  <2>1. loc'.chunk = loc.chunk /\ loc'.written = loc.written
    BY <1>0, <1>11 DEF registerWithLB, LBDone, Locals
  <2> QED BY <1>5, <1>11, <2>1 DEF registerWithLB, Creating
<1>12. CASE UNCHANGED <<pc, loc, secrets>>
  BY <1>12 DEF CreatedInv, Creating, Stored
<1> QED BY <1>1, <1>2, <1>3, <1>4, <1>6, <1>7, <1>8, <1>9, <1>10, <1>11, <1>12
        DEF Next, ReconcileStep, vars, CacheSync, NodeJoins, DeleteMachine, DeleteAWSMachine,
            InstanceProgress, InstanceDisturbed

SameRecord(o, m) == m.prefix = o.prefix /\ m.count = o.count

\* A patch with the record the object has, or with the one that was read, leaves it.
LEMMA RecordKept ==
    ASSUME TypeInv, ReconcileStep, ~registerSecret,
           SameRecord(obj, mem) \/ SameRecord(base, mem)
    PROVE  SameRecord(obj, obj')
<1>1. \A m \in AWSMachines, s, t \in BOOLEAN :
        PatchedBy(m, s, t) /\ m.prefix = mem.prefix /\ m.count = mem.count
          => SameRecord(obj, obj')
  BY DEF PatchedBy, SameRecord
<1> QED BY <1>1, StepPatches DEF SameRecord

\* While the instance boots, reconcileNormal and reconcileDelete keep its entries.
LEMMA KeptWhileBooting ==
    ASSUME TypeInv, FinalizerInv, DeletionInv, FailedInv, FoundInv, BootInv,
           pc = "delBoot", Booting
    PROVE  KeepBootstrapData
<1>0. loc.found \in Instances \cup {None} /\ mem.count \in Nat
  BY DEF TypeInv, TypeOK, Locals, AWSMachines
<1>1. ~loc.node /\ ~mem.deleting /\ ~mem.failed
  BY DEF Booting, FoundInv, DeletionInv, FailedInv
<1>2. loc.found # None /\ mem.istate = loc.fst
  BY <1>1 DEF Booting, FoundInv
<1>3. PICK i \in Instances : Live(i)
  BY DEF Booting, NoneLive
<1>4. loc.found = i
  BY <1>2, <1>3 DEF FinalizerInv, MemInv, OnlyLive
<1>5. mem.istate \in InstanceOperationalStates
  BY <1>2, <1>3, <1>4 DEF FoundInv, InstanceOperationalStates
<1>6. mem.count > 0
  BY DEF BootInv, Recorded
<1> QED BY <1>1, <1>5, <1>6 DEF KeepBootstrapData, InstanceIsOperational

\* Only RunInstances makes an instance boot.
LEMMA BootingStarts ==
    ASSUME ~CanStop, TypeInv, TypeInv', FinalizerInv, DeletionInv, FailedInv, [Next]_vars,
           ~runInstance, Booting'
    PROVE  Booting
<1>1. (obj.failed => obj'.failed) /\ (NoneLive => NoneLive')
  BY FailureStays, NoOtherLaunch DEF NoneLive
<1>2. obj.deleting => obj'.deleting
  BY LifecycleStep DEF ObjectKept, Protected, Finished, DeletionRequested
<1>3. node => node'
  BY DEF Next, ReconcileStep, vars, Reconcile, deleteBootstrapData, findInstance, addFinalizer,
     markProvisionStarted, createSecretChunk, registerSecret, prepareInstance, runInstance,
     tagNetworkInterfaces, reconcileElasticIP, associateAddress, updateState, ensureTags,
     reconcileOperationalState, deregisterFromLB, registerWithLB, leaveLB,
     releaseDedicatedHost, terminateInstance, releaseElasticIP, close, Crash, CacheSync,
     NodeJoins, DeleteMachine, DeleteAWSMachine, InstanceProgress, InstanceDisturbed
<1> QED BY <1>1, <1>2, <1>3 DEF Booting

\* Every step keeps BootInv.
LEMMA BootStep ==
    ASSUME SecretBackend # "none", ~CanStop, "stale" \notin FaultKinds, TypeInv, TypeInv',
           LaunchInv, FinalizerInv, DeletionInv, FailedInv, FoundInv, CreatedInv, BootInv,
           [Next]_vars
    PROVE  BootInv'
<1>0. /\ TypeOK /\ mem \in AWSMachines /\ loc \in Locals /\ obj \in AWSMachines
      /\ loc.written \in Nat /\ None \notin Prefixes
  <2>1. loc.written \in 0 .. NChunks /\ NChunks \in Nat
    BY Bounds DEF TypeInv, TypeOK, Locals
  <2> QED BY <2>1, ConstantsAssumption DEF TypeInv, TypeOK
<1>1. UNCHANGED secrets => \A p, n : Recorded(p, n) => Recorded(p, n)'
  BY DEF Recorded, Stored
<1>2. Launching => ~Booting
  BY DEF LaunchInv, Booting
<1>3. CASE Reconcile
  <2>1. /\ mem' = obj /\ base' = obj /\ UNCHANGED <<obj, secrets>> /\ ~runInstance
        /\ pc' \in {"delBoot", "find"}
    BY <1>3 DEF Reconcile, runInstance
  <2> QED BY <1>1, <2>1, BootingStarts DEF BootInv
<1>4. CASE deleteBootstrapData
  <2>1. /\ pc = "delBoot" /\ pc' \in {"find", "tags", "close"} /\ UNCHANGED obj /\ ~runInstance
        /\ mem'.deleting = mem.deleting /\ (pc' = "find" => mem.deleting)
    BY <1>4, DeleteBootstrapFields DEF deleteBootstrapData, runInstance
  <2>2. KeepBootstrapData => UNCHANGED secrets /\ SameRecord(mem, mem')
    BY <1>0, <1>4 DEF deleteBootstrapData, AfterDeleteBootstrapData, SameRecord, AWSMachines
  <2>3. Booting' => Booting /\ KeepBootstrapData
    BY <2>1, BootingStarts, KeptWhileBooting
  <2> QED BY <1>1, <2>1, <2>2, <2>3 DEF BootInv, SameRecord, ToLaunch, Launching
<1>5. CASE createSecretChunk
  <2>1. /\ pc = "secret" /\ pc' \in {"secret", "register"} /\ UNCHANGED <<mem, base, obj>>
        /\ ~runInstance
    BY <1>5 DEF createSecretChunk, runInstance
  <2>2. Launching /\ ~Booting'
    BY <1>2, <2>1, BootingStarts DEF Launching
  <2> QED BY <2>1, <2>2 DEF BootInv, ToLaunch
<1>6. CASE registerSecret
  <2>1. Launching /\ pc = "register" /\ pc' \in {"create", "close"} /\ ~runInstance
        /\ UNCHANGED secrets
    BY <1>6 DEF registerSecret, CreateFailed, Launching, runInstance
  <2>2. ~Booting'
    BY <1>2, <2>1, BootingStarts
  <2>3. ASSUME pc' = "create"
        PROVE  Recorded(mem.prefix, mem.count)' /\ SameRecord(mem', obj')
    <3>1. PatchSucceeds(RecordedSecrets) /\ ~loc.serr /\ mem' = RecordedSecrets
      BY <1>6, <2>3 DEF registerSecret, CreateFailed
    <3>2. /\ loc.written > 0 /\ loc.pfx \in Prefixes
          /\ \A x \in 0 .. loc.written - 1 : Stored(loc.pfx, x)
      BY <2>1, <3>1 DEF CreatedInv, Creating
    <3>3. mem'.prefix = loc.pfx /\ mem'.count = loc.written
      BY <1>0, <3>1, <3>2 DEF RecordedSecrets, AWSMachines
    <3>4. Recorded(mem.prefix, mem.count)'
      BY <1>0, <2>1, <3>2, <3>3 DEF Recorded, Stored
    <3>5. SameRecord(base, obj)
      BY <2>1 DEF BootInv, ToLaunch, SameRecord
    <3>6. PatchedBy(RecordedSecrets, TRUE, TRUE)
      <4>1. RecordedSecrets \in AWSMachines
        BY <1>0 DEF RecordedSecrets, Locals, AWSMachines
      <4> QED BY <1>0, <3>1, <4>1, PatchedData
    <3>7. SameRecord(mem', obj')
      BY <3>1, <3>5, <3>6 DEF PatchedBy, SameRecord
    <3> QED BY <3>4, <3>7
  <2> QED BY <2>1, <2>2, <2>3 DEF BootInv, SameRecord, ToLaunch, Launching
<1>7. CASE runInstance
  <2>1. /\ pc = "launch" /\ pc' \in {"tagENI", "close"} /\ UNCHANGED <<obj, secrets>>
        /\ SameRecord(mem, mem')
    BY <1>0, <1>7 DEF runInstance, CreateFailed, SameRecord, AWSMachines
  <2> QED BY <1>1, <2>1 DEF BootInv, SameRecord, ToLaunch, Launching
<1>8. CASE /\ ReconcileStep /\ ~close /\ ~deleteBootstrapData /\ ~createSecretChunk
           /\ ~registerSecret /\ ~runInstance
  <2>1. /\ SameRecord(mem, mem') /\ UNCHANGED secrets /\ pc # "idle"
    BY <1>8, SecretFields DEF SameRecord
  <2>2. UNCHANGED base
    BY <1>8, ReconcileSteps
  <2>3. SameRecord(obj, mem) \/ SameRecord(base, mem) => SameRecord(obj, obj')
    BY <1>8, RecordKept
  <2>4. Booting' => Booting
    BY <1>8, BootingStarts
  <2>5. ToLaunch' => ToLaunch
    BY <2>1, ToLaunchStarts DEF Reconcile
  <2>6. pc' \in {"create", "launch"} => pc \in {"create", "launch"}
    <3>1. CASE markProvisionStarted
      BY <3>1 DEF markProvisionStarted
    <3>2. CASE prepareInstance
      BY <3>2 DEF prepareInstance
    <3>3. CASE \/ findInstance \/ addFinalizer \/ tagNetworkInterfaces \/ reconcileElasticIP
               \/ associateAddress \/ updateState \/ ensureTags \/ reconcileOperationalState
      BY <3>3 DEF findInstance, Found, addFinalizer, AfterFinalizer, tagNetworkInterfaces,
         CreateFailed, reconcileElasticIP, associateAddress, updateState, ensureTags,
         reconcileOperationalState
    <3>4. CASE \/ deregisterFromLB \/ registerWithLB \/ leaveLB \/ releaseDedicatedHost
               \/ terminateInstance \/ releaseElasticIP
      BY <3>4 DEF deregisterFromLB, registerWithLB, leaveLB, releaseDedicatedHost,
         terminateInstance, releaseElasticIP
    <3> QED BY <1>8, <3>1, <3>2, <3>3, <3>4 DEF ReconcileStep
  <2>7. pc' \notin {"create", "launch"} /\ ToLaunch' => pc \notin {"create", "launch"}
    <3>1. pc = "create" => prepareInstance
      BY <1>8 DEF ReconcileStep, findInstance, addFinalizer, markProvisionStarted,
         tagNetworkInterfaces, reconcileElasticIP, associateAddress, updateState, ensureTags,
         reconcileOperationalState, deregisterFromLB, registerWithLB, leaveLB,
         releaseDedicatedHost, terminateInstance, releaseElasticIP
    <3>2. pc # "launch"
      BY <1>8 DEF ReconcileStep, findInstance, addFinalizer, markProvisionStarted,
         prepareInstance, tagNetworkInterfaces, reconcileElasticIP, associateAddress,
         updateState, ensureTags, reconcileOperationalState, deregisterFromLB, registerWithLB,
         leaveLB, releaseDedicatedHost, terminateInstance, releaseElasticIP
    <3>3. prepareInstance => pc' \in {"launch", "close"}
      BY DEF prepareInstance, CreateFailed
    <3> QED BY <3>1, <3>2, <3>3 DEF ToLaunch, Launching
  <2>8. Booting' => SameRecord(obj, mem) /\ Recorded(obj.prefix, obj.count)
    BY <2>1, <2>4 DEF BootInv, SameRecord
  <2>9. ToLaunch' /\ pc' \notin {"create", "launch"} =>
          SameRecord(base, mem) /\ SameRecord(base, obj)
    BY <2>5, <2>7 DEF BootInv, SameRecord
  <2>10. pc' \in {"create", "launch"} => SameRecord(obj, mem) /\ Recorded(mem.prefix, mem.count)
    BY <2>6 DEF BootInv, SameRecord
  <2> QED BY <1>1, <2>1, <2>2, <2>3, <2>8, <2>9, <2>10 DEF BootInv, SameRecord
<1>9. CASE close
  <2>1. /\ pc = "close" /\ pc' = "idle" /\ UNCHANGED secrets /\ ~runInstance /\ ~registerSecret
        /\ ReconcileStep
    BY <1>9 DEF close, runInstance, registerSecret, ReconcileStep
  <2>2. Booting' => SameRecord(obj, mem) /\ Recorded(obj.prefix, obj.count)
    BY <2>1, BootingStarts DEF BootInv, SameRecord
  <2>3. Booting' => SameRecord(obj, obj')
    BY <2>1, <2>2, RecordKept
  <2> QED BY <1>1, <2>1, <2>2, <2>3 DEF BootInv, SameRecord, ToLaunch, Launching
<1>10. CASE Crash
  <2>1. pc' = "idle" /\ UNCHANGED <<obj, secrets, inst, node>>
    BY <1>10 DEF Crash
  <2>2. Booting' => Booting
    BY <2>1 DEF Booting, NoneLive, Live
  <2> QED BY <1>1, <2>1, <2>2 DEF BootInv, ToLaunch, Launching
<1>11. CASE UNCHANGED <<pc, mem, base, loc, secrets>> /\ SameRecord(obj, obj')
  <2>1. ~runInstance
    BY <1>11 DEF runInstance, CreateFailed
  <2> QED BY <1>1, <1>11, <2>1, BootingStarts DEF BootInv, SameRecord, ToLaunch, Launching
<1>12. DeleteAWSMachine => SameRecord(obj, obj')
  BY <1>0 DEF DeleteAWSMachine, Collected, SameRecord, AWSMachines
<1>13. UNCHANGED obj => SameRecord(obj, obj')
  BY DEF SameRecord
<1> QED BY <1>3, <1>4, <1>5, <1>6, <1>7, <1>8, <1>9, <1>10, <1>11, <1>12, <1>13
        DEF Next, vars, CacheSync, NodeJoins, DeleteMachine, DeleteAWSMachine,
            InstanceProgress, InstanceDisturbed

\* However many entries the bootstrap data has, whichever calls and patches fail and
\* whenever the process dies: an instance that still needs its bootstrap data finds
\* every entry its machine records.
THEOREM BootstrapDataKept ==
    ~CanStop /\ "stale" \notin FaultKinds => (Spec => []BootstrapKept)
<1> SUFFICES ASSUME ~CanStop, "stale" \notin FaultKinds
             PROVE  Spec => []BootstrapKept
  OBVIOUS
<1>1. Init => FinalizerInv /\ DeletionInv
  BY DEF Init, FinalizerInv, NoOrphanInstance, OnlyLive, Live, InstanceRunningStates,
         DeletionInv, NewAWSMachine
<1>2. /\ TypeInv /\ TypeInv' /\ LaunchInv /\ FinalizerInv /\ DeletionInv /\ [Next]_vars
      => FinalizerInv' /\ DeletionInv'
  BY FinalizerStep, DeletionStep
<1>3. Init => FailedInv /\ FoundInv /\ CreatedInv
  BY DEF Init, FailedInv, FoundInv, CreatedInv, ToLaunch, Launching, Creating, Live,
         InstanceRunningStates, NoLocals, NewAWSMachine
<1>4. /\ TypeInv /\ TypeInv' /\ LaunchInv /\ FinalizerInv /\ DeletionInv /\ FailedInv
      /\ FoundInv /\ CreatedInv /\ [Next]_vars
      => FailedInv' /\ FoundInv' /\ CreatedInv'
  BY FailedStep, FoundStep, CreatedStep
<1>5. Init => BootstrapInv
  BY DEF Init, BootstrapInv, BootInv, Booting, NoneLive, Live, InstanceRunningStates,
         ToLaunch, Launching
<1>6. /\ TypeInv /\ TypeInv' /\ LaunchInv /\ FinalizerInv /\ DeletionInv /\ FailedInv
      /\ FoundInv /\ CreatedInv /\ BootstrapInv /\ [Next]_vars
      => BootstrapInv'
  BY BootStep DEF BootstrapInv
<1>7. BootstrapInv => BootstrapKept
  BY DEF BootstrapInv, BootInv, Booting, NoneLive, Recorded, Stored, BootstrapKept
<1> QED BY <1>1, <1>2, <1>3, <1>4, <1>5, <1>6, <1>7,
           TypeInit, TypeStep, LaunchInit, LaunchStep, PTL DEF Spec

=============================================================================

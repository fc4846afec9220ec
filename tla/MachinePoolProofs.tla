-------------------------- MODULE MachinePoolProofs --------------------------
(* What MachinePool promises for all constants: the launch template stays    *)
(* bounded and is changed only when a refresh can start, no machine of a     *)
(* running instance is deleted as an orphan, and the pool implements         *)
(* ResourceLifecycle.                                                        *)
EXTENDS MachinePool, SequenceTheorems, TLAPS

USE DEF Goto, awsVars, k8sVars, ctlVars, Nothing, Zeroable

-----------------------------------------------------------------------------
(* Type correctness *)

\* Labels at which GetRawBootstrapData has returned and its data is still used.
WithData == {"putObject", "createLT", "ltID", "ltVersion", "canStart", "prune",
             "delObject", "newVersion"}

\* The launch template is only reached with bootstrap data at hand.
DataKnown ==
    /\ pc \in {"findASG", "getLT"} => mp.data # Nothing
    /\ pc \in WithData => loc.data \in Datas

TypeInv == TypeOK /\ DataKnown

\* Nothing is no configuration and no bootstrap data.
LEMMA Nonzero == 0 \notin Configs /\ 0 \notin Datas /\ 0 \in HookSpecs /\ MaxFaults \in Nat
                 /\ MaxEdits \in Nat /\ Sizes \subseteq Nat /\ Modes \subseteq AllModes
BY PoolAssumption

\* The updates a reconcile and a user make to the AWSMachinePool.
LEMMA PoolType ==
    ASSUME NEW m \in AWSMachinePools
    PROVE  /\ \A b \in BOOLEAN : /\ [m EXCEPT !.finalizer = b] \in AWSMachinePools
                                 /\ [m EXCEPT !.ltID = b] \in AWSMachinePools
                                 /\ [m EXCEPT !.ver = b] \in AWSMachinePools
                                 /\ [m EXCEPT !.sus = b] \in AWSMachinePools
                                 /\ [m EXCEPT !.rebalance = b] \in AWSMachinePools
                                 /\ [m EXCEPT !.deleting = b] \in AWSMachinePools
                                 /\ [m EXCEPT !.exists = b] \in AWSMachinePools
           /\ \A c \in Configs : [m EXCEPT !.cfg = c] \in AWSMachinePools
           /\ \A k \in HookSpecs : [m EXCEPT !.hook = k] \in AWSMachinePools
           /\ \A n \in Sizes : [m EXCEPT !.max = n] \in AWSMachinePools
           /\ \A t \in SUBSET Tags : [m EXCEPT !.tags = t] \in AWSMachinePools
           /\ \A t \in SUBSET Tags, p \in SUBSET Ids :
                [m EXCEPT !.applied = t, !.pids = p] \in AWSMachinePools
BY DEF AWSMachinePools

\* A collected object is an AWSMachinePool with the same other fields.
LEMMA CollectedType ==
    ASSUME NEW o \in AWSMachinePools
    PROVE  /\ Collected(o) \in AWSMachinePools
           /\ Collected(o).deleting = o.deleting /\ Collected(o).finalizer = o.finalizer
           /\ Collected(o).exists = (o.exists /\ ~(o.deleting /\ ~o.finalizer))
BY DEF AWSMachinePools, Collected

\* What the patch helper stores.
LEMMA PatchType ==
    ASSUME TypeOK, NEW m \in AWSMachinePools, PatchObject(m) \/ PatchFails
    PROVE  /\ obj' \in AWSMachinePools /\ faults' \in 0 .. MaxFaults
           /\ obj'.deleting = obj.deleting
           /\ \/ UNCHANGED obj
              \/ /\ PatchObject(m) /\ obj.exists /\ obj'.finalizer = m.finalizer
                 /\ obj'.exists = ~(obj.deleting /\ ~m.finalizer)
<1> DEFINE o == [obj EXCEPT !.finalizer = m.finalizer, !.ltID = m.ltID,
                            !.ver = m.ver, !.applied = m.applied, !.pids = m.pids]
<1>1. /\ o \in AWSMachinePools /\ o.exists = obj.exists /\ o.deleting = obj.deleting
      /\ o.finalizer = m.finalizer
  BY DEF TypeOK, AWSMachinePools
<1>2. faults' \in 0 .. MaxFaults
  BY Nonzero DEF TypeOK, PatchObject, PatchFails, Fault, NoFault
<1>3. CASE PatchObject(m)
  <2>1. obj' = Collected(o) /\ obj.exists
    BY <1>3 DEF PatchObject
  <2>2. obj.exists \in BOOLEAN
    BY DEF TypeOK, AWSMachinePools
  <2> HIDE DEF o
  <2> QED BY <1>1, <1>2, <1>3, <2>1, <2>2, CollectedType
<1>4. CASE PatchFails
  BY <1>2, <1>4 DEF PatchFails, TypeOK
<1> QED BY <1>3, <1>4

\* The updates a reconcile makes to its local variables.
LEMMA LocType ==
    ASSUME NEW r \in Locals
    PROVE  /\ \A a \in ASGs, S \in SUBSET Ids : [r EXCEPT !.asg = a, !.ids = S] \in Locals
           /\ \A d \in Zeroable(Datas), c \in Seq(Versions) :
                [r EXCEPT !.data = d, !.cur = c] \in Locals
           /\ \A d \in Zeroable(Datas) : [r EXCEPT !.del = d] \in Locals
           /\ \A b \in BOOLEAN : [r EXCEPT !.more = b] \in Locals
           /\ \A n \in Nat : [r EXCEPT !.replicas = n] \in Locals
           /\ \A S \in SUBSET Ids : [r EXCEPT !.todo = S] \in Locals
           /\ \A S, T \in SUBSET Ids : [r EXCEPT !.list = S, !.todo = T] \in Locals
BY DEF Locals

\* The updates to the group.
LEMMA ASGType ==
    ASSUME NEW a \in ASGs
    PROVE  /\ \A k \in HookSpecs : [a EXCEPT !.hook = k] \in ASGs
           /\ \A b \in BOOLEAN : [a EXCEPT !.sus = b] \in ASGs
           /\ \A t \in SUBSET Tags : [a EXCEPT !.tags = t] \in ASGs
           /\ \A n \in Nat : [a EXCEPT !.desired = n] \in ASGs
           /\ \A n \in Nat, s \in Sizes, b \in BOOLEAN :
                [a EXCEPT !.desired = n, !.max = s, !.rebalance = b] \in ASGs
           /\ [a EXCEPT !.st = "deleting"] \in ASGs
BY DEF ASGs

\* The updates to the MachinePool and to the refresh.
LEMMA SmallTypes ==
    /\ \A m \in MachinePools :
         /\ m.data \in Zeroable(Datas) /\ m.replicas \in Nat
         /\ \A n \in Nat : /\ [m EXCEPT !.replicas = n] \in MachinePools
                           /\ [m EXCEPT !.replicas = n].data = m.data
         /\ \A d \in Datas : /\ [m EXCEPT !.data = d] \in MachinePools
                             /\ [m EXCEPT !.data = d].data = d
    /\ \A f \in Refreshes :
         /\ [f EXCEPT !.st = "Cancelling"] \in Refreshes
         /\ [f EXCEPT !.st = "InProgress"] \in Refreshes
         /\ \A i : [f EXCEPT !.todo = @ \ {i}] \in Refreshes
    /\ NoRefresh \in Refreshes
    /\ \A S \in SUBSET Ids : [st |-> "Pending", todo |-> S] \in Refreshes
BY DEF MachinePools, Refreshes, UnfinishedStates, NoRefresh

\* No group, and the local variables a reconcile starts with, have their types.
LEMMA StartTypes == /\ NoASG \in ASGs
                    /\ NoLocals \in Locals
                    /\ \A n \in Nat : [NoLocals EXCEPT !.replicas = n] \in Locals
<1>1. NoASG \in ASGs
  BY Nonzero DEF NoASG, ASGs
<1>2. NoLocals \in Locals
  BY <1>1 DEF NoLocals, Locals
<1> QED BY <1>1, <1>2, LocType

\* The initial states have their types.
LEMMA TypeInit == Init => TypeInv
<1> SUFFICES ASSUME Init PROVE TypeInv
  OBVIOUS
<1>1. obj \in AWSMachinePools /\ mp \in MachinePools /\ mem = obj
  BY Nonzero DEF Init, AWSMachinePools, MachinePools
<1>2. lt \in Seq(Versions) /\ edits \in 0 .. MaxEdits /\ faults \in 0 .. MaxFaults
  BY Nonzero DEF Init
<1>3. /\ ins \in [Ids -> Zeroable(Configs)]
      /\ refresh \in Refreshes
      /\ objects \subseteq Datas /\ ams \in [Ids -> AMs] /\ seen \subseteq Ids
  BY DEF Init, NoRefresh, NoMachine, AMs, Refreshes, UnfinishedStates
<1>4. pc \in Labels /\ mode \in Modes /\ missed \in BOOLEAN /\ DataKnown
  BY DEF Init, Labels, DataKnown, WithData
<1>5. asg \in ASGs /\ loc \in Locals
  BY StartTypes DEF Init
<1> QED BY <1>1, <1>2, <1>3, <1>4, <1>5 DEF TypeInv, TypeOK

\* A fault counts.
LEMMA FaultType ==
    ASSUME faults \in 0 .. MaxFaults, NEW k, Fault(k) \/ NoFault
    PROVE  faults' \in 0 .. MaxFaults
BY Nonzero DEF Fault, NoFault

\* Labels of the steps in the middle of a reconcile.
LEMMA LabelType ==
    /\ AfterLaunchTemplate \in {"createASG", "list", "hooks"}
    /\ \A c : LTLabel(c) \in {"createLT", "ltID"}
    /\ AfterComparison \in {"canStart", "prune", AfterLaunchTemplate}
    /\ AfterFinalizer \in {"close", "findASG"}
    /\ DeleteLabel \in {"dASG", "dGetLT"}
BY DEF AfterLaunchTemplate, LTLabel, AfterComparison, AfterFinalizer, DeleteLabel

\* Removing the version that is pruned leaves a sequence of versions.
LEMMA WithoutType ==
    ASSUME NEW S, NEW s \in Seq(S), NEW k \in 1 .. Len(s)
    PROVE  /\ Without(s, k) \in Seq(S)
           /\ Len(Without(s, k)) = Len(s) - 1
<1> DEFINE a == SubSeq(s, 1, k - 1)
           b == SubSeq(s, k + 1, Len(s))
<1>1. k \in Nat /\ k >= 1 /\ k <= Len(s) /\ Len(s) \in Nat
  OBVIOUS
<1>2. a \in Seq(S) /\ Len(a) = k - 1
  BY <1>1
<1>3. b \in Seq(S) /\ Len(b) = Len(s) - k
  BY <1>1
<1>4. Without(s, k) = a \o b
  BY DEF Without
<1> HIDE DEF a, b
<1>5. Without(s, k) \in Seq(S) /\ Len(Without(s, k)) = Len(a) + Len(b)
  BY <1>2, <1>3, <1>4, ConcatProperties
<1> QED BY <1>1, <1>2, <1>3, <1>5

\* The versions PruneLaunchTemplateVersions looks at exist.
LEMMA PrunedExists ==
    ASSUME lt \in Seq(Versions), Len(lt) >= MinCountToAllowPrune, NEW k \in VersionToPrune
    PROVE  k \in 1 .. Len(lt)
BY DEF MinCountToAllowPrune, VersionToPrune

\* Every step keeps the types.
LEMMA TypeStep == TypeInv /\ [Next]_vars => TypeInv'
<1> SUFFICES ASSUME TypeInv, [Next]_vars PROVE TypeInv'
  OBVIOUS
<1> USE DEF TypeInv
<1>0. TypeOK /\ DataKnown
  OBVIOUS
<1>a. /\ obj \in AWSMachinePools /\ mem \in AWSMachinePools /\ loc \in Locals
      /\ asg \in ASGs /\ lt \in Seq(Versions) /\ faults \in 0 .. MaxFaults /\ mode \in Modes
      /\ mp \in MachinePools /\ ins \in [Ids -> Zeroable(Configs)]
      /\ ams \in [Ids -> AMs] /\ seen \subseteq Ids /\ objects \subseteq Datas
      /\ refresh \in Refreshes
      /\ missed \in BOOLEAN /\ edits \in 0 .. MaxEdits
  BY <1>0, Nonzero DEF TypeOK
<1>b. /\ loc.asg \in ASGs /\ loc.ids \subseteq Ids /\ loc.list \subseteq Ids /\ loc.todo \subseteq Ids
      /\ loc.replicas \in Nat /\ loc.data \in Zeroable(Datas) /\ loc.del \in Zeroable(Datas)
  BY <1>a DEF Locals
<1>c. /\ mem.cfg \in Configs /\ mem.hook \in HookSpecs /\ mem.max \in Sizes /\ mem.max \in Nat
      /\ mem.sus \in BOOLEAN /\ mem.rebalance \in BOOLEAN /\ mem.tags \subseteq Tags
      /\ mem.applied \subseteq Tags
  BY <1>a, Nonzero DEF AWSMachinePools
<1>d. asg.desired \in Nat /\ asg.tags \subseteq Tags /\ loc.asg.desired \in Nat
  BY <1>a, <1>b DEF ASGs
<1>e. SUFFICES ASSUME Next PROVE TypeInv'
  BY <1>0 DEF vars, TypeOK, DataKnown
<1>1. CASE Reconcile
  <2>1. mp.replicas \in Nat
    BY <1>a, SmallTypes
  <2>2. loc' \in Locals
    BY <1>1, <2>1, StartTypes DEF Reconcile
  <2>3. pc' \in {"finalizer", "dMachines", "dFindASG"}
    BY <1>1 DEF Reconcile
  <2>u. UNCHANGED <<lt, asg, ins, refresh, objects, obj, mp, ams, seen, mode, missed, edits, faults>>
    BY <1>1 DEF Reconcile
  <2>l. pc' \in Labels /\ DataKnown'
    BY <1>0, <1>1, <2>u, <2>2, <2>3
    DEF Reconcile, Labels, DataKnown, WithData
  <2>4. mem' \in AWSMachinePools
    BY <1>a, <1>1 DEF Reconcile
  <2> QED BY <1>a, <2>u, <2>l, <2>2, <2>4 DEF TypeOK
<1>2. CASE AddFinalizer
  <2>1. mem' \in AWSMachinePools
    BY <1>a, <1>2, PoolType DEF AddFinalizer
  <2>2. obj' \in AWSMachinePools /\ faults' \in 0 .. MaxFaults
    BY <1>0, <1>a, <1>2, <2>1, PatchType DEF AddFinalizer, PatchThen, NoFault
  <2>3. pc' \in {AfterFinalizer, "close"} /\ (pc' = "findASG" => mp.data # Nothing)
    BY <1>2 DEF AddFinalizer, PatchThen, AfterFinalizer
  <2>u. UNCHANGED <<lt, asg, ins, refresh, objects, mp, ams, seen, loc, mode, missed, edits>>
    BY <1>2 DEF AddFinalizer
  <2>l. pc' \in Labels /\ DataKnown'
    BY <1>0, <1>2, <2>u, <2>1, <2>2, <2>3, LabelType
    DEF AddFinalizer, Labels, DataKnown, WithData
  <2> QED BY <1>a, <2>u, <2>l, <2>1, <2>2, <2>3 DEF TypeOK
<1>3. CASE FindASG
  <2>1. loc' \in Locals
    BY <1>a, <1>3, LocType DEF FindASG, Running
  <2>u. UNCHANGED <<lt, asg, ins, refresh, objects, obj, mp, ams, seen, mem, mode, missed, edits, faults>>
    BY <1>3 DEF FindASG
  <2>l. pc' \in Labels /\ DataKnown'
    BY <1>0, <1>3, <2>u, <2>1
    DEF FindASG, Labels, DataKnown, WithData
  <2> QED BY <1>a, <2>u, <2>l, <2>1 DEF TypeOK
<1>4. CASE GetLaunchTemplate
  <2>1. (IF lt = <<>> THEN <<>> ELSE <<lt[Len(lt)]>>) \in Seq(Versions)
    <3>1. CASE lt # <<>>
      <4>1. lt[Len(lt)] \in Versions
        BY <1>a, <3>1
      <4> QED BY <3>1, <4>1
    <3>2. CASE lt = <<>>
      BY <3>2
    <3> QED BY <3>1, <3>2
  <2>2. mp.data \in Datas
    BY <1>0, <1>a, <1>4, SmallTypes DEF GetLaunchTemplate, DataKnown
  <2>3. loc' \in Locals /\ loc'.data = mp.data
    <3>1. mp.data \in Zeroable(Datas)
      BY <2>2
    <3>2. loc' \in Locals
      BY <1>a, <1>4, <2>1, <3>1, LocType DEF GetLaunchTemplate
    <3>3. loc'.data = mp.data
      BY <1>a, <1>4 DEF GetLaunchTemplate, Locals
    <3> QED BY <3>2, <3>3
  <2>4. pc' \in {"putObject", "createLT", "ltID"}
    BY <1>4, LabelType DEF GetLaunchTemplate
  <2>u. UNCHANGED <<lt, asg, ins, refresh, objects, obj, mp, ams, seen, mem, mode, missed, edits, faults>>
    BY <1>4 DEF GetLaunchTemplate
  <2>l. pc' \in Labels /\ DataKnown'
    BY <1>0, <1>4, <2>u, <2>2, <2>3, <2>4
    DEF GetLaunchTemplate, Labels, DataKnown, WithData
  <2> QED BY <1>a, <2>u, <2>l, <2>2, <2>3, <2>4 DEF TypeOK
<1>5. CASE CreateForMachinePool
  <2>1. loc.data \in Datas /\ pc' \in {"createLT", "ltID"} /\ UNCHANGED loc
    BY <1>0, <1>5, LabelType DEF CreateForMachinePool, DataKnown, WithData
  <2>2. objects' \subseteq Datas
    BY <1>a, <1>5, <2>1 DEF CreateForMachinePool
  <2>u. UNCHANGED <<lt, asg, ins, refresh, obj, mp, ams, seen, mem, loc, mode, missed, edits, faults>>
    BY <1>5 DEF CreateForMachinePool
  <2>l. pc' \in Labels /\ DataKnown'
    BY <1>0, <1>5, <2>u, <2>1, <2>2
    DEF CreateForMachinePool, Labels, DataKnown, WithData
  <2> QED BY <1>a, <2>u, <2>l, <2>1, <2>2 DEF TypeOK
<1>6. CASE CreateLaunchTemplate
  <2>1. NewVersion \in Versions
    BY <1>0, <1>c, <1>6 DEF CreateLaunchTemplate, NewVersion, Versions, DataKnown, WithData
  <2>2. lt' \in Seq(Versions)
    BY <1>6, <2>1 DEF CreateLaunchTemplate
  <2>3. mem' \in AWSMachinePools
    BY <1>a, <1>6, PoolType DEF CreateLaunchTemplate
  <2>u. UNCHANGED <<asg, ins, refresh, objects, obj, mp, ams, seen, loc, mode, missed, edits, faults>>
    BY <1>6 DEF CreateLaunchTemplate
  <2>l. pc' \in Labels /\ DataKnown'
    BY <1>0, <1>6, <2>u, <2>2
    DEF CreateLaunchTemplate, Labels, DataKnown, WithData
  <2> QED BY <1>a, <2>u, <2>l, <2>2, <2>3 DEF TypeOK
<1>7. CASE PatchLaunchTemplateID
  <2>1. obj' \in AWSMachinePools /\ faults' \in 0 .. MaxFaults
    BY <1>0, <1>a, <1>7, PatchType DEF PatchLaunchTemplateID, PatchThen
  <2>2. pc' \in {AfterLaunchTemplate, "close"}
    BY <1>7 DEF PatchLaunchTemplateID, PatchThen
  <2>u. UNCHANGED <<lt, asg, ins, refresh, objects, mp, ams, seen, mem, loc, mode, missed, edits>>
    BY <1>7 DEF PatchLaunchTemplateID
  <2>l. pc' \in Labels /\ DataKnown'
    BY <1>0, <1>7, <2>u, <2>1, <2>2, LabelType
    DEF PatchLaunchTemplateID, Labels, DataKnown, WithData
  <2> QED BY <1>a, <2>u, <2>l, <2>1, <2>2 DEF TypeOK
<1>8. CASE RecordLaunchTemplateID
  <2>1. mem' \in AWSMachinePools
    BY <1>a, <1>8, PoolType DEF RecordLaunchTemplateID
  <2>2. obj' \in AWSMachinePools /\ faults' \in 0 .. MaxFaults
    BY <1>0, <1>a, <1>8, <2>1, PatchType DEF RecordLaunchTemplateID, PatchThen, NoFault
  <2>3. pc' \in {"ltVersion", "close"} /\ loc.data \in Datas
    BY <1>0, <1>8 DEF RecordLaunchTemplateID, PatchThen, DataKnown, WithData
  <2>u. UNCHANGED <<lt, asg, ins, refresh, objects, mp, ams, seen, loc, mode, missed, edits>>
    BY <1>8 DEF RecordLaunchTemplateID
  <2>l. pc' \in Labels /\ DataKnown'
    BY <1>0, <1>8, <2>u, <2>1, <2>2, <2>3
    DEF RecordLaunchTemplateID, Labels, DataKnown, WithData
  <2> QED BY <1>a, <2>u, <2>l, <2>1, <2>2, <2>3 DEF TypeOK
<1>9. CASE RecordLaunchTemplateVersion
  <2>1. mem' \in AWSMachinePools
    BY <1>a, <1>9, PoolType DEF RecordLaunchTemplateVersion
  <2>2. obj' \in AWSMachinePools /\ faults' \in 0 .. MaxFaults
    BY <1>0, <1>a, <1>9, <2>1, PatchType DEF RecordLaunchTemplateVersion, PatchThen, NoFault
  <2>3. pc' \in {AfterComparison, "close"} /\ loc.data \in Datas
    BY <1>0, <1>9 DEF RecordLaunchTemplateVersion, PatchThen, DataKnown, WithData
  <2>4. loc' \in Locals /\ loc'.data = loc.data
    <3>1. MoreChanged \in BOOLEAN
      BY DEF MoreChanged
    <3>2. loc' = [loc EXCEPT !.more = MoreChanged]
      BY <1>9 DEF RecordLaunchTemplateVersion
    <3>3. loc' \in Locals
      BY <1>a, <3>1, <3>2, LocType
    <3>4. loc'.data = loc.data
      BY <1>a, <3>2 DEF Locals
    <3> QED BY <3>3, <3>4
  <2>u. UNCHANGED <<lt, asg, ins, refresh, objects, mp, ams, seen, mode, missed, edits>>
    BY <1>9 DEF RecordLaunchTemplateVersion
  <2>l. pc' \in Labels /\ DataKnown'
    BY <1>0, <1>9, <2>u, <2>1, <2>2, <2>3, <2>4, LabelType
    DEF RecordLaunchTemplateVersion, Labels, DataKnown, WithData
  <2> QED BY <1>a, <2>u, <2>l, <2>1, <2>2, <2>3, <2>4 DEF TypeOK
<1>10. CASE CanStartASGInstanceRefresh \/ CancelASGInstanceRefresh
  <2>1. refresh' \in Refreshes
    BY <1>a, <1>10, SmallTypes DEF CanStartASGInstanceRefresh, CancelASGInstanceRefresh
  <2>2. pc' \in {"close", "cancel"} \/ (pc = "canStart" /\ pc' = "prune")
    BY <1>10 DEF CanStartASGInstanceRefresh, CancelASGInstanceRefresh
  <2>u. UNCHANGED <<lt, asg, ins, objects, obj, mp, ams, seen, mem, loc, mode, missed, edits, faults>>
    BY <1>10 DEF CanStartASGInstanceRefresh, CancelASGInstanceRefresh
  <2>l. pc' \in Labels /\ DataKnown'
    BY <1>0, <1>10, <2>u, <2>1, <2>2
    DEF CanStartASGInstanceRefresh, CancelASGInstanceRefresh, Labels, DataKnown, WithData
  <2> QED BY <1>a, <2>u, <2>l, <2>1, <2>2 DEF TypeOK
<1>11. CASE PruneLaunchTemplateVersions
  <2>1. pc' \in {"delObject", "newVersion"} /\ loc.data \in Datas
    BY <1>0, <1>11 DEF PruneLaunchTemplateVersions, DataKnown, WithData
  <2>2. ASSUME NEW k \in VersionToPrune, Len(lt) >= MinCountToAllowPrune,
               lt' = Without(lt, k), loc' = [loc EXCEPT !.del = lt[k].data]
        PROVE  lt' \in Seq(Versions) /\ loc' \in Locals /\ loc'.data = loc.data
    <3>1. k \in 1 .. Len(lt)
      BY <1>a, <2>2, PrunedExists
    <3>2. lt[k] \in Versions
      BY <1>a, <3>1
    <3>3. lt[k].data \in Zeroable(Datas)
      BY <3>2 DEF Versions
    <3> QED BY <1>a, <2>2, <3>1, <3>3, WithoutType, LocType DEF Locals
  <2>3. lt' \in Seq(Versions) /\ loc' \in Locals /\ loc'.data = loc.data
    BY <1>a, <1>11, <2>2 DEF PruneLaunchTemplateVersions
  <2>u. UNCHANGED <<asg, ins, refresh, objects, obj, mp, ams, seen, mem, mode, missed, edits, faults>>
    BY <1>11 DEF PruneLaunchTemplateVersions
  <2>l. pc' \in Labels /\ DataKnown'
    BY <1>0, <1>11, <2>u, <2>1, <2>3
    DEF PruneLaunchTemplateVersions, Labels, DataKnown, WithData
  <2> QED BY <1>a, <2>u, <2>l, <2>1, <2>3 DEF TypeOK
<1>12. CASE DeleteForMachinePool
  <2>1. objects' \subseteq Datas
    BY <1>a, <1>12 DEF DeleteForMachinePool
  <2>u. UNCHANGED <<lt, asg, ins, refresh, obj, mp, ams, seen, mem, loc, mode, missed, edits, faults>>
    BY <1>12 DEF DeleteForMachinePool
  <2>l. pc' \in Labels /\ DataKnown'
    BY <1>0, <1>12, <2>u, <2>1
    DEF DeleteForMachinePool, Labels, DataKnown, WithData
  <2> QED BY <1>a, <2>u, <2>l, <2>1 DEF TypeOK
<1>13. CASE CreateLaunchTemplateVersion
  <2>1. NewVersion \in Versions
    BY <1>0, <1>c, <1>13 DEF CreateLaunchTemplateVersion, NewVersion, Versions, DataKnown, WithData
  <2>2. lt' \in Seq(Versions)
    BY <1>a, <1>13, <2>1 DEF CreateLaunchTemplateVersion
  <2>u. UNCHANGED <<asg, ins, refresh, objects, obj, mp, ams, seen, mem, loc, mode, missed, edits, faults>>
    BY <1>13 DEF CreateLaunchTemplateVersion
  <2>l. pc' \in Labels /\ DataKnown'
    BY <1>0, <1>13, <2>u, <2>2
    DEF CreateLaunchTemplateVersion, Labels, DataKnown, WithData
  <2> QED BY <1>a, <2>u, <2>l, <2>2 DEF TypeOK
<1>14. CASE PatchLaunchTemplateVersion
  <2>1. mem' \in AWSMachinePools
    BY <1>a, <1>14, PoolType DEF PatchLaunchTemplateVersion
  <2>2. obj' \in AWSMachinePools /\ faults' \in 0 .. MaxFaults
    BY <1>0, <1>a, <1>14, <2>1, PatchType DEF PatchLaunchTemplateVersion
  <2>3. pc' \in {"refresh", "close", AfterLaunchTemplate} /\ missed' \in BOOLEAN
    BY <1>a, <1>14 DEF PatchLaunchTemplateVersion, RefreshDue
  <2>u. UNCHANGED <<lt, asg, ins, refresh, objects, mp, ams, seen, loc, mode, edits>>
    BY <1>14 DEF PatchLaunchTemplateVersion
  <2>l. pc' \in Labels /\ DataKnown'
    BY <1>0, <1>14, <2>u, <2>1, <2>2, <2>3, LabelType
    DEF PatchLaunchTemplateVersion, Labels, DataKnown, WithData
  <2> QED BY <1>a, <2>u, <2>l, <2>1, <2>2, <2>3 DEF TypeOK
<1>15. CASE StartASGInstanceRefresh
  <2>1. refresh' \in Refreshes /\ missed' \in BOOLEAN
    <3>1. Running \in SUBSET Ids
      BY DEF Running
    <3> QED BY <1>a, <1>15, <3>1, SmallTypes DEF StartASGInstanceRefresh
  <2>2. pc' \in {AfterLaunchTemplate, "close"}
    BY <1>15 DEF StartASGInstanceRefresh
  <2>u. UNCHANGED <<lt, asg, ins, objects, obj, mp, ams, seen, mem, loc, mode, edits, faults>>
    BY <1>15 DEF StartASGInstanceRefresh
  <2>l. pc' \in Labels /\ DataKnown'
    BY <1>0, <1>15, <2>u, <2>1, <2>2, LabelType
    DEF StartASGInstanceRefresh, Labels, DataKnown, WithData
  <2> QED BY <1>a, <2>u, <2>l, <2>1, <2>2 DEF TypeOK
<1>16. CASE CreateASG
  <2>1. asg' \in ASGs
    <3>1. ASSUME NEW n \in Nat
          PROVE  [st |-> "active", max |-> mem.max, hook |-> mem.hook, sus |-> FALSE,
                  rebalance |-> mem.rebalance, tags |-> mem.tags, desired |-> n] \in ASGs
      BY <1>c DEF ASGs
    <3>2. (IF InRange(loc.replicas, mem) THEN loc.replicas ELSE MinSize) \in Nat
      BY <1>b DEF MinSize
    <3> QED BY <1>a, <1>16, <3>1, <3>2 DEF CreateASG
  <2>u. UNCHANGED <<lt, ins, refresh, objects, obj, mp, ams, seen, mem, loc, mode, missed, edits, faults>>
    BY <1>16 DEF CreateASG
  <2>l. pc' \in Labels /\ DataKnown'
    BY <1>0, <1>16, <2>u, <2>1
    DEF CreateASG, Labels, DataKnown, WithData
  <2> QED BY <1>a, <2>u, <2>l, <2>1 DEF TypeOK
<1>17. CASE GetAWSMachines
  <2>1. loc' \in Locals
    BY <1>a, <1>b, <1>17, LocType DEF GetAWSMachines
  <2>u. UNCHANGED <<lt, asg, ins, refresh, objects, obj, mp, ams, seen, mem, mode, missed, edits, faults>>
    BY <1>17 DEF GetAWSMachines
  <2>l. pc' \in Labels /\ DataKnown'
    BY <1>0, <1>17, <2>u, <2>1
    DEF GetAWSMachines, Labels, DataKnown, WithData
  <2> QED BY <1>a, <2>u, <2>l, <2>1 DEF TypeOK
<1>18. CASE CreateAWSMachinesIfNotExists
  <2>1. loc' \in Locals
    <3>1. \A S \in SUBSET Ids : [loc EXCEPT !.todo = S] \in Locals
      BY <1>a, LocType
    <3>2. Orphans \in SUBSET Ids /\ \A i : loc.todo \ {i} \in SUBSET Ids
      BY <1>b DEF Orphans
    <3>3. \E S \in SUBSET Ids : loc' = [loc EXCEPT !.todo = S]
      BY <1>18, <3>2 DEF CreateAWSMachinesIfNotExists
    <3> QED BY <3>1, <3>3
  <2>2. ams' \in [Ids -> AMs] /\ pc' \in {"createMachines", "orphans"}
    BY <1>a, <1>b, <1>18 DEF CreateAWSMachinesIfNotExists, AMs
  <2>u. UNCHANGED <<lt, asg, ins, refresh, objects, obj, mp, seen, mem, mode, missed, edits, faults>>
    BY <1>18 DEF CreateAWSMachinesIfNotExists
  <2>l. pc' \in Labels /\ DataKnown'
    BY <1>0, <1>18, <2>u, <2>1, <2>2
    DEF CreateAWSMachinesIfNotExists, Labels, DataKnown, WithData
  <2> QED BY <1>a, <2>u, <2>l, <2>1, <2>2 DEF TypeOK
<1>19. CASE DeleteOrphanedAWSMachines
  <2>1. loc' \in Locals
    <3>1. \A i : loc.todo \ {i} \in SUBSET Ids
      BY <1>b
    <3>2. \A i : [loc EXCEPT !.todo = loc.todo \ {i}] \in Locals
      BY <1>a, <3>1, LocType
    <3>3. UNCHANGED loc \/ \E i \in loc.todo : loc' = [loc EXCEPT !.todo = loc.todo \ {i}]
      BY <1>19 DEF DeleteOrphanedAWSMachines
    <3> QED BY <1>a, <3>2, <3>3
  <2>2. pc' \in {"hooks", "close", "orphans"}
    BY <1>19 DEF DeleteOrphanedAWSMachines
  <2>3. ams' \in [Ids -> AMs]
    <3>1. \A i \in Ids : /\ [ams EXCEPT ![i].st = "deleting"] \in [Ids -> AMs]
                         /\ [ams EXCEPT ![i].owner = "deleted"] \in [Ids -> AMs]
      BY <1>a DEF AMs
    <3>2. UNCHANGED ams \/ \E i \in Ids : \/ ams' = [ams EXCEPT ![i].st = "deleting"]
                                           \/ ams' = [ams EXCEPT ![i].owner = "deleted"]
      BY <1>b, <1>19 DEF DeleteOrphanedAWSMachines
    <3> QED BY <1>a, <3>1, <3>2
  <2>u. UNCHANGED <<lt, asg, ins, refresh, objects, obj, mp, seen, mem, mode, missed, edits, faults>>
    BY <1>19 DEF DeleteOrphanedAWSMachines
  <2>l. pc' \in Labels /\ DataKnown'
    BY <1>0, <1>19, <2>u, <2>1, <2>2, <2>3
    DEF DeleteOrphanedAWSMachines, Labels, DataKnown, WithData
  <2> QED BY <1>a, <2>u, <2>l, <2>1, <2>2, <2>3 DEF TypeOK
<1>20. CASE ReconcileLifecycleHooks \/ UpdateProcesses
  <2>1. asg' \in ASGs
    <3>1. [asg EXCEPT !.hook = mem.hook] \in ASGs /\ [asg EXCEPT !.sus = mem.sus] \in ASGs
      BY <1>a, <1>c, ASGType
    <3> QED BY <1>a, <1>20, <3>1 DEF ReconcileLifecycleHooks, UpdateProcesses
  <2>u. UNCHANGED <<lt, ins, refresh, objects, obj, mp, ams, seen, mem, loc, mode, missed, edits, faults>>
    BY <1>20 DEF ReconcileLifecycleHooks, UpdateProcesses
  <2>l. pc' \in Labels /\ DataKnown'
    BY <1>0, <1>20, <2>u, <2>1
    DEF ReconcileLifecycleHooks, UpdateProcesses, Labels, DataKnown, WithData
  <2> QED BY <1>a, <2>u, <2>l, <2>1 DEF TypeOK
<1>21. CASE SetReplicas
  <2>1. loc' \in Locals
    <3>1. [loc EXCEPT !.replicas = loc.asg.desired] \in Locals
      BY <1>a, <1>d, LocType
    <3> QED BY <1>a, <1>21, <3>1 DEF SetReplicas
  <2>2. mp' \in MachinePools /\ pc' \in {"updateASG", "close"}
    BY <1>a, <1>d, <1>21, SmallTypes DEF SetReplicas
  <2>3. faults' \in 0 .. MaxFaults
    BY <1>a, <1>21, FaultType DEF SetReplicas
  <2>u. UNCHANGED <<lt, asg, ins, refresh, objects, obj, ams, seen, mem, mode, missed, edits>>
    BY <1>21 DEF SetReplicas
  <2>l. pc' \in Labels /\ DataKnown'
    BY <1>0, <1>21, <2>u, <2>1, <2>2, <2>3
    DEF SetReplicas, Labels, DataKnown, WithData
  <2> QED BY <1>a, <2>u, <2>l, <2>1, <2>2, <2>3 DEF TypeOK
<1>22. CASE UpdateASG
  <2>1. UpdatedCapacity \in Nat
    BY <1>b, <1>c, <1>d DEF UpdatedCapacity
  <2>2. asg' \in ASGs
    <3>1. [asg EXCEPT !.desired = UpdatedCapacity, !.max = mem.max,
                      !.rebalance = mem.rebalance] \in ASGs
      BY <1>a, <1>c, <2>1, ASGType
    <3> QED BY <1>a, <1>22, <3>1 DEF UpdateASG
  <2>u. UNCHANGED <<lt, ins, refresh, objects, obj, mp, ams, seen, mem, loc, mode, missed, edits, faults>>
    BY <1>22 DEF UpdateASG
  <2>l. pc' \in Labels /\ DataKnown'
    BY <1>0, <1>22, <2>u, <2>2
    DEF UpdateASG, Labels, DataKnown, WithData
  <2> QED BY <1>a, <2>u, <2>l, <2>2 DEF TypeOK
<1>23. CASE ReconcileTags
  <2>1. asg' \in ASGs
    BY <1>a, <1>c, <1>d, <1>23, ASGType DEF ReconcileTags, UpdatedTags
  <2>2. mem' \in AWSMachinePools
    BY <1>a, <1>b, <1>c, <1>23, PoolType DEF ReconcileTags
  <2>u. UNCHANGED <<lt, ins, refresh, objects, obj, mp, ams, seen, loc, mode, missed, edits, faults>>
    BY <1>23 DEF ReconcileTags
  <2>l. pc' \in Labels /\ DataKnown'
    BY <1>0, <1>23, <2>u, <2>1, <2>2
    DEF ReconcileTags, Labels, DataKnown, WithData
  <2> QED BY <1>a, <2>u, <2>l, <2>1, <2>2 DEF TypeOK
<1>24. CASE ReconcileDeleteAWSMachines
  <2>1. ams' \in [Ids -> AMs]
    BY <1>a, <1>24 DEF ReconcileDeleteAWSMachines, AMs
  <2>u. UNCHANGED <<lt, asg, ins, refresh, objects, obj, mp, seen, mem, loc, mode, missed, edits, faults>>
    BY <1>24 DEF ReconcileDeleteAWSMachines
  <2>l. pc' \in Labels /\ DataKnown'
    BY <1>0, <1>24, <2>u, <2>1
    DEF ReconcileDeleteAWSMachines, Labels, DataKnown, WithData
  <2> QED BY <1>a, <2>u, <2>l, <2>1 DEF TypeOK
<1>25. CASE FindASGToDelete
  <2>u. UNCHANGED <<lt, asg, ins, refresh, objects, obj, mp, ams, seen, mem, loc, mode, missed, edits, faults>>
    BY <1>25 DEF FindASGToDelete
  <2>l. pc' \in Labels /\ DataKnown'
    BY <1>0, <1>25, <2>u, LabelType
    DEF FindASGToDelete, Labels, DataKnown, WithData
  <2> QED BY <1>a, <2>u, <2>l DEF TypeOK
<1>26. CASE DeleteASG
  <2>1. asg' \in ASGs
    BY <1>a, <1>26, ASGType DEF DeleteASG
  <2>u. UNCHANGED <<lt, ins, refresh, objects, obj, mp, ams, seen, mem, loc, mode, missed, edits, faults>>
    BY <1>26 DEF DeleteASG
  <2>l. pc' \in Labels /\ DataKnown'
    BY <1>0, <1>26, <2>u, <2>1
    DEF DeleteASG, Labels, DataKnown, WithData
  <2> QED BY <1>a, <2>u, <2>l, <2>1 DEF TypeOK
<1>27. CASE WaitASGDeleted
  <2>1. faults' \in 0 .. MaxFaults
    BY <1>a, <1>27, FaultType DEF WaitASGDeleted
  <2>u. UNCHANGED <<lt, asg, ins, refresh, objects, obj, mp, ams, seen, mem, loc, mode, missed, edits>>
    BY <1>27 DEF WaitASGDeleted
  <2>l. pc' \in Labels /\ DataKnown'
    BY <1>0, <1>27, <2>u, <2>1
    DEF WaitASGDeleted, Labels, DataKnown, WithData
  <2> QED BY <1>a, <2>u, <2>l, <2>1 DEF TypeOK
<1>28. CASE GetLaunchTemplateToDelete \/ DeleteLaunchTemplate
  <2>0. lt' \in Seq(Versions)
    <3>1. UNCHANGED lt \/ lt' = <<>>
      BY <1>28 DEF GetLaunchTemplateToDelete, DeleteLaunchTemplate
    <3>2. <<>> \in Seq(Versions)
      OBVIOUS
    <3> QED BY <1>a, <3>1, <3>2
  <2>1. mem' \in AWSMachinePools
    BY <1>a, <1>28, PoolType DEF GetLaunchTemplateToDelete, DeleteLaunchTemplate
  <2>u. UNCHANGED <<asg, ins, refresh, objects, obj, mp, ams, seen, loc, mode, missed, edits, faults>>
    BY <1>28 DEF GetLaunchTemplateToDelete, DeleteLaunchTemplate
  <2>l. pc' \in Labels /\ DataKnown'
    BY <1>0, <1>28, <2>u, <2>1
    DEF GetLaunchTemplateToDelete, DeleteLaunchTemplate, Labels, DataKnown, WithData
  <2> QED BY <1>a, <2>u, <2>l, <2>0, <2>1 DEF TypeOK
<1>29. CASE Close
  <2>1. obj' \in AWSMachinePools /\ faults' \in 0 .. MaxFaults
    BY <1>0, <1>a, <1>29, PatchType DEF Close
  <2>u. UNCHANGED <<lt, asg, ins, refresh, objects, mp, ams, seen, mode, missed, edits>>
    BY <1>29 DEF Close
  <2>l. pc' \in Labels /\ DataKnown'
    BY <1>0, <1>29, <2>u, <2>1
    DEF Close, Labels, DataKnown, WithData
  <2>2. mem' \in AWSMachinePools /\ loc' \in Locals
    BY <1>29, <2>1, StartTypes DEF Close
  <2> QED BY <1>a, <2>u, <2>l, <2>1, <2>2 DEF TypeOK
<1>30. CASE CallFails \/ Crash
  <2>1. faults' \in 0 .. MaxFaults /\ missed' \in BOOLEAN
    BY <1>a, <1>30, FaultType DEF CallFails, Crash, RefreshDue
  <2>u. UNCHANGED <<lt, asg, ins, refresh, objects, obj, mp, ams, seen, mode, edits>>
    BY <1>30 DEF CallFails, Crash
  <2>l. pc' \in Labels /\ DataKnown'
    BY <1>0, <1>30, <2>u, <2>1
    DEF CallFails, Crash, Labels, DataKnown, WithData
  <2>2. mem' \in AWSMachinePools /\ loc' \in Locals
    BY <1>a, <1>30, StartTypes DEF CallFails, Crash
  <2> QED BY <1>a, <2>u, <2>l, <2>1, <2>2 DEF TypeOK
<1>31. CASE ASGProgress
  <2>1. ASSUME lt # <<>> PROVE lt[Len(lt)].cfg \in Zeroable(Configs)
    <3>1. lt[Len(lt)] \in Versions
      BY <1>a, <2>1
    <3> QED BY <3>1 DEF Versions
  <2>2. ins' \in [Ids -> Zeroable(Configs)]
    BY <1>a, <1>31, <2>1 DEF ASGProgress, FreshIds, Running
  <2>3. asg' \in ASGs /\ refresh' \in Refreshes
    BY <1>a, <1>31, StartTypes, SmallTypes DEF ASGProgress
  <2>u. UNCHANGED <<lt, objects, obj, mp, ams, seen, mem, loc, mode, missed, edits, faults, pc>>
    BY <1>31 DEF ASGProgress
  <2>l. pc' \in Labels /\ DataKnown'
    BY <1>0, <2>u, <2>2, <2>3 DEF TypeOK, DataKnown
  <2> QED BY <1>a, <2>u, <2>l, <2>2, <2>3 DEF TypeOK
<1>32. CASE InstanceLost
  <2>1. ins' \in [Ids -> Zeroable(Configs)] /\ faults' \in 0 .. MaxFaults
    BY <1>a, <1>32, FaultType DEF InstanceLost, Running
  <2>u. UNCHANGED <<lt, asg, refresh, objects, obj, mp, ams, seen, mem, loc, mode, missed, edits, pc>>
    BY <1>32 DEF InstanceLost
  <2>l. pc' \in Labels /\ DataKnown'
    BY <1>0, <2>u, <2>1 DEF TypeOK, DataKnown
  <2> QED BY <1>a, <2>u, <2>l, <2>1 DEF TypeOK
<1>33. CASE RefreshProgress
  <2>1. /\ ins' \in [Ids -> Zeroable(Configs)]
        /\ refresh' \in Refreshes
    <3>1. \A i \in Ids : [ins EXCEPT ![i] = Nothing] \in [Ids -> Zeroable(Configs)]
      BY <1>a
    <3>2. UNCHANGED ins \/ \E i \in Ids : ins' = [ins EXCEPT ![i] = Nothing]
      BY <1>33 DEF RefreshProgress, Running
    <3>3. \/ refresh' = NoRefresh \/ refresh' = [refresh EXCEPT !.st = "InProgress"]
          \/ \E i \in Ids : refresh' = [refresh EXCEPT !.todo = @ \ {i}]
      BY <1>33 DEF RefreshProgress, Running
    <3>4. /\ NoRefresh \in Refreshes /\ [refresh EXCEPT !.st = "InProgress"] \in Refreshes
          /\ \A i \in Ids : [refresh EXCEPT !.todo = @ \ {i}] \in Refreshes
      BY <1>a, SmallTypes
    <3> QED BY <1>a, <3>1, <3>2, <3>3, <3>4
  <2>u. UNCHANGED <<lt, asg, objects, obj, mp, ams, seen, mem, loc, mode, missed, edits, faults, pc>>
    BY <1>33 DEF RefreshProgress
  <2>l. pc' \in Labels /\ DataKnown'
    BY <1>0, <2>u, <2>1 DEF TypeOK, DataKnown
  <2> QED BY <1>a, <2>u, <2>l, <2>1 DEF TypeOK
<1>34. CASE MachineCacheSync
  <2>u. UNCHANGED <<lt, asg, ins, refresh, objects, obj, mp, ams, mem, loc, mode, missed, edits, faults, pc>>
    BY <1>34 DEF MachineCacheSync
  <2>l. pc' \in Labels /\ DataKnown'
    BY <1>0, <2>u DEF TypeOK, DataKnown
  <2>1. seen' \subseteq Ids
    BY <1>34 DEF MachineCacheSync
  <2> QED BY <1>a, <2>u, <2>l, <2>1 DEF TypeOK
<1>35. CASE BootstrapReady
  <2>1. mp' \in MachinePools /\ (mp.data # Nothing => mp'.data # Nothing)
    BY <1>a, <1>35, Nonzero, SmallTypes DEF BootstrapReady
  <2>u. UNCHANGED <<lt, asg, ins, refresh, objects, obj, ams, seen, mem, loc, mode, missed, edits, faults, pc>>
    BY <1>35 DEF BootstrapReady
  <2>l. pc' \in Labels /\ DataKnown'
    BY <1>0, <2>u, <2>1 DEF TypeOK, DataKnown
  <2> QED BY <1>a, <2>u, <2>l, <2>1 DEF TypeOK
<1>36. ASSUME NEW i \in Ids, MachineProgress(i) PROVE TypeInv'
  <2>1. ins' \in [Ids -> Zeroable(Configs)]
    BY <1>a, <1>36 DEF MachineProgress
  <2>2. ams' \in [Ids -> AMs]
    BY <1>a, <1>36 DEF MachineProgress, AMs, NoMachine
  <2>u. UNCHANGED <<lt, asg, refresh, objects, obj, mp, seen, mem, loc, mode, missed, edits, faults, pc>>
    BY <1>36 DEF MachineProgress
  <2>l. pc' \in Labels /\ DataKnown'
    BY <1>0, <2>u, <2>1, <2>2 DEF TypeOK, DataKnown
  <2> QED BY <1>a, <2>u, <2>l, <2>1, <2>2 DEF TypeOK
<1>37. CASE Edit
  <2>1. edits' \in 0 .. MaxEdits
    BY <1>a, <1>37, Nonzero DEF Edit, Edited
  <2>2. obj' \in AWSMachinePools
    <3>1. (~obj.sus) \in BOOLEAN /\ (~obj.rebalance) \in BOOLEAN
      OBVIOUS
    <3>2. /\ [obj EXCEPT !.sus = ~@] \in AWSMachinePools
          /\ [obj EXCEPT !.rebalance = ~@] \in AWSMachinePools
          /\ [obj EXCEPT !.deleting = TRUE] \in AWSMachinePools
      BY <1>a, <3>1, PoolType
    <3>3. Collected([obj EXCEPT !.deleting = TRUE]) \in AWSMachinePools
      BY <3>2, CollectedType
    <3>4. /\ \A c \in Configs : [obj EXCEPT !.cfg = c] \in AWSMachinePools
          /\ \A k \in HookSpecs : [obj EXCEPT !.hook = k] \in AWSMachinePools
          /\ \A n \in Sizes : [obj EXCEPT !.max = n] \in AWSMachinePools
          /\ \A t \in SUBSET Tags : [obj EXCEPT !.tags = t] \in AWSMachinePools
      BY <1>a, PoolType
    <3>5. \/ UNCHANGED obj \/ obj' = Collected([obj EXCEPT !.deleting = TRUE])
          \/ obj' = [obj EXCEPT !.sus = ~@] \/ obj' = [obj EXCEPT !.rebalance = ~@]
          \/ \E c \in Configs : obj' = [obj EXCEPT !.cfg = c]
          \/ \E k \in HookSpecs : obj' = [obj EXCEPT !.hook = k]
          \/ \E n \in Sizes : obj' = [obj EXCEPT !.max = n]
          \/ \E t \in SUBSET Tags : obj' = [obj EXCEPT !.tags = t]
      BY <1>37 DEF Edit
    <3> QED BY <1>a, <3>2, <3>3, <3>4, <3>5
  <2>3. mp' \in MachinePools /\ (mp.data # Nothing => mp'.data # Nothing)
    <3>1. \A n \in Sizes : n \in Nat
      BY Nonzero
    <3>2. UNCHANGED mp \/ (\E d \in Datas : mp' = [mp EXCEPT !.data = d])
                      \/ (\E n \in Sizes : mp' = [mp EXCEPT !.replicas = n])
      BY <1>37 DEF Edit
    <3>3. /\ \A d \in Datas : /\ [mp EXCEPT !.data = d] \in MachinePools
                              /\ [mp EXCEPT !.data = d].data # Nothing
          /\ \A n \in Sizes : /\ [mp EXCEPT !.replicas = n] \in MachinePools
                              /\ [mp EXCEPT !.replicas = n].data = mp.data
      BY <1>a, <3>1, Nonzero, SmallTypes
    <3> QED BY <1>a, <3>2, <3>3
  <2>4. asg' \in ASGs
    <3>1. \A n \in Sizes : n \in Nat
      BY Nonzero
    <3>2. UNCHANGED asg \/ \E n \in Sizes : asg' = [asg EXCEPT !.desired = n]
      BY <1>37 DEF Edit
    <3>3. \A n \in Sizes : [asg EXCEPT !.desired = n] \in ASGs
      BY <1>a, <3>1, ASGType
    <3> QED BY <1>a, <3>2, <3>3
  <2>u. UNCHANGED <<lt, ins, refresh, objects, ams, seen, mem, loc, mode, missed, faults, pc>>
    BY <1>37 DEF Edit
  <2>l. pc' \in Labels /\ DataKnown'
    BY <1>0, <2>u, <2>1, <2>2, <2>3, <2>4 DEF TypeOK, DataKnown
  <2> QED BY <1>a, <2>u, <2>l, <2>1, <2>2, <2>3, <2>4 DEF TypeOK
<1> QED BY <1>e, <1>1, <1>2, <1>3, <1>4, <1>5, <1>6, <1>7, <1>8, <1>9, <1>10, <1>11, <1>12,
           <1>13, <1>14, <1>15, <1>16, <1>17, <1>18, <1>19, <1>20, <1>21, <1>22, <1>23, <1>24,
           <1>25, <1>26, <1>27, <1>28, <1>29, <1>30, <1>31, <1>32, <1>33, <1>34, <1>35, <1>36,
           <1>37 DEF Next, ReconcileStep

\* Every reachable state is well typed: in particular every version of the launch
\* template points at bootstrap data that existed.
THEOREM TypeCorrect == Spec => []TypeOK
BY TypeInit, TypeStep, PTL DEF Spec, TypeInv

-----------------------------------------------------------------------------
(* Which steps lead where *)

\* Labels between the check that a refresh can start and its start.
Changing == {"prune", "delObject", "newVersion", "patchVersion", "refresh"}

\* Labels between the reading of the group and the listing of the AWSMachines.
CopyInUse == {"getLT", "putObject", "createLT", "patchLT", "ltID", "ltVersion", "canStart",
              "cancel", "list"} \cup Changing

DeleteLabels == {"dMachines", "dFindASG", "dASG", "dWait", "dGetLT", "dLT"}

\* Labels of reconcileNormal past its finalizer.
Working == CopyInUse \cup {"findASG", "createASG", "createMachines", "orphans", "hooks",
                           "replicas", "updateASG", "processes", "tags"}

\* Where the steps of a reconcile lead, and what they leave alone on the way.
Reached ==
    /\ pc' \in {"delObject", "newVersion"} =>
         pc \in {"delObject", "newVersion"} \/ PruneLaunchTemplateVersions
    /\ pc' \in Changing =>
         \/ RecordLaunchTemplateVersion \/ CanStartASGInstanceRefresh
         \/ PruneLaunchTemplateVersions \/ (pc \in Changing /\ UNCHANGED loc)
    /\ pc' = "refresh" => pc = "refresh" \/ PatchLaunchTemplateVersion
    /\ pc' \in CopyInUse => FindASG \/ (pc \in CopyInUse /\ loc'.ids = loc.ids)
    /\ pc' \in {"createMachines", "orphans"} =>
         \/ GetAWSMachines \/ CreateAWSMachinesIfNotExists \/ DeleteOrphanedAWSMachines
         \/ pc' = pc /\ UNCHANGED loc
    /\ pc' = "finalizer" => Reconcile \/ (pc = "finalizer" /\ UNCHANGED mem)
    /\ pc' \in Working => AddFinalizer \/ (pc \in Working /\ mem'.finalizer = mem.finalizer)
    /\ pc' \in DeleteLabels => Reconcile \/ (pc \in DeleteLabels /\ UNCHANGED mem)
    /\ pc' \in {"dGetLT", "dLT"} =>
         FindASGToDelete \/ WaitASGDeleted \/ pc \in {"dGetLT", "dLT"}
    /\ pc' = "close" => \/ AddFinalizer
                        \/ pc \in {"dGetLT", "dLT"}
                        \/ /\ pc \in Working \cup DeleteLabels \cup {"close"}
                           /\ mem'.finalizer = mem.finalizer
    /\ UNCHANGED mode

\* What Reached says holds of every step.
LEMMA Steps == TypeInv /\ [Next]_vars => Reached
<1> SUFFICES ASSUME TypeInv, [Next]_vars PROVE Reached
  OBVIOUS
<1> USE DEF Changing, CopyInUse, Working, DeleteLabels
<1>0. loc \in Locals /\ mem \in AWSMachinePools
  BY DEF TypeInv, TypeOK
<1>1. CASE Reconcile
  BY <1>0, <1>1, LabelType DEF Reached, Reconcile
<1>2. CASE AddFinalizer
  BY <1>0, <1>2, LabelType DEF Reached, AddFinalizer, PatchThen
<1>3. CASE FindASG
  BY <1>0, <1>3, LabelType DEF Reached, FindASG, Locals
<1>4. CASE GetLaunchTemplate
  BY <1>0, <1>4, LabelType DEF Reached, GetLaunchTemplate, Locals
<1>5. CASE CreateForMachinePool
  BY <1>0, <1>5, LabelType DEF Reached, CreateForMachinePool
<1>6. CASE CreateLaunchTemplate
  BY <1>0, <1>6, LabelType DEF Reached, CreateLaunchTemplate, AWSMachinePools
<1>7. CASE PatchLaunchTemplateID
  BY <1>0, <1>7, LabelType DEF Reached, PatchLaunchTemplateID, PatchThen
<1>8. CASE RecordLaunchTemplateID
  BY <1>0, <1>8, LabelType DEF Reached, RecordLaunchTemplateID, PatchThen, AWSMachinePools
<1>9. CASE RecordLaunchTemplateVersion
  BY <1>0, <1>9, LabelType DEF Reached, RecordLaunchTemplateVersion, PatchThen, Locals, AWSMachinePools
<1>10. CASE CanStartASGInstanceRefresh
  BY <1>0, <1>10, LabelType DEF Reached, CanStartASGInstanceRefresh
<1>11. CASE CancelASGInstanceRefresh
  BY <1>0, <1>11, LabelType DEF Reached, CancelASGInstanceRefresh
<1>12. CASE PruneLaunchTemplateVersions
  BY <1>0, <1>12, LabelType DEF Reached, PruneLaunchTemplateVersions, Locals
<1>13. CASE DeleteForMachinePool
  BY <1>0, <1>13, LabelType DEF Reached, DeleteForMachinePool
<1>14. CASE CreateLaunchTemplateVersion
  BY <1>0, <1>14, LabelType DEF Reached, CreateLaunchTemplateVersion
<1>15. CASE PatchLaunchTemplateVersion
  BY <1>0, <1>15, LabelType DEF Reached, PatchLaunchTemplateVersion, AWSMachinePools
<1>16. CASE StartASGInstanceRefresh
  BY <1>0, <1>16, LabelType DEF Reached, StartASGInstanceRefresh
<1>17. CASE CreateASG
  BY <1>0, <1>17, LabelType DEF Reached, CreateASG
<1>18. CASE GetAWSMachines
  BY <1>0, <1>18, LabelType DEF Reached, GetAWSMachines, Locals
<1>19. CASE CreateAWSMachinesIfNotExists
  BY <1>0, <1>19, LabelType DEF Reached, CreateAWSMachinesIfNotExists, Locals
<1>20. CASE DeleteOrphanedAWSMachines
  BY <1>0, <1>20, LabelType DEF Reached, DeleteOrphanedAWSMachines, Locals
<1>21. CASE ReconcileLifecycleHooks
  BY <1>0, <1>21, LabelType DEF Reached, ReconcileLifecycleHooks
<1>22. CASE SetReplicas
  BY <1>0, <1>22, LabelType DEF Reached, SetReplicas, Locals
<1>23. CASE UpdateASG
  BY <1>0, <1>23, LabelType DEF Reached, UpdateASG
<1>24. CASE UpdateProcesses
  BY <1>0, <1>24, LabelType DEF Reached, UpdateProcesses
<1>25. CASE ReconcileTags
  BY <1>0, <1>25, LabelType DEF Reached, ReconcileTags, AWSMachinePools
<1>26. CASE ReconcileDeleteAWSMachines
  BY <1>0, <1>26, LabelType DEF Reached, ReconcileDeleteAWSMachines
<1>27. CASE FindASGToDelete
  BY <1>0, <1>27, LabelType DEF Reached, FindASGToDelete
<1>28. CASE DeleteASG
  BY <1>0, <1>28, LabelType DEF Reached, DeleteASG
<1>29. CASE WaitASGDeleted
  BY <1>0, <1>29, LabelType DEF Reached, WaitASGDeleted
<1>30. CASE GetLaunchTemplateToDelete
  BY <1>0, <1>30, LabelType DEF Reached, GetLaunchTemplateToDelete
<1>31. CASE DeleteLaunchTemplate
  BY <1>0, <1>31, LabelType DEF Reached, DeleteLaunchTemplate
<1>32. CASE Close
  BY <1>0, <1>32, LabelType DEF Reached, Close
<1>33. CASE CallFails
  BY <1>0, <1>33, LabelType DEF Reached, CallFails, FallibleCalls
<1>34. CASE Crash
  BY <1>0, <1>34, LabelType DEF Reached, Crash
<1>35. CASE UNCHANGED <<pc, mem, loc, mode>>
  BY <1>35 DEF Reached
<1> QED BY <1>0, <1>1, <1>2, <1>3, <1>4, <1>5, <1>6, <1>7, <1>8, <1>9, <1>10, <1>11,
           <1>12, <1>13, <1>14, <1>15, <1>16, <1>17, <1>18, <1>19, <1>20, <1>21,
           <1>22, <1>23, <1>24, <1>25, <1>26, <1>27, <1>28, <1>29, <1>30, <1>31,
           <1>32, <1>33, <1>34, <1>35
           DEF Next, ReconcileStep, vars, ASGProgress, InstanceLost, RefreshProgress,
               MachineCacheSync, BootstrapReady, Edit, MachineProgress

-----------------------------------------------------------------------------
(* The launch template *)

\* A version is only added after PruneLaunchTemplateVersions left room for it.
VersionsInv == Len(lt) <= 3 /\ (pc \in {"delObject", "newVersion"} => Len(lt) <= 2)

\* Who writes the launch template.
LEMMA TemplateWriters ==
    ASSUME [Next]_vars
    PROVE  \/ CreateLaunchTemplate \/ PruneLaunchTemplateVersions
           \/ CreateLaunchTemplateVersion \/ DeleteLaunchTemplate
           \/ UNCHANGED lt
BY DEF Next, ReconcileStep, vars, Reconcile, AddFinalizer, FindASG, GetLaunchTemplate,
       CreateForMachinePool, PatchLaunchTemplateID, RecordLaunchTemplateID,
       RecordLaunchTemplateVersion, CanStartASGInstanceRefresh, CancelASGInstanceRefresh,
       DeleteForMachinePool, PatchLaunchTemplateVersion, StartASGInstanceRefresh, CreateASG,
       GetAWSMachines, CreateAWSMachinesIfNotExists, DeleteOrphanedAWSMachines,
       ReconcileLifecycleHooks, SetReplicas, UpdateASG, UpdateProcesses, ReconcileTags,
       ReconcileDeleteAWSMachines, FindASGToDelete, DeleteASG, WaitASGDeleted,
       GetLaunchTemplateToDelete, Close, CallFails, Crash, ASGProgress, InstanceLost,
       RefreshProgress, MachineCacheSync, BootstrapReady, Edit, MachineProgress

\* Every step keeps VersionsInv.
LEMMA VersionsStep == TypeInv /\ VersionsInv /\ [Next]_vars => VersionsInv'
<1> SUFFICES ASSUME TypeInv, VersionsInv, [Next]_vars PROVE VersionsInv'
  OBVIOUS
<1>0. lt \in Seq(Versions) /\ Len(lt) \in Nat
  BY DEF TypeInv, TypeOK
<1>1. CASE CreateLaunchTemplate
  BY <1>1 DEF CreateLaunchTemplate, VersionsInv
<1>2. CASE PruneLaunchTemplateVersions
  <2>1. ASSUME NEW k \in VersionToPrune, Len(lt) >= MinCountToAllowPrune, lt' = Without(lt, k)
        PROVE  Len(lt') <= 2
    <3>1. k \in 1 .. Len(lt)
      BY <1>0, <2>1, PrunedExists
    <3>2. Len(lt') = Len(lt) - 1
      BY <1>0, <2>1, <3>1, WithoutType
    <3> QED BY <1>0, <3>2 DEF VersionsInv
  <2>2. Len(lt') <= 2
    BY <1>0, <1>2, <2>1 DEF PruneLaunchTemplateVersions, MinCountToAllowPrune
  <2>3. Len(lt') \in Nat
    <3>1. lt' \in Seq(Versions)
      BY TypeStep DEF TypeInv, TypeOK
    <3> QED BY <3>1
  <2> QED BY <2>2, <2>3 DEF VersionsInv
<1>3. CASE CreateLaunchTemplateVersion
  <2>1. Len(lt) <= 2 /\ lt' = Append(lt, NewVersion) /\ pc' = "patchVersion"
    BY <1>3 DEF CreateLaunchTemplateVersion, VersionsInv
  <2>2. Len(lt') = Len(lt) + 1
    BY <1>0, <2>1
  <2> QED BY <1>0, <2>1, <2>2 DEF VersionsInv
<1>4. CASE DeleteLaunchTemplate
  BY <1>4 DEF DeleteLaunchTemplate, VersionsInv
<1>5. CASE UNCHANGED lt /\ ~PruneLaunchTemplateVersions
  BY <1>5, Steps DEF Reached, VersionsInv
<1> QED BY <1>1, <1>2, <1>3, <1>4, <1>5, TemplateWriters

\* The launch template never has more than three versions, whichever calls fail
\* and wherever the process dies between the pruning, the new version and the
\* patch that records it.
THEOREM TemplateBounded == Spec => []VersionsBounded
<1>1. Init => VersionsInv
  BY DEF Init, VersionsInv
<1>2. VersionsInv => VersionsBounded
  BY DEF VersionsInv, VersionsBounded
<1>3. TypeInv /\ VersionsInv /\ [Next]_vars => TypeInv' /\ VersionsInv'
  BY TypeStep, VersionsStep
<1> QED BY <1>1, <1>2, <1>3, TypeInit, PTL DEF Spec

-----------------------------------------------------------------------------
(* The instance refresh *)

\* From the check on, no refresh is under way as long as one is still to start.
RefreshInv ==
    /\ pc \in Changing /\ RefreshDue => refresh.st = "none"
    /\ pc = "refresh" => RefreshDue

\* No step but StartASGInstanceRefresh leaves a group with a refresh it had not.
LEMMA RefreshWriters ==
    ASSUME [Next]_vars, refresh.st = "none"
    PROVE  refresh'.st = "none" \/ StartASGInstanceRefresh
<1>1. CASE CancelASGInstanceRefresh
  BY <1>1 DEF CancelASGInstanceRefresh
<1>2. CASE ASGProgress
  BY <1>2 DEF ASGProgress, NoRefresh
<1>3. CASE RefreshProgress
  BY <1>3 DEF RefreshProgress, NoRefresh
<1>4. CASE UNCHANGED refresh
  BY <1>4
<1> QED BY <1>1, <1>2, <1>3, <1>4
        DEF Next, ReconcileStep, vars, Reconcile, AddFinalizer, FindASG, GetLaunchTemplate,
            CreateForMachinePool, CreateLaunchTemplate, PatchLaunchTemplateID,
            RecordLaunchTemplateID, RecordLaunchTemplateVersion, CanStartASGInstanceRefresh,
            PruneLaunchTemplateVersions, DeleteForMachinePool, CreateLaunchTemplateVersion,
            PatchLaunchTemplateVersion, CreateASG, GetAWSMachines,
            CreateAWSMachinesIfNotExists, DeleteOrphanedAWSMachines,
            ReconcileLifecycleHooks, SetReplicas, UpdateASG, UpdateProcesses, ReconcileTags,
            ReconcileDeleteAWSMachines, FindASGToDelete, DeleteASG, WaitASGDeleted,
            GetLaunchTemplateToDelete, DeleteLaunchTemplate, Close, CallFails, Crash,
            InstanceLost, MachineCacheSync, BootstrapReady, Edit, MachineProgress

\* Every step keeps RefreshInv.
LEMMA RefreshStep == TypeInv /\ RefreshInv /\ [Next]_vars => RefreshInv'
<1> SUFFICES ASSUME TypeInv, RefreshInv, [Next]_vars PROVE RefreshInv'
  OBVIOUS
<1>0. /\ loc \in Locals /\ Reached /\ UNCHANGED mode
      /\ refresh \in Refreshes
  BY Steps DEF TypeInv, TypeOK, Reached
<1>1. CASE RecordLaunchTemplateVersion
  <2>1. /\ loc'.more = MoreChanged /\ loc'.asg = loc.asg
        /\ pc' \in {AfterComparison, "close"}
    BY <1>0, <1>1 DEF RecordLaunchTemplateVersion, PatchThen, Locals
  <2>2. pc' \in Changing => pc' = "prune" /\ ~(MoreChanged /\ loc.asg.st # "none")
    BY <2>1, LabelType DEF AfterComparison, Changing
  <2> QED BY <1>0, <2>1, <2>2 DEF RefreshInv, RefreshDue, Changing
<1>2. CASE CanStartASGInstanceRefresh
  <2>1. UNCHANGED refresh /\ (pc' = "prune" => refresh.st = "none")
    BY <1>0, <1>2 DEF CanStartASGInstanceRefresh, BlockingStates, Refreshes
  <2>2. pc' \in {"prune", "close", "cancel"}
    BY <1>2 DEF CanStartASGInstanceRefresh
  <2> QED BY <2>1, <2>2 DEF RefreshInv, Changing
<1>3. CASE PruneLaunchTemplateVersions
  <2>1. /\ pc = "prune" /\ pc' \in {"delObject", "newVersion"} /\ UNCHANGED refresh
        /\ loc'.more = loc.more /\ loc'.asg = loc.asg
    BY <1>0, <1>3 DEF PruneLaunchTemplateVersions, Locals
  <2> QED BY <1>0, <2>1 DEF RefreshInv, RefreshDue, Changing
<1>4. CASE PatchLaunchTemplateVersion
  <2>1. /\ pc = "patchVersion" /\ UNCHANGED <<refresh, loc>>
        /\ pc' \in {"close", "refresh", AfterLaunchTemplate} /\ (pc' = "refresh" => RefreshDue)
    BY <1>4, LabelType DEF PatchLaunchTemplateVersion
  <2> QED BY <1>0, <2>1, LabelType DEF RefreshInv, RefreshDue, Changing
<1>5. CASE StartASGInstanceRefresh
  <2>1. pc' \in {"close", AfterLaunchTemplate}
    BY <1>5 DEF StartASGInstanceRefresh
  <2> QED BY <2>1, LabelType DEF RefreshInv, Changing
<1>6. CASE /\ ~RecordLaunchTemplateVersion /\ ~CanStartASGInstanceRefresh
           /\ ~PruneLaunchTemplateVersions /\ ~PatchLaunchTemplateVersion
           /\ ~StartASGInstanceRefresh
  <2>1. pc' \in Changing => pc \in Changing /\ UNCHANGED loc
    BY <1>0, <1>6 DEF Reached
  <2>2. pc' = "refresh" => pc = "refresh"
    BY <1>0, <1>6 DEF Reached
  <2>3. refresh.st = "none" => refresh'.st = "none"
    BY <1>6, RefreshWriters
  <2>4. UNCHANGED loc => RefreshDue' = RefreshDue
    BY <1>0 DEF RefreshDue
  <2>5. (pc' \in Changing /\ RefreshDue') => refresh'.st = "none"
    BY <2>1, <2>3, <2>4 DEF RefreshInv
  <2>6. pc' = "refresh" => RefreshDue'
    BY <2>1, <2>2, <2>4 DEF RefreshInv, Changing
  <2> QED BY <2>5, <2>6 DEF RefreshInv
<1> QED BY <1>1, <1>2, <1>3, <1>4, <1>5, <1>6

\* When the controller asks for an instance refresh, none is under way that would
\* make AWS refuse it: the check made before the template was changed still
\* holds after the pruning, the new version and the patch.
THEOREM RefreshStarts == Spec => []RefreshCanStart
<1>1. Init => RefreshInv
  BY DEF Init, RefreshInv, Changing
<1>2. RefreshInv => RefreshCanStart
  BY DEF RefreshInv, RefreshCanStart, Changing
<1>3. TypeInv /\ RefreshInv /\ [Next]_vars => TypeInv' /\ RefreshInv'
  BY TypeStep, RefreshStep
<1> QED BY <1>1, <1>2, <1>3, TypeInit, PTL DEF Spec

-----------------------------------------------------------------------------
(* Pool machines *)

\* The copy of the group names every running instance that has an AWSMachine, or
\* had one in the cache: those launched since it was made have none yet.
CopyInv ==
    /\ pc \in CopyInUse =>
         \A i \in Ids : (i \in seen \/ ams[i].st # "none") /\ ins[i] # Nothing => i \in loc.ids
    /\ pc \in {"createMachines", "orphans"} =>
         \A i \in loc.list : ins[i] # Nothing => i \in loc.ids
    /\ pc = "orphans" => loc.todo \subseteq Orphans

\* An instance that was not running is launched under a fresh id.
LEMMA Launched ==
    ASSUME TypeInv, [Next]_vars
    PROVE  \A i \in Ids : ins'[i] # Nothing => ins[i] # Nothing \/ i \in FreshIds
<1>0. ins \in [Ids -> Zeroable(Configs)]
  BY DEF TypeInv, TypeOK
<1>1. CASE ASGProgress
  BY <1>0, <1>1 DEF ASGProgress
<1>2. CASE InstanceLost \/ RefreshProgress
  BY <1>0, <1>2 DEF InstanceLost, RefreshProgress
<1>3. ASSUME NEW i \in Ids, MachineProgress(i)
      PROVE  \A j \in Ids : ins'[j] # Nothing => ins[j] # Nothing
  BY <1>0, <1>3 DEF MachineProgress
<1>4. CASE UNCHANGED ins
  BY <1>4
<1> QED BY <1>1, <1>2, <1>3, <1>4
        DEF Next, ReconcileStep, vars, Reconcile, AddFinalizer, FindASG, GetLaunchTemplate,
            CreateForMachinePool, CreateLaunchTemplate, PatchLaunchTemplateID,
            RecordLaunchTemplateID, RecordLaunchTemplateVersion, CanStartASGInstanceRefresh,
            CancelASGInstanceRefresh, PruneLaunchTemplateVersions, DeleteForMachinePool,
            CreateLaunchTemplateVersion, PatchLaunchTemplateVersion, StartASGInstanceRefresh,
            CreateASG, GetAWSMachines, CreateAWSMachinesIfNotExists,
            DeleteOrphanedAWSMachines, ReconcileLifecycleHooks, SetReplicas, UpdateASG,
            UpdateProcesses, ReconcileTags, ReconcileDeleteAWSMachines, FindASGToDelete,
            DeleteASG, WaitASGDeleted, GetLaunchTemplateToDelete, DeleteLaunchTemplate,
            Close, CallFails, Crash,
            MachineCacheSync, BootstrapReady, Edit

\* An AWSMachine appears by CreateAWSMachinesIfNotExists only, and in the cache
\* only when it exists.
LEMMA Appeared ==
    ASSUME TypeInv, [Next]_vars
    PROVE  \/ CreateAWSMachinesIfNotExists
           \/ \A i \in Ids : i \in seen' \/ ams'[i].st # "none" => i \in seen \/ ams[i].st # "none"
<1>0. ams \in [Ids -> AMs] /\ seen \subseteq Ids
  BY DEF TypeInv, TypeOK
<1>1. CASE DeleteOrphanedAWSMachines
  <2>1. UNCHANGED seen
    BY <1>1 DEF DeleteOrphanedAWSMachines
  <2>2. ASSUME NEW i \in Ids, ams[i].st # "none",
               ams' = [ams EXCEPT ![i].st = "deleting"] \/ ams' = [ams EXCEPT ![i].owner = "deleted"]
        PROVE  \A j \in Ids : ams'[j].st # "none" => ams[j].st # "none"
    BY <1>0, <2>2 DEF AMs
  <2>3. UNCHANGED ams \/ \E i \in loc.todo :
          /\ ams[i].st # "none"
          /\ \/ ams' = [ams EXCEPT ![i].st = "deleting"]
             \/ ams' = [ams EXCEPT ![i].owner = "deleted"]
    BY <1>1 DEF DeleteOrphanedAWSMachines
  <2>4. loc.todo \subseteq Ids
    BY DEF TypeInv, TypeOK, Locals
  <2> QED BY <2>1, <2>2, <2>3, <2>4
<1>2. CASE ReconcileDeleteAWSMachines
  <2>1. UNCHANGED seen
    BY <1>2 DEF ReconcileDeleteAWSMachines
  <2>2. \A i \in Ids : ams'[i].st # "none" => ams[i].st # "none"
    BY <1>0, <1>2 DEF ReconcileDeleteAWSMachines, AMs
  <2> QED BY <2>1, <2>2
<1>3. CASE MachineCacheSync
  BY <1>3 DEF MachineCacheSync
<1>4. ASSUME NEW i \in Ids, MachineProgress(i)
      PROVE  UNCHANGED seen /\ \A j \in Ids : ams'[j].st # "none" => ams[j].st # "none"
  BY <1>0, <1>4 DEF MachineProgress, NoMachine, AMs
<1>5. CASE UNCHANGED <<ams, seen>>
  BY <1>5
<1> QED BY <1>1, <1>2, <1>3, <1>4, <1>5
        DEF Next, ReconcileStep, vars, Reconcile, AddFinalizer, FindASG, GetLaunchTemplate,
            CreateForMachinePool, CreateLaunchTemplate, PatchLaunchTemplateID,
            RecordLaunchTemplateID, RecordLaunchTemplateVersion, CanStartASGInstanceRefresh,
            CancelASGInstanceRefresh, PruneLaunchTemplateVersions, DeleteForMachinePool,
            CreateLaunchTemplateVersion, PatchLaunchTemplateVersion, StartASGInstanceRefresh,
            CreateASG, GetAWSMachines, 
            ReconcileLifecycleHooks, SetReplicas, UpdateASG,
            UpdateProcesses, ReconcileTags, FindASGToDelete,
            DeleteASG, WaitASGDeleted, GetLaunchTemplateToDelete, DeleteLaunchTemplate,
            Close, CallFails, Crash,
            ASGProgress, InstanceLost, RefreshProgress, BootstrapReady, Edit

\* Every step keeps CopyInv.
LEMMA CopyStep == TypeInv /\ CopyInv /\ [Next]_vars => CopyInv'
<1> SUFFICES ASSUME TypeInv, CopyInv, [Next]_vars PROVE CopyInv'
  OBVIOUS
<1>0. loc \in Locals /\ Reached /\ loc.list \subseteq Ids
  BY Steps DEF TypeInv, TypeOK, Locals
<1>1. ASSUME pc' \in CopyInUse, NEW i \in Ids, i \in seen' \/ ams'[i].st # "none",
             ins'[i] # Nothing
      PROVE  i \in loc'.ids
  <2>1. CASE FindASG
    <3>1. loc'.ids = Running /\ UNCHANGED ins
      BY <1>0, <2>1 DEF FindASG, Locals
    <3> QED BY <1>1, <3>1 DEF Running
  <2>2. CASE pc \in CopyInUse /\ loc'.ids = loc.ids
    <3>1. ~CreateAWSMachinesIfNotExists
      BY <2>2 DEF CreateAWSMachinesIfNotExists, CopyInUse, Changing
    <3>2. i \in seen \/ ams[i].st # "none"
      BY <1>1, <3>1, Appeared
    <3>3. ins[i] # Nothing
      BY <1>1, <3>2, Launched DEF FreshIds
    <3> QED BY <2>2, <3>2, <3>3 DEF CopyInv
  <2> QED BY <1>0, <1>1, <2>1, <2>2 DEF Reached
<1>2. ASSUME pc' \in {"createMachines", "orphans"}
      PROVE  /\ loc'.list \subseteq Ids
             /\ \A i \in loc'.list : ins'[i] # Nothing => i \in loc'.ids
             /\ pc' = "orphans" => loc'.todo \subseteq loc'.list \ loc'.ids
  <2>1. CASE GetAWSMachines
    <3>1. /\ pc = "list" /\ pc' = "createMachines" /\ UNCHANGED ins
          /\ loc'.list = seen /\ loc'.ids = loc.ids
      BY <1>0, <2>1 DEF GetAWSMachines, Locals
    <3>2. seen \subseteq Ids
      BY DEF TypeInv, TypeOK
    <3> QED BY <3>1, <3>2 DEF CopyInv, CopyInUse
  <2>2. ASSUME pc \in {"createMachines", "orphans"}, loc'.list = loc.list, loc'.ids = loc.ids
        PROVE  \A i \in loc'.list : ins'[i] # Nothing => i \in loc'.ids
    BY <1>0, <2>2, Launched DEF CopyInv, FreshIds
  <2>3. CASE CreateAWSMachinesIfNotExists
    <3>1. /\ pc = "createMachines" /\ loc'.list = loc.list /\ loc'.ids = loc.ids
          /\ pc' = "orphans" => loc'.todo = Orphans
      BY <1>0, <2>3 DEF CreateAWSMachinesIfNotExists, Locals
    <3> QED BY <1>0, <2>2, <3>1 DEF Orphans
  <2>4. CASE DeleteOrphanedAWSMachines
    <3>1. /\ pc = "orphans" /\ loc'.list = loc.list /\ loc'.ids = loc.ids
          /\ loc'.todo \subseteq loc.todo
      BY <1>0, <2>4 DEF DeleteOrphanedAWSMachines, Locals
    <3> QED BY <1>0, <2>2, <3>1 DEF CopyInv, Orphans
  <2>5. CASE pc' = pc /\ UNCHANGED loc
    BY <1>0, <1>2, <2>2, <2>5 DEF CopyInv, Orphans
  <2> QED BY <1>0, <1>2, <2>1, <2>3, <2>4, <2>5 DEF Reached
<1> QED BY <1>1, <1>2 DEF CopyInv, Orphans

\* An AWSMachine is deleted as an orphan only when its instance has ended,
\* although the group's copy is old and the listing comes from a cache.
THEOREM OrphansOnly == Spec => OnlyOrphansDeleted
<1>1. Init => CopyInv
  BY DEF Init, CopyInv, CopyInUse, Changing
<1>2. TypeInv /\ CopyInv /\ [Next]_vars =>
        [\A i \in Ids : pc = "orphans" /\ i \in loc.todo \ loc'.todo => ins[i] = Nothing]_vars
  BY DEF CopyInv, Orphans
<1>3. TypeInv /\ CopyInv /\ [Next]_vars => TypeInv' /\ CopyInv'
  BY TypeStep, CopyStep
<1> QED BY <1>1, <1>2, <1>3, TypeInit, PTL DEF Spec, OnlyOrphansDeleted

-----------------------------------------------------------------------------
(* Implementation of ResourceLifecycle *)

Template == lt # <<>>
Group == asg.st = "active"

\* The finalizer is stored while a reconcile works, and only left out of the
\* patch at its end when reconcileDelete found nothing or removed it.
LifecycleInv ==
    /\ obj.exists /\ obj.deleting => obj.finalizer
    /\ pc = "finalizer" /\ mem.finalizer => obj.exists /\ obj.finalizer
    /\ pc \in Working \cup DeleteLabels => mem.finalizer /\ obj.exists /\ obj.finalizer
    /\ pc \in DeleteLabels => obj.deleting
    /\ pc \in {"dGetLT", "dLT"} => ~Group
    /\ pc = "close" /\ ~mem.finalizer => obj.deleting /\ ~Template /\ ~Group

\* The four ways in which a step may treat the object, its template and its group.
ObjectKept ==
    /\ UNCHANGED <<obj.exists, obj.deleting>>
    /\ (obj.exists /\ obj.finalizer)' = (obj.exists /\ obj.finalizer)

Kept == Template' = Template /\ Group' = Group

Protected ==
    /\ obj.exists /\ ~obj.finalizer /\ obj'.finalizer
    /\ UNCHANGED <<obj.exists, obj.deleting>> /\ Kept

Finished ==
    /\ obj.exists /\ obj.deleting /\ ~obj'.exists /\ obj'.deleting
    /\ ~Template /\ ~Group /\ Kept

DeletionRequested ==
    /\ obj.exists /\ ~obj.deleting /\ obj'.deleting
    /\ obj'.exists = obj.finalizer /\ obj'.finalizer = obj.finalizer /\ Kept

\* A patch of a reconcile that has the finalizer in hand keeps it or adds it.
LEMMA PatchKeeps ==
    ASSUME TypeInv, LifecycleInv, NEW m \in AWSMachinePools, PatchObject(m) \/ PatchFails,
           m.finalizer, Kept
    PROVE  /\ ObjectKept \/ Protected
           /\ PatchObject(m) => obj'.exists /\ obj'.finalizer
<1>0. /\ obj \in AWSMachinePools /\ obj.exists \in BOOLEAN /\ obj.deleting \in BOOLEAN
      /\ obj.finalizer \in BOOLEAN /\ TypeOK /\ m.finalizer = TRUE
  BY DEF TypeInv, TypeOK, AWSMachinePools
<1>1. /\ obj'.deleting = obj.deleting
      /\ \/ UNCHANGED obj
         \/ /\ PatchObject(m) /\ obj.exists /\ obj'.finalizer = TRUE /\ obj'.exists = TRUE
  BY <1>0, PatchType
<1>2. PatchObject(m) => obj.exists /\ obj'.exists = TRUE /\ obj'.finalizer = TRUE
  <2>1. SUFFICES ASSUME PatchObject(m) PROVE obj'.exists = TRUE /\ obj'.finalizer = TRUE /\ obj.exists
    OBVIOUS
  <2> DEFINE o == [obj EXCEPT !.finalizer = m.finalizer, !.ltID = m.ltID,
                              !.ver = m.ver, !.applied = m.applied, !.pids = m.pids]
  <2>2. obj' = Collected(o) /\ obj.exists
    BY <2>1 DEF PatchObject
  <2>3. o \in AWSMachinePools /\ o.exists = obj.exists /\ o.finalizer = TRUE
    BY <1>0 DEF AWSMachinePools
  <2> HIDE DEF o
  <2> QED BY <1>0, <2>2, <2>3, CollectedType
<1> QED BY <1>0, <1>1, <1>2 DEF ObjectKept, Protected

\* No step but CreateASG makes a group active.
LEMMA GroupWriters ==
    ASSUME TypeInv, [Next]_vars
    PROVE  CreateASG \/ (Group' => Group)
<1>0. asg \in ASGs
  BY DEF TypeInv, TypeOK
<1>1. CASE ReconcileLifecycleHooks \/ UpdateASG \/ UpdateProcesses \/ ReconcileTags \/ DeleteASG
  BY <1>0, <1>1 DEF ReconcileLifecycleHooks, UpdateASG, UpdateProcesses, ReconcileTags, DeleteASG,
                    Group, ASGs
<1>2. CASE ASGProgress
  BY <1>2 DEF ASGProgress, NoASG, Group
<1>3. CASE Edit
  <2>1. UNCHANGED asg \/ \E n \in Sizes : asg' = [asg EXCEPT !.desired = n]
    BY <1>3 DEF Edit
  <2> QED BY <1>0, <2>1 DEF Group, ASGs
<1>4. CASE UNCHANGED asg
  BY <1>4 DEF Group
<1> QED BY <1>1, <1>2, <1>3, <1>4
        DEF Next, ReconcileStep, vars, Reconcile, AddFinalizer, FindASG, GetLaunchTemplate,
            CreateForMachinePool, CreateLaunchTemplate, PatchLaunchTemplateID,
            RecordLaunchTemplateID, RecordLaunchTemplateVersion, CanStartASGInstanceRefresh,
            CancelASGInstanceRefresh, PruneLaunchTemplateVersions, DeleteForMachinePool,
            CreateLaunchTemplateVersion, PatchLaunchTemplateVersion, StartASGInstanceRefresh,
            GetAWSMachines, CreateAWSMachinesIfNotExists, DeleteOrphanedAWSMachines,
            SetReplicas, ReconcileDeleteAWSMachines, FindASGToDelete, WaitASGDeleted,
            GetLaunchTemplateToDelete, DeleteLaunchTemplate, Close, CallFails, Crash,
            InstanceLost, RefreshProgress, MachineCacheSync, BootstrapReady, MachineProgress

\* A launch template appears by a step of reconcileNormal only.
LEMMA TemplateAppears ==
    ASSUME TypeInv, [Next]_vars
    PROVE  CreateLaunchTemplate \/ CreateLaunchTemplateVersion \/ (Template' => Template)
<1>1. CASE PruneLaunchTemplateVersions
  <2>1. CASE Len(lt) >= MinCountToAllowPrune
    <3>1. lt # <<>>
      BY <2>1 DEF MinCountToAllowPrune
    <3> QED BY <3>1 DEF Template
  <2>2. CASE UNCHANGED lt
    BY <2>2 DEF Template
  <2> QED BY <1>1, <2>1, <2>2 DEF PruneLaunchTemplateVersions
<1>2. CASE DeleteLaunchTemplate
  BY <1>2 DEF DeleteLaunchTemplate, Template
<1>3. CASE UNCHANGED lt
  BY <1>3 DEF Template
<1> QED BY <1>1, <1>2, <1>3, TemplateWriters

\* A step leaves the object alone as the lifecycle sees it, or protects it,
\* finishes it or asks for its deletion.
LEMMA ObjectStep ==
    ASSUME TypeInv, TypeInv', LifecycleInv, [Next]_vars
    PROVE  \/ ObjectKept \/ Protected \/ DeletionRequested
           \/ Finished /\ pc' = "idle"
<1>0. /\ obj \in AWSMachinePools /\ mem \in AWSMachinePools /\ obj.exists \in BOOLEAN
      /\ obj.deleting \in BOOLEAN /\ obj.finalizer \in BOOLEAN /\ mem.finalizer \in BOOLEAN
      /\ mem' \in AWSMachinePools /\ TypeOK
  BY DEF TypeInv, TypeOK, AWSMachinePools
<1>1. UNCHANGED obj => ObjectKept
  BY DEF ObjectKept
<1>2. UNCHANGED <<lt, asg>> => Kept
  BY DEF Kept, Template, Group
<1>3. CASE AddFinalizer
  <2>1. mem'.finalizer = TRUE /\ UNCHANGED <<lt, asg>>
    BY <1>0, <1>3 DEF AddFinalizer, AWSMachinePools
  <2>2. UNCHANGED obj \/ PatchObject(mem') \/ PatchFails
    BY <1>3 DEF AddFinalizer, PatchThen
  <2> QED BY <1>0, <1>1, <1>2, <2>1, <2>2, PatchKeeps
<1>4. CASE \/ RecordLaunchTemplateID \/ RecordLaunchTemplateVersion \/ PatchLaunchTemplateID
           \/ PatchLaunchTemplateVersion
  <2>1. mem.finalizer
    BY <1>4 DEF LifecycleInv, Working, CopyInUse, Changing, RecordLaunchTemplateID,
                RecordLaunchTemplateVersion, PatchLaunchTemplateID, PatchLaunchTemplateVersion
  <2>2. mem'.finalizer = TRUE /\ UNCHANGED <<lt, asg>>
    BY <1>0, <1>4, <2>1 DEF RecordLaunchTemplateID, RecordLaunchTemplateVersion,
                       PatchLaunchTemplateID, PatchLaunchTemplateVersion, AWSMachinePools
  <2>3. UNCHANGED obj \/ PatchObject(mem) \/ PatchObject(mem') \/ PatchFails
    BY <1>4 DEF RecordLaunchTemplateID, RecordLaunchTemplateVersion, PatchLaunchTemplateID,
                PatchLaunchTemplateVersion, PatchThen
  <2> QED BY <1>0, <1>1, <1>2, <2>1, <2>2, <2>3, PatchKeeps
<1>5. CASE Close
  <2>1. UNCHANGED <<lt, asg>> /\ pc = "close" /\ pc' = "idle" /\ (PatchObject(mem) \/ PatchFails)
    BY <1>5 DEF Close
  <2>2. CASE mem.finalizer
    BY <1>0, <1>2, <2>1, <2>2, PatchKeeps
  <2>3. CASE ~mem.finalizer
    <3>1. obj.deleting /\ ~Template /\ ~Group
      BY <2>1, <2>3 DEF LifecycleInv
    <3>2. UNCHANGED obj \/ (obj.exists /\ obj'.exists = FALSE /\ obj'.deleting = obj.deleting)
      BY <1>0, <2>1, <2>3, <3>1, PatchType
    <3> QED BY <1>1, <1>2, <2>1, <3>1, <3>2 DEF Finished
  <2> QED BY <2>2, <2>3
<1>6. CASE Edit
  <2>1. \/ UNCHANGED obj
        \/ \E c : obj' = [obj EXCEPT !.cfg = c] \/ obj' = [obj EXCEPT !.tags = c]
                    \/ obj' = [obj EXCEPT !.hook = c] \/ obj' = [obj EXCEPT !.sus = c]
                    \/ obj' = [obj EXCEPT !.max = c] \/ obj' = [obj EXCEPT !.rebalance = c]
        \/ /\ obj' = Collected([obj EXCEPT !.deleting = TRUE]) /\ UNCHANGED <<lt, asg>>
           /\ obj.exists /\ ~obj.deleting
    BY <1>6 DEF Edit
  <2>2. CASE /\ obj' = Collected([obj EXCEPT !.deleting = TRUE]) /\ UNCHANGED <<lt, asg>>
             /\ obj.exists /\ ~obj.deleting
    <3> DEFINE o == [obj EXCEPT !.deleting = TRUE]
    <3>1. /\ o \in AWSMachinePools /\ o.exists = obj.exists /\ o.finalizer = obj.finalizer
          /\ o.deleting = TRUE
      BY <1>0 DEF AWSMachinePools
    <3> HIDE DEF o
    <3>2. obj' = Collected(o)
      BY <2>2 DEF o
    <3>3. /\ obj'.deleting = TRUE /\ obj'.finalizer = obj.finalizer
          /\ obj'.exists = obj.finalizer
      BY <1>0, <2>2, <3>1, <3>2, CollectedType
    <3> QED BY <1>2, <2>2, <3>3 DEF DeletionRequested
  <2>3. CASE \E c : obj' = [obj EXCEPT !.cfg = c] \/ obj' = [obj EXCEPT !.tags = c]
                      \/ obj' = [obj EXCEPT !.hook = c] \/ obj' = [obj EXCEPT !.sus = c]
                      \/ obj' = [obj EXCEPT !.max = c] \/ obj' = [obj EXCEPT !.rebalance = c]
    <3>1. /\ obj'.exists = obj.exists /\ obj'.deleting = obj.deleting
          /\ obj'.finalizer = obj.finalizer
      BY <1>0, <2>3 DEF AWSMachinePools
    <3> QED BY <3>1 DEF ObjectKept
  <2> QED BY <1>1, <2>1, <2>2, <2>3
<1>7. CASE UNCHANGED obj
  BY <1>1, <1>7
<1> QED BY <1>3, <1>4, <1>5, <1>6, <1>7
        DEF Next, ReconcileStep, vars, Reconcile, FindASG, GetLaunchTemplate,
            CreateForMachinePool, CreateLaunchTemplate, CanStartASGInstanceRefresh,
            CancelASGInstanceRefresh, PruneLaunchTemplateVersions, DeleteForMachinePool,
            CreateLaunchTemplateVersion, StartASGInstanceRefresh, CreateASG,
            GetAWSMachines, CreateAWSMachinesIfNotExists, DeleteOrphanedAWSMachines,
            ReconcileLifecycleHooks, SetReplicas, UpdateASG, UpdateProcesses, ReconcileTags,
            ReconcileDeleteAWSMachines, FindASGToDelete, DeleteASG, WaitASGDeleted,
            GetLaunchTemplateToDelete, DeleteLaunchTemplate, CallFails, Crash, ASGProgress,
            InstanceLost, RefreshProgress, MachineCacheSync, BootstrapReady, MachineProgress

\* Every step keeps LifecycleInv.
LEMMA LifecycleStep == TypeInv /\ LifecycleInv /\ [Next]_vars => LifecycleInv'
<1> SUFFICES ASSUME TypeInv, LifecycleInv, [Next]_vars PROVE LifecycleInv'
  OBVIOUS
<1>0. /\ obj \in AWSMachinePools /\ mem \in AWSMachinePools /\ obj.exists \in BOOLEAN
      /\ obj.deleting \in BOOLEAN /\ obj.finalizer \in BOOLEAN
      /\ Reached /\ TypeInv'
  BY TypeStep, Steps DEF TypeInv, TypeOK, AWSMachinePools
<1>o. obj' \in AWSMachinePools /\ mem' \in AWSMachinePools
  BY <1>0 DEF TypeInv, TypeOK
<1>1. (obj.exists /\ obj.deleting => obj.finalizer)'
  BY <1>0, ObjectStep DEF ObjectKept, Protected, Finished, DeletionRequested, LifecycleInv
<1>2. obj.exists /\ obj.finalizer /\ pc' # "idle" => obj'.exists /\ obj'.finalizer
  BY <1>0, ObjectStep DEF ObjectKept, Protected, Finished, DeletionRequested
<1>3. obj.deleting => obj'.deleting
  BY <1>0, ObjectStep DEF ObjectKept, Protected, Finished, DeletionRequested
<1>4. ASSUME Reconcile PROVE /\ UNCHANGED obj /\ obj.exists /\ mem' = obj
                             /\ pc' = "finalizer" \/ (pc' \in DeleteLabels \ {"dGetLT", "dLT"}
                                                      /\ obj.deleting)
  BY <1>4 DEF Reconcile, DeleteLabels
<1>5. (pc = "finalizer" /\ mem.finalizer => obj.exists /\ obj.finalizer)'
  <2>1. CASE Reconcile
    BY <1>4, <2>1
  <2>2. CASE pc = "finalizer" /\ UNCHANGED mem
    BY <1>2, <2>2 DEF LifecycleInv
  <2> QED BY <1>0, <2>1, <2>2 DEF Reached
<1>6. (pc \in Working => mem.finalizer /\ obj.exists /\ obj.finalizer)'
  <2> SUFFICES ASSUME pc' \in Working PROVE mem'.finalizer /\ obj'.exists /\ obj'.finalizer
    OBVIOUS
  <2>0. pc' # "idle"
    BY DEF Working, CopyInUse, Changing
  <2>1. CASE AddFinalizer
    <3>1. mem'.finalizer = TRUE /\ UNCHANGED <<lt, asg>> /\ pc = "finalizer"
      BY <1>0, <2>1 DEF AddFinalizer, AWSMachinePools
    <3>2. (mem.finalizer /\ UNCHANGED obj) \/ PatchObject(mem')
      BY <2>1 DEF AddFinalizer, PatchThen, Working, CopyInUse, Changing
    <3>3. CASE mem.finalizer /\ UNCHANGED obj
      BY <3>1, <3>3 DEF LifecycleInv
    <3>4. CASE PatchObject(mem')
      <4>1. Kept
        BY <3>1 DEF Kept, Template, Group
      <4> QED BY <1>o, <3>1, <3>4, <4>1, PatchKeeps
    <3> QED BY <3>2, <3>3, <3>4
  <2>2. CASE pc \in Working /\ mem'.finalizer = mem.finalizer
    BY <1>2, <2>0, <2>2 DEF LifecycleInv
  <2> QED BY <1>0, <2>1, <2>2 DEF Reached
<1>7. (pc \in DeleteLabels => mem.finalizer /\ obj.exists /\ obj.finalizer /\ obj.deleting)'
  <2>1. CASE Reconcile
    BY <1>4, <2>1 DEF LifecycleInv, DeleteLabels
  <2>2. CASE pc' \in DeleteLabels /\ pc \in DeleteLabels /\ UNCHANGED mem
    BY <1>2, <1>3, <2>2 DEF LifecycleInv, DeleteLabels
  <2> QED BY <1>0, <2>1, <2>2 DEF Reached
<1>8. (pc \in {"dGetLT", "dLT"} => ~Group)'
  <2> SUFFICES ASSUME pc' \in {"dGetLT", "dLT"} PROVE ~Group'
    OBVIOUS
  <2>1. CASE FindASGToDelete
    BY <2>1 DEF FindASGToDelete, DeleteLabel, Group
  <2>2. CASE WaitASGDeleted
    BY <2>2 DEF WaitASGDeleted, Group
  <2>3. CASE pc \in {"dGetLT", "dLT"}
    <3>1. ~CreateASG
      BY <2>3 DEF CreateASG
    <3> QED BY <2>3, <3>1, GroupWriters DEF LifecycleInv
  <2> QED BY <1>0, <2>1, <2>2, <2>3 DEF Reached
<1>9. (pc = "close" /\ ~mem.finalizer => obj.deleting /\ ~Template /\ ~Group)'
  <2> SUFFICES ASSUME pc' = "close", ~mem'.finalizer PROVE obj'.deleting /\ ~Template' /\ ~Group'
    OBVIOUS
  <2>1. ~AddFinalizer
    BY <1>0 DEF AddFinalizer, AWSMachinePools
  <2>2. CASE pc \in {"dGetLT", "dLT"}
    <3>1. obj.deleting /\ mem.finalizer /\ ~Group
      BY <2>2 DEF LifecycleInv, DeleteLabels
    <3>2. ~CreateASG
      BY <2>2 DEF CreateASG
    <3>3. mem' # mem
      BY <3>1
    <3>4. GetLaunchTemplateToDelete \/ DeleteLaunchTemplate
      BY <2>2, <3>3 DEF Next, ReconcileStep, vars, Reconcile, AddFinalizer, FindASG,
            GetLaunchTemplate, CreateForMachinePool, CreateLaunchTemplate,
            PatchLaunchTemplateID, RecordLaunchTemplateID, RecordLaunchTemplateVersion,
            CanStartASGInstanceRefresh, CancelASGInstanceRefresh,
            PruneLaunchTemplateVersions, DeleteForMachinePool, CreateLaunchTemplateVersion,
            PatchLaunchTemplateVersion, StartASGInstanceRefresh, CreateASG, GetAWSMachines,
            CreateAWSMachinesIfNotExists, DeleteOrphanedAWSMachines,
            ReconcileLifecycleHooks, SetReplicas, UpdateASG, UpdateProcesses, ReconcileTags,
            ReconcileDeleteAWSMachines, FindASGToDelete, DeleteASG, WaitASGDeleted, Close,
            CallFails, Crash, ASGProgress, InstanceLost, RefreshProgress, MachineCacheSync,
            BootstrapReady, Edit, MachineProgress
    <3>5. ~Template'
      BY <3>3, <3>4 DEF GetLaunchTemplateToDelete, DeleteLaunchTemplate, TemplateLeft, Template
    <3> QED BY <1>3, <3>1, <3>2, <3>5, GroupWriters
  <2>3. CASE pc = "close" /\ mem'.finalizer = mem.finalizer
    <3>1. ~CreateASG /\ ~CreateLaunchTemplate /\ ~CreateLaunchTemplateVersion
      BY <2>3 DEF CreateASG, CreateLaunchTemplate, CreateLaunchTemplateVersion
    <3> QED BY <1>3, <2>3, <3>1, GroupWriters, TemplateAppears DEF LifecycleInv
  <2>4. CASE pc \in Working \cup DeleteLabels /\ mem'.finalizer = mem.finalizer
    BY <2>4 DEF LifecycleInv
  <2> QED BY <1>0, <2>1, <2>2, <2>3, <2>4 DEF Reached
<1> QED BY <1>1, <1>5, <1>6, <1>7, <1>8, <1>9 DEF LifecycleInv

\* Every step of MachinePool is a step of the lifecycle, or leaves it alone.
LEMMA RefinementStep ==
    ASSUME TypeInv, TypeInv', LifecycleInv, [Next]_vars
    PROVE  [Lifecycle!Next]_(Lifecycle!lifecycleVars)
<1> DEFINE object == IF ~obj.exists THEN "gone" ELSE IF obj.deleting THEN "deleting" ELSE "live"
           finalizer == obj.exists /\ obj.finalizer
           owned == {r \in {"template", "group"} :
                        IF r = "template" THEN lt # <<>> ELSE asg.st = "active"}
<1>0. /\ obj.exists \in BOOLEAN /\ obj.finalizer \in BOOLEAN /\ obj.deleting \in BOOLEAN
  BY DEF TypeInv, TypeOK, AWSMachinePools
<1>1. /\ \A r : r \in owned <=> (r = "template" /\ Template) \/ (r = "group" /\ Group)
      /\ \A r : r \in owned' <=> (r = "template" /\ Template') \/ (r = "group" /\ Group')
  BY DEF Template, Group
<1>2. Kept => UNCHANGED owned
  BY DEF Kept, Template, Group
<1>3. CASE ObjectKept
  <2>1. UNCHANGED <<object, finalizer>>
    BY <1>0, <1>3 DEF ObjectKept
  <2>2. ASSUME CreateASG \/ CreateLaunchTemplate \/ CreateLaunchTemplateVersion
        PROVE  finalizer
    BY <2>2 DEF LifecycleInv, Working, CopyInUse, Changing, CreateASG, CreateLaunchTemplate,
                CreateLaunchTemplateVersion
  <2>3. ASSUME CreateASG, ~(Group' => Group) PROVE Lifecycle!Create("group")
    <3>1. Template' = Template
      BY <2>3 DEF CreateASG, Template
    <3>2. owned' = owned \cup {"group"} /\ owned \cap {"group"} = {}
      BY <1>1, <2>3, <3>1
    <3> QED BY <2>1, <2>2, <2>3, <3>2 DEF Lifecycle!Create
  <2>4. ASSUME CreateLaunchTemplate \/ CreateLaunchTemplateVersion, ~(Template' => Template)
        PROVE  Lifecycle!Create("template")
    <3>1. Group' = Group
      BY <2>4 DEF CreateLaunchTemplate, CreateLaunchTemplateVersion, Group
    <3>2. owned' = owned \cup {"template"} /\ owned \cap {"template"} = {}
      BY <1>1, <2>4, <3>1
    <3> QED BY <2>1, <2>2, <2>4, <3>2 DEF Lifecycle!Create
  <2>5. CASE (Group' => Group) /\ (Template' => Template)
    <3>0. \A r : r \in owned' => r \in owned
      BY <1>1, <2>5
    <3>1. owned' = owned \ (owned \ owned')
      <4> HIDE DEF owned
      <4> QED BY <3>0
    <3>3. (owned \ owned') \in SUBSET owned
      <4> HIDE DEF owned
      <4> QED OBVIOUS
    <3>4. \E R \in SUBSET owned : owned' = owned \ R /\ UNCHANGED <<object, finalizer>>
      <4> HIDE DEF owned, object, finalizer
      <4> QED BY <2>1, <3>1, <3>3
    <3> QED BY <3>4 DEF Lifecycle!Release, Lifecycle!Next
  <2> QED BY <2>3, <2>4, <2>5, GroupWriters, TemplateAppears DEF Lifecycle!Next
<1>4. CASE Protected
  BY <1>0, <1>2, <1>4 DEF Protected, Lifecycle!Protect, Lifecycle!Next
<1>5. CASE Finished
  <2>1. owned = {}
    BY <1>1, <1>5 DEF Finished
  <2>2. finalizer' = FALSE /\ object = "deleting" /\ object' = "gone" /\ UNCHANGED owned
    BY <1>2, <1>5 DEF Finished
  <2> QED BY <2>1, <2>2 DEF Lifecycle!Finish, Lifecycle!Next
<1>6. CASE DeletionRequested
  BY <1>0, <1>2, <1>6 DEF DeletionRequested, Lifecycle!RequestDeletion, Lifecycle!Next
<1> QED BY <1>3, <1>4, <1>5, <1>6, ObjectStep

\* The controller implements the abstract lifecycle at whatever call it fails,
\* dies or is overtaken by a user: the launch template and the group are created
\* only for an object that carries the finalizer, and the finalizer leaves only
\* when the template is gone and the group is under deletion.
THEOREM PoolImplementsLifecycle == Spec => ImplementsLifecycle
<1>1. Init => Lifecycle!Init
  BY DEF Init, NoASG, Lifecycle!Init
<1>2. Init => LifecycleInv
  BY DEF Init, LifecycleInv, Working, DeleteLabels, CopyInUse, Changing
<1>3. TypeInv /\ LifecycleInv /\ [Next]_vars => TypeInv' /\ LifecycleInv'
  BY TypeStep, LifecycleStep
<1>4. TypeInv /\ TypeInv' /\ LifecycleInv /\ [Next]_vars
        => [Lifecycle!Next]_(Lifecycle!lifecycleVars)
  BY RefinementStep
<1> QED BY <1>1, <1>2, <1>3, <1>4, TypeInit, PTL DEF Spec, ImplementsLifecycle, Lifecycle!Spec

==============================================================================

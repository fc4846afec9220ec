-------------------------- MODULE AWSMachineProofs --------------------------
(* Theorems about AWSMachine, for all constants.                           *)
EXTENDS AWSMachine, TLAPS

USE DEF Goto, awsVars, apiVars, ctlVars, lostVars

-----------------------------------------------------------------------------
(* Types of the pieces *)

\* Arithmetic on the bounds of the counters.
LEMMA Bounds == /\ MaxFaults \in Nat /\ NChunks \in Nat /\ NChunks > 0
                /\ Len(LoadBalancers) \in Nat
BY ConstantsAssumption

\* The object a user creates is an AWSMachine.
LEMMA NewAWSMachineType == NewAWSMachine \in AWSMachines
BY ConstantsAssumption DEF NewAWSMachine, AWSMachines

\* The local variables a reconcile starts with have their types.
LEMMA NoLocalsType == NoLocals \in Locals
BY Bounds DEF NoLocals, Locals

\* The updates a reconcile makes to the AWSMachine in memory.
LEMMA MemType ==
    ASSUME NEW m \in AWSMachines
    PROVE  /\ \A b \in BOOLEAN : /\ [m EXCEPT !.finalizer = b] \in AWSMachines
                                 /\ [m EXCEPT !.provFailed = b] \in AWSMachines
                                 /\ [m EXCEPT !.failed = b] \in AWSMachines
                                 /\ [m EXCEPT !.exists = b] \in AWSMachines
                                 /\ [m EXCEPT !.deleting = b] \in AWSMachines
           /\ \A h \in Hosts : [m EXCEPT !.host = h] \in AWSMachines
           /\ \A i \in Instances : [m EXCEPT !.pid = i] \in AWSMachines
           /\ \A p \in Prefixes \cup {None}, n \in 0 .. NChunks :
                [m EXCEPT !.prefix = p, !.count = n] \in AWSMachines
           /\ \A i \in Instances, s \in InstanceKnownStates \cup {None}, b \in BOOLEAN :
                [m EXCEPT !.pid = i, !.istate = s, !.provFailed = b] \in AWSMachines
BY DEF AWSMachines

\* The updates a reconcile makes to its local variables.
LEMMA LocType ==
    ASSUME NEW r \in Locals
    PROVE  /\ \A i \in Instances, s \in InstanceKnownStates :
                [r EXCEPT !.found = i, !.fst = s] \in Locals
           /\ \A p \in Prefixes : [r EXCEPT !.pfx = p] \in Locals
           /\ \A n \in 1 .. Len(LoadBalancers) + 1, b \in BOOLEAN :
                [r EXCEPT !.lb = n, !.lberr = b] \in Locals
           /\ \A a, b \in BOOLEAN : [r EXCEPT !.node = a, !.mdel = b] \in Locals
           /\ \A n \in 0 .. NChunks, b \in BOOLEAN :
                [r EXCEPT !.chunk = n, !.serr = b] \in Locals
           /\ \A n, w \in 0 .. NChunks, b \in BOOLEAN :
                [r EXCEPT !.chunk = n, !.written = w, !.serr = b] \in Locals
           /\ \A n, w \in 0 .. NChunks, b \in BOOLEAN :
                [r EXCEPT !.pfx = None, !.chunk = n, !.written = w, !.serr = b] \in Locals
BY DEF Locals

\* The count of faults stays within its bound.
LEMMA FaultType ==
    ASSUME TypeOK, NEW k, Fault(k) \/ NoFault
    PROVE  faults' \in 0 .. MaxFaults
BY Bounds DEF Fault, NoFault, TypeOK

\* Garbage collection by the API server yields an AWSMachine.
LEMMA CollectedType == \A o \in AWSMachines : Collected(o) \in AWSMachines
BY DEF AWSMachines, Collected

\* The stored object stays an AWSMachine when the patch helper writes a
\* well-formed AWSMachine, whichever of the two calls succeed.
LEMMA PatchedType ==
    ASSUME TypeOK, NEW m \in AWSMachines, NEW s \in BOOLEAN, NEW t \in BOOLEAN
    PROVE  Patched(m, s, t) \in AWSMachines
BY CollectedType DEF TypeOK, AWSMachines, Patched

\* Whichever parts of a patch are written, an AWSMachine is stored.
LEMMA PatchType ==
    ASSUME TypeOK, NEW m \in AWSMachines, PatchSucceeds(m) \/ PatchFails(m)
    PROVE  obj' \in AWSMachines /\ faults' \in 0 .. MaxFaults
<1>1. CASE PatchSucceeds(m)
  BY <1>1, PatchedType DEF PatchSucceeds, TypeOK, NoFault
<1>2. CASE PatchFails(m)
  <2>1. CASE ~obj.exists /\ UNCHANGED obj /\ NoFault
    BY <2>1 DEF TypeOK, NoFault
  <2>2. CASE /\ Fault("patch")
             /\ \E s, t \in BOOLEAN : obj' = Patched(m, s, t)
    BY <2>2, PatchedType, FaultType
  <2> QED BY <1>2, <2>1, <2>2 DEF PatchFails
<1> QED BY <1>1, <1>2

-----------------------------------------------------------------------------
(* Type correctness *)

\* Where a reconcile works on an instance, it has one; it writes entries under a
\* prefix, and has not written more of them than it has seen chunks.
Located ==
    /\ loc.written <= loc.chunk
    /\ pc = "secret" => loc.pfx \in Prefixes
    /\ pc \in {"tagENI", "eip", "associate", "update", "tags", "lb", "operational",
               "terminate", "releaseHost", "releaseEIP"}
         => loc.found \in Instances

TypeInv == TypeOK /\ Located

States == {"pending", "running", "stopping", "stopped", "shutting-down", "terminated"}

\* The states EC2 describes are states an instance can be in.
LEMMA KnownStates == InstanceKnownStates = States
BY DEF InstanceKnownStates, InstanceOperationalStates, InstanceRunningStates, States

\* The initial states have their types.
LEMMA TypeInit == Init => TypeInv
<1> SUFFICES ASSUME Init PROVE TypeInv
  OBVIOUS
<1>1. 0 \in 0 .. NChunks /\ 0 \in 0 .. MaxFaults
  BY Bounds
<1>2. secrets \in [Prefixes -> [Indexes -> 0 .. NChunks]]
  BY <1>1 DEF Init
<1>3. eips \in [Eips -> EipRecords]
  BY DEF Init, EipRecords
<1>4. /\ inst \in [Instances -> InstanceStates] /\ hosts \in [Hosts -> HostStates]
      /\ lbs \in [LBIndexes -> SUBSET Instances]
  BY DEF Init, InstanceStates, HostStates
<1>5. TypeOK
  BY <1>1, <1>2, <1>3, <1>4, NewAWSMachineType, NoLocalsType DEF Init, TypeOK, Labels
<1> QED BY <1>5 DEF TypeInv, Located, Init, NoLocals

\* Every step of the controller, AWS and the API server keeps the types
\* and the location of what the reconcile in flight has found.
LEMMA TypeStep == TypeInv /\ [Next]_vars => TypeInv'
<1> SUFFICES ASSUME TypeInv, [Next]_vars PROVE TypeInv'
  OBVIOUS
<1>0. TypeOK /\ Located /\ mem \in AWSMachines /\ loc \in Locals /\ obj \in AWSMachines
  BY DEF TypeInv, TypeOK
<1> USE <1>0 DEF TypeInv
<1>1. CASE Reconcile
  <2>1. loc' \in Locals /\ loc'.written <= loc'.chunk
    <3>1. loc' \in Locals
      BY <1>1, NoLocalsType, LocType DEF Reconcile, TypeOK
    <3>2. loc'.written = 0 /\ loc'.chunk = 0
      BY <1>1 DEF Reconcile, NoLocals
    <3> QED BY <3>1, <3>2
  <2> QED BY <1>1, <2>1 DEF Reconcile, TypeOK, Labels, Located
<1>2. CASE deleteBootstrapData
  <2>1. ASSUME NEW m \in AWSMachines, AfterDeleteBootstrapData(m)
        PROVE  /\ mem' \in AWSMachines
               /\ pc' \in {"find", "close", "tags"}
               /\ pc' = "tags" => loc.found # None
    <3>1. [m EXCEPT !.failed = m.failed \/ loc.fst = "terminated"] \in AWSMachines
      BY DEF AWSMachines
    <3> QED BY <2>1, <3>1 DEF AfterDeleteBootstrapData
  <2>2. [mem EXCEPT !.prefix = None, !.count = 0] \in AWSMachines
    <3>1. 0 \in 0 .. NChunks
      BY Bounds
    <3> QED BY <3>1, MemType
  <2>3. /\ mem' \in AWSMachines
        /\ pc' \in {"find", "close", "tags"}
        /\ pc' = "tags" => loc.found # None
    BY <1>2, <2>1, <2>2 DEF deleteBootstrapData
  <2>4. faults' \in 0 .. MaxFaults
    BY <1>2, FaultType DEF deleteBootstrapData
  <2>5. secrets' \in [Prefixes -> [Indexes -> 0 .. NChunks]]
    <3>1. ASSUME ~KeepBootstrapData, NEW S
          PROVE  WithoutEntries(S) \in [Prefixes -> [Indexes -> 0 .. NChunks]]
      <4>1. mem.prefix \in Prefixes
        BY <3>1 DEF KeepBootstrapData, AWSMachines
      <4>2. [x \in Indexes |-> IF x \in S THEN 0 ELSE secrets[mem.prefix][x]]
              \in [Indexes -> 0 .. NChunks]
        BY <4>1, Bounds DEF TypeOK
      <4> QED BY <4>1, <4>2 DEF TypeOK, WithoutEntries
    <3> QED BY <1>2, <3>1 DEF deleteBootstrapData, TypeOK
  <2> QED BY <1>2, <2>3, <2>4, <2>5 DEF deleteBootstrapData, TypeOK, Located, Locals, Labels
<1>3. CASE findInstance
  <2>1. mem' \in AWSMachines
    <3>1. /\ [mem EXCEPT !.finalizer = FALSE] \in AWSMachines
          /\ [mem EXCEPT !.provFailed = mem.provFailed /\ mem.deleting] \in AWSMachines
      <4>1. (mem.provFailed /\ mem.deleting) \in BOOLEAN
        BY DEF AWSMachines
      <4> QED BY <4>1, MemType
    <3> QED BY <1>3, <3>1 DEF findInstance, Found
  <2>2. \/ UNCHANGED loc /\ pc' \in {"close", "finalizer"}
        \/ \E i \in Instances : Found(i) /\ inst[i] \in InstanceKnownStates
    <3>1. \A i \in ByTags : i \in Instances /\ inst[i] \in InstanceKnownStates
      BY KnownStates DEF ByTags, States
    <3>2. mem.pid \in Instances \cup {None}
      BY DEF AWSMachines
    <3> QED BY <1>3, <3>1, <3>2 DEF findInstance
  <2>3. faults' \in 0 .. MaxFaults
    BY <1>3, FaultType DEF findInstance
  <2>4. CASE UNCHANGED loc /\ pc' \in {"close", "finalizer"}
    BY <1>3, <2>1, <2>3, <2>4 DEF findInstance, TypeOK, Labels, Located
  <2>5. ASSUME NEW i \in Instances, Found(i), inst[i] \in InstanceKnownStates
        PROVE  TypeInv'
    <3>1. loc' \in Locals /\ loc'.found = i /\ loc'.written <= loc'.chunk
      BY <2>5 DEF Found, Locals, Located
    <3>2. pc' \in {"lb", "finalizer"}
      BY <2>5 DEF Found
    <3>3. pc' \in Labels /\ pc' # "secret"
      BY <3>2 DEF Labels
    <3>4. TypeOK'
      BY <1>3, <2>1, <2>3, <3>1, <3>3 DEF findInstance, TypeOK
    <3> QED BY <3>1, <3>3, <3>4 DEF Located
  <2> QED BY <2>2, <2>4, <2>5
<1>4. CASE addFinalizer
  <2>1. mem' \in AWSMachines
    BY <1>4, MemType DEF addFinalizer
  <2>2. obj' \in AWSMachines /\ faults' \in 0 .. MaxFaults
    BY <1>4, <2>1, PatchType DEF addFinalizer, TypeOK, NoFault
  <2> QED BY <1>4, <2>1, <2>2
          DEF addFinalizer, AfterFinalizer, TypeOK, Labels, Located, Locals
<1>5. CASE markProvisionStarted
  <2>1. obj' \in AWSMachines /\ faults' \in 0 .. MaxFaults
    BY <1>5, PatchType DEF markProvisionStarted, TypeOK, NoFault
  <2>2. SecretPrefixes \subseteq Prefixes
    BY DEF SecretPrefixes, AWSMachines
  <2>3. loc' \in Locals /\ loc'.written <= loc'.chunk /\ (pc' = "secret" => loc'.pfx \in Prefixes)
    <3>1. \A p \in Prefixes : LET r == [loc EXCEPT !.pfx = p]
                              IN  r \in Locals /\ r.written <= r.chunk /\ r.pfx = p
      BY DEF Locals, Located
    <3> QED BY <1>5, <2>2, <3>1 DEF markProvisionStarted, Located
  <2> QED BY <1>5, <2>1, <2>3 DEF markProvisionStarted, TypeOK, Labels, Located
<1>6. CASE createSecretChunk
  <2>1. /\ loc.chunk \in 0 .. NChunks /\ loc.chunk < NChunks
        /\ loc.written \in 0 .. NChunks /\ loc.pfx \in Prefixes \cup {None}
    BY <1>6 DEF createSecretChunk, Locals
  <2>2. loc.written <= loc.chunk
    BY DEF Located
  <2>3. loc.written + 1 \in 0 .. NChunks /\ loc.chunk + 1 \in 0 .. NChunks
    BY <2>1, <2>2, Bounds
  <2> DEFINE stored == [loc EXCEPT !.chunk = loc.chunk + 1,
                                   !.written = loc.written + 1, !.serr = FALSE]
             failed == [loc EXCEPT !.chunk = loc.chunk + 1, !.serr = TRUE]
  <2>4. stored \in Locals /\ stored.written <= stored.chunk /\ stored.pfx = loc.pfx
    <3>1. stored \in Locals
      BY <2>1, <2>3, LocType
    <3>2. /\ stored.written = loc.written + 1 /\ stored.chunk = loc.chunk + 1
          /\ stored.pfx = loc.pfx
      BY DEF Locals
    <3> QED BY <2>1, <2>2, <3>1, <3>2
  <2>10. failed \in Locals /\ failed.written <= failed.chunk /\ failed.pfx = loc.pfx
    <3>1. failed \in Locals
      BY <2>3, LocType
    <3>2. /\ failed.written = loc.written /\ failed.chunk = loc.chunk + 1
          /\ failed.pfx = loc.pfx
      BY DEF Locals
    <3> QED BY <2>1, <2>2, <3>1, <3>2
  <2>5. loc' \in {stored, failed}
    BY <1>6 DEF createSecretChunk
  <2>6. ASSUME NEW v \in 0 .. NChunks
        PROVE  [secrets EXCEPT ![loc.pfx][loc.written] = v]
                 \in [Prefixes -> [Indexes -> 0 .. NChunks]]
    BY DEF TypeOK
  <2>7. secrets' \in [Prefixes -> [Indexes -> 0 .. NChunks]]
    <3>1. 0 \in 0 .. NChunks
      BY Bounds
    <3>2. \/ UNCHANGED secrets
          \/ \E v \in {0, loc.chunk + 1} :
               secrets' = [secrets EXCEPT ![loc.pfx][loc.written] = v]
      BY <1>6 DEF createSecretChunk
    <3>3. ASSUME NEW v \in {0, loc.chunk + 1},
                 secrets' = [secrets EXCEPT ![loc.pfx][loc.written] = v]
          PROVE  secrets' \in [Prefixes -> [Indexes -> 0 .. NChunks]]
      BY <2>3, <2>6, <3>1, <3>3
    <3> QED BY <3>2, <3>3 DEF TypeOK
  <2>8. faults' \in 0 .. MaxFaults
    BY <1>6, FaultType DEF createSecretChunk
  <2>9. pc' \in {"register", "secret"}
    BY <1>6 DEF createSecretChunk
  <2>11. loc.pfx \in Prefixes /\ loc.written \in Indexes
    <3>1. loc.pfx \in Prefixes
      BY <1>6 DEF createSecretChunk, Located
    <3>2. loc.written \in 0 .. NChunks - 1
      BY <2>1, <2>2, Bounds
    <3> QED BY <3>1, <3>2 DEF Indexes
  <2>12. lostEntries' \subseteq Prefixes \X Indexes
    <3>1. lostEntries' \in {lostEntries, lostEntries \ {<<loc.pfx, loc.written>>},
                            lostEntries \cup {<<loc.pfx, loc.written>>}}
      BY <1>6 DEF createSecretChunk
    <3> QED BY <2>11, <3>1 DEF TypeOK
  <2>13. loc' \in Locals /\ loc'.written <= loc'.chunk /\ loc'.pfx \in Prefixes
    BY <2>4, <2>5, <2>10, <2>11
  <2> HIDE DEF stored, failed
  <2> QED BY <1>6, <2>7, <2>8, <2>9, <2>12, <2>13
          DEF createSecretChunk, TypeOK, Labels, Located
<1>7. CASE registerSecret
  <2>1. RecordedSecrets \in AWSMachines
    BY MemType DEF RecordedSecrets, Locals
  <2>2. obj' \in AWSMachines /\ faults' \in 0 .. MaxFaults
    BY <1>7, <2>1, PatchType DEF registerSecret
  <2>3. mem' \in AWSMachines
    BY <1>7, <2>1, MemType DEF registerSecret, CreateFailed
  <2>4. loc' \in Locals /\ loc'.written <= loc'.chunk
    <3>1. 0 \in 0 .. NChunks
      BY Bounds
    <3>2. loc' \in Locals
      BY <1>7, <3>1, LocType DEF registerSecret
    <3>3. loc'.written = 0 /\ loc'.chunk = 0
      BY <1>7 DEF registerSecret, Locals
    <3> QED BY <3>2, <3>3
  <2> QED BY <1>7, <2>2, <2>3, <2>4
          DEF registerSecret, CreateFailed, TypeOK, Labels, Located
<1>8. CASE prepareInstance
  <2>1. mem' \in AWSMachines
    <3>1. ASSUME NEW m \in AWSMachines, CreateFailed(m) PROVE mem' \in AWSMachines
      BY <3>1, MemType DEF CreateFailed
    <3>2. [mem EXCEPT !.failed = TRUE] \in AWSMachines
      BY MemType
    <3>3. \A h \in Hosts : [mem EXCEPT !.host = h] \in AWSMachines
      BY MemType
    <3> QED BY <1>8, <3>1, <3>2, <3>3 DEF prepareInstance
  <2>2. hosts' \in [Hosts -> HostStates] /\ lostHosts' \subseteq Hosts
    BY <1>8 DEF prepareInstance, Allocate, TypeOK, HostStates
  <2>3. faults' \in 0 .. MaxFaults
    BY <1>8, FaultType DEF prepareInstance
  <2>4. pc' \in {"close", "launch"}
    BY <1>8 DEF prepareInstance, CreateFailed
  <2> QED BY <1>8, <2>1, <2>2, <2>3, <2>4
          DEF prepareInstance, CreateFailed, TypeOK, Labels, Located
<1>9. CASE runInstance
  <2>1. faults' \in 0 .. MaxFaults
    BY <1>9, FaultType DEF runInstance
  <2>2. CASE \E i \in Instances : /\ inst' = [inst EXCEPT ![i] = "pending"]
                                  /\ mem' = [mem EXCEPT !.pid = i]
                                  /\ loc' = [loc EXCEPT !.found = i, !.fst = "pending"]
                                  /\ pc' = "tagENI"
    <3>1. PICK i \in Instances : /\ inst' = [inst EXCEPT ![i] = "pending"]
                                 /\ mem' = [mem EXCEPT !.pid = i]
                                 /\ loc' = [loc EXCEPT !.found = i, !.fst = "pending"]
                                 /\ pc' = "tagENI"
      BY <2>2
    <3>2. mem' \in AWSMachines
      BY <3>1, MemType
    <3>3. loc' \in Locals /\ loc'.found = i /\ loc'.written <= loc'.chunk
      BY <3>1, KnownStates DEF Locals, States, Located
    <3>4. inst' \in [Instances -> InstanceStates]
      BY <3>1, KnownStates DEF TypeOK, InstanceStates, States
    <3> QED BY <1>9, <2>1, <3>1, <3>2, <3>3, <3>4
            DEF runInstance, TypeOK, Labels, Located
  <2>3. CASE CreateFailed(mem) /\ UNCHANGED <<inst, loc>>
    <3>1. mem' \in AWSMachines
      BY <2>3, MemType DEF CreateFailed
    <3> QED BY <1>9, <2>1, <2>3, <3>1
            DEF runInstance, CreateFailed, TypeOK, Labels, Located
  <2>4. CASE /\ CreateFailed(mem) /\ UNCHANGED loc
             /\ \E i \in Instances : inst' = [inst EXCEPT ![i] = "pending"]
    <3>1. mem' \in AWSMachines
      BY <2>4, MemType DEF CreateFailed
    <3>2. inst' \in [Instances -> InstanceStates]
      BY <2>4, KnownStates DEF TypeOK, InstanceStates, States
    <3> QED BY <1>9, <2>1, <2>4, <3>1, <3>2
            DEF runInstance, CreateFailed, TypeOK, Labels, Located
  <2> QED BY <1>9, <2>2, <2>3, <2>4 DEF runInstance
<1>10. CASE tagNetworkInterfaces
  <2>1. mem' \in AWSMachines
    BY <1>10, MemType DEF tagNetworkInterfaces, CreateFailed
  <2>2. faults' \in 0 .. MaxFaults
    BY <1>10, FaultType DEF tagNetworkInterfaces
  <2> QED BY <1>10, <2>1, <2>2
          DEF tagNetworkInterfaces, CreateFailed, TypeOK, Labels, Located
<1>11. CASE reconcileElasticIP
  <2>1. eips' \in [Eips -> EipRecords]
    <3>1. \A e \in Eips : [eips EXCEPT ![e].role = loc.found] \in [Eips -> EipRecords]
      <4>1. loc.found \in Instances \cup {None}
        BY DEF Locals
      <4> QED BY <4>1 DEF TypeOK, EipRecords
    <3> QED BY <1>11, <3>1 DEF reconcileElasticIP, TypeOK, RoleEips
  <2>2. faults' \in 0 .. MaxFaults
    BY <1>11, FaultType DEF reconcileElasticIP
  <2>3. pc' \in {"update", "close", "associate"}
    BY <1>11 DEF reconcileElasticIP
  <2> QED BY <1>11, <2>1, <2>2, <2>3 DEF reconcileElasticIP, TypeOK, Labels, Located
<1>12. CASE associateAddress
  <2>1. eips' \in [Eips -> EipRecords]
    <3>1. \A e \in Eips : [eips EXCEPT ![e].assoc = TRUE] \in [Eips -> EipRecords]
      BY DEF TypeOK, EipRecords
    <3> QED BY <1>12, <3>1 DEF associateAddress, TypeOK, RoleEips
  <2>2. faults' \in 0 .. MaxFaults
    BY <1>12, FaultType DEF associateAddress
  <2> QED BY <1>12, <2>1, <2>2 DEF associateAddress, TypeOK, Labels, Located
<1>13. CASE updateState
  <2>1. mem' \in AWSMachines
    BY <1>13, MemType DEF updateState, Located, Locals
  <2> QED BY <1>13, <2>1 DEF updateState, TypeOK, Labels, Located, NoFault
<1>14. CASE ensureTags \/ reconcileOperationalState
  <2>1. faults' \in 0 .. MaxFaults
    BY <1>14, FaultType DEF ensureTags, reconcileOperationalState
  <2> QED BY <1>14, <2>1
          DEF ensureTags, reconcileOperationalState, TypeOK, Labels, Located
<1>15. CASE deregisterFromLB \/ registerWithLB
  <2>1. loc.found \in Instances /\ loc.lb \in LBIndexes /\ loc.lberr \in BOOLEAN
    BY <1>15 DEF deregisterFromLB, registerWithLB, Located, Locals
  <2>2. ASSUME NEW n \in 1 .. Len(LoadBalancers) + 1, NEW b \in BOOLEAN,
               loc' = [loc EXCEPT !.lb = n, !.lberr = b]
        PROVE  loc' \in Locals /\ loc'.found = loc.found /\ loc'.written <= loc'.chunk
    BY <2>2 DEF Locals, Located
  <2>3. loc.lb + 1 \in 1 .. Len(LoadBalancers) + 1
        /\ Len(LoadBalancers) + 1 \in 1 .. Len(LoadBalancers) + 1
    BY <2>1, Bounds DEF LBIndexes
  <2>4. loc' \in Locals /\ loc'.found = loc.found /\ loc'.written <= loc'.chunk
    BY <1>15, <2>1, <2>2, <2>3
    DEF deregisterFromLB, registerWithLB, LBLeave, LBReturn, LBDone
  <2>5. lbs' \in [LBIndexes -> SUBSET Instances]
    <3>1. \A S \in SUBSET Instances :
            [lbs EXCEPT ![loc.lb] = S] \in [LBIndexes -> SUBSET Instances]
      BY DEF TypeOK
    <3>2. lbs[loc.lb] \in SUBSET Instances
      BY <2>1 DEF TypeOK
    <3>3. CASE deregisterFromLB
      BY <3>1, <3>2, <3>3 DEF deregisterFromLB, TypeOK
    <3>4. CASE registerWithLB
      <4>1. PICK c \in BOOLEAN : \/ lbs' = [lbs EXCEPT ![loc.lb] =
                                            IF c THEN @ \cup {loc.found} ELSE @]
                                 \/ UNCHANGED lbs
        BY <3>4 DEF registerWithLB
      <4> QED BY <2>1, <3>1, <3>2, <4>1 DEF TypeOK
    <3> QED BY <1>15, <3>3, <3>4
  <2>6. faults' \in 0 .. MaxFaults
    BY <1>15, FaultType DEF deregisterFromLB, registerWithLB
  <2> QED BY <1>15, <2>1, <2>4, <2>5, <2>6
          DEF deregisterFromLB, registerWithLB, TypeOK, Located
<1>16. CASE leaveLB
  BY <1>16 DEF leaveLB, TypeOK, Labels, Located, NoFault
<1>17. CASE releaseDedicatedHost
  <2>1. mem' \in AWSMachines
    BY <1>17, MemType DEF releaseDedicatedHost
  <2>2. obj' \in AWSMachines /\ faults' \in 0 .. MaxFaults
    <3>1. CASE PatchSucceeds(mem) \/ PatchFails(mem)
      BY <3>1, PatchType
    <3>2. CASE obj' \in {obj, Patched(mem, TRUE, TRUE)} /\ (Fault("aws") \/ NoFault)
      BY <3>2, PatchedType, FaultType
    <3> QED BY <1>17, <3>1, <3>2 DEF releaseDedicatedHost
  <2>3. hosts' \in [Hosts -> HostStates]
    BY <1>17 DEF releaseDedicatedHost, TypeOK, HostStates
  <2> QED BY <1>17, <2>1, <2>2, <2>3 DEF releaseDedicatedHost, TypeOK, Labels, Located
<1>18. CASE terminateInstance
  <2> DEFINE m == [mem EXCEPT !.provFailed = FALSE]
  <2>1. m \in AWSMachines
    BY MemType
  <2>2. obj' \in AWSMachines /\ faults' \in 0 .. MaxFaults
    <3>1. CASE PatchSucceeds(m) \/ PatchFails(m)
      BY <2>1, <3>1, PatchType
    <3>2. CASE obj' = Patched(m, TRUE, TRUE) /\ Fault("aws")
      BY <2>1, <3>2, PatchedType, FaultType
    <3> QED BY <1>18, <3>1, <3>2 DEF terminateInstance
  <2>3. inst' \in [Instances -> InstanceStates]
    BY <1>18, KnownStates DEF terminateInstance, TypeOK, InstanceStates, States
  <2>4. mem' = m /\ pc' \in {"releaseEIP", "close"}
    BY <1>18 DEF terminateInstance
  <2> QED BY <1>18, <2>1, <2>2, <2>3, <2>4
          DEF terminateInstance, TypeOK, Labels, Located
<1>19. CASE releaseElasticIP
  <2>1. eips' \in [Eips -> EipRecords]
    <3>1. [role |-> None, assoc |-> FALSE] \in EipRecords
      BY DEF EipRecords
    <3> QED BY <1>19, <3>1 DEF releaseElasticIP, TypeOK
  <2>2. faults' \in 0 .. MaxFaults
    BY <1>19, FaultType DEF releaseElasticIP
  <2> QED BY <1>19, <2>1, <2>2 DEF releaseElasticIP, TypeOK, Labels, Located
<1>20. CASE close
  <2>1. obj' \in AWSMachines /\ faults' \in 0 .. MaxFaults
    BY <1>20, PatchType DEF close
  <2>2. lostHosts' \subseteq Hosts
    BY <1>20 DEF close, ForgetHost, TypeOK, AWSMachines
  <2> QED BY <1>20, <2>1, <2>2, NewAWSMachineType, NoLocalsType
          DEF close, TypeOK, Labels, Located, NoLocals
<1>21. CASE Crash
  <2>1. faults' \in 0 .. MaxFaults
    BY <1>21, FaultType DEF Crash
  <2>2. lostHosts' \subseteq Hosts
    BY <1>21 DEF Crash, ForgetHost, TypeOK, AWSMachines
  <2> QED BY <1>21, <2>1, <2>2, NewAWSMachineType, NoLocalsType
          DEF Crash, TypeOK, Labels, Located, NoLocals
<1>22. CASE CacheSync \/ NodeJoins \/ DeleteMachine
  BY <1>22 DEF CacheSync, NodeJoins, DeleteMachine, TypeOK, Located
<1>23. CASE DeleteAWSMachine
  <2>1. obj' \in AWSMachines
    BY <1>23, CollectedType, MemType DEF DeleteAWSMachine
  <2> QED BY <1>23, <2>1 DEF DeleteAWSMachine, TypeOK, Located
<1>24. ASSUME NEW i \in Instances, InstanceProgress(i) \/ InstanceDisturbed(i)
       PROVE  TypeInv'
  <2>1. inst' \in [Instances -> InstanceStates]
    BY <1>24, KnownStates
    DEF InstanceProgress, InstanceDisturbed, TypeOK, InstanceStates, States
  <2>2. eips' \in [Eips -> EipRecords]
    <3>1. \A e \in Eips : [eips[e] EXCEPT !.assoc = FALSE] \in EipRecords
      BY DEF TypeOK, EipRecords
    <3> QED BY <1>24, <3>1 DEF InstanceProgress, InstanceDisturbed, TypeOK
  <2> QED BY <1>24, <2>1, <2>2 DEF InstanceProgress, InstanceDisturbed, TypeOK, Located
<1>25. CASE UNCHANGED vars
  BY <1>25 DEF vars, TypeOK, Located
<1> QED BY <1>1, <1>2, <1>3, <1>4, <1>5, <1>6, <1>7, <1>8, <1>9, <1>10, <1>11,
           <1>12, <1>13, <1>14, <1>15, <1>16, <1>17, <1>18, <1>19, <1>20,
           <1>21, <1>22, <1>23, <1>24, <1>25 DEF Next, ReconcileStep

\* Every variable stays in its type, for all constants.
THEOREM TypeCorrect == Spec => []TypeOK
BY TypeInit, TypeStep, PTL DEF Spec, TypeInv
-----------------------------------------------------------------------------
(* One instance, and none without the finalizer *)

NoneLive == \A i \in Instances : ~Live(i)
OnlyLive(j) == \A i \in Instances : Live(i) => i = j

\* The reconcile is on its way to RunInstances.
Launching ==
    \/ pc = "finalizer" /\ loc.found = None
    \/ pc \in {"provision", "secret", "register", "create", "launch"}

\* findInstance has found no instance, and nobody else launches one.
LaunchInv == OneLiveInstance /\ (Launching => NoneLive)

\* What is known of the object while it is being reconciled from a cache that
\* was up to date when the reconcile started: a recorded or located instance
\* is the only live one, the finalizer seen in memory is stored, and it is only
\* dropped from memory when nothing lives.
MemInv ==
    /\ mem.pid # None => OnlyLive(mem.pid)
    /\ mem.pid = None => obj.pid = None /\ base.pid = None
    /\ loc.found # None => OnlyLive(loc.found)
    /\ loc.found # None /\ loc.fst = "terminated"
         => inst[loc.found] \in {"terminated", "gone"}
    /\ base.finalizer /\ ~mem.finalizer => pc = "close" /\ NoneLive
    /\ pc # "close" /\ mem.finalizer => obj.exists /\ obj.finalizer
    /\ pc = "releaseHost" => loc.fst = "terminated"
    /\ Launching => mem.pid = None /\ loc.found = None
    /\ Launching /\ pc # "finalizer" => mem.finalizer

FinalizerInv ==
    /\ NoOrphanInstance
    /\ obj.pid # None => OnlyLive(obj.pid)
    /\ pc # "idle" => MemInv

\* RunInstances is the only step that brings an instance to life, as long as
\* nobody starts stopped instances.
LEMMA NoOtherLaunch ==
    ASSUME TypeInv, ~CanStop, [Next]_vars, ~runInstance
    PROVE  \A i \in Instances : Live(i)' => Live(i)
<1> USE DEF Live, InstanceRunningStates
<1>1. CASE terminateInstance
  BY <1>1 DEF terminateInstance, TypeInv, TypeOK
<1>2. ASSUME NEW i \in Instances, InstanceProgress(i) \/ InstanceDisturbed(i)
      PROVE  \A j \in Instances : Live(j)' => Live(j)
  BY <1>2 DEF InstanceProgress, InstanceDisturbed, TypeInv, TypeOK
<1>3. CASE UNCHANGED inst
  BY <1>3
<1>4. \/ UNCHANGED inst \/ terminateInstance
      \/ \E i \in Instances : InstanceProgress(i) \/ InstanceDisturbed(i)
  BY DEF Next, ReconcileStep, vars, Reconcile, deleteBootstrapData, findInstance,
     addFinalizer, markProvisionStarted, createSecretChunk, registerSecret,
     prepareInstance, tagNetworkInterfaces, reconcileElasticIP, associateAddress,
     updateState, ensureTags, reconcileOperationalState, deregisterFromLB,
     registerWithLB, leaveLB, releaseDedicatedHost, releaseElasticIP, close, Crash,
     CacheSync, NodeJoins, DeleteMachine, DeleteAWSMachine
<1> QED BY <1>1, <1>2, <1>3, <1>4

\* The way to RunInstances starts with a findInstance that has found nothing.
LEMMA LaunchingStarts ==
    ASSUME TypeInv, [Next]_vars, Launching'
    PROVE  Launching \/ (findInstance /\ mem.pid = None /\ ByTags = {})
<1>1. CASE findInstance
  <2>1. ASSUME NEW i \in Instances, Found(i) PROVE FALSE
    <3>1. loc'.found = i /\ i # None
      BY <2>1, ConstantsAssumption DEF Found, TypeInv, TypeOK, Locals
    <3> QED BY <2>1, <3>1 DEF Found, Launching
  <2>2. mem.pid = None => \A i \in ByTags : ~Found(i)
    BY <2>1 DEF ByTags
  <2>3. mem.pid # None => ~Found(mem.pid)
    BY <2>1 DEF TypeInv, TypeOK, AWSMachines
  <2> QED BY <1>1, <2>2, <2>3 DEF findInstance, Launching
<1>2. CASE ~findInstance /\ ReconcileStep
  <2> USE DEF Launching
  <2>1. CASE addFinalizer
    BY <2>1 DEF addFinalizer, AfterFinalizer
  <2>2. CASE \/ markProvisionStarted \/ createSecretChunk \/ registerSecret
             \/ prepareInstance \/ runInstance
    BY <2>2 DEF markProvisionStarted, createSecretChunk, registerSecret,
                prepareInstance, runInstance
  <2>3. CASE deleteBootstrapData
    BY <2>3 DEF deleteBootstrapData, AfterDeleteBootstrapData
  <2>4. CASE tagNetworkInterfaces \/ reconcileElasticIP \/ associateAddress
    BY <2>4 DEF tagNetworkInterfaces, CreateFailed, reconcileElasticIP, associateAddress
  <2>5. CASE updateState \/ ensureTags \/ reconcileOperationalState
    BY <2>5 DEF updateState, ensureTags, reconcileOperationalState
  <2>6. CASE deregisterFromLB \/ registerWithLB \/ leaveLB
    BY <2>6 DEF deregisterFromLB, registerWithLB, leaveLB
  <2>7. CASE releaseDedicatedHost \/ terminateInstance \/ releaseElasticIP \/ close
    BY <2>7 DEF releaseDedicatedHost, terminateInstance, releaseElasticIP, close
  <2> QED BY <1>2, <2>1, <2>2, <2>3, <2>4, <2>5, <2>6, <2>7 DEF ReconcileStep
<1>3. CASE ~ReconcileStep
  BY <1>3 DEF Next, vars, Launching, Reconcile, Crash, CacheSync, NodeJoins,
     DeleteMachine, DeleteAWSMachine, InstanceProgress, InstanceDisturbed
<1> QED BY <1>1, <1>2, <1>3

\* Nothing lives in the initial states.
LEMMA LaunchInit == Init => LaunchInv
BY DEF Init, LaunchInv, OneLiveInstance, Launching, Live, InstanceRunningStates

\* No step launches a second instance: RunInstances is only reached while
\* nothing lives, and nothing comes to life in between.
LEMMA LaunchStep ==
    ASSUME ~CanStop
    PROVE  TypeInv /\ LaunchInv /\ [Next]_vars => LaunchInv'
<1> SUFFICES ASSUME TypeInv, LaunchInv, [Next]_vars PROVE LaunchInv'
  OBVIOUS
<1>1. CASE runInstance
  <2>1. NoneLive /\ ~Launching'
    BY <1>1 DEF runInstance, CreateFailed, LaunchInv, Launching
  <2>2. \/ UNCHANGED inst
        \/ \E i \in Instances : inst' = [inst EXCEPT ![i] = "pending"]
    BY <1>1 DEF runInstance
  <2> QED BY <2>1, <2>2 DEF LaunchInv, OneLiveInstance, NoneLive, Live, TypeInv, TypeOK
<1>2. CASE ~runInstance
  <2>1. \A i \in Instances : Live(i)' => Live(i)
    BY <1>2, NoOtherLaunch
  <2>2. OneLiveInstance'
    BY <2>1 DEF LaunchInv, OneLiveInstance
  <2>3. ASSUME Launching' PROVE NoneLive
    BY <2>3, LaunchingStarts
    DEF LaunchInv, NoneLive, ByTags, Live, InstanceRunningStates
  <2> QED BY <2>1, <2>2, <2>3 DEF LaunchInv, NoneLive
<1> QED BY <1>1, <1>2

\* findInstance is the only guard createInstance needs: while nobody stops
\* instances, no interleaving of faults, crashes, stale reads and retries gives
\* a machine two pending or running instances.
THEOREM OneInstance == ~CanStop => (Spec => []OneLiveInstance)
<1> SUFFICES ASSUME ~CanStop PROVE Spec => []OneLiveInstance
  OBVIOUS
<1> QED BY LaunchInit, LaunchStep, TypeInit, TypeStep, PTL DEF Spec, LaunchInv

-----------------------------------------------------------------------------

\* What a patch does to the fields that matter here.
LEMMA PatchedFields ==
    ASSUME TypeOK, NEW m \in AWSMachines, NEW s \in BOOLEAN, NEW t \in BOOLEAN
    PROVE  LET o == Patched(m, s, t)
               f == IF s /\ m.finalizer # base.finalizer THEN m.finalizer
                    ELSE obj.finalizer
           IN  /\ o.finalizer = f
               /\ o.exists = (obj.exists /\ ~(obj.deleting /\ ~f))
               /\ o.pid = IF s /\ m.pid # base.pid THEN m.pid ELSE obj.pid
BY DEF Patched, Collected, TypeOK, AWSMachines

\* A patch that does not drop the finalizer keeps it stored, and a patch
\* stores the provider id in memory or leaves the stored one.
Keeps(m) ==
    /\ (base.finalizer => m.finalizer) /\ obj.exists /\ obj.finalizer
         => obj'.exists /\ obj'.finalizer
    /\ obj'.pid = obj.pid \/ (m.pid # base.pid /\ obj'.pid = m.pid)

\* A patch never drops a stored finalizer that memory still has, and stores a
\* provider id only if this reconcile has set it.
LEMMA PatchedKeeps ==
    ASSUME TypeOK, NEW m \in AWSMachines, NEW s \in BOOLEAN, NEW t \in BOOLEAN,
           obj' = Patched(m, s, t)
    PROVE  Keeps(m)
<1>1. /\ m.finalizer \in BOOLEAN /\ base.finalizer \in BOOLEAN
      /\ obj.finalizer \in BOOLEAN /\ obj.exists \in BOOLEAN
  BY DEF TypeOK, AWSMachines
<1> QED BY <1>1, PatchedFields DEF Keeps

\* The same of a patch that succeeds and of one that fails.
LEMMA PatchKeeps ==
    ASSUME TypeOK, NEW m \in AWSMachines,
           \/ PatchSucceeds(m) \/ PatchFails(m)
           \/ obj' = Patched(m, TRUE, TRUE)
    PROVE  Keeps(m)
<1>1. CASE UNCHANGED obj
  BY <1>1 DEF Keeps
<1>2. TRUE \in BOOLEAN
  OBVIOUS
<1> QED BY <1>1, <1>2, PatchedKeeps DEF PatchSucceeds, PatchFails

\* The same for the finalizer when the patch succeeds.
LEMMA PatchStores ==
    ASSUME TypeOK, NEW m \in AWSMachines, PatchSucceeds(m), m.finalizer,
           base.finalizer => obj.finalizer
    PROVE  obj'.exists /\ obj'.finalizer
<1>1. /\ m.finalizer \in BOOLEAN /\ base.finalizer \in BOOLEAN
      /\ obj.finalizer \in BOOLEAN /\ obj.exists \in BOOLEAN
  BY DEF TypeOK, AWSMachines
<1> QED BY <1>1, PatchedFields DEF PatchSucceeds

\* An instance that is terminated stays so.
LEMMA StaysTerminated ==
    ASSUME TypeInv, [Next]_vars
    PROVE  \A i \in Instances : inst[i] \in {"terminated", "gone"}
                                  => inst'[i] \in {"terminated", "gone"}
<1>1. CASE terminateInstance
  BY <1>1 DEF terminateInstance, TypeInv, TypeOK
<1>2. ASSUME NEW i \in Instances, InstanceProgress(i) \/ InstanceDisturbed(i)
      PROVE  \A j \in Instances : inst[j] \in {"terminated", "gone"}
                                  => inst'[j] \in {"terminated", "gone"}
  BY <1>2 DEF InstanceProgress, InstanceDisturbed, TypeInv, TypeOK,
     InstanceOperationalStates, InstanceRunningStates
<1>3. CASE UNCHANGED inst
  BY <1>3
<1>4. CASE runInstance
  BY <1>4 DEF runInstance, TypeInv, TypeOK
<1>5. \/ UNCHANGED inst \/ terminateInstance \/ runInstance
      \/ \E i \in Instances : InstanceProgress(i) \/ InstanceDisturbed(i)
  BY DEF Next, ReconcileStep, vars, Reconcile, deleteBootstrapData, findInstance,
     addFinalizer, markProvisionStarted, createSecretChunk, registerSecret,
     prepareInstance, tagNetworkInterfaces, reconcileElasticIP, associateAddress,
     updateState, ensureTags, reconcileOperationalState, deregisterFromLB,
     registerWithLB, leaveLB, releaseDedicatedHost, releaseElasticIP, close, Crash,
     CacheSync, NodeJoins, DeleteMachine, DeleteAWSMachine
<1> QED BY <1>1, <1>2, <1>3, <1>4, <1>5

\* The bookkeeping common to the steps of a reconcile that launch nothing and
\* do not add the finalizer.
LEMMA FinalizerKept ==
    ASSUME TypeInv, FinalizerInv, pc # "idle",
           \A i \in Instances : Live(i)' => Live(i),
           \A i \in Instances : inst[i] \in {"terminated", "gone"}
                                  => inst'[i] \in {"terminated", "gone"},
           UNCHANGED base,
           obj.exists /\ obj.finalizer => obj'.exists /\ obj'.finalizer,
           obj'.pid = obj.pid \/ (mem.pid # None /\ obj'.pid = mem.pid),
           mem'.pid = mem.pid
             \/ (loc.found \in Instances /\ mem'.pid = loc.found),
           \/ mem'.finalizer = mem.finalizer
           \/ ~mem'.finalizer /\ pc' = "close" /\ NoneLive,
           \/ loc'.found = loc.found /\ loc'.fst = loc.fst
           \/ OnlyLive(loc'.found)
              /\ (loc'.fst = "terminated" => inst'[loc'.found] \in {"terminated", "gone"}),
           pc = "close" => pc' = "close",
           pc' = "releaseHost" => loc'.fst = "terminated",
           Launching' => mem'.pid = None /\ loc'.found = None,
           Launching' /\ pc' # "finalizer" => mem'.finalizer
    PROVE  FinalizerInv'
<1>1. \A j : OnlyLive(j) => OnlyLive(j)'
  BY DEF OnlyLive
<1>2. NoneLive => NoneLive'
  BY DEF NoneLive
<1>3. MemInv /\ NoOrphanInstance /\ (obj.pid # None => OnlyLive(obj.pid))
  BY DEF FinalizerInv
<1>4. NoOrphanInstance'
  BY <1>3 DEF NoOrphanInstance
<1>5. obj'.pid # None => OnlyLive(obj'.pid)
  BY <1>3 DEF MemInv
<1>6. mem'.pid # None => OnlyLive(mem'.pid)
  BY <1>3, ConstantsAssumption DEF MemInv
<1>7. mem'.pid = None => obj'.pid = None /\ base'.pid = None
  BY <1>3, ConstantsAssumption DEF MemInv
<1>8. loc'.found # None => OnlyLive(loc'.found)
  BY <1>3 DEF MemInv
<1>9. loc'.found # None /\ loc'.fst = "terminated"
        => inst'[loc'.found] \in {"terminated", "gone"}
  <2>1. loc.found \in Instances \cup {None}
    BY DEF TypeInv, TypeOK, Locals
  <2> QED BY <1>3, <2>1 DEF MemInv
<1>10. base'.finalizer /\ ~mem'.finalizer => pc' = "close" /\ NoneLive
  BY <1>3 DEF MemInv
<1>11. pc' # "close" /\ mem'.finalizer => obj'.exists /\ obj'.finalizer
  BY <1>3 DEF MemInv
<1>12. MemInv'
  BY <1>1, <1>2, <1>6, <1>7, <1>8, <1>9, <1>10, <1>11 DEF MemInv
<1>13. (obj.pid # None => OnlyLive(obj.pid))'
  BY <1>1, <1>5
<1> QED BY <1>4, <1>12, <1>13 DEF FinalizerInv

\* Every step keeps the finalizer on the object of a live instance.
LEMMA FinalizerStep ==
    ASSUME ~CanStop, "stale" \notin FaultKinds,
           TypeInv, TypeInv', LaunchInv, FinalizerInv, [Next]_vars
    PROVE  FinalizerInv'
<1>0. /\ TypeOK /\ mem \in AWSMachines /\ obj \in AWSMachines /\ base \in AWSMachines
      /\ loc \in Locals /\ mem' \in AWSMachines /\ loc' \in Locals
      /\ None \notin Instances
  BY ConstantsAssumption DEF TypeInv, TypeOK
<1>1. ~runInstance => \A i \in Instances : Live(i)' => Live(i)
  BY NoOtherLaunch
<1>2. \A i \in Instances : inst[i] \in {"terminated", "gone"}
                             => inst'[i] \in {"terminated", "gone"}
  BY StaysTerminated
<1>3. NoOrphanInstance /\ (obj.pid # None => OnlyLive(obj.pid))
  BY DEF FinalizerInv
<1>4. pc # "idle" => MemInv
  BY DEF FinalizerInv
<1>5. Launching' => Launching \/ (findInstance /\ mem.pid = None /\ ByTags = {})
  BY LaunchingStarts
<1>6. Launching => pc # "idle" /\ mem.pid = None /\ loc.found = None
  BY <1>4 DEF Launching, MemInv
<1>7. Launching /\ pc # "finalizer" => mem.finalizer
  BY <1>4 DEF Launching, MemInv
<1>8. pc # "idle" /\ pc # "close" => (base.finalizer => mem.finalizer)
  BY <1>4 DEF MemInv
<1>9. pc # "idle" /\ mem.pid # base.pid => mem.pid # None
  BY <1>4 DEF MemInv
<1>10. CASE Reconcile
  <2>1. /\ mem' = obj /\ base' = obj /\ UNCHANGED <<obj, inst>> /\ obj.exists
        /\ loc'.found = None /\ pc' \in {"delBoot", "find"}
    BY <1>10 DEF Reconcile, NoLocals
  <2> QED BY <1>3, <2>1
          DEF FinalizerInv, NoOrphanInstance, MemInv, OnlyLive, NoneLive, Live, Launching
<1>11. CASE \/ deleteBootstrapData \/ prepareInstance \/ tagNetworkInterfaces
  <2>1. /\ mem'.pid = mem.pid /\ mem'.finalizer = mem.finalizer
        /\ UNCHANGED <<obj, base, loc>> /\ pc \notin {"idle", "close", "finalizer"}
        /\ pc' \notin {"releaseHost", "finalizer"} /\ ~runInstance
    <3>1. CASE deleteBootstrapData
      BY <1>0, <3>1 DEF deleteBootstrapData, AfterDeleteBootstrapData, runInstance, AWSMachines
    <3>2. CASE prepareInstance
      BY <1>0, <3>2 DEF prepareInstance, CreateFailed, runInstance, AWSMachines
    <3>3. CASE tagNetworkInterfaces
      BY <1>0, <3>3 DEF tagNetworkInterfaces, CreateFailed, runInstance, AWSMachines
    <3> QED BY <1>11, <3>1, <3>2, <3>3
  <2>2. ~findInstance
    BY <1>11 DEF deleteBootstrapData, prepareInstance, tagNetworkInterfaces, findInstance
  <2> QED BY <1>1, <1>2, <1>5, <1>6, <1>7, <2>1, <2>2, FinalizerKept
<1>12. CASE findInstance
  <2>1. UNCHANGED <<obj, base, inst>> /\ pc = "find" /\ ~runInstance
        /\ mem'.pid = mem.pid
    BY <1>0, <1>12 DEF findInstance, Found, runInstance, AWSMachines
  <2>2. CASE /\ UNCHANGED loc /\ mem'.finalizer = mem.finalizer
             /\ \/ pc' = "close"
                \/ pc' = "finalizer" /\ mem.pid = None /\ ByTags = {}
    <3>1. ~Launching /\ MemInv
      BY <1>4, <2>1 DEF Launching
    <3>2. Launching' => mem'.pid = None /\ loc'.found = None
      BY <2>1, <2>2 DEF Launching
    <3>3. Launching' /\ pc' # "finalizer" => mem'.finalizer
      BY <2>2 DEF Launching
    <3> QED BY <1>1, <1>2, <2>1, <2>2, <3>2, <3>3, FinalizerKept
  <2>3. CASE NothingToDelete /\ pc' = "close" /\ UNCHANGED loc /\ ~mem'.finalizer
    <3>1. NoneLive
      <4>1. CASE mem.pid = None
        BY <2>3, <4>1
        DEF NothingToDelete, ByTags, NoneLive, Live, InstanceRunningStates
      <4>2. CASE mem.pid # None
        BY <1>4, <2>1, <2>3, <4>2
        DEF NothingToDelete, MemInv, OnlyLive, NoneLive, Live, InstanceRunningStates
      <4> QED BY <4>1, <4>2
    <3>2. ~Launching'
      BY <2>3 DEF Launching
    <3> QED BY <1>1, <1>2, <2>1, <2>3, <3>1, <3>2, FinalizerKept
  <2>4. ASSUME NEW i \in Instances, Found(i), OnlyLive(i) PROVE FinalizerInv'
    <3>1. /\ loc'.found = i /\ loc'.fst = inst[i] /\ UNCHANGED mem
          /\ pc' \in {"lb", "finalizer"}
      BY <1>0, <2>4 DEF Found, Locals
    <3>2. ~Launching'
      BY <1>0, <3>1 DEF Launching
    <3> QED BY <1>1, <1>2, <2>1, <2>4, <3>1, <3>2, FinalizerKept
  <2>5. ASSUME mem.pid = None, NEW i \in ByTags PROVE OnlyLive(i)
    BY <2>5 DEF LaunchInv, OneLiveInstance, OnlyLive, ByTags, Live, InstanceRunningStates
  <2>6. mem.pid # None => mem.pid \in Instances /\ OnlyLive(mem.pid)
    BY <1>0, <1>4, <2>1 DEF AWSMachines, MemInv
  <2>7. ByTags \subseteq Instances
    BY DEF ByTags
  <2>8. /\ mem' = [mem EXCEPT !.finalizer = FALSE] => ~mem'.finalizer
        /\ mem' = [mem EXCEPT !.provFailed = mem.provFailed /\ mem.deleting]
             => mem'.finalizer = mem.finalizer
    BY <1>0 DEF AWSMachines
  <2> QED BY <1>12, <2>2, <2>3, <2>4, <2>5, <2>6, <2>7, <2>8 DEF findInstance
<1>13. CASE addFinalizer
  <2>1. /\ mem' = [mem EXCEPT !.finalizer = TRUE] /\ mem'.finalizer /\ mem'.pid = mem.pid
        /\ UNCHANGED <<inst, base, loc>> /\ pc = "finalizer"
    BY <1>0, <1>13 DEF addFinalizer, AWSMachines
  <2>2. MemInv
    BY <1>4, <2>1
  <2>3. /\ obj.exists /\ obj.finalizer => obj'.exists /\ obj'.finalizer
        /\ obj'.pid = obj.pid \/ (mem.pid # None /\ obj'.pid = mem.pid)
    BY <1>0, <1>9, <1>13, <2>1, PatchKeeps DEF addFinalizer, Keeps
  <2>4. pc' = "close" \/ (obj'.exists /\ obj'.finalizer)
    <3>1. CASE mem.finalizer /\ UNCHANGED obj
      BY <2>1, <2>2, <3>1 DEF MemInv
    <3>2. CASE PatchSucceeds(mem')
      BY <1>0, <2>1, <2>2, <3>2, PatchStores DEF MemInv
    <3> QED BY <1>13, <3>1, <3>2 DEF addFinalizer
  <2>5. pc' # "releaseHost" /\ pc' # "finalizer"
    BY <1>13 DEF addFinalizer, AfterFinalizer
  <2>6. Launching' => mem'.pid = None /\ loc'.found = None
    <3>1. ~findInstance
      BY <2>1 DEF findInstance
    <3> QED BY <1>5, <1>6, <2>1, <3>1
  <2>7. \A j : OnlyLive(j)' <=> OnlyLive(j)
    BY <2>1 DEF OnlyLive, Live
  <2>8. NoOrphanInstance' /\ (obj'.pid # None => OnlyLive(obj'.pid))
    BY <1>3, <2>1, <2>2, <2>3 DEF NoOrphanInstance, Live, MemInv
  <2>9. MemInv'
    BY <2>1, <2>2, <2>3, <2>4, <2>5, <2>6, <2>7 DEF MemInv
  <2> QED BY <2>7, <2>8, <2>9 DEF FinalizerInv
<1>14. CASE markProvisionStarted \/ registerSecret \/ terminateInstance
  <2>1. \E m \in AWSMachines :
          /\ m.pid = mem.pid /\ m.finalizer = mem.finalizer
          /\ PatchSucceeds(m) \/ PatchFails(m) \/ UNCHANGED obj
               \/ obj' = Patched(m, TRUE, TRUE)
          /\ mem'.pid = mem.pid /\ mem'.finalizer = mem.finalizer
    <3>1. CASE markProvisionStarted
      BY <1>0, <3>1 DEF markProvisionStarted
    <3>2. CASE registerSecret
      <4>1. /\ RecordedSecrets \in AWSMachines /\ RecordedSecrets.pid = mem.pid
            /\ RecordedSecrets.finalizer = mem.finalizer
        BY <1>0 DEF RecordedSecrets, Locals, AWSMachines
      <4>2. PatchSucceeds(RecordedSecrets) \/ PatchFails(RecordedSecrets)
        BY <3>2 DEF registerSecret
      <4>3. mem'.pid = mem.pid /\ mem'.finalizer = mem.finalizer
        BY <3>2, <4>1 DEF registerSecret, CreateFailed, AWSMachines
      <4> QED BY <4>1, <4>2, <4>3
    <3>3. CASE terminateInstance
      <4> DEFINE m == [mem EXCEPT !.provFailed = FALSE]
      <4>1. m \in AWSMachines /\ m.pid = mem.pid /\ m.finalizer = mem.finalizer
        BY <1>0 DEF AWSMachines
      <4>2. mem' = m /\ (PatchSucceeds(m) \/ PatchFails(m) \/ obj' = Patched(m, TRUE, TRUE))
        BY <3>3 DEF terminateInstance
      <4> QED BY <4>1, <4>2
    <3> QED BY <1>14, <3>1, <3>2, <3>3
  <2>2. /\ pc \notin {"idle", "close", "finalizer"} /\ pc' # "releaseHost" /\ pc' # "finalizer"
        /\ UNCHANGED base /\ ~runInstance /\ ~findInstance
    BY <1>14 DEF markProvisionStarted, registerSecret, terminateInstance, CreateFailed,
       runInstance, findInstance
  <2>3. loc'.found = loc.found /\ loc'.fst = loc.fst
    BY <1>0, <1>14 DEF markProvisionStarted, registerSecret, terminateInstance, Locals
  <2>4. PICK m \in AWSMachines :
          /\ m.pid = mem.pid /\ m.finalizer = mem.finalizer
          /\ PatchSucceeds(m) \/ PatchFails(m) \/ UNCHANGED obj
               \/ obj' = Patched(m, TRUE, TRUE)
          /\ mem'.pid = mem.pid /\ mem'.finalizer = mem.finalizer
    BY <2>1
  <2>5. /\ obj.exists /\ obj.finalizer => obj'.exists /\ obj'.finalizer
        /\ obj'.pid = obj.pid \/ (mem.pid # None /\ obj'.pid = mem.pid)
    BY <1>0, <1>8, <1>9, <2>2, <2>4, PatchKeeps DEF Keeps
  <2>6. Launching' => Launching /\ pc # "finalizer"
    BY <1>5, <2>2
  <2> QED BY <1>1, <1>2, <1>6, <1>7, <2>2, <2>3, <2>4, <2>5, <2>6, FinalizerKept
<1>15. CASE createSecretChunk
  <2>1. /\ UNCHANGED <<obj, mem, base>> /\ pc = "secret"
        /\ pc' \in {"secret", "register"} /\ ~runInstance /\ ~findInstance
    BY <1>15 DEF createSecretChunk, runInstance, findInstance
  <2>2. loc'.found = loc.found /\ loc'.fst = loc.fst
    BY <1>0, <1>15 DEF createSecretChunk, Locals
  <2> QED BY <1>1, <1>2, <1>5, <1>6, <1>7, <2>1, <2>2, FinalizerKept
<1>16. CASE runInstance
  <2>1. /\ UNCHANGED <<obj, base>> /\ pc = "launch" /\ Launching
    BY <1>16 DEF runInstance, Launching
  <2>2. /\ NoneLive /\ mem.pid = None /\ loc.found = None /\ mem.finalizer
        /\ obj.exists /\ obj.finalizer /\ obj.pid = None /\ MemInv
    BY <1>4, <1>6, <1>7, <2>1 DEF LaunchInv, MemInv
  <2>3. CASE CreateFailed(mem) /\ UNCHANGED <<inst, loc>>
    <3>1. mem'.pid = mem.pid /\ mem'.finalizer = mem.finalizer /\ pc' = "close"
      BY <1>0, <2>3 DEF CreateFailed, AWSMachines
    <3>2. ~Launching'
      BY <3>1 DEF Launching
    <3>3. \A i \in Instances : Live(i)' => Live(i)
      BY <2>3 DEF Live
    <3> QED BY <1>2, <2>1, <2>3, <3>1, <3>2, <3>3, FinalizerKept
  <2>4. ASSUME NEW i \in Instances, inst' = [inst EXCEPT ![i] = "pending"],
               mem' = [mem EXCEPT !.pid = i], pc' = "tagENI",
               loc' = [loc EXCEPT !.found = i, !.fst = "pending"]
        PROVE  FinalizerInv'
    <3>1. /\ mem'.pid = i /\ mem'.finalizer = mem.finalizer
          /\ loc'.found = i /\ loc'.fst = "pending"
      BY <1>0, <2>4 DEF AWSMachines, Locals
    <3>2. OnlyLive(i)'
      BY <2>2, <2>4 DEF OnlyLive, NoneLive, Live, TypeInv, TypeOK
    <3>3. NoOrphanInstance'
      BY <2>1, <2>2 DEF NoOrphanInstance
    <3>4. MemInv'
      BY <1>0, <2>1, <2>2, <2>4, <3>1, <3>2 DEF MemInv, Launching
    <3> QED BY <2>1, <2>2, <3>3, <3>4 DEF FinalizerInv
  <2>5. CASE /\ CreateFailed(mem) /\ UNCHANGED loc
             /\ \E i \in Instances : inst' = [inst EXCEPT ![i] = "pending"]
    <3>1. /\ mem'.pid = mem.pid /\ mem'.finalizer = mem.finalizer
          /\ pc' = "close" /\ ~Launching'
      BY <1>0, <2>5 DEF CreateFailed, AWSMachines, Launching
    <3>2. NoOrphanInstance'
      BY <2>1, <2>2 DEF NoOrphanInstance
    <3>3. MemInv'
      BY <2>1, <2>2, <2>5, <3>1 DEF MemInv
    <3> QED BY <2>1, <2>2, <3>2, <3>3 DEF FinalizerInv
  <2> QED BY <1>16, <2>3, <2>4, <2>5 DEF runInstance
<1>17. CASE \/ reconcileElasticIP \/ associateAddress \/ ensureTags \/ leaveLB
            \/ reconcileOperationalState \/ releaseElasticIP
            \/ deregisterFromLB \/ registerWithLB
  <2>1. /\ UNCHANGED <<obj, mem, base>> /\ pc \notin {"idle", "close"}
        /\ ~runInstance /\ ~findInstance
    BY <1>17 DEF reconcileElasticIP, associateAddress, ensureTags, leaveLB,
       reconcileOperationalState, releaseElasticIP, deregisterFromLB, registerWithLB,
       runInstance, findInstance
  <2>2. loc'.found = loc.found /\ loc'.fst = loc.fst
    BY <1>0, <1>17 DEF reconcileElasticIP, associateAddress, ensureTags, leaveLB,
       reconcileOperationalState, releaseElasticIP, deregisterFromLB, registerWithLB,
       LBLeave, LBReturn, LBDone, Locals
  <2>3. pc' = "releaseHost" => loc.fst = "terminated"
    BY <1>17 DEF reconcileElasticIP, associateAddress, ensureTags, leaveLB,
       reconcileOperationalState, releaseElasticIP, deregisterFromLB, registerWithLB
  <2>4. ~Launching
    BY <1>17 DEF reconcileElasticIP, associateAddress, ensureTags, leaveLB, Launching,
       reconcileOperationalState, releaseElasticIP, deregisterFromLB, registerWithLB
  <2> QED BY <1>1, <1>2, <1>5, <2>1, <2>2, <2>3, <2>4, FinalizerKept
<1>18. CASE updateState
  <2>1. /\ UNCHANGED <<obj, base, loc>> /\ pc = "update" /\ pc' = "delBoot"
        /\ ~runInstance /\ ~Launching'
    BY <1>18 DEF updateState, runInstance, Launching
  <2>2. mem'.pid = loc.found /\ mem'.finalizer = mem.finalizer /\ loc.found \in Instances
    BY <1>0, <1>18 DEF updateState, AWSMachines, TypeInv, Located
  <2> QED BY <1>1, <1>2, <2>1, <2>2, FinalizerKept
<1>19. CASE releaseDedicatedHost
  <2>1. /\ UNCHANGED <<base, loc>> /\ pc = "releaseHost" /\ pc' = "close"
        /\ ~runInstance /\ ~Launching'
    BY <1>19 DEF releaseDedicatedHost, runInstance, Launching
  <2>2. NoneLive
    <3>1. loc.found \in Instances /\ loc.found # None
      BY <1>0, <2>1 DEF TypeInv, Located
    <3> QED BY <1>4, <2>1, <3>1
            DEF MemInv, OnlyLive, NoneLive, Live, InstanceRunningStates
  <2>3. mem'.pid = mem.pid /\ (mem'.finalizer = mem.finalizer \/ ~mem'.finalizer)
    BY <1>0, <1>19 DEF releaseDedicatedHost, AWSMachines
  <2>4. PatchSucceeds(mem) \/ PatchFails(mem) \/ UNCHANGED obj
          \/ obj' = Patched(mem, TRUE, TRUE)
    BY <1>19 DEF releaseDedicatedHost
  <2>5. /\ obj.exists /\ obj.finalizer => obj'.exists /\ obj'.finalizer
        /\ obj'.pid = obj.pid \/ (mem.pid # None /\ obj'.pid = mem.pid)
    BY <1>0, <1>8, <1>9, <2>1, <2>4, PatchKeeps DEF Keeps
  <2> QED BY <1>1, <1>2, <2>1, <2>2, <2>3, <2>5, FinalizerKept
<1>20. CASE close
  <2>1. UNCHANGED inst /\ pc = "close" /\ pc' = "idle"
    BY <1>20 DEF close
  <2>2. /\ NoneLive \/ (base.finalizer => mem.finalizer)
        /\ mem.pid # None => OnlyLive(mem.pid)
    BY <1>4, <2>1 DEF MemInv
  <2>3. /\ (base.finalizer => mem.finalizer) /\ obj.exists /\ obj.finalizer
             => obj'.exists /\ obj'.finalizer
        /\ obj'.pid = obj.pid \/ (mem.pid # None /\ obj'.pid = mem.pid)
    BY <1>0, <1>9, <1>20, <2>1, PatchKeeps DEF close, Keeps
  <2>4. NoOrphanInstance'
    BY <1>3, <2>1, <2>2, <2>3 DEF NoOrphanInstance, NoneLive, Live
  <2>5. (obj.pid # None => OnlyLive(obj.pid))'
    BY <1>3, <2>1, <2>2, <2>3 DEF OnlyLive, Live
  <2> QED BY <2>1, <2>4, <2>5 DEF FinalizerInv
<1>21. CASE Crash
  <2>1. UNCHANGED <<inst, obj>> /\ pc' = "idle"
    BY <1>21 DEF Crash
  <2> QED BY <1>3, <2>1 DEF FinalizerInv, NoOrphanInstance, OnlyLive, Live
<1>22. CASE DeleteAWSMachine
  <2>1. UNCHANGED <<inst, pc, mem, base, loc>>
    BY <1>22 DEF DeleteAWSMachine
  <2>2. /\ obj'.pid = obj.pid
        /\ obj.exists /\ obj.finalizer => obj'.exists /\ obj'.finalizer
    BY <1>0, <1>22 DEF DeleteAWSMachine, Collected, AWSMachines
  <2> QED BY <1>3, <1>4, <2>1, <2>2
          DEF FinalizerInv, NoOrphanInstance, MemInv, OnlyLive, NoneLive, Live, Launching
<1>23. CASE \/ CacheSync \/ NodeJoins \/ DeleteMachine \/ UNCHANGED vars
            \/ \E i \in Instances : InstanceProgress(i) \/ InstanceDisturbed(i)
  <2>1. UNCHANGED <<obj, pc, mem, base, loc>>
    BY <1>23 DEF CacheSync, NodeJoins, DeleteMachine, vars, InstanceProgress,
       InstanceDisturbed
  <2>2. \A i \in Instances : Live(i)' => Live(i)
    BY <1>23, <1>0
    DEF CacheSync, NodeJoins, DeleteMachine, vars, InstanceProgress,
        InstanceDisturbed, Live, InstanceRunningStates, TypeOK
  <2>3. pc # "idle" => FinalizerInv'
    <3>1. Launching' <=> Launching
      BY <2>1 DEF Launching
    <3> QED BY <1>2, <1>4, <1>6, <1>7, <2>1, <2>2, <3>1, FinalizerKept DEF MemInv
  <2>4. pc = "idle" => FinalizerInv'
    BY <1>3, <2>1, <2>2 DEF FinalizerInv, NoOrphanInstance, OnlyLive
  <2> QED BY <2>3, <2>4
<1> QED BY <1>10, <1>11, <1>12, <1>13, <1>14, <1>15, <1>16, <1>17, <1>18, <1>19,
           <1>20, <1>21, <1>22, <1>23 DEF Next, ReconcileStep

\* While nobody stops instances and the cache is read up to date, a live
\* instance is never left without an AWSMachine that carries the finalizer:
\* not by an error, a partial patch, a crash between RunInstances and the patch
\* of the provider id, or a deletion at any moment.
THEOREM NoOrphan ==
    ~CanStop /\ "stale" \notin FaultKinds => (Spec => []NoOrphanInstance)
<1> SUFFICES ASSUME ~CanStop, "stale" \notin FaultKinds
             PROVE  Spec => []NoOrphanInstance
  OBVIOUS
<1>1. Init => FinalizerInv
  BY DEF Init, FinalizerInv, NoOrphanInstance, OnlyLive, Live, InstanceRunningStates
<1>2. /\ TypeInv /\ TypeInv' /\ LaunchInv /\ FinalizerInv /\ [Next]_vars
      => FinalizerInv'
  BY FinalizerStep
<1> QED BY <1>1, <1>2, TypeInit, TypeStep, LaunchInit, LaunchStep, PTL
        DEF Spec, FinalizerInv
=============================================================================

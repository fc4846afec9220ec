-------------------------- MODULE EKSWorkersProofs --------------------------
(***************************************************************************)
(* That nothing of the workers of an EKS cluster is left behind            *)
(* (NoOrphanWorkers), for every number of versions, sizes, edits and       *)
(* faults.  The argument has one part for each controller: the finalizer   *)
(* is in the stored object from before the first creation until after the  *)
(* last deletion, and where a reconcile may be while the object has none   *)
(* (PoolInv, ProfileInv); for the role of a node group also that it is     *)
(* never without a group for longer than a reconcile, unless something     *)
(* failed (RoleInv).  The third part is that the control plane is deleted  *)
(* after the pool (OrderInv).  The bootstrap configuration and the         *)
(* workload cluster only count faults.                                     *)
(***************************************************************************)
EXTENDS EKSWorkers, TLAPS

-----------------------------------------------------------------------------
(* The managed node group *)

\* The steps of reconcileDelete of a pool, and all steps of its worker.
DeletingLabels == {"describeDel", "delGroup", "waitDeleted", "delRole", "delTemplate", "finish"}

PoolLabels ==
    {"idle", "finalizer", "template", "templatePatch", "role", "describe", "setStatus", "wait",
     "replicas", "version", "config", "close"} \cup DeletingLabels

\* The worker, the stored object and the AWS side of a pool.
Works == [pc: PoolLabels, spec: Group!Specs, loc: Group!Locals, seen: Group!Groups]
Pools == [st: {"live", "deleting", "gone"}, loc: Group!Locals]

PoolType ==
    /\ ng \in Group!Groups /\ role \in BOOLEAN /\ tmpl \in 0 .. MaxRev /\ spec \in Group!Specs
    /\ pool \in Pools /\ w \in Works /\ faults \in Nat

\* The finalizer is stored before anything is created and leaves memory when node group
\* and template are gone; only the deletion of a pool reaches that point, and a pool never
\* gets or loses its launch template as a whole.
PoolInv ==
    /\ ~pool.loc.fin \/ pool.st = "gone" =>
         w.pc \in {"idle", "finalizer", "close"} /\ ng.st = "none" /\ tmpl = 0
    /\ pool.st = "deleting" => pool.loc.fin
    /\ w.pc \notin {"idle", "finalizer", "close"} => w.loc.fin
    /\ w.pc = "close" /\ ~w.loc.fin => pool.st = "deleting" /\ ng.st = "none" /\ tmpl = 0
    /\ w.pc \in DeletingLabels => pool.st = "deleting"
    /\ w.pc \in {"delRole", "delTemplate", "finish"} => ng.st = "none"
    /\ w.pc = "finish" => tmpl = 0
    /\ spec.rev = 0 => tmpl = 0
    /\ w.pc # "idle" => (w.spec.rev = 0 <=> spec.rev = 0)

\* As long as nothing has failed, a role without a node group is one that a reconcile is
\* about to use or to delete, and its name is known.
RoleInv ==
    faults = 0 =>
      /\ role /\ ng.st = "none" => w.pc \in {"describe", "waitDeleted", "delRole"}
      /\ role => IF w.pc = "idle" THEN pool.loc.role ELSE w.loc.role
      /\ ng.st = "DELETING" => w.pc = "waitDeleted"

\* The inductive invariant of the pool.
PoolAll == PoolType /\ PoolInv /\ RoleInv

\* What PoolType says of the fields.
LEMMA PoolFields ==
    ASSUME PoolType
    PROVE  /\ w.pc \in PoolLabels /\ w.spec \in Group!Specs /\ w.loc \in Group!Locals
           /\ w.seen \in Group!Groups /\ pool.st \in {"live", "deleting", "gone"}
           /\ pool.loc \in Group!Locals /\ pool.loc.fin \in BOOLEAN /\ w.loc.fin \in BOOLEAN
           /\ pool.loc.role \in BOOLEAN /\ w.loc.role \in BOOLEAN
           /\ w.spec.rev \in 0 .. MaxRev /\ w.spec.size \in 1 .. MaxSize
           /\ ng.cur \in Group!Values /\ ng.next \in Group!Values
           /\ w.seen.cur \in Group!Values
<1>1. w \in Works /\ pool \in Pools /\ ng \in Group!Groups
  BY DEF PoolType
<1>2. /\ w.pc \in PoolLabels /\ w.spec \in Group!Specs /\ w.loc \in Group!Locals
      /\ w.seen \in Group!Groups /\ pool.st \in {"live", "deleting", "gone"}
      /\ pool.loc \in Group!Locals
  BY <1>1 DEF Works, Pools
<1> QED BY <1>1, <1>2 DEF Group!Locals, Group!Specs, Group!Groups

\* The updates of the local copy
LEMMA LocalUpdates ==
    ASSUME NEW x \in Group!Locals, NEW b \in BOOLEAN
    PROVE  /\ [x EXCEPT !.fin = b] \in Group!Locals /\ [x EXCEPT !.fin = b].fin = b
           /\ [x EXCEPT !.fin = b].role = x.role
BY DEF Group!Locals

\* and of the worker's step keep the types and the other fields.
LEMMA WorkPc ==
    ASSUME NEW v \in Works, NEW l \in PoolLabels
    PROVE  /\ [v EXCEPT !.pc = l] \in Works
           /\ [v EXCEPT !.pc = l].pc = l /\ [v EXCEPT !.pc = l].loc = v.loc
           /\ [v EXCEPT !.pc = l].spec = v.spec /\ [v EXCEPT !.pc = l].seen = v.seen
BY DEF Works

\* Faults are counted.
LEMMA PoolFault ==
    ASSUME faults \in Nat, NEW k
    PROVE  /\ Group!Fault(k) => faults' \in Nat /\ faults' # 0
           /\ Group!NoFault => faults' \in Nat /\ faults' = faults
BY DEF Group!Fault, Group!NoFault

\* A step of the worker that only moves on.
LEMMA PoolGoto ==
    ASSUME PoolType, NEW l \in PoolLabels, Group!Goto(l)
    PROVE  w' \in Works /\ w'.pc = l /\ w'.loc = w.loc /\ w'.spec = w.spec /\ w'.seen = w.seen
<1>1. w \in Works /\ w.loc \in Group!Locals /\ w.seen \in Group!Groups
  BY PoolFields DEF PoolType
<1>2. w' = [w EXCEPT !.pc = l]
  BY DEF Group!Goto
<1> QED BY <1>1, <1>2, WorkPc

\* An empty worker and what a pool starts with.
LEMMA PoolStart ==
    /\ Group!NoWork \in Works /\ Group!NoWork.pc = "idle" /\ Group!NoLocal \in Group!Locals
    /\ Group!NoLocal.fin = FALSE /\ Group!NoGroup \in Group!Groups /\ Group!NoGroup.st = "none"
    /\ Group!FirstSpec \in Group!Specs
<1>0. {MaxVersion, MaxRev, MaxSize} \subseteq Nat \ {0}
  BY WorkersAssumption
<1>1. Group!NoLocal \in Group!Locals /\ Group!NoLocal.fin = FALSE
  BY <1>0 DEF Group!NoLocal, Group!Locals
<1>2. Group!NoValues \in Group!Values
  BY <1>0 DEF Group!NoValues, Group!Values, Group!Latest
<1>3. Group!NoGroup \in Group!Groups /\ Group!NoGroup.st = "none"
  BY <1>2 DEF Group!NoGroup, Group!Groups, Group!None
<1>4. Group!FirstSpec \in Group!Specs
  BY <1>0 DEF Group!FirstSpec, Group!Specs
<1>5. Group!NoWork \in Works /\ Group!NoWork.pc = "idle"
  BY <1>1, <1>3, <1>4 DEF Group!NoWork, Works, PoolLabels
<1> QED BY <1>1, <1>3, <1>4, <1>5

\* PatchObject stores the local copy or leaves the object alone.
LEMMA PoolPatch ==
    ASSUME PoolType, NEW x \in Group!Locals, NEW l \in PoolLabels, Group!PatchObject(x, l)
    PROVE  /\ w' \in Works /\ w'.loc = x /\ w'.spec = w.spec
           /\ pool' \in Pools /\ pool'.st = pool.st /\ faults' \in Nat
           /\ \/ w'.pc = l /\ pool'.loc = x /\ pool.st # "gone" /\ faults' = faults
              \/ /\ w'.pc = "close" /\ pool' = pool
                 /\ (pool.st = "gone" /\ faults' = faults) \/ faults' # 0
<1>0. pool \in Pools /\ w \in Works /\ faults \in Nat /\ "close" \in PoolLabels
      /\ w.loc \in Group!Locals /\ w.seen \in Group!Groups
  BY PoolFields DEF PoolType, PoolLabels
<1>1. CASE /\ Group!NoFault /\ pool.st # "gone" /\ pool' = [pool EXCEPT !.loc = x]
           /\ w' = [w EXCEPT !.loc = x, !.pc = l]
  <2>1. pool' \in Pools /\ pool'.st = pool.st /\ pool'.loc = x
    BY <1>0, <1>1 DEF Pools
  <2>2. w' \in Works /\ w'.loc = x /\ w'.spec = w.spec /\ w'.pc = l
    BY <1>0, <1>1 DEF Works
  <2> QED BY <1>0, <1>1, <2>1, <2>2, PoolFault
<1>2. CASE /\ IF pool.st = "gone" THEN Group!NoFault ELSE Group!Fault("patch")
           /\ w' = [w EXCEPT !.loc = x, !.pc = "close"] /\ UNCHANGED pool
  <2>1. w' \in Works /\ w'.loc = x /\ w'.spec = w.spec /\ w'.pc = "close"
    BY <1>0, <1>2 DEF Works
  <2> QED BY <1>0, <1>2, <2>1, PoolFault
<1> QED BY <1>1, <1>2 DEF Group!PatchObject

\* reconcileNormal up to the role: the finalizer and the launch template.
LEMMA PoolStepTemplate ==
    ASSUME PoolAll,
           \/ Group!Start \/ Group!AddFinalizer \/ Group!ReconcileLaunchTemplate
           \/ Group!StoreLaunchTemplate
    PROVE  PoolAll'
<1>0. PoolType /\ PoolInv /\ RoleInv /\ w \in Works /\ pool \in Pools /\ faults \in Nat
  BY DEF PoolAll, PoolType
<1>f. /\ w.pc \in PoolLabels /\ w.loc \in Group!Locals /\ w.spec.rev \in 0 .. MaxRev
      /\ pool.loc \in Group!Locals /\ pool.loc.fin \in BOOLEAN /\ w.loc.fin \in BOOLEAN
      /\ pool.st \in {"live", "deleting", "gone"} /\ spec \in Group!Specs
  BY <1>0, PoolFields DEF PoolType
<1> USE DEF PoolLabels, DeletingLabels
<1>1. CASE Group!Start
  <2> DEFINE l == Group!FirstStep(pool)
  <2>1. l = IF pool.st = "deleting" THEN "describeDel"
            ELSE IF pool.loc.fin THEN "template" ELSE "finalizer"
    BY DEF Group!FirstStep
  <2>2. l \in PoolLabels
    BY <2>1
  <2>3. w' = [Group!NoWork EXCEPT !.pc = l, !.spec = spec, !.loc = pool.loc]
    BY <1>1 DEF Group!Start
  <2> HIDE DEF l
  <2>4. w' \in Works /\ w'.pc = l /\ w'.spec = spec /\ w'.loc = pool.loc
    BY <1>f, <2>2, <2>3, PoolStart DEF Works
  <2>5. UNCHANGED <<ng, role, tmpl, spec, pool, faults>> /\ pool.st # "gone" /\ w.pc = "idle"
    BY <1>1 DEF Group!Start
  <2>6. PoolType'
    BY <1>0, <2>4, <2>5 DEF PoolType
  <2>7. PoolInv'
    BY <1>0, <1>f, <2>1, <2>4, <2>5 DEF PoolInv
  <2>8. RoleInv'
    BY <1>0, <1>f, <2>1, <2>4, <2>5 DEF RoleInv
  <2> QED BY <2>6, <2>7, <2>8 DEF PoolAll
<1>2. CASE Group!AddFinalizer
  <2> DEFINE x == [w.loc EXCEPT !.fin = TRUE]
  <2>1. x \in Group!Locals /\ x.fin = TRUE /\ x.role = w.loc.role
    BY <1>f, LocalUpdates
  <2>2. /\ w.pc = "finalizer" /\ Group!PatchObject(x, "template")
        /\ UNCHANGED <<ng, role, tmpl, spec>>
    BY <1>2 DEF Group!AddFinalizer
  <2> HIDE DEF x
  <2>3. /\ w' \in Works /\ w'.loc = x /\ w'.spec = w.spec
        /\ pool' \in Pools /\ pool'.st = pool.st /\ faults' \in Nat
        /\ \/ w'.pc = "template" /\ pool'.loc = x /\ pool.st # "gone" /\ faults' = faults
           \/ /\ w'.pc = "close" /\ pool' = pool
              /\ (pool.st = "gone" /\ faults' = faults) \/ faults' # 0
    BY <1>0, <2>1, <2>2, PoolPatch
  <2>4. PoolType'
    BY <1>0, <2>2, <2>3 DEF PoolType
  <2>5. PoolInv'
    BY <1>0, <1>f, <2>1, <2>2, <2>3 DEF PoolInv
  <2>6. RoleInv'
    BY <1>0, <1>f, <2>1, <2>2, <2>3 DEF RoleInv
  <2> QED BY <2>4, <2>5, <2>6 DEF PoolAll
<1>3. CASE Group!ReconcileLaunchTemplate
  <2>1. /\ w.pc = "template" /\ UNCHANGED <<ng, role, spec, pool>>
        /\ \/ w.spec.rev = 0 /\ Group!Goto("role") /\ Group!NoFault /\ UNCHANGED tmpl
           \/ w.spec.rev # 0 /\ Group!Goto("templatePatch") /\ Group!NoFault /\ tmpl' = w.spec.rev
           \/ /\ w.spec.rev # 0 /\ Group!Goto("close") /\ Group!Fault("aws")
              /\ tmpl' \in {tmpl, w.spec.rev}
    BY <1>3 DEF Group!ReconcileLaunchTemplate, Group!Fails
  <2>2. /\ w' \in Works /\ w'.loc = w.loc /\ w'.spec = w.spec /\ faults' \in Nat
        /\ w'.pc \in {"role", "templatePatch", "close"}
        /\ (faults' = faults /\ w'.pc # "close") \/ faults' # 0
    BY <1>0, <2>1, PoolGoto, PoolFault
  <2>3. tmpl' \in 0 .. MaxRev /\ (spec.rev = 0 => tmpl' = 0)
    BY <1>0, <1>f, <2>1 DEF PoolType, PoolInv
  <2>4. PoolType'
    BY <1>0, <2>1, <2>2, <2>3 DEF PoolType
  <2>5. PoolInv'
    BY <1>0, <1>f, <2>1, <2>2, <2>3 DEF PoolInv
  <2>6. RoleInv'
    BY <1>0, <2>1, <2>2 DEF RoleInv
  <2> QED BY <2>4, <2>5, <2>6 DEF PoolAll
<1>4. CASE Group!StoreLaunchTemplate
  <2> DEFINE x == [w.loc EXCEPT !.tid = TRUE, !.rev = w.spec.rev]
  <2>1. x \in Group!Locals /\ x.fin = w.loc.fin /\ x.role = w.loc.role
    BY <1>f DEF Group!Locals
  <2>2. /\ w.pc = "templatePatch" /\ Group!PatchObject(x, "role")
        /\ UNCHANGED <<ng, role, tmpl, spec>>
    BY <1>4 DEF Group!StoreLaunchTemplate
  <2> HIDE DEF x
  <2>3. /\ w' \in Works /\ w'.loc = x /\ w'.spec = w.spec
        /\ pool' \in Pools /\ pool'.st = pool.st /\ faults' \in Nat
        /\ \/ w'.pc = "role" /\ pool'.loc = x /\ pool.st # "gone" /\ faults' = faults
           \/ /\ w'.pc = "close" /\ pool' = pool
              /\ (pool.st = "gone" /\ faults' = faults) \/ faults' # 0
    BY <1>0, <2>1, <2>2, PoolPatch
  <2>4. PoolType'
    BY <1>0, <2>2, <2>3 DEF PoolType
  <2>5. PoolInv'
    BY <1>0, <1>f, <2>1, <2>2, <2>3 DEF PoolInv
  <2>6. RoleInv'
    BY <1>0, <1>f, <2>1, <2>2, <2>3 DEF RoleInv, PoolInv
  <2> QED BY <2>4, <2>5, <2>6 DEF PoolAll
<1> QED BY <1>1, <1>2, <1>3, <1>4


\* The role and the node group are created, and the first description of the group is
\* stored.
LEMMA PoolStepCreate ==
    ASSUME PoolAll,
           \/ Group!ReconcileRole \/ Group!DescribeOrCreate \/ Group!SetStatus
           \/ Group!WaitForNodegroupActive
    PROVE  PoolAll'
<1>0. /\ PoolType /\ PoolInv /\ RoleInv /\ w \in Works /\ pool \in Pools /\ faults \in Nat
      /\ ng \in Group!Groups
  BY DEF PoolAll, PoolType
<1>f. /\ w.pc \in PoolLabels /\ w.loc \in Group!Locals /\ w.spec \in Group!Specs
      /\ pool.loc \in Group!Locals /\ pool.loc.fin \in BOOLEAN /\ w.loc.fin \in BOOLEAN
      /\ pool.st \in {"live", "deleting", "gone"} /\ w.seen \in Group!Groups
  BY <1>0, PoolFields DEF PoolType
<1> USE DEF PoolLabels, DeletingLabels
<1>1. CASE Group!ReconcileRole
  <2> DEFINE x == [w.loc EXCEPT !.role = TRUE]
  <2>1. x \in Group!Locals /\ x.fin = w.loc.fin /\ x.role = TRUE
    BY <1>f DEF Group!Locals
  <2>2. /\ w.pc = "role" /\ UNCHANGED <<ng, tmpl, spec, pool>>
        /\ \/ /\ Group!NoFault /\ role' = TRUE
              /\ w' = [w EXCEPT !.loc = x, !.pc = "describe"]
           \/ /\ Group!Fault("aws") /\ (UNCHANGED role \/ role' = TRUE)
              /\ w' = [w EXCEPT !.loc = x, !.pc = "close"]
    BY <1>1 DEF Group!ReconcileRole
  <2> HIDE DEF x
  <2>3. /\ w' \in Works /\ w'.loc = x /\ w'.spec = w.spec
        /\ w'.pc \in {"describe", "close"}
        /\ role' \in BOOLEAN /\ faults' \in Nat
        /\ (faults' = faults /\ w'.pc = "describe") \/ faults' # 0
    <3>1. CASE Group!NoFault /\ role' = TRUE /\ w' = [w EXCEPT !.loc = x, !.pc = "describe"]
      <4>1. w' \in Works /\ w'.loc = x /\ w'.spec = w.spec /\ w'.pc = "describe"
        BY <1>0, <1>f, <2>1, <3>1 DEF Works
      <4> QED BY <1>0, <3>1, <4>1, PoolFault
    <3>2. CASE /\ Group!Fault("aws") /\ (UNCHANGED role \/ role' = TRUE)
               /\ w' = [w EXCEPT !.loc = x, !.pc = "close"]
      <4>1. w' \in Works /\ w'.loc = x /\ w'.spec = w.spec /\ w'.pc = "close"
        BY <1>0, <1>f, <2>1, <3>2 DEF Works
      <4> QED BY <1>0, <3>2, <4>1, PoolFault DEF PoolType
    <3> QED BY <2>2, <3>1, <3>2
  <2>4. PoolType'
    BY <1>0, <2>2, <2>3 DEF PoolType
  <2>5. PoolInv'
    BY <1>0, <1>f, <2>1, <2>2, <2>3 DEF PoolInv
  <2>6. RoleInv'
    BY <1>0, <1>f, <2>1, <2>2, <2>3 DEF RoleInv
  <2> QED BY <2>4, <2>5, <2>6 DEF PoolAll
<1>2. CASE Group!DescribeOrCreate
  <2>1. w.pc = "describe" /\ UNCHANGED <<role, tmpl, spec, pool>>
    BY <1>2 DEF Group!DescribeOrCreate
  <2>2. /\ ng' \in Group!Groups /\ w' \in Works /\ w'.loc = w.loc /\ w'.spec = w.spec
        /\ w'.pc \in {"setStatus", "close"} /\ faults' \in Nat
        /\ \/ faults' = faults /\ w'.pc = "setStatus" /\ ng'.st # "none"
           \/ faults' # 0
        /\ ng' = ng \/ ng'.st = "CREATING"
    <3>1. CASE Group!NoFault /\ ng.st # "none" /\ UNCHANGED ng
               /\ w' = [w EXCEPT !.seen = ng, !.pc = "setStatus"]
      <4>1. w' \in Works /\ w'.loc = w.loc /\ w'.spec = w.spec /\ w'.pc = "setStatus"
        BY <1>0, <1>f, <3>1 DEF Works
      <4> QED BY <1>0, <3>1, <4>1, PoolFault
    <3>2. ASSUME NEW v \in 1 .. MaxVersion, NEW vals,
                 vals = [version |-> v, rev |-> w.loc.rev, ami |-> Group!Latest, cfg |-> w.spec.cfg,
                         size |-> w.spec.size],
                 ng' = [st |-> "CREATING", cur |-> vals, next |-> vals],
                 \/ Group!Fails
                 \/ Group!NoFault /\ w' = [w EXCEPT !.seen = ng', !.pc = "setStatus"]
          PROVE  /\ ng' \in Group!Groups /\ w' \in Works /\ w'.loc = w.loc /\ w'.spec = w.spec
                 /\ ng'.st = "CREATING" /\ faults' \in Nat
                 /\ \/ faults' = faults /\ w'.pc = "setStatus"
                    \/ faults' # 0 /\ w'.pc = "close"
      <4>1. w.loc.rev \in 0 .. MaxRev /\ w.spec.cfg \in 0 .. 1 /\ w.spec.size \in 1 .. MaxSize
        BY <1>f DEF Group!Locals, Group!Specs
      <4>2. vals \in Group!Values
        BY <3>2, <4>1 DEF Group!Values, Group!Latest
      <4>3. ng' \in Group!Groups /\ ng'.st = "CREATING"
        BY <3>2, <4>2 DEF Group!Groups
      <4>4. CASE Group!NoFault /\ w' = [w EXCEPT !.seen = ng', !.pc = "setStatus"]
        <5>1. w' \in Works /\ w'.loc = w.loc /\ w'.spec = w.spec /\ w'.pc = "setStatus"
          BY <1>0, <1>f, <4>3, <4>4 DEF Works
        <5> QED BY <1>0, <4>3, <4>4, <5>1, PoolFault
      <4>5. CASE Group!Fails
        BY <1>0, <4>3, <4>5, PoolFault, PoolGoto DEF Group!Fails
      <4> QED BY <3>2, <4>4, <4>5
    <3>3. CASE Group!Fails /\ UNCHANGED ng
      BY <1>0, <3>3, PoolFault, PoolGoto DEF Group!Fails
    <3> QED BY <1>0, <1>2, <3>1, <3>2, <3>3 DEF Group!DescribeOrCreate, Group!None
  <2>3. PoolType'
    BY <1>0, <2>1, <2>2 DEF PoolType
  <2>4. PoolInv'
    BY <1>0, <1>f, <2>1, <2>2 DEF PoolInv
  <2>5. RoleInv'
    BY <1>0, <1>f, <2>1, <2>2 DEF RoleInv
  <2> QED BY <2>3, <2>4, <2>5 DEF PoolAll
<1>3. CASE Group!SetStatus
  <2> DEFINE b == w.seen.st \in {"ACTIVE", "UPDATING"}
  <2> DEFINE x == [w.loc EXCEPT !.ready = b]
  <2> DEFINE l == IF w.seen.st \in {"CREATING", "UPDATING"} THEN "wait" ELSE "replicas"
  <2>1. x \in Group!Locals /\ x.fin = w.loc.fin /\ x.role = w.loc.role
    <3>1. b \in BOOLEAN
      OBVIOUS
    <3> HIDE DEF b
    <3> QED BY <1>f, <3>1 DEF Group!Locals
  <2>2. /\ w.pc = "setStatus" /\ Group!PatchObject(x, l)
        /\ UNCHANGED <<ng, role, tmpl, spec>> /\ l \in {"wait", "replicas"}
    BY <1>3 DEF Group!SetStatus
  <2> HIDE DEF x, l
  <2>3. /\ w' \in Works /\ w'.loc = x /\ w'.spec = w.spec
        /\ pool' \in Pools /\ pool'.st = pool.st /\ faults' \in Nat
        /\ \/ w'.pc = l /\ pool'.loc = x /\ pool.st # "gone" /\ faults' = faults
           \/ /\ w'.pc = "close" /\ pool' = pool
              /\ (pool.st = "gone" /\ faults' = faults) \/ faults' # 0
    BY <1>0, <2>1, <2>2, PoolPatch
  <2>4. PoolType'
    BY <1>0, <2>2, <2>3 DEF PoolType
  <2>5. PoolInv'
    BY <1>0, <1>f, <2>1, <2>2, <2>3 DEF PoolInv
  <2>6. RoleInv'
    BY <1>0, <1>f, <2>1, <2>2, <2>3 DEF RoleInv, PoolInv
  <2> QED BY <2>4, <2>5, <2>6 DEF PoolAll
<1>4. CASE Group!WaitForNodegroupActive
  <2>1. w.pc = "wait" /\ UNCHANGED <<ng, role, tmpl, spec, pool>>
    BY <1>4 DEF Group!WaitForNodegroupActive
  <2>2. /\ w' \in Works /\ w'.loc = w.loc /\ w'.spec = w.spec /\ faults' \in Nat
        /\ w'.pc \in {"setStatus", "close"} /\ (faults' = faults \/ faults' # 0)
    <3>1. CASE Group!NoFault /\ w' = [w EXCEPT !.seen = ng, !.pc = "setStatus"]
      <4>1. w' \in Works /\ w'.loc = w.loc /\ w'.spec = w.spec /\ w'.pc = "setStatus"
        BY <1>0, <1>f, <3>1 DEF Works
      <4> QED BY <1>0, <3>1, <4>1, PoolFault
    <3>2. CASE Group!Goto("close") /\ (Group!NoFault \/ Group!Fault("timeout"))
      BY <1>0, <3>2, PoolFault, PoolGoto
    <3> QED BY <1>4, <3>1, <3>2 DEF Group!WaitForNodegroupActive
  <2>3. PoolType'
    BY <1>0, <2>1, <2>2 DEF PoolType
  <2>4. PoolInv'
    BY <1>0, <1>f, <2>1, <2>2 DEF PoolInv
  <2>5. RoleInv'
    BY <1>0, <1>f, <2>1, <2>2 DEF RoleInv
  <2> QED BY <2>3, <2>4, <2>5 DEF PoolAll
<1> QED BY <1>1, <1>2, <1>3, <1>4

\* What is asked of EKS for a version or a configuration is a set of values.
LEMMA NextVersionValues ==
    ASSUME NEW seen \in Group!Values, NEW s \in Group!Specs, NEW r \in 0 .. MaxRev
    PROVE  Group!NextVersion(seen, s, r) \in Group!Values
<1>1. seen.version < s.version => seen.version + 1 \in 1 .. MaxVersion
  BY WorkersAssumption DEF Group!Values, Group!Specs
<1>l. Group!Latest \in 1 .. Group!Latest /\ (s.ami # 0 => s.ami \in 1 .. Group!Latest)
  BY DEF Group!Latest, Group!Specs
<1>2. CASE r # 0 /\ r # seen.rev
  <2>1. [seen EXCEPT !.rev = r, !.ami = Group!Latest] \in Group!Values
    BY <1>l, <1>2 DEF Group!Values
  <2> QED BY <1>2, <2>1 DEF Group!NextVersion
<1>3. CASE ~(r # 0 /\ r # seen.rev) /\ seen.version < s.version
  <2>1. [seen EXCEPT !.version = seen.version + 1, !.ami = Group!Latest] \in Group!Values
    BY <1>l, <1>1, <1>3 DEF Group!Values
  <2> QED BY <1>3, <2>1 DEF Group!NextVersion
<1>4. CASE ~(r # 0 /\ r # seen.rev) /\ ~(seen.version < s.version)
  <2>1. s.ami # 0 => [seen EXCEPT !.ami = s.ami] \in Group!Values
    BY <1>l DEF Group!Values
  <2> QED BY <1>4, <2>1 DEF Group!NextVersion
<1> QED BY <1>2, <1>3, <1>4

\* EKS takes an update or refuses it.
LEMMA PoolUpdate ==
    ASSUME PoolType, NEW vals \in Group!Values, NEW l \in PoolLabels, Group!Update(vals, l)
    PROVE  /\ ng' \in Group!Groups /\ (ng'.st # ng.st => ng.st = "ACTIVE" /\ ng'.st = "UPDATING")
           /\ w' \in Works /\ w'.loc = w.loc /\ w'.spec = w.spec /\ w'.pc \in {l, "close"}
           /\ faults' \in Nat /\ (faults' = faults \/ faults' # 0)
<1>0. ng \in Group!Groups /\ faults \in Nat /\ "close" \in PoolLabels
  BY DEF PoolType, PoolLabels
<1>1. CASE /\ (Group!NoFault /\ Group!Goto(l)) \/ (Group!Fault("aws") /\ Group!Goto("close"))
           /\ ng.st = "ACTIVE" /\ ng' = [ng EXCEPT !.st = "UPDATING", !.next = vals]
  <2>1. ng' \in Group!Groups /\ ng'.st = "UPDATING"
    BY <1>0, <1>1 DEF Group!Groups, Group!None
  <2> QED BY <1>0, <1>1, <2>1, PoolFault, PoolGoto
<1>2. CASE (Group!NoFault \/ Group!Fault("aws")) /\ Group!Goto("close") /\ UNCHANGED ng
  BY <1>0, <1>2, PoolFault, PoolGoto
<1> QED BY <1>1, <1>2 DEF Group!Update, Group!Fails

\* The rest of reconcileNormal: the autoscaler's size, the version and the configuration.
LEMMA PoolStepUpdate ==
    ASSUME PoolAll,
           \/ Group!SyncReplicas \/ Group!ReconcileNodegroupVersion
           \/ Group!ReconcileNodegroupConfig
    PROVE  PoolAll'
<1>0. /\ PoolType /\ PoolInv /\ RoleInv /\ w \in Works /\ pool \in Pools /\ faults \in Nat
      /\ ng \in Group!Groups /\ spec \in Group!Specs
  BY DEF PoolAll, PoolType
<1>f. /\ w.pc \in PoolLabels /\ w.loc \in Group!Locals /\ w.spec \in Group!Specs
      /\ pool.loc.fin \in BOOLEAN /\ w.loc.fin \in BOOLEAN
      /\ pool.st \in {"live", "deleting", "gone"} /\ w.seen \in Group!Groups
      /\ w.seen.cur \in Group!Values /\ ng.cur \in Group!Values
  BY <1>0, PoolFields DEF PoolType
<1>v. /\ w.spec.cfg \in 0 .. 1 /\ w.spec.size \in 1 .. MaxSize /\ w.loc.rev \in 0 .. MaxRev
      /\ w.seen.cur.size \in 1 .. MaxSize /\ w.spec.rev \in 0 .. MaxRev
  BY <1>f DEF Group!Specs, Group!Values, Group!Locals
<1> USE DEF PoolLabels, DeletingLabels
<1>1. CASE Group!SyncReplicas
  <2> DEFINE n == Group!Replicas(w.spec, w.seen)
  <2>1. n \in 1 .. MaxSize
    BY <1>v DEF Group!Replicas
  <2>2. /\ w.pc = "replicas" /\ UNCHANGED <<ng, role, tmpl, pool>>
        /\ \/ Group!NoFault /\ Group!Goto("version") /\ UNCHANGED spec
           \/ /\ Group!NoFault /\ spec' = [spec EXCEPT !.size = n]
              /\ w' = [w EXCEPT !.spec = [w.spec EXCEPT !.size = n], !.pc = "version"]
           \/ Group!Fault("patch") /\ Group!Goto("close") /\ UNCHANGED spec
    BY <1>1 DEF Group!SyncReplicas
  <2> HIDE DEF n
  <2>3. /\ w' \in Works /\ w'.loc = w.loc /\ w'.spec.rev = w.spec.rev /\ faults' \in Nat
        /\ w'.pc \in {"version", "close"} /\ (faults' = faults \/ faults' # 0)
        /\ spec' \in Group!Specs /\ spec'.rev = spec.rev
    <3>1. CASE \/ Group!NoFault /\ Group!Goto("version") /\ UNCHANGED spec
               \/ Group!Fault("patch") /\ Group!Goto("close") /\ UNCHANGED spec
      BY <1>0, <3>1, PoolFault, PoolGoto
    <3>2. CASE /\ Group!NoFault /\ spec' = [spec EXCEPT !.size = n]
               /\ w' = [w EXCEPT !.spec = [w.spec EXCEPT !.size = n], !.pc = "version"]
      <4> DEFINE s == [w.spec EXCEPT !.size = n]
      <4>1. s \in Group!Specs /\ s.rev = w.spec.rev
        BY <1>f, <2>1 DEF Group!Specs
      <4>2. spec' \in Group!Specs /\ spec'.rev = spec.rev
        BY <1>0, <2>1, <3>2 DEF Group!Specs
      <4>3. w' = [w EXCEPT !.spec = s, !.pc = "version"]
        BY <3>2
      <4> HIDE DEF s
      <4>4. w' \in Works /\ w'.loc = w.loc /\ w'.spec = s /\ w'.pc = "version"
        BY <1>0, <1>f, <4>1, <4>3 DEF Works
      <4> QED BY <1>0, <3>2, <4>1, <4>2, <4>4, PoolFault
    <3> QED BY <2>2, <3>1, <3>2
  <2>4. PoolType'
    BY <1>0, <2>2, <2>3 DEF PoolType
  <2>5. PoolInv'
    BY <1>0, <1>f, <2>2, <2>3 DEF PoolInv
  <2>6. RoleInv'
    BY <1>0, <1>f, <2>2, <2>3 DEF RoleInv
  <2> QED BY <2>4, <2>5, <2>6 DEF PoolAll
<1>2. CASE Group!ReconcileNodegroupVersion \/ Group!ReconcileNodegroupConfig
  <2>1. w.pc \in {"version", "config"} /\ UNCHANGED <<role, tmpl, spec, pool>>
    BY <1>2 DEF Group!ReconcileNodegroupVersion, Group!ReconcileNodegroupConfig
  <2>2. PICK vals \in Group!Values, l \in {"config", "close"} :
          \/ Group!NoFault /\ Group!Goto(l) /\ UNCHANGED ng
          \/ Group!Update(vals, l)
    <3>1. CASE Group!ReconcileNodegroupVersion
      <4> DEFINE next == Group!NextVersion(w.seen.cur, w.spec, w.loc.rev)
      <4> DEFINE vals == [ng.cur EXCEPT !.version = next.version, !.rev = next.rev,
                                        !.ami = next.ami]
      <4>1. next \in Group!Values
        BY <1>f, <1>v, NextVersionValues
      <4>2. \/ Group!NoFault /\ Group!Goto("config") /\ UNCHANGED ng
            \/ Group!Update(vals, "config")
        BY <3>1 DEF Group!ReconcileNodegroupVersion
      <4> HIDE DEF next
      <4>3. vals \in Group!Values
        BY <1>f, <4>1 DEF Group!Values
      <4> HIDE DEF vals
      <4> QED BY <4>2, <4>3
    <3>2. CASE Group!ReconcileNodegroupConfig
      <4> DEFINE vals == [ng.cur EXCEPT !.cfg = w.spec.cfg, !.size = w.spec.size]
      <4>1. vals \in Group!Values
        BY <1>f, <1>v DEF Group!Values
      <4>2. \/ Group!NoFault /\ Group!Goto("close") /\ UNCHANGED ng
            \/ Group!Update(vals, "close")
        BY <3>2 DEF Group!ReconcileNodegroupConfig
      <4> HIDE DEF vals
      <4> QED BY <4>1, <4>2
    <3> QED BY <1>2, <3>1, <3>2
  <2>3. /\ ng' \in Group!Groups /\ (ng'.st # ng.st => ng.st = "ACTIVE" /\ ng'.st = "UPDATING")
        /\ w' \in Works /\ w'.loc = w.loc /\ w'.spec = w.spec /\ w'.pc \in {"config", "close"}
        /\ faults' \in Nat /\ (faults' = faults \/ faults' # 0)
    <3>1. CASE Group!NoFault /\ Group!Goto(l) /\ UNCHANGED ng
      BY <1>0, <3>1, PoolFault, PoolGoto
    <3>2. CASE Group!Update(vals, l)
      BY <1>0, <3>2, PoolUpdate
    <3> QED BY <2>2, <3>1, <3>2
  <2>4. PoolType'
    BY <1>0, <2>1, <2>3 DEF PoolType
  <2>5. PoolInv'
    BY <1>0, <1>f, <2>1, <2>3 DEF PoolInv
  <2>6. RoleInv'
    BY <1>0, <1>f, <2>1, <2>3 DEF RoleInv
  <2> QED BY <2>4, <2>5, <2>6 DEF PoolAll
<1> QED BY <1>1, <1>2

\* ReconcilePoolDelete and the deferred patch.
LEMMA PoolStepDelete ==
    ASSUME PoolAll,
           \/ Group!DescribeDeleted \/ Group!DeleteNodegroup \/ Group!WaitUntilNodegroupDeleted
           \/ Group!DeleteRole \/ Group!DeleteLaunchTemplate \/ Group!RemoveFinalizer
           \/ Group!Close
    PROVE  PoolAll'
<1>0. /\ PoolType /\ PoolInv /\ RoleInv /\ w \in Works /\ pool \in Pools /\ faults \in Nat
      /\ ng \in Group!Groups /\ tmpl \in 0 .. MaxRev /\ role \in BOOLEAN
  BY DEF PoolAll, PoolType
<1>f. /\ w.pc \in PoolLabels /\ w.loc \in Group!Locals /\ w.spec \in Group!Specs
      /\ pool.loc \in Group!Locals /\ pool.loc.fin \in BOOLEAN /\ w.loc.fin \in BOOLEAN
      /\ pool.st \in {"live", "deleting", "gone"} /\ w.seen \in Group!Groups
  BY <1>0, PoolFields DEF PoolType
<1> USE DEF PoolLabels, DeletingLabels, Group!None
<1>1. CASE Group!DescribeDeleted
  <2>1. /\ w.pc = "describeDel" /\ UNCHANGED <<ng, role, tmpl, spec, pool>>
        /\ \/ Group!NoFault /\ ng.st = "none" /\ Group!Goto("delTemplate")
           \/ Group!NoFault /\ ng.st # "none" /\ Group!Goto("delGroup")
           \/ Group!Fault("aws") /\ Group!Goto("close")
    BY <1>1 DEF Group!DescribeDeleted, Group!Fails
  <2>2. /\ w' \in Works /\ w'.loc = w.loc /\ w'.spec = w.spec /\ faults' \in Nat
        /\ \/ faults' = faults /\ w'.pc = "delTemplate" /\ ng.st = "none"
           \/ faults' = faults /\ w'.pc = "delGroup" /\ ng.st # "none"
           \/ faults' # 0 /\ w'.pc = "close"
    BY <1>0, <2>1, PoolGoto, PoolFault
  <2>3. PoolType'
    BY <1>0, <2>1, <2>2 DEF PoolType
  <2>4. PoolInv'
    BY <1>0, <1>f, <2>1, <2>2 DEF PoolInv
  <2>5. RoleInv'
    BY <1>0, <1>f, <2>1, <2>2 DEF RoleInv
  <2> QED BY <2>3, <2>4, <2>5 DEF PoolAll
<1>2. CASE Group!DeleteNodegroup
  <2>1. /\ w.pc = "delGroup" /\ UNCHANGED <<role, tmpl, spec, pool>>
        /\ \/ /\ ng.st # "none" /\ ng' = [ng EXCEPT !.st = "DELETING"]
              /\ \/ Group!NoFault /\ Group!Goto("waitDeleted")
                 \/ Group!Fault("aws") /\ Group!Goto("close")
           \/ Group!NoFault /\ ng.st = "none" /\ Group!Goto("delRole") /\ UNCHANGED ng
           \/ /\ Group!NoFault /\ ng.st \in {"CREATING", "UPDATING", "DELETING"}
              /\ Group!Goto("close") /\ UNCHANGED ng
           \/ Group!Fault("aws") /\ Group!Goto("close") /\ UNCHANGED ng
    BY <1>2 DEF Group!DeleteNodegroup, Group!Fails
  <2>2. [ng EXCEPT !.st = "DELETING"] \in Group!Groups /\ [ng EXCEPT !.st = "DELETING"].st = "DELETING"
    BY <1>0 DEF Group!Groups
  <2>3. /\ w' \in Works /\ w'.loc = w.loc /\ w'.spec = w.spec /\ faults' \in Nat
        /\ ng' \in Group!Groups
        /\ \/ faults' = faults /\ w'.pc = "waitDeleted" /\ ng'.st = "DELETING" /\ ng.st # "none"
           \/ faults' = faults /\ w'.pc = "delRole" /\ ng' = ng /\ ng.st = "none"
           \/ faults' = faults /\ w'.pc = "close" /\ ng' = ng /\ ng.st # "none"
           \/ faults' # 0 /\ w'.pc = "close" /\ ng' = ng
           \/ faults' # 0 /\ w'.pc = "close" /\ ng'.st = "DELETING" /\ ng.st # "none"
    BY <1>0, <2>1, <2>2, PoolGoto, PoolFault
  <2>4. PoolType'
    BY <1>0, <2>1, <2>3 DEF PoolType
  <2>5. PoolInv'
    BY <1>0, <1>f, <2>1, <2>3 DEF PoolInv
  <2>6. RoleInv'
    BY <1>0, <1>f, <2>1, <2>3 DEF RoleInv
  <2> QED BY <2>4, <2>5, <2>6 DEF PoolAll
<1>3. CASE Group!WaitUntilNodegroupDeleted
  <2>1. /\ w.pc = "waitDeleted" /\ UNCHANGED <<ng, role, tmpl, spec, pool>>
        /\ \/ Group!NoFault /\ ng.st = "none" /\ Group!Goto("delRole")
           \/ Group!NoFault /\ ng.st = "DELETE_FAILED" /\ Group!Goto("close")
           \/ Group!Fault("timeout") /\ Group!Goto("close")
    BY <1>3 DEF Group!WaitUntilNodegroupDeleted
  <2>2. /\ w' \in Works /\ w'.loc = w.loc /\ w'.spec = w.spec /\ faults' \in Nat
        /\ \/ faults' = faults /\ w'.pc = "delRole" /\ ng.st = "none"
           \/ faults' = faults /\ w'.pc = "close" /\ ng.st = "DELETE_FAILED"
           \/ faults' # 0 /\ w'.pc = "close"
    BY <1>0, <2>1, PoolGoto, PoolFault
  <2>3. PoolType'
    BY <1>0, <2>1, <2>2 DEF PoolType
  <2>4. PoolInv'
    BY <1>0, <1>f, <2>1, <2>2 DEF PoolInv
  <2>5. RoleInv'
    BY <1>0, <1>f, <2>1, <2>2 DEF RoleInv
  <2> QED BY <2>3, <2>4, <2>5 DEF PoolAll
<1>4. CASE Group!DeleteRole
  <2>1. /\ w.pc = "delRole" /\ UNCHANGED <<ng, tmpl, spec, pool>>
        /\ \/ Group!NoFault /\ role' = FALSE /\ Group!Goto("delTemplate")
           \/ Group!NoFault /\ ~w.loc.role /\ Group!Goto("close") /\ UNCHANGED role
           \/ Group!Fault("aws") /\ Group!Goto("close") /\ (UNCHANGED role \/ role' = FALSE)
    BY <1>4 DEF Group!DeleteRole, Group!Fails
  <2>2. /\ w' \in Works /\ w'.loc = w.loc /\ w'.spec = w.spec /\ faults' \in Nat
        /\ role' \in BOOLEAN
        /\ \/ faults' = faults /\ w'.pc = "delTemplate" /\ role' = FALSE
           \/ faults' = faults /\ w'.pc = "close" /\ ~w.loc.role /\ role' = role
           \/ faults' # 0 /\ w'.pc = "close"
    BY <1>0, <2>1, PoolGoto, PoolFault
  <2>3. PoolType'
    BY <1>0, <2>1, <2>2 DEF PoolType
  <2>4. PoolInv'
    BY <1>0, <1>f, <2>1, <2>2 DEF PoolInv
  <2>5. RoleInv'
    BY <1>0, <1>f, <2>1, <2>2 DEF RoleInv
  <2> QED BY <2>3, <2>4, <2>5 DEF PoolAll
<1>5. CASE Group!DeleteLaunchTemplate
  <2>1. /\ w.pc = "delTemplate" /\ UNCHANGED <<ng, role, spec, pool>>
        /\ \/ /\ Group!NoFault /\ (w.spec.rev = 0 \/ tmpl = 0) /\ Group!Goto("finish")
              /\ UNCHANGED tmpl
           \/ Group!NoFault /\ tmpl' = 0 /\ Group!Goto("finish")
           \/ Group!NoFault /\ Group!Goto("close") /\ UNCHANGED tmpl
           \/ Group!Fault("aws") /\ Group!Goto("close") /\ (UNCHANGED tmpl \/ tmpl' = 0)
    BY <1>5 DEF Group!DeleteLaunchTemplate, Group!Fails
  <2>2. 0 \in 0 .. MaxRev
    BY WorkersAssumption
  <2>3. /\ w' \in Works /\ w'.loc = w.loc /\ w'.spec = w.spec /\ faults' \in Nat
        /\ tmpl' \in 0 .. MaxRev /\ (faults' = faults \/ faults' # 0)
        /\ \/ w'.pc = "finish" /\ tmpl' = 0
           \/ w'.pc = "close" /\ (tmpl' = tmpl \/ tmpl' = 0)
    <3>1. w.spec.rev = 0 => tmpl = 0
      BY <1>0, <2>1 DEF PoolInv
    <3> QED BY <1>0, <2>1, <2>2, <3>1, PoolGoto, PoolFault
  <2>4. PoolType'
    BY <1>0, <2>1, <2>3 DEF PoolType
  <2>5. PoolInv'
    BY <1>0, <1>f, <2>1, <2>3 DEF PoolInv
  <2>6. RoleInv'
    BY <1>0, <1>f, <2>1, <2>3 DEF RoleInv
  <2> QED BY <2>4, <2>5, <2>6 DEF PoolAll
<1>6. CASE Group!RemoveFinalizer
  <2> DEFINE x == [w.loc EXCEPT !.fin = FALSE]
  <2>1. x \in Group!Locals /\ x.fin = FALSE /\ x.role = w.loc.role
    BY <1>f DEF Group!Locals
  <2>2. /\ w.pc = "finish" /\ UNCHANGED <<ng, role, tmpl, spec, pool>>
        /\ faults' = faults /\ w' = [w EXCEPT !.loc = x, !.pc = "close"]
    BY <1>6 DEF Group!RemoveFinalizer, Group!NoFault
  <2> HIDE DEF x
  <2>3. w' \in Works /\ w'.loc = x /\ w'.spec = w.spec /\ w'.pc = "close"
    BY <1>0, <1>f, <2>1, <2>2 DEF Works
  <2>4. PoolType'
    BY <1>0, <2>2, <2>3 DEF PoolType
  <2>5. PoolInv'
    BY <1>0, <1>f, <2>1, <2>2, <2>3 DEF PoolInv
  <2>6. RoleInv'
    BY <1>0, <1>f, <2>1, <2>2, <2>3 DEF RoleInv
  <2> QED BY <2>4, <2>5, <2>6 DEF PoolAll
<1>7. CASE Group!Close
  <2> DEFINE st == IF pool.st = "deleting" /\ ~w.loc.fin THEN "gone" ELSE pool.st
  <2>1. /\ w.pc = "close" /\ UNCHANGED <<ng, role, tmpl, spec>> /\ w' = Group!NoWork
        /\ \/ Group!NoFault /\ pool.st = "gone" /\ UNCHANGED pool
           \/ Group!NoFault /\ pool.st # "gone" /\ pool' = [st |-> st, loc |-> w.loc]
           \/ Group!Fault("patch") /\ UNCHANGED pool
    BY <1>7 DEF Group!Close
  <2>2. w' \in Works /\ w'.pc = "idle"
    BY <2>1, PoolStart
  <2>3. /\ pool' \in Pools /\ faults' \in Nat
        /\ \/ faults' = faults /\ pool.st = "gone" /\ pool' = pool
           \/ /\ faults' = faults /\ pool.st # "gone" /\ pool'.loc = w.loc
              /\ pool'.st = IF pool.st = "deleting" /\ ~w.loc.fin THEN "gone" ELSE pool.st
           \/ faults' # 0 /\ pool' = pool
    BY <1>0, <1>f, <2>1, PoolFault DEF Pools
  <2>4. PoolType'
    BY <1>0, <2>1, <2>2, <2>3 DEF PoolType
  <2>5. PoolInv'
    BY <1>0, <1>f, <2>1, <2>2, <2>3 DEF PoolInv
  <2>6. RoleInv'
    BY <1>0, <1>f, <2>1, <2>2, <2>3 DEF RoleInv, PoolInv
  <2> QED BY <2>4, <2>5, <2>6 DEF PoolAll
<1> QED BY <1>1, <1>2, <1>3, <1>4, <1>5, <1>6, <1>7

\* EKS finishes what it began, and the autoscaler and the user act.
LEMMA PoolStepEnvironment ==
    ASSUME PoolAll,
           \/ Group!Progress
           \/ UNCHANGED faults /\ (Group!Autoscale \/ Group!EditPool \/ Group!DeletePool)
    PROVE  PoolAll'
<1>0. /\ PoolType /\ PoolInv /\ RoleInv /\ w \in Works /\ pool \in Pools /\ faults \in Nat
      /\ ng \in Group!Groups /\ spec \in Group!Specs
  BY DEF PoolAll, PoolType
<1>f. /\ w.pc \in PoolLabels /\ pool.loc \in Group!Locals /\ pool.loc.fin \in BOOLEAN
      /\ w.loc.fin \in BOOLEAN /\ pool.st \in {"live", "deleting", "gone"}
      /\ ng.cur \in Group!Values /\ ng.next \in Group!Values
  BY <1>0, PoolFields DEF PoolType
<1> USE DEF PoolLabels, DeletingLabels
<1>1. CASE Group!Progress
  <2>1. /\ UNCHANGED <<role, tmpl, spec, pool, w>> /\ ng.st \in {"CREATING", "UPDATING", "DELETING"}
        /\ \/ Group!NoFault /\ ng.st = "CREATING" /\ ng' = [ng EXCEPT !.st = "ACTIVE"]
           \/ Group!Fault("update") /\ ng' = [ng EXCEPT !.st = "CREATE_FAILED"]
           \/ /\ Group!NoFault /\ ng.st = "UPDATING"
              /\ ng' = [ng EXCEPT !.st = "ACTIVE", !.cur = ng.next]
           \/ Group!Fault("update") /\ ng' = [ng EXCEPT !.st = "ACTIVE", !.next = ng.cur]
           \/ Group!NoFault /\ ng.st = "DELETING" /\ ng' = Group!NoGroup
           \/ Group!Fault("update") /\ ng' = [ng EXCEPT !.st = "DELETE_FAILED"]
    BY <1>1 DEF Group!Progress
  <2>2. /\ ng' \in Group!Groups /\ faults' \in Nat
        /\ \/ faults' = faults /\ ng'.st = "ACTIVE"
           \/ faults' # 0 /\ ng'.st # "none"
           \/ faults' = faults /\ ng.st = "DELETING" /\ ng'.st = "none"
    <3>1. CASE Group!NoFault /\ ng' = [ng EXCEPT !.st = "ACTIVE"]
      BY <1>0, <3>1, PoolFault DEF Group!Groups, Group!None
    <3>2. CASE Group!Fault("update") /\ ng' = [ng EXCEPT !.st = "CREATE_FAILED"]
      <4>1. ng' \in Group!Groups /\ ng'.st = "CREATE_FAILED"
        BY <1>0, <3>2 DEF Group!Groups, Group!None
      <4> QED BY <1>0, <3>2, <4>1, PoolFault
    <3>3. CASE Group!NoFault /\ ng' = [ng EXCEPT !.st = "ACTIVE", !.cur = ng.next]
      <4>1. ng' \in Group!Groups /\ ng'.st = "ACTIVE"
        BY <1>0, <1>f, <3>3 DEF Group!Groups, Group!None
      <4> QED BY <1>0, <3>3, <4>1, PoolFault
    <3>4. CASE Group!Fault("update") /\ ng' = [ng EXCEPT !.st = "ACTIVE", !.next = ng.cur]
      <4>1. ng' \in Group!Groups /\ ng'.st = "ACTIVE"
        BY <1>0, <1>f, <3>4 DEF Group!Groups, Group!None
      <4> QED BY <1>0, <3>4, <4>1, PoolFault
    <3>5. CASE Group!NoFault /\ ng.st = "DELETING" /\ ng' = Group!NoGroup
      BY <1>0, <3>5, PoolFault, PoolStart
    <3>6. CASE Group!Fault("update") /\ ng' = [ng EXCEPT !.st = "DELETE_FAILED"]
      <4>1. ng' \in Group!Groups /\ ng'.st = "DELETE_FAILED"
        BY <1>0, <3>6 DEF Group!Groups, Group!None
      <4> QED BY <1>0, <3>6, <4>1, PoolFault
    <3> QED BY <2>1, <3>1, <3>2, <3>3, <3>4, <3>5, <3>6
  <2>3. PoolType'
    BY <1>0, <2>1, <2>2 DEF PoolType
  <2>4. PoolInv'
    BY <1>0, <1>f, <2>1, <2>2 DEF PoolInv
  <2>5. RoleInv'
    BY <1>0, <1>f, <2>1, <2>2 DEF RoleInv
  <2> QED BY <2>3, <2>4, <2>5 DEF PoolAll
<1>2. CASE Group!Autoscale /\ UNCHANGED faults
  <2>1. PICK n \in 1 .. MaxSize : ng' = [ng EXCEPT !.cur.size = n, !.next.size = n]
    BY <1>2 DEF Group!Autoscale
  <2>2. [ng.cur EXCEPT !.size = n] \in Group!Values /\ [ng.next EXCEPT !.size = n] \in Group!Values
    BY <1>f DEF Group!Values
  <2>3. ng' = [ng EXCEPT !.cur = [ng.cur EXCEPT !.size = n], !.next = [ng.next EXCEPT !.size = n]]
    BY <1>0, <2>1 DEF Group!Groups
  <2>4. ng' \in Group!Groups /\ ng'.st = ng.st
    BY <1>0, <2>2, <2>3 DEF Group!Groups
  <2>5. UNCHANGED <<role, tmpl, spec, pool, w, faults>>
    BY <1>2 DEF Group!Autoscale
  <2>6. PoolType'
    BY <1>0, <2>4, <2>5 DEF PoolType
  <2>7. PoolInv'
    BY <1>0, <1>f, <2>4, <2>5 DEF PoolInv
  <2>8. RoleInv'
    BY <1>0, <1>f, <2>4, <2>5 DEF RoleInv
  <2> QED BY <2>6, <2>7, <2>8 DEF PoolAll
<1>3. CASE Group!EditPool /\ UNCHANGED faults
  <2>1. UNCHANGED <<ng, role, tmpl, pool, w, faults>>
    BY <1>3 DEF Group!EditPool
  <2>2. spec' \in Group!Specs /\ (spec'.rev = 0 <=> spec.rev = 0)
    <3>0. {MaxVersion, MaxRev, MaxSize} \subseteq Nat
      BY WorkersAssumption
    <3>1. CASE spec.version < MaxVersion /\ spec' = [spec EXCEPT !.version = spec.version + 1]
      BY <1>0, <3>0, <3>1 DEF Group!Specs
    <3>2. CASE spec.rev \in 1 .. MaxRev - 1 /\ spec' = [spec EXCEPT !.rev = spec.rev + 1]
      BY <1>0, <3>0, <3>2 DEF Group!Specs
    <3>3. CASE spec' = [spec EXCEPT !.cfg = 1 - spec.cfg]
      BY <1>0, <3>0, <3>3 DEF Group!Specs
    <3>4. CASE \E n \in 1 .. MaxSize : spec' = [spec EXCEPT !.size = n]
      BY <1>0, <3>0, <3>4 DEF Group!Specs
    <3>5. CASE spec' = [spec EXCEPT !.ami = 1 - spec.ami]
      BY <1>0, <3>0, <3>5 DEF Group!Specs
    <3> QED BY <1>3, <3>1, <3>2, <3>3, <3>4, <3>5 DEF Group!EditPool
  <2>3. PoolType'
    BY <1>0, <2>1, <2>2 DEF PoolType
  <2>4. PoolInv'
    BY <1>0, <1>f, <2>1, <2>2 DEF PoolInv
  <2>5. RoleInv'
    BY <1>0, <2>1 DEF RoleInv
  <2> QED BY <2>3, <2>4, <2>5 DEF PoolAll
<1>4. CASE Group!DeletePool /\ UNCHANGED faults
  <2> DEFINE st == IF pool.loc.fin THEN "deleting" ELSE "gone"
  <2>1. /\ pool.st = "live" /\ pool' = [pool EXCEPT !.st = st]
        /\ UNCHANGED <<ng, role, tmpl, spec, w, faults>>
    BY <1>4 DEF Group!DeletePool
  <2>2. pool' \in Pools /\ pool'.st = st /\ pool'.loc = pool.loc
    BY <1>0, <2>1 DEF Pools
  <2>3. PoolType'
    BY <1>0, <2>1, <2>2 DEF PoolType
  <2>4. PoolInv'
    BY <1>0, <1>f, <2>1, <2>2 DEF PoolInv
  <2>5. RoleInv'
    BY <1>0, <1>f, <2>1, <2>2 DEF RoleInv
  <2> QED BY <2>3, <2>4, <2>5 DEF PoolAll
<1> QED BY <1>1, <1>2, <1>3, <1>4

-----------------------------------------------------------------------------
(* The Fargate profile *)

\* The steps of its worker, the stored object and the AWS side.
ProfileLabels ==
    {"idle", "finalizer", "role", "createRole", "profile", "delProfile", "delRole", "close"}

FWorks == [pc: ProfileLabels, loc: Fargate!Locals]
FObjs == [st: {"live", "deleting", "gone"}, loc: Fargate!Locals]

ProfileType ==
    /\ profile \in {"none", "CREATING", "ACTIVE", "CREATE_FAILED", "DELETING", "DELETE_FAILED"}
    /\ frole \in BOOLEAN /\ fobj \in FObjs /\ fw \in FWorks

\* EKS keeps a profile it could not delete.
ProfileGone == ~frole /\ profile \in {"none", "DELETE_FAILED"}

\* The finalizer is stored before anything is created and leaves memory when the profile
\* and the role are gone; the name of the role is stored before there is one, and the
\* name in memory is the stored one until the reconcile ends.
ProfileInv ==
    /\ ~fobj.loc.fin \/ fobj.st = "gone" =>
         fw.pc \in {"idle", "finalizer", "close"} /\ ProfileGone
    /\ fobj.st = "deleting" => fobj.loc.fin
    /\ fw.pc \notin {"idle", "finalizer", "close"} => fw.loc.fin
    /\ fw.pc = "close" /\ ~fw.loc.fin => fobj.st = "deleting" /\ ProfileGone
    /\ fw.pc \in {"delProfile", "delRole"} => fobj.st = "deleting"
    /\ fw.pc = "delRole" => profile \in {"none", "DELETE_FAILED"}
    /\ frole => fobj.loc.role
    /\ fw.pc # "idle" /\ fobj.loc.role => fw.loc.role
    /\ fw.pc \notin {"idle", "close"} /\ fw.loc.role => fobj.loc.role
    /\ fw.pc \in {"createRole", "profile"} => fw.loc.role

\* The inductive invariant of the profile.
ProfileAll == ProfileType /\ ProfileInv

\* What ProfileType says of the fields.
LEMMA ProfileFields ==
    ASSUME ProfileType
    PROVE  /\ fw.pc \in ProfileLabels /\ fw.loc \in Fargate!Locals /\ fobj.loc \in Fargate!Locals
           /\ fobj.st \in {"live", "deleting", "gone"}
           /\ fobj.loc.fin \in BOOLEAN /\ fobj.loc.role \in BOOLEAN
           /\ fw.loc.fin \in BOOLEAN /\ fw.loc.role \in BOOLEAN
<1>1. /\ fw.pc \in ProfileLabels /\ fw.loc \in Fargate!Locals /\ fobj.loc \in Fargate!Locals
      /\ fobj.st \in {"live", "deleting", "gone"}
  BY DEF ProfileType, FWorks, FObjs
<1> QED BY <1>1 DEF Fargate!Locals

\* A step that only moves the worker on.
LEMMA ProfileGoto ==
    ASSUME ProfileType, NEW l \in ProfileLabels, Fargate!Goto(l)
    PROVE  fw' \in FWorks /\ fw'.pc = l /\ fw'.loc = fw.loc
BY DEF ProfileType, FWorks, Fargate!Goto

\* A step that also updates the copy of the object.
LEMMA ProfileLoc ==
    ASSUME ProfileType, NEW l \in ProfileLabels, NEW x \in Fargate!Locals,
           fw' = [fw EXCEPT !.loc = x, !.pc = l]
    PROVE  fw' \in FWorks /\ fw'.pc = l /\ fw'.loc = x
BY DEF ProfileType, FWorks

\* The updates of the copy keep its type and its other fields.
LEMMA ProfileLocals ==
    ASSUME NEW x \in Fargate!Locals, NEW b \in BOOLEAN
    PROVE  /\ [x EXCEPT !.fin = b] \in Fargate!Locals /\ [x EXCEPT !.fin = b].fin = b
           /\ [x EXCEPT !.fin = b].role = x.role
           /\ [x EXCEPT !.role = b] \in Fargate!Locals /\ [x EXCEPT !.role = b].role = b
           /\ [x EXCEPT !.role = b].fin = x.fin
           /\ [x EXCEPT !.ready = b] \in Fargate!Locals /\ [x EXCEPT !.ready = b].fin = x.fin
           /\ [x EXCEPT !.ready = b].role = x.role
BY DEF Fargate!Locals

\* What a profile and its worker start with.
LEMMA ProfileStart ==
    /\ Fargate!NoLocal \in Fargate!Locals /\ Fargate!NoLocal.fin = FALSE
    /\ Fargate!NoLocal.role = FALSE
    /\ Fargate!NoWork \in FWorks /\ Fargate!NoWork.pc = "idle"
<1>1. /\ Fargate!NoLocal \in Fargate!Locals /\ Fargate!NoLocal.fin = FALSE
      /\ Fargate!NoLocal.role = FALSE
  BY DEF Fargate!NoLocal, Fargate!Locals
<1> QED BY <1>1 DEF Fargate!NoWork, FWorks, ProfileLabels

\* reconcileNormal of a profile.
LEMMA ProfileStepNormal ==
    ASSUME ProfileAll,
           \/ Fargate!Start \/ Fargate!AddFinalizer \/ Fargate!ReconcileRole
           \/ Fargate!CreateRole \/ Fargate!ReconcileProfile
    PROVE  ProfileAll'
<1>0. /\ ProfileType /\ ProfileInv /\ frole \in BOOLEAN /\ fobj \in FObjs /\ fw \in FWorks
      /\ profile \in {"none", "CREATING", "ACTIVE", "CREATE_FAILED", "DELETING", "DELETE_FAILED"}
  BY DEF ProfileAll, ProfileType
<1>f. /\ fw.pc \in ProfileLabels /\ fw.loc \in Fargate!Locals /\ fobj.loc \in Fargate!Locals
      /\ fobj.st \in {"live", "deleting", "gone"}
      /\ fobj.loc.fin \in BOOLEAN /\ fobj.loc.role \in BOOLEAN
      /\ fw.loc.fin \in BOOLEAN /\ fw.loc.role \in BOOLEAN
  BY <1>0, ProfileFields
<1> USE DEF ProfileLabels
<1>1. CASE Fargate!Start
  <2>1. /\ fw.pc = "idle" /\ fobj.st # "gone" /\ UNCHANGED <<profile, frole, fobj>>
        /\ fw' = [pc |-> IF fobj.st = "deleting" THEN "delProfile"
                         ELSE IF fobj.loc.fin THEN "role" ELSE "finalizer", loc |-> fobj.loc]
    BY <1>1 DEF Fargate!Start
  <2>2. /\ fw' \in FWorks /\ fw'.loc = fobj.loc
        /\ fw'.pc = IF fobj.st = "deleting" THEN "delProfile"
                    ELSE IF fobj.loc.fin THEN "role" ELSE "finalizer"
    BY <1>f, <2>1 DEF FWorks
  <2>3. ProfileType'
    BY <1>0, <2>1, <2>2 DEF ProfileType
  <2>4. ProfileInv'
    BY <1>0, <1>f, <2>1, <2>2 DEF ProfileInv, ProfileGone
  <2> QED BY <2>3, <2>4 DEF ProfileAll
<1>2. CASE Fargate!AddFinalizer
  <2> DEFINE x == [fw.loc EXCEPT !.fin = TRUE]
  <2> DEFINE y == [fobj.loc EXCEPT !.fin = TRUE]
  <2>1. /\ x \in Fargate!Locals /\ x.fin = TRUE /\ x.role = fw.loc.role
        /\ y \in Fargate!Locals /\ y.fin = TRUE /\ y.role = fobj.loc.role
    BY <1>f, ProfileLocals
  <2>2. /\ fw.pc = "finalizer" /\ UNCHANGED <<profile, frole>>
        /\ \/ /\ fobj.st # "gone" /\ fobj' = [fobj EXCEPT !.loc = y]
              /\ fw' = [fw EXCEPT !.loc = x, !.pc = "role"]
           \/ fw' = [fw EXCEPT !.loc = x, !.pc = "close"] /\ UNCHANGED fobj
    BY <1>2 DEF Fargate!AddFinalizer
  <2> HIDE DEF x, y
  <2>3. [fobj EXCEPT !.loc = y] \in FObjs /\ [fobj EXCEPT !.loc = y].loc = y
        /\ [fobj EXCEPT !.loc = y].st = fobj.st
    BY <1>0, <2>1 DEF FObjs
  <2>4. /\ fw' \in FWorks /\ fw'.loc = x /\ fobj' \in FObjs /\ fobj'.st = fobj.st
        /\ \/ fw'.pc = "role" /\ fobj'.loc = y /\ fobj.st # "gone"
           \/ fw'.pc = "close" /\ fobj' = fobj
    BY <1>0, <2>1, <2>2, <2>3, ProfileLoc
  <2>5. ProfileType'
    BY <1>0, <2>2, <2>4 DEF ProfileType
  <2>6. ProfileInv'
    BY <1>0, <1>f, <2>1, <2>2, <2>4 DEF ProfileInv, ProfileGone
  <2> QED BY <2>5, <2>6 DEF ProfileAll
<1>3. CASE Fargate!ReconcileRole
  <2> DEFINE x == [fw.loc EXCEPT !.role = TRUE]
  <2>1. x \in Fargate!Locals /\ x.fin = fw.loc.fin /\ x.role = TRUE
    BY <1>f, ProfileLocals
  <2>2. /\ fw.pc = "role" /\ UNCHANGED <<profile, frole, fobj>>
        /\ \/ fw' = [fw EXCEPT !.loc = x, !.pc = "close"]
           \/ /\ fw.loc.role
              /\ \/ Fargate!Goto("profile")
                 \/ Fargate!Goto("createRole")
                 \/ Fargate!Goto("close")
    BY <1>3 DEF Fargate!ReconcileRole, Fargate!Fails
  <2> HIDE DEF x
  <2>3. /\ fw' \in FWorks /\ fw'.pc \in {"profile", "createRole", "close"}
        /\ \/ fw'.loc = x /\ fw'.pc = "close"
           \/ fw'.loc = fw.loc /\ fw.loc.role
    BY <1>0, <2>1, <2>2, ProfileLoc, ProfileGoto
  <2>4. ProfileType'
    BY <1>0, <2>2, <2>3 DEF ProfileType
  <2>5. ProfileInv'
    BY <1>0, <1>f, <2>1, <2>2, <2>3 DEF ProfileInv, ProfileGone
  <2> QED BY <2>4, <2>5 DEF ProfileAll
<1>4. CASE Fargate!CreateRole
  <2>1. /\ fw.pc = "createRole" /\ UNCHANGED <<profile, fobj>> /\ Fargate!Goto("close")
        /\ UNCHANGED frole \/ frole' = TRUE
    BY <1>4 DEF Fargate!CreateRole, Fargate!Fails
  <2>2. fw' \in FWorks /\ fw'.loc = fw.loc /\ fw'.pc = "close" /\ frole' \in BOOLEAN
    BY <1>0, <2>1, ProfileGoto
  <2>3. ProfileType'
    BY <1>0, <2>1, <2>2 DEF ProfileType
  <2>4. ProfileInv'
    BY <1>0, <1>f, <2>1, <2>2 DEF ProfileInv, ProfileGone
  <2> QED BY <2>3, <2>4 DEF ProfileAll
<1>5. CASE Fargate!ReconcileProfile
  <2> DEFINE b == profile' = "ACTIVE"
  <2> DEFINE x == [fw.loc EXCEPT !.ready = b]
  <2>1. /\ fw.pc = "profile" /\ UNCHANGED <<frole, fobj>>
        /\ \/ profile' \in {"CREATING", profile} /\ fw' = [fw EXCEPT !.loc = x, !.pc = "close"]
           \/ Fargate!Goto("close") /\ profile' \in {"CREATING", profile}
    BY <1>5 DEF Fargate!ReconcileProfile, Fargate!Fails
  <2>2. b \in BOOLEAN
    OBVIOUS
  <2> HIDE DEF b
  <2>3. x \in Fargate!Locals /\ x.fin = fw.loc.fin /\ x.role = fw.loc.role
    BY <1>f, <2>2 DEF Fargate!Locals
  <2> HIDE DEF x
  <2>4. /\ fw' \in FWorks /\ fw'.loc \in {x, fw.loc} /\ fw'.pc = "close"
        /\ profile' \in {"CREATING", profile}
    BY <1>0, <2>1, <2>3, ProfileGoto, ProfileLoc
  <2>5. ProfileType'
    BY <1>0, <2>1, <2>4 DEF ProfileType
  <2>6. ProfileInv'
    BY <1>0, <1>f, <2>1, <2>3, <2>4 DEF ProfileInv, ProfileGone
  <2> QED BY <2>5, <2>6 DEF ProfileAll
<1> QED BY <1>1, <1>2, <1>3, <1>4, <1>5

\* reconcileDelete of a profile, the deferred patch, EKS and the user.
LEMMA ProfileStepDelete ==
    ASSUME ProfileAll,
           \/ Fargate!DeleteProfile \/ Fargate!DeleteRole \/ Fargate!Close
           \/ Fargate!Progress \/ Fargate!DeleteObject
    PROVE  ProfileAll'
<1>0. /\ ProfileType /\ ProfileInv /\ frole \in BOOLEAN /\ fobj \in FObjs /\ fw \in FWorks
      /\ profile \in {"none", "CREATING", "ACTIVE", "CREATE_FAILED", "DELETING", "DELETE_FAILED"}
  BY DEF ProfileAll, ProfileType
<1>f. /\ fw.pc \in ProfileLabels /\ fw.loc \in Fargate!Locals /\ fobj.loc \in Fargate!Locals
      /\ fobj.st \in {"live", "deleting", "gone"}
      /\ fobj.loc.fin \in BOOLEAN /\ fobj.loc.role \in BOOLEAN
      /\ fw.loc.fin \in BOOLEAN /\ fw.loc.role \in BOOLEAN
  BY <1>0, ProfileFields
<1> USE DEF ProfileLabels
<1>1. CASE Fargate!DeleteProfile
  <2> DEFINE x == [fw.loc EXCEPT !.ready = FALSE]
  <2> DEFINE l == Fargate!AfterDelete(profile')
  <2>1. x \in Fargate!Locals /\ x.fin = fw.loc.fin /\ x.role = fw.loc.role
    BY <1>f, ProfileLocals
  <2>2. l = IF profile' \in {"CREATING", "DELETING"} THEN "close" ELSE "delRole"
    BY DEF Fargate!AfterDelete
  <2>3. /\ fw.pc = "delProfile" /\ UNCHANGED <<frole, fobj>>
        /\ \/ /\ profile' = IF profile \in {"ACTIVE", "CREATE_FAILED"} THEN "DELETING" ELSE profile
              /\ fw' = [fw EXCEPT !.loc = x, !.pc = l]
           \/ Fargate!Goto("close") /\ profile' \in {"DELETING", profile}
    BY <1>1 DEF Fargate!DeleteProfile, Fargate!Fails
  <2> HIDE DEF x, l
  <2>4. /\ fw' \in FWorks /\ fw'.loc \in {x, fw.loc} /\ fw'.pc \in {"close", "delRole"}
        /\ fw'.pc = "delRole" => profile' \in {"none", "DELETE_FAILED"}
        /\ profile' \in {"none", "CREATING", "DELETING", "DELETE_FAILED", profile}
    <3>1. CASE /\ profile' = IF profile \in {"ACTIVE", "CREATE_FAILED"} THEN "DELETING" ELSE profile
               /\ fw' = [fw EXCEPT !.loc = x, !.pc = l]
      <4>1. l \in {"close", "delRole"} /\ profile' \in {"DELETING", profile}
            /\ (l = "delRole" => profile' \in {"none", "DELETE_FAILED"})
        BY <1>0, <2>2, <3>1
      <4> QED BY <1>0, <2>1, <3>1, <4>1, ProfileLoc
    <3>2. CASE Fargate!Goto("close") /\ profile' \in {"DELETING", profile}
      BY <1>0, <3>2, ProfileGoto
    <3> QED BY <2>3, <3>1, <3>2
  <2>5. ProfileType'
    BY <1>0, <2>3, <2>4 DEF ProfileType
  <2>6. ProfileInv'
    BY <1>0, <1>f, <2>1, <2>3, <2>4 DEF ProfileInv, ProfileGone
  <2> QED BY <2>5, <2>6 DEF ProfileAll
<1>2. CASE Fargate!DeleteRole
  <2> DEFINE x == [fw.loc EXCEPT !.fin = FALSE]
  <2>1. x \in Fargate!Locals /\ x.fin = FALSE /\ x.role = fw.loc.role
    BY <1>f, ProfileLocals
  <2>2. /\ fw.pc = "delRole" /\ UNCHANGED <<profile, fobj>>
        /\ \/ frole' = FALSE /\ fw' = [fw EXCEPT !.loc = x, !.pc = "close"]
           \/ Fargate!Goto("close") /\ (UNCHANGED frole \/ frole' = FALSE)
    BY <1>2 DEF Fargate!DeleteRole, Fargate!Fails
  <2> HIDE DEF x
  <2>3. /\ fw' \in FWorks /\ fw'.pc = "close" /\ frole' \in BOOLEAN
        /\ \/ fw'.loc = x /\ frole' = FALSE
           \/ fw'.loc = fw.loc /\ (frole' = frole \/ frole' = FALSE)
    BY <1>0, <2>1, <2>2, ProfileLoc, ProfileGoto
  <2>4. ProfileType'
    BY <1>0, <2>2, <2>3 DEF ProfileType
  <2>5. ProfileInv'
    BY <1>0, <1>f, <2>1, <2>2, <2>3 DEF ProfileInv, ProfileGone
  <2> QED BY <2>4, <2>5 DEF ProfileAll
<1>3. CASE Fargate!Close
  <2> DEFINE st == IF fobj.st = "deleting" /\ ~fw.loc.fin THEN "gone" ELSE fobj.st
  <2>1. /\ fw.pc = "close" /\ fw' = Fargate!NoWork /\ UNCHANGED <<profile, frole>>
        /\ \/ UNCHANGED fobj
           \/ fobj.st # "gone" /\ fobj' = [st |-> st, loc |-> fw.loc]
    BY <1>3 DEF Fargate!Close
  <2>2. fw' \in FWorks /\ fw'.pc = "idle"
    BY <2>1, ProfileStart
  <2>3. /\ fobj' \in FObjs
        /\ \/ fobj' = fobj
           \/ /\ fobj.st # "gone" /\ fobj'.loc = fw.loc
              /\ fobj'.st = IF fobj.st = "deleting" /\ ~fw.loc.fin THEN "gone" ELSE fobj.st
    BY <1>0, <1>f, <2>1 DEF FObjs
  <2>4. ProfileType'
    BY <1>0, <2>1, <2>2, <2>3 DEF ProfileType
  <2>5. ProfileInv'
    BY <1>0, <1>f, <2>1, <2>2, <2>3 DEF ProfileInv, ProfileGone
  <2> QED BY <2>4, <2>5 DEF ProfileAll
<1>4. CASE Fargate!Progress
  <2>1. /\ UNCHANGED <<frole, fobj, fw>> /\ profile \in {"CREATING", "DELETING"}
        /\ profile' \in {"ACTIVE", "CREATE_FAILED", "none", "DELETE_FAILED"}
    BY <1>4 DEF Fargate!Progress, Fargate!None
  <2>2. ProfileType'
    BY <1>0, <2>1 DEF ProfileType
  <2>3. ProfileInv'
    BY <1>0, <1>f, <2>1 DEF ProfileInv, ProfileGone
  <2> QED BY <2>2, <2>3 DEF ProfileAll
<1>5. CASE Fargate!DeleteObject
  <2> DEFINE st == IF fobj.loc.fin THEN "deleting" ELSE "gone"
  <2>1. /\ fobj.st = "live" /\ fobj' = [fobj EXCEPT !.st = st] /\ UNCHANGED <<profile, frole, fw>>
    BY <1>5 DEF Fargate!DeleteObject
  <2>2. fobj' \in FObjs /\ fobj'.st = st /\ fobj'.loc = fobj.loc
    BY <1>0, <2>1 DEF FObjs
  <2>3. ProfileType'
    BY <1>0, <2>1, <2>2 DEF ProfileType
  <2>4. ProfileInv'
    BY <1>0, <1>f, <2>1, <2>2 DEF ProfileInv, ProfileGone
  <2> QED BY <2>3, <2>4 DEF ProfileAll
<1> QED BY <1>1, <1>2, <1>3, <1>4, <1>5

-----------------------------------------------------------------------------
(* The control plane and the whole *)

\* The object of the control plane.
ControlPlanes == [st: {"live", "deleting", "gone"}, ready: BOOLEAN]

\* The control plane waits for the pool.
OrderInv == cp \in ControlPlanes /\ (cp.st = "gone" => pool.st = "gone")

\* The inductive invariant of the whole.
WorkersInv == PoolAll /\ ProfileAll /\ OrderInv

\* A fault is counted, whichever component it strikes.
FaultsGrow == faults' \in Nat /\ (faults' = faults \/ faults' # 0)

\* So it is by the controller of a profile,
LEMMA FargateFaults ==
    ASSUME faults \in Nat, Fargate!Worker \/ Fargate!Progress
    PROVE  FaultsGrow
<1> USE DEF FaultsGrow, Fargate!NoFault, Fargate!Fault, Fargate!Fails
<1>1. CASE Fargate!Start
  BY <1>1 DEF Fargate!Start
<1>2. CASE Fargate!AddFinalizer
  BY <1>2 DEF Fargate!AddFinalizer
<1>3. CASE Fargate!ReconcileRole
  BY <1>3 DEF Fargate!ReconcileRole
<1>4. CASE Fargate!CreateRole
  BY <1>4 DEF Fargate!CreateRole
<1>5. CASE Fargate!ReconcileProfile
  BY <1>5 DEF Fargate!ReconcileProfile
<1>6. CASE Fargate!DeleteProfile
  BY <1>6 DEF Fargate!DeleteProfile
<1>7. CASE Fargate!DeleteRole
  BY <1>7 DEF Fargate!DeleteRole
<1>8. CASE Fargate!Close
  BY <1>8 DEF Fargate!Close
<1>9. CASE Fargate!Progress
  BY <1>9 DEF Fargate!Progress
<1> QED BY <1>1, <1>2, <1>3, <1>4, <1>5, <1>6, <1>7, <1>8, <1>9 DEF Fargate!Worker

\* by that of the bootstrap configuration and Cluster API,
LEMMA BootstrapFaults ==
    ASSUME faults \in Nat,
           \/ Bootstrap!Worker \/ Bootstrap!ReconcileManagedCluster
           \/ Bootstrap!SetInfrastructureProvisioned \/ Bootstrap!SetControlPlaneInitialized
           \/ Bootstrap!CacheSync \/ Bootstrap!Resync
    PROVE  FaultsGrow
<1>0. /\ Bootstrap!NoFault => FaultsGrow
      /\ \A k : Bootstrap!Fault(k) => FaultsGrow
  BY DEF FaultsGrow, Bootstrap!NoFault, Bootstrap!Fault
<1>1. CASE Bootstrap!Reconcile
  BY <1>0, <1>1 DEF Bootstrap!Reconcile
<1>2. CASE Bootstrap!JoinWorker
  <2>1. Bootstrap!NoFault \/ \E k : Bootstrap!Fault(k)
    BY <1>2, Zenon DEF Bootstrap!JoinWorker
  <2> QED BY <1>0, <2>1
<1>3. CASE Bootstrap!StoreBootstrapData
  <2>1. Bootstrap!NoFault \/ \E k : Bootstrap!Fault(k)
    BY <1>3, Zenon DEF Bootstrap!StoreBootstrapData
  <2> QED BY <1>0, <2>1
<1>4. CASE Bootstrap!Close
  BY <1>0, <1>4 DEF Bootstrap!Close
<1>5. CASE Bootstrap!ReconcileManagedCluster
  BY <1>0, <1>5 DEF Bootstrap!ReconcileManagedCluster
<1>6. CASE Bootstrap!SetInfrastructureProvisioned \/ Bootstrap!SetControlPlaneInitialized
  BY <1>0, <1>6 DEF Bootstrap!SetInfrastructureProvisioned, Bootstrap!SetControlPlaneInitialized
<1>7. CASE Bootstrap!CacheSync \/ Bootstrap!Resync
  BY <1>0, <1>7 DEF Bootstrap!CacheSync, Bootstrap!Resync
<1> QED BY <1>1, <1>2, <1>3, <1>4, <1>5, <1>6, <1>7 DEF Bootstrap!Worker

\* and by the edits of the workload cluster.
LEMMA WorkloadFaults ==
    ASSUME faults \in Nat, NEW a, NEW n, NEW e, Workload!Worker(a, n, e)
    PROVE  FaultsGrow
<1>0. /\ Workload!NoFault => FaultsGrow
      /\ Workload!Fails => FaultsGrow
      /\ \A k : Workload!Fault(k) => FaultsGrow
  BY DEF FaultsGrow, Workload!NoFault, Workload!Fault, Workload!Fails
<1>1. CASE Workload!Start(a)
  BY <1>0, <1>1 DEF Workload!Start
<1>2. CASE Workload!ReconcileCNI
  <2>1. Workload!NoFault \/ Workload!Fails
    BY <1>2, Zenon DEF Workload!ReconcileCNI
  <2> QED BY <1>0, <2>1
<1>3. CASE Workload!ReconcileKubeProxy
  BY <1>0, <1>3 DEF Workload!ReconcileKubeProxy
<1>4. CASE Workload!GetRolesForWorkers(n)
  BY <1>0, <1>4 DEF Workload!GetRolesForWorkers
<1>5. CASE Workload!GetARNForRole(e)
  BY <1>0, <1>5 DEF Workload!GetARNForRole
<1>6. CASE Workload!GetAuthConfig
  BY <1>0, <1>6 DEF Workload!GetAuthConfig
<1>7. CASE Workload!SaveAuthConfig
  BY <1>0, <1>7 DEF Workload!SaveAuthConfig
<1> QED BY <1>1, <1>2, <1>3, <1>4, <1>5, <1>6, <1>7 DEF Workload!Worker

\* The invariant of the pool does not depend on anything but its variables and on whether
\* something has failed,
LEMMA PoolUntouched ==
    ASSUME PoolAll, UNCHANGED groupVars, FaultsGrow
    PROVE  PoolAll'
<1>1. UNCHANGED <<ng, role, tmpl, spec, pool, w>>
  BY DEF groupVars
<1>2. PoolType'
  BY <1>1 DEF PoolAll, PoolType, FaultsGrow
<1>3. PoolInv'
  BY <1>1 DEF PoolAll, PoolInv
<1>4. RoleInv'
  BY <1>1 DEF PoolAll, RoleInv, FaultsGrow
<1> QED BY <1>2, <1>3, <1>4 DEF PoolAll

\* that of the profile on its variables alone.
LEMMA ProfileUntouched ==
    ASSUME ProfileAll, UNCHANGED fargateVars
    PROVE  ProfileAll'
BY DEF ProfileAll, ProfileType, ProfileInv, ProfileGone, fargateVars

\* A pool that is gone stays so.
LEMMA PoolStaysGone ==
    ASSUME Group!Worker \/ Group!Progress \/ Group!Autoscale \/ Group!EditPool \/ Group!DeletePool,
           PoolType, pool.st = "gone"
    PROVE  pool' = pool
<1>1. CASE Group!Worker
  <2> USE DEF Group!PatchObject
  <2>1. CASE Group!AddFinalizer \/ Group!StoreLaunchTemplate \/ Group!SetStatus
    BY <2>1 DEF Group!AddFinalizer, Group!StoreLaunchTemplate, Group!SetStatus
  <2>2. CASE Group!Start \/ Group!ReconcileLaunchTemplate \/ Group!ReconcileRole
    BY <2>2 DEF Group!Start, Group!ReconcileLaunchTemplate, Group!ReconcileRole
  <2>3. CASE Group!DescribeOrCreate \/ Group!WaitForNodegroupActive \/ Group!SyncReplicas
    BY <2>3 DEF Group!DescribeOrCreate, Group!WaitForNodegroupActive, Group!SyncReplicas
  <2>4. CASE Group!ReconcileNodegroupVersion \/ Group!ReconcileNodegroupConfig
    BY <2>4 DEF Group!ReconcileNodegroupVersion, Group!ReconcileNodegroupConfig
  <2>5. CASE Group!DescribeDeleted \/ Group!DeleteNodegroup \/ Group!WaitUntilNodegroupDeleted
    BY <2>5 DEF Group!DescribeDeleted, Group!DeleteNodegroup, Group!WaitUntilNodegroupDeleted
  <2>6. CASE Group!DeleteRole \/ Group!DeleteLaunchTemplate \/ Group!RemoveFinalizer
    BY <2>6 DEF Group!DeleteRole, Group!DeleteLaunchTemplate, Group!RemoveFinalizer
  <2>7. CASE Group!Close
    BY <2>7 DEF Group!Close
  <2> QED BY <1>1, <2>1, <2>2, <2>3, <2>4, <2>5, <2>6, <2>7 DEF Group!Worker
<1>2. CASE Group!Progress \/ Group!Autoscale \/ Group!EditPool
  BY <1>2 DEF Group!Progress, Group!Autoscale, Group!EditPool
<1>3. CASE Group!DeletePool
  BY <1>3 DEF Group!DeletePool
<1> QED BY <1>1, <1>2, <1>3

\* No worker has begun; a pool or a profile that is not part of the behaviour is gone.
LEMMA WorkersInit == Init => WorkersInv
<1> SUFFICES ASSUME Init PROVE WorkersInv
  OBVIOUS
<1>0. {MaxVersion, MaxRev, MaxSize} \subseteq Nat \ {0}
  BY WorkersAssumption
<1> DEFINE st == IF "pool" \in shape THEN "live" ELSE "gone"
<1> DEFINE fst == IF "fargate" \in shape THEN "live" ELSE "gone"
<1>1. /\ cp = [st |-> "live", ready |-> FALSE] /\ faults = 0
      /\ ng = Group!NoGroup /\ role = FALSE /\ tmpl = 0 /\ w = Group!NoWork
      /\ pool = [st |-> st, loc |-> Group!NoLocal]
      /\ profile = "none" /\ frole = FALSE /\ fw = Fargate!NoWork
      /\ fobj = [st |-> fst, loc |-> Fargate!NoLocal]
  BY DEF Init, Group!Init, Fargate!Init, Fargate!None
<1>2. spec \in Group!Specs
  <2>1. CASE spec = Group!FirstSpec
    BY <2>1, PoolStart
  <2>2. CASE spec \in [version: {1}, rev: {0, 1}, ami: {0}, cfg: {0}, size: {1}, auto: BOOLEAN]
    BY <1>0, <2>2 DEF Group!Specs
  <2> QED BY <2>1, <2>2 DEF Init, Group!Init
<1>3. pool \in Pools /\ pool.st = st /\ pool.loc = Group!NoLocal /\ st \in {"live", "gone"}
  BY <1>1, PoolStart DEF Pools
<1>4. fobj \in FObjs /\ fobj.st = fst /\ fobj.loc = Fargate!NoLocal /\ fst \in {"live", "gone"}
  BY <1>1, ProfileStart DEF FObjs
<1>5. cp \in ControlPlanes /\ cp.st = "live"
  BY <1>1 DEF ControlPlanes
<1> HIDE DEF st, fst
<1>6. PoolType
  <2>1. 0 \in 0 .. MaxRev
    BY <1>0
  <2> QED BY <1>1, <1>2, <1>3, <2>1, PoolStart DEF PoolType
<1>7. PoolInv
  BY <1>1, <1>3, PoolStart DEF PoolInv, DeletingLabels
<1>8. RoleInv
  BY <1>1, PoolStart DEF RoleInv
<1>9. ProfileAll
  BY <1>1, <1>4, ProfileStart DEF ProfileAll, ProfileType, ProfileInv, ProfileGone
<1> QED BY <1>5, <1>6, <1>7, <1>8, <1>9 DEF WorkersInv, PoolAll, OrderInv

\* Every step of every component preserves the invariant.
LEMMA WorkersStep ==
    ASSUME WorkersInv, [Next]_vars
    PROVE  WorkersInv'
<1>0. /\ PoolAll /\ ProfileAll /\ OrderInv /\ PoolType /\ faults \in Nat
      /\ cp \in ControlPlanes /\ pool \in Pools
  BY DEF WorkersInv, PoolAll, PoolType, OrderInv
<1>s. UNCHANGED faults => FaultsGrow
  BY <1>0 DEF FaultsGrow
<1>o. UNCHANGED <<cp, pool>> => OrderInv'
  BY <1>0 DEF OrderInv
<1>1. CASE ControlPlaneStatus \/ DeleteControlPlane \/ ControlPlaneDeleted
  <2>1. UNCHANGED <<groupVars, fargateVars, faults>>
    BY <1>1 DEF ControlPlaneStatus, DeleteControlPlane, ControlPlaneDeleted, workerVars
  <2>2. UNCHANGED pool
    BY <2>1 DEF groupVars
  <2>3. OrderInv'
    <3>1. CASE ControlPlaneStatus
      BY <1>0, <2>2, <3>1 DEF ControlPlaneStatus, OrderInv, ControlPlanes
    <3>2. CASE DeleteControlPlane
      BY <1>0, <2>2, <3>2 DEF DeleteControlPlane, OrderInv, ControlPlanes
    <3>3. CASE ControlPlaneDeleted
      BY <1>0, <2>2, <3>3 DEF ControlPlaneDeleted, Dependencies, OrderInv, ControlPlanes
    <3> QED BY <1>1, <3>1, <3>2, <3>3
  <2> QED BY <1>0, <1>s, <2>1, <2>3, PoolUntouched, ProfileUntouched DEF WorkersInv
<1>2. CASE ControlPlaneInitialized \/ AutoUpgrade \/ FixVersion
  <2>1. UNCHANGED <<cp, groupVars, fargateVars, faults>>
    BY <1>2 DEF ControlPlaneInitialized, AutoUpgrade, FixVersion, workerVars, Act
  <2>2. UNCHANGED pool
    BY <2>1 DEF groupVars
  <2> QED BY <1>0, <1>s, <1>o, <2>1, <2>2, PoolUntouched, ProfileUntouched DEF WorkersInv
<1>3. CASE EditWorkload
  <2>1. UNCHANGED <<cp, groupVars, fargateVars>>
    BY <1>3 DEF EditWorkload, cpVars
  <2>2. UNCHANGED pool
    BY <2>1 DEF groupVars
  <2>3. FaultsGrow
    BY <1>0, <1>3, WorkloadFaults DEF EditWorkload
  <2> QED BY <1>0, <1>o, <2>1, <2>2, <2>3, PoolUntouched, ProfileUntouched DEF WorkersInv
<1>4. CASE BootstrapWorker \/ ManagedClusterWorker \/ ClusterAPI \/ CacheSync \/ Resync \/ BootstrapUser
  <2>1. UNCHANGED <<cp, groupVars, fargateVars>>
    BY <1>4 DEF BootstrapWorker, ManagedClusterWorker, ClusterAPI, CacheSync, Resync,
                BootstrapUser, OnlyBootstrap, cpVars
  <2>2. UNCHANGED pool
    BY <2>1 DEF groupVars
  <2>3. FaultsGrow
    BY <1>0, <1>s, <1>4, BootstrapFaults
       DEF BootstrapWorker, ManagedClusterWorker, ClusterAPI, CacheSync, Resync, BootstrapUser, Act
  <2> QED BY <1>0, <1>o, <2>1, <2>2, <2>3, PoolUntouched, ProfileUntouched DEF WorkersInv
<1>5. CASE GroupWorker \/ GroupProgress \/ GroupUser
  <2>1. UNCHANGED <<cp, fargateVars>>
    BY <1>5 DEF GroupWorker, GroupProgress, GroupUser, OnlyGroup, cpVars
  <2>2. PoolAll'
    <3>1. CASE GroupWorker
      BY <1>0, <3>1, PoolStepTemplate, PoolStepCreate, PoolStepUpdate, PoolStepDelete
         DEF GroupWorker, Group!Worker
    <3>2. CASE GroupProgress
      <4>1. Group!Progress
        BY <3>2 DEF GroupProgress
      <4> QED BY <1>0, <4>1, PoolStepEnvironment
    <3>3. CASE GroupUser
      <4>1. UNCHANGED faults /\ (Group!Autoscale \/ Group!EditPool \/ Group!DeletePool)
        BY <3>3 DEF GroupUser, Act
      <4> QED BY <1>0, <4>1, PoolStepEnvironment
    <3> QED BY <1>5, <3>1, <3>2, <3>3
  <2>3. pool.st = "gone" => pool' = pool
    BY <1>0, <1>5, PoolStaysGone DEF GroupWorker, GroupProgress, GroupUser
  <2>4. OrderInv'
    BY <1>0, <2>1, <2>3 DEF OrderInv
  <2> QED BY <1>0, <2>1, <2>2, <2>4, ProfileUntouched DEF WorkersInv
<1>6. CASE FargateWorker \/ FargateProgress \/ FargateUser
  <2>1. UNCHANGED <<cp, groupVars>>
    BY <1>6 DEF FargateWorker, FargateProgress, FargateUser, OnlyFargate, cpVars
  <2>2. UNCHANGED pool
    BY <2>1 DEF groupVars
  <2>3. FaultsGrow
    BY <1>0, <1>s, <1>6, FargateFaults DEF FargateWorker, FargateProgress, FargateUser
  <2>4. ProfileAll'
    BY <1>0, <1>6, ProfileStepNormal, ProfileStepDelete
       DEF FargateWorker, FargateProgress, FargateUser, Fargate!Worker
  <2> QED BY <1>0, <1>o, <2>1, <2>2, <2>3, <2>4, PoolUntouched DEF WorkersInv
<1>7. CASE Crash
  <2>1. /\ Group!Fault("crash") /\ w' = Group!NoWork /\ fw' = Fargate!NoWork
        /\ UNCHANGED <<cp, ng, role, tmpl, spec, pool, profile, frole, fobj>>
    BY <1>7 DEF Crash, cpVars
  <2>2. faults' \in Nat /\ faults' # 0
    BY <1>0, <2>1, PoolFault
  <2>3. w' \in Works /\ w'.pc = "idle" /\ fw' \in FWorks /\ fw'.pc = "idle"
    BY <2>1, PoolStart, ProfileStart
  <2>4. PoolType'
    BY <1>0, <2>1, <2>2, <2>3 DEF PoolType
  <2>5. PoolInv'
    BY <1>0, <2>1, <2>3 DEF PoolAll, PoolInv, DeletingLabels
  <2>6. RoleInv'
    BY <2>2 DEF RoleInv
  <2>7. ProfileAll'
    BY <1>0, <2>1, <2>3 DEF ProfileAll, ProfileType, ProfileInv, ProfileGone
  <2> QED BY <1>o, <2>1, <2>4, <2>5, <2>6, <2>7 DEF WorkersInv, PoolAll
<1>8. CASE UNCHANGED vars
  <2>1. UNCHANGED <<cp, groupVars, fargateVars, faults>>
    BY <1>8 DEF vars, workerVars, cpVars
  <2>2. UNCHANGED pool
    BY <2>1 DEF groupVars
  <2> QED BY <1>0, <1>s, <1>o, <2>1, <2>2, PoolUntouched, ProfileUntouched DEF WorkersInv
<1> QED BY <1>1, <1>2, <1>3, <1>4, <1>5, <1>6, <1>7, <1>8 DEF Next

\* A node group that goes away takes the launch template and, unless something failed, its
\* role along, and a Fargate profile its role: for any number of versions and sizes, edits
\* and faults, and with the control plane deleted at any time.
THEOREM WorkersDeleted == Spec => []NoOrphanWorkers
<1>1. Init => WorkersInv
  BY WorkersInit
<1>2. WorkersInv /\ [Next]_vars => WorkersInv'
  BY WorkersStep
<1>3. WorkersInv => NoOrphanWorkers
  BY DEF WorkersInv, PoolAll, PoolInv, RoleInv, ProfileAll, ProfileInv, ProfileGone, OrderInv,
         NoOrphanWorkers
<1> QED BY <1>1, <1>2, <1>3, PTL DEF Spec
=============================================================================

----------------------------- MODULE ROSAProofs -----------------------------
(***************************************************************************)
(* That nothing of a ROSA cluster is left behind (NoOrphanROSA), for any   *)
(* number of networks, versions, sizes, edits and faults.  Each controller *)
(* keeps its finalizer stored from before the first creation until after   *)
(* the last deletion (ClusterInv, NetworkInv, RolesInv); a cluster that is *)
(* gone takes its node pools along (PoolsInv); and the field cfStack of    *)
(* the network controller tells the truth to a network that has never read *)
(* it after another one wrote it (NetworkInv).                             *)
(***************************************************************************)
EXTENDS ROSA, FiniteSetTheorems, TLAPS

-----------------------------------------------------------------------------
(* The control plane *)

\* The steps of its worker, its copies, the stored object and the cluster.
ClusterLabels ==
    {"idle", "finalizer", "get", "create", "forwarders", "update", "version", "password", "user",
     "idp", "token", "machinePools", "delete", "close"}
ClusterWorks ==
    [pc: ClusterLabels, loc: ControlPlane!Locals, sp: ControlPlane!Specs,
     seen: [ver: ControlPlane!Versions, cfg: BOOLEAN], reset: BOOLEAN]
ClusterObjects == [st: {"absent", "live", "deleting", "gone"}, loc: ControlPlane!Locals]
Clusters ==
    [st: ControlPlane!ClusterStates, ver: ControlPlane!Versions, upg: 0 .. MaxVersion,
     acked: SUBSET ControlPlane!Versions, cfg: BOOLEAN, fwd: BOOLEAN, adm: ControlPlane!Admins]
Accesses == [pw: BOOLEAN, kube: BOOLEAN]

\* The types of the control plane's state.
ClusterType ==
    /\ ocm \in Clusters /\ spec \in ControlPlane!Specs /\ cp \in ClusterObjects
    /\ access \in Accesses /\ cw \in ClusterWorks

\* The finalizer is stored before the cluster is created and leaves memory when OCM no
\* longer knows the cluster; the password is stored before there is a user.
ClusterInv ==
    /\ ~cp.loc.fin \/ cp.st = "gone" =>
         cw.pc \in {"idle", "finalizer", "close"} /\ ocm.st = "none"
    /\ cp.st = "deleting" => cp.loc.fin
    /\ cw.pc \notin {"idle", "finalizer", "close"} => cw.loc.fin
    /\ cw.pc = "close" /\ ~cw.loc.fin => cp.st = "deleting" /\ ocm.st = "none"
    /\ cw.pc \in {"machinePools", "delete"} => cp.st = "deleting"
    /\ cw.pc \in {"user", "idp", "token"} => access.pw
    /\ ocm.adm # "none" => access.pw

-----------------------------------------------------------------------------
(* The node pools *)

\* The node pool in OCM, the worker and the stored object.
NodePools ==
    [pool: [st: {"none", "creating", "ready", "deleting"}, size: Pool!Sizes, ver: Pool!Versions,
            upg: 0 .. MaxVersion], sole: BOOLEAN]
PoolWorks ==
    [pc: {"idle", "finalizer", "get", "version", "create", "delete", "close"}, fin: BOOLEAN,
     sp: Pool!Wanted]
PoolObjects == [st: {"absent", "live", "deleting"}, owner: BOOLEAN, fin: BOOLEAN]

\* The types of the node pools' state.
PoolsType ==
    np \in NodePools /\ rspec \in Pool!Wanted /\ pw \in PoolWorks /\ rmp \in PoolObjects

\* OCM creates node pools for a cluster that is ready and deletes them before the cluster.
PoolsInv == ocm.st = "none" => np.pool.st = "none"

-----------------------------------------------------------------------------
(* The networks *)

\* The steps of a worker, its copy and the stored object.
NetworkLabels ==
    {"idle", "finalizer", "normal", "create", "resources", "status", "deleting", "delResources",
     "delStatus", "delStack", "close"}
NetworkWorks == [pc: NetworkLabels, loc: Network!Locals]
NetworkObjects == [st: {"absent", "live", "deleting", "gone"}, loc: Network!Locals]

\* The types of the networks' state.
NetworkType ==
    /\ stack \in [Networks -> Network!StackStates] /\ net \in [Networks -> NetworkObjects]
    /\ nw \in [Networks -> NetworkWorks] /\ cfStack \in [st: Network!StackStates, by: Networks]

\* What holds of the stack s, the object o and the worker v of a network, where field is
\* what cfStack says if the network was the last to write it.
NetworkOk(s, o, v, field) ==
    /\ ~o.loc.fin \/ o.st = "gone" => v.pc \in {"idle", "finalizer", "close"} /\ s = "none"
    /\ o.st = "deleting" => o.loc.fin
    /\ v.pc \notin {"idle", "finalizer", "close"} => v.loc.fin
    /\ v.pc = "close" /\ ~v.loc.fin => o.st = "deleting" /\ s = "none"
    /\ v.pc \in {"deleting", "delResources", "delStatus", "delStack"} => o.st = "deleting"
    /\ v.pc = "deleting" /\ field = "none" => s = "none"

\* What cfStack says to network n.
Field(n) == IF cfStack.by = n THEN cfStack.st ELSE "other"

\* A network that acted on the stack of another one (raced) is not followed.
NetworkInv == \A n \in Networks \ raced : NetworkOk(stack[n], net[n], nw[n], Field(n))

-----------------------------------------------------------------------------
(* The roles *)

\* The copies and the steps of the worker; an id is a number, 0 for none.
RoleLocals ==
    [fin: BOOLEAN, acct: BOOLEAN, id: Nat, prov: BOOLEAN, op: BOOLEAN, ready: BOOLEAN]
RoleLabels ==
    {"idle", "account", "config", "provider", "operator", "ready", "delOperator", "delConfig",
     "delAccount", "close"}

\* The types of the roles' state; no configuration has the id 0.
RolesType ==
    /\ iam \in [acct: BOOLEAN, prov: SUBSET Nat, op: Nat] /\ oidc \subseteq Nat
    /\ IsFiniteSet(oidc) /\ 0 \notin oidc /\ 0 \notin iam.prov
    /\ rc \in [st: {"absent", "live", "deleting", "gone"}, loc: RoleLocals]
    /\ rw \in [pc: RoleLabels, loc: RoleLocals]

\* Nothing of the roles, nothing of the configuration id.
NoRoles == ~iam.acct /\ iam.op = 0
NoConfig(id) == id \notin oidc /\ id \notin iam.prov

\* The finalizer is stored before the first role is created and leaves memory when roles
\* and configuration are gone.
RolesInv ==
    /\ ~rc.loc.fin \/ rc.st = "gone" => rw.pc \in {"idle", "close"} /\ NoRoles /\ NoConfig(rc.loc.id)
    /\ rc.st = "deleting" => rc.loc.fin
    /\ rw.pc \notin {"idle", "close"} => rw.loc.fin
    /\ rw.pc = "close" /\ ~rw.loc.fin => NoRoles /\ NoConfig(rw.loc.id)
    /\ rw.pc = "provider" => rw.loc.id # 0
    /\ rw.pc \in {"delConfig", "delAccount"} => iam.op = 0
    /\ rw.pc = "delAccount" => NoConfig(rw.loc.id)

-----------------------------------------------------------------------------
(* The control plane, step by step *)

\* The inductive invariant of the control plane.
ClusterAll == ClusterType /\ ClusterInv

\* What ClusterType says of the fields.
LEMMA ClusterFields ==
    ASSUME ClusterType
    PROVE  /\ cw.pc \in ClusterLabels /\ cw.loc \in ControlPlane!Locals
           /\ cw.sp \in ControlPlane!Specs /\ cw.sp.version \in ControlPlane!Versions
           /\ cw.sp.cfg \in BOOLEAN /\ cw.sp.fwd \in BOOLEAN
           /\ cp.loc \in ControlPlane!Locals /\ cp.st \in {"absent", "live", "deleting", "gone"}
           /\ cp.loc.fin \in BOOLEAN /\ cw.loc.fin \in BOOLEAN
           /\ ocm.st \in ControlPlane!ClusterStates /\ access.pw \in BOOLEAN
           /\ ocm.ver \in ControlPlane!Versions /\ ocm.upg \in 0 .. MaxVersion
           /\ ocm.cfg \in BOOLEAN
<1>1. /\ cw.pc \in ClusterLabels /\ cw.loc \in ControlPlane!Locals /\ cw.sp \in ControlPlane!Specs
  BY DEF ClusterType, ClusterWorks
<1>2. cp.loc \in ControlPlane!Locals /\ cp.st \in {"absent", "live", "deleting", "gone"}
  BY DEF ClusterType, ClusterObjects
<1>3. /\ ocm.st \in ControlPlane!ClusterStates /\ ocm.ver \in ControlPlane!Versions
      /\ ocm.upg \in 0 .. MaxVersion /\ ocm.cfg \in BOOLEAN
  BY DEF ClusterType, Clusters
<1>4. access.pw \in BOOLEAN
  BY DEF ClusterType, Accesses
<1>5. cw.sp.version \in ControlPlane!Versions /\ cw.sp.cfg \in BOOLEAN /\ cw.sp.fwd \in BOOLEAN
  BY <1>1 DEF ControlPlane!Specs
<1>6. cp.loc.fin \in BOOLEAN /\ cw.loc.fin \in BOOLEAN
  BY <1>1, <1>2 DEF ControlPlane!Locals
<1> QED BY <1>1, <1>2, <1>3, <1>4, <1>5, <1>6

\* The worker moves on,
LEMMA ClusterGoto ==
    ASSUME ClusterType, NEW l \in ClusterLabels, ControlPlane!Goto(l)
    PROVE  cw' \in ClusterWorks /\ cw'.pc = l /\ cw'.loc = cw.loc
BY DEF ClusterType, ClusterWorks, ControlPlane!Goto

\* or ends with a copy it has changed.
LEMMA ClusterSets ==
    ASSUME ClusterType, NEW x \in ControlPlane!Locals, ControlPlane!Sets(x)
    PROVE  cw' \in ClusterWorks /\ cw'.pc = "close" /\ cw'.loc = x
<1>1. "close" \in ClusterLabels
  BY DEF ClusterLabels
<1> QED BY <1>1 DEF ClusterType, ClusterWorks, ControlPlane!Sets

\* The copies of the object.
LEMMA ClusterLocals ==
    ASSUME NEW x \in ControlPlane!Locals, NEW b \in BOOLEAN
    PROVE  /\ [x EXCEPT !.fin = b] \in ControlPlane!Locals /\ [x EXCEPT !.fin = b].fin = b
           /\ [x EXCEPT !.id = b] \in ControlPlane!Locals /\ [x EXCEPT !.id = b].fin = x.fin
           /\ [x EXCEPT !.ready = b] \in ControlPlane!Locals /\ [x EXCEPT !.ready = b].fin = x.fin
BY DEF ControlPlane!Locals

\* What the behaviour starts with.
LEMMA ClusterStart ==
    /\ ControlPlane!NoLocal \in ControlPlane!Locals /\ ControlPlane!NoLocal.fin = FALSE
    /\ ControlPlane!NoSpec \in ControlPlane!Specs
    /\ ControlPlane!NoCluster \in Clusters /\ ControlPlane!NoCluster.st = "none"
    /\ ControlPlane!NoCluster.adm = "none"
    /\ ControlPlane!NoWork \in ClusterWorks /\ ControlPlane!NoWork.pc = "idle"
<1>0. 1 \in ControlPlane!Versions /\ 0 \in 0 .. MaxVersion
  BY ROSAAssumption DEF ControlPlane!Versions
<1>1. ControlPlane!NoLocal \in ControlPlane!Locals /\ ControlPlane!NoLocal.fin = FALSE
  BY DEF ControlPlane!NoLocal, ControlPlane!Locals
<1>2. ControlPlane!NoSpec \in ControlPlane!Specs
  BY <1>0 DEF ControlPlane!NoSpec, ControlPlane!Specs, ControlPlane!Gates
<1>3. /\ ControlPlane!NoCluster \in Clusters /\ ControlPlane!NoCluster.st = "none"
      /\ ControlPlane!NoCluster.adm = "none"
  BY <1>0 DEF ControlPlane!NoCluster, Clusters, ControlPlane!ClusterStates, ControlPlane!Admins
<1>4. ControlPlane!NoWork \in ClusterWorks /\ ControlPlane!NoWork.pc = "idle"
  <2>1. [ver |-> 1, cfg |-> FALSE] \in [ver: ControlPlane!Versions, cfg: BOOLEAN]
    BY <1>0
  <2> QED BY <1>1, <1>2, <2>1 DEF ControlPlane!NoWork, ClusterWorks, ClusterLabels
<1> QED BY <1>1, <1>2, <1>3, <1>4

\* The steps of reconcileNormal past the finalizer.
NormalSteps ==
    {"get", "create", "forwarders", "update", "version", "password", "user", "idp", "token"}

\* Such a step may do anything to the cluster as long as the password comes before the
\* user: object and copy have the finalizer.
LEMMA ClusterNormal ==
    ASSUME ClusterAll, cw.pc \in NormalSteps, UNCHANGED <<cp, spec>>,
           cw' \in ClusterWorks, cw'.pc \in NormalSteps \cup {"close"}, cw'.loc.fin = cw.loc.fin,
           ocm' \in Clusters, access' \in Accesses, ocm'.adm # "none" => access'.pw,
           cw'.pc \in {"user", "idp", "token"} => access'.pw
    PROVE  ClusterAll'
<1>1. ClusterType'
  BY DEF ClusterAll, ClusterType
<1>2. cp.loc.fin /\ cp.st # "gone" /\ cw.loc.fin
  BY DEF ClusterAll, ClusterInv, NormalSteps
<1>3. ClusterInv'
  BY <1>2 DEF ClusterAll, ClusterInv, NormalSteps
<1> QED BY <1>1, <1>3 DEF ClusterAll

\* Reconcile and the finalizer.
LEMMA ClusterStepStart ==
    ASSUME ClusterAll, ControlPlane!Reconcile \/ ControlPlane!AddFinalizer
    PROVE  ClusterAll'
<1>0. /\ ClusterType /\ ClusterInv /\ cw \in ClusterWorks /\ cp \in ClusterObjects
      /\ spec \in ControlPlane!Specs
  BY DEF ClusterAll, ClusterType
<1>f. /\ cw.loc \in ControlPlane!Locals /\ cp.loc \in ControlPlane!Locals
      /\ cp.st \in {"absent", "live", "deleting", "gone"}
      /\ cp.loc.fin \in BOOLEAN /\ cw.loc.fin \in BOOLEAN
  BY <1>0, ClusterFields
<1>1. CASE ControlPlane!Reconcile
  <2> DEFINE l == IF cp.st = "deleting" THEN "machinePools"
                  ELSE IF cp.loc.fin THEN "get" ELSE "finalizer"
  <2>1. /\ cw.pc = "idle" /\ cp.st \in {"live", "deleting"} /\ UNCHANGED <<ocm, spec, cp, access>>
        /\ cw' = [ControlPlane!NoWork EXCEPT !.pc = l, !.loc = cp.loc, !.sp = spec]
    BY <1>1 DEF ControlPlane!Reconcile
  <2>2. l \in ClusterLabels
    BY DEF ClusterLabels
  <2>3. cw' \in ClusterWorks /\ cw'.pc = l /\ cw'.loc = cp.loc
    <3> HIDE DEF l
    <3> QED BY <1>0, <1>f, <2>1, <2>2, ClusterStart DEF ClusterWorks
  <2>4. ClusterType'
    BY <1>0, <2>1, <2>3 DEF ClusterType
  <2>5. ClusterInv'
    BY <1>0, <1>f, <2>1, <2>3 DEF ClusterInv
  <2> QED BY <2>4, <2>5 DEF ClusterAll
<1>2. CASE ControlPlane!AddFinalizer
  <2> DEFINE x == [cw.loc EXCEPT !.fin = TRUE]
  <2> DEFINE y == [cp.loc EXCEPT !.fin = TRUE]
  <2>1. /\ x \in ControlPlane!Locals /\ x.fin = TRUE
        /\ y \in ControlPlane!Locals /\ y.fin = TRUE
    BY <1>f, ClusterLocals
  <2>2. /\ cw.pc = "finalizer" /\ UNCHANGED <<ocm, spec, access>>
        /\ \/ /\ cp.st # "gone" /\ cp' = [cp EXCEPT !.loc = y]
              /\ cw' = [cw EXCEPT !.loc = x, !.pc = "get"]
           \/ ControlPlane!Sets(x) /\ UNCHANGED cp
    BY <1>2 DEF ControlPlane!AddFinalizer
  <2> HIDE DEF x, y
  <2>3. /\ cw' \in ClusterWorks /\ cw'.loc = x /\ cp' \in ClusterObjects /\ cp'.st = cp.st
        /\ \/ cw'.pc = "get" /\ cp'.loc = y /\ cp.st # "gone"
           \/ cw'.pc = "close" /\ cp' = cp
    <3>1. CASE /\ cp.st # "gone" /\ cp' = [cp EXCEPT !.loc = y]
               /\ cw' = [cw EXCEPT !.loc = x, !.pc = "get"]
      <4>1. cp' \in ClusterObjects /\ cp'.st = cp.st /\ cp'.loc = y
        BY <1>0, <2>1, <3>1 DEF ClusterObjects
      <4>2. "get" \in ClusterLabels
        BY DEF ClusterLabels
      <4>3. cw' \in ClusterWorks /\ cw'.loc = x /\ cw'.pc = "get"
        BY <1>0, <2>1, <3>1, <4>2 DEF ClusterWorks
      <4> QED BY <3>1, <4>1, <4>3
    <3>2. CASE ControlPlane!Sets(x) /\ UNCHANGED cp
      BY <1>0, <2>1, <3>2, ClusterSets
    <3> QED BY <2>2, <3>1, <3>2
  <2>4. ClusterType'
    BY <1>0, <2>2, <2>3 DEF ClusterType
  <2>5. ClusterInv'
    BY <1>0, <1>f, <2>1, <2>2, <2>3 DEF ClusterInv
  <2> QED BY <2>4, <2>5 DEF ClusterAll
<1> QED BY <1>1, <1>2

\* reconcileNormal up to the upgrade of the version.
LEMMA ClusterStepSpec ==
    ASSUME ClusterAll, NEW b, NEW c,
           \/ ControlPlane!GetCluster(b) \/ ControlPlane!CreateCluster(c)
           \/ ControlPlane!ReconcileLogForwarders \/ ControlPlane!UpdateOCMCluster
           \/ ControlPlane!ReconcileClusterVersion
    PROVE  ClusterAll'
<1>0. /\ ClusterType /\ ClusterInv /\ cw \in ClusterWorks /\ ocm \in Clusters
      /\ access \in Accesses /\ (ocm.adm # "none" => access.pw)
  BY DEF ClusterAll, ClusterType, ClusterInv
<1>f. /\ cw.loc \in ControlPlane!Locals /\ cw.sp.version \in ControlPlane!Versions
      /\ cw.sp.cfg \in BOOLEAN /\ cw.sp.fwd \in BOOLEAN /\ cw.loc.fin \in BOOLEAN
      /\ ocm.ver \in ControlPlane!Versions /\ ocm.cfg \in BOOLEAN
  BY <1>0, ClusterFields
<1>l. NormalSteps \subseteq ClusterLabels /\ "close" \in ClusterLabels
  BY DEF NormalSteps, ClusterLabels
<1>1. CASE ControlPlane!GetCluster(b)
  <2>1. cw.pc = "get" /\ UNCHANGED <<ocm, spec, cp, access>>
    BY <1>1 DEF ControlPlane!GetCluster
  <2>2. cw' \in ClusterWorks /\ cw'.pc \in {"create", "forwarders", "close"} /\ cw'.loc.fin = cw.loc.fin
    <3>1. CASE ControlPlane!Goto("close") \/ cw' = [cw EXCEPT !.pc = "create"]
      <4>1. ControlPlane!Goto("close") \/ ControlPlane!Goto("create")
        BY <3>1 DEF ControlPlane!Goto
      <4>2. "create" \in ClusterLabels
        BY DEF ClusterLabels
      <4> QED BY <1>0, <1>l, <4>1, <4>2, ClusterGoto
    <3>2. CASE cw' = [cw EXCEPT !.loc.id = TRUE, !.loc.ready = ocm.st = "ready",
                                !.seen = [ver |-> ocm.ver, cfg |-> ocm.cfg],
                                !.pc = IF ocm.st = "ready" THEN "forwarders" ELSE "close"]
      <4> DEFINE r == ocm.st = "ready"
      <4> DEFINE x == [[cw.loc EXCEPT !.id = TRUE] EXCEPT !.ready = r]
      <4> DEFINE s == [ver |-> ocm.ver, cfg |-> ocm.cfg]
      <4> DEFINE l == IF ocm.st = "ready" THEN "forwarders" ELSE "close"
      <4>1. s \in [ver: ControlPlane!Versions, cfg: BOOLEAN] /\ r \in BOOLEAN
        BY <1>f
      <4>2. l \in {"forwarders", "close"} /\ l \in ClusterLabels
        BY DEF ClusterLabels
      <4>3. cw' = [cw EXCEPT !.loc = x, !.seen = s, !.pc = l]
        BY <1>0, <3>2 DEF ClusterWorks
      <4>4. x \in ControlPlane!Locals /\ x.fin = cw.loc.fin
        <5> HIDE DEF r
        <5> QED BY <1>f, <4>1 DEF ControlPlane!Locals
      <4> HIDE DEF x, s, l, r
      <4>5. cw' \in ClusterWorks /\ cw'.pc = l /\ cw'.loc = x
        BY <1>0, <4>1, <4>2, <4>3, <4>4 DEF ClusterWorks
      <4> QED BY <4>2, <4>4, <4>5
    <3> QED BY <1>1, <3>1, <3>2 DEF ControlPlane!GetCluster
  <2>3. /\ cw.pc \in NormalSteps /\ cw'.pc \in NormalSteps \cup {"close"}
        /\ cw'.pc \notin {"user", "idp", "token"}
    BY <2>1, <2>2 DEF NormalSteps
  <2> QED BY <1>0, <2>1, <2>2, <2>3, ClusterNormal
<1>2. CASE ControlPlane!CreateCluster(c)
  <2> DEFINE x == [cw.loc EXCEPT !.id = TRUE]
  <2>1. /\ cw.pc = "create" /\ UNCHANGED <<spec, cp, access>>
        /\ \/ ControlPlane!Goto("close") /\ UNCHANGED ocm
           \/ /\ ControlPlane!Goto("close") \/ ControlPlane!Sets(x)
              /\ ocm' = ControlPlane!NewCluster
    BY <1>2 DEF ControlPlane!CreateCluster
  <2>2. x \in ControlPlane!Locals /\ x.fin = cw.loc.fin
    BY <1>f, ClusterLocals
  <2> HIDE DEF x
  <2>3. ControlPlane!NewCluster \in Clusters /\ ControlPlane!NewCluster.adm = "none"
    <3>1. "installing" \in ControlPlane!ClusterStates
      BY DEF ControlPlane!ClusterStates
    <3> QED BY <1>f, <3>1, ClusterStart DEF ControlPlane!NewCluster, Clusters
  <2>4. /\ cw' \in ClusterWorks /\ cw'.pc = "close" /\ cw'.loc.fin = cw.loc.fin
        /\ ocm' \in Clusters /\ (ocm'.adm # "none" => access.pw)
    BY <1>0, <1>l, <2>1, <2>2, <2>3, ClusterGoto, ClusterSets
  <2>5. /\ cw.pc \in NormalSteps /\ cw'.pc \in NormalSteps \cup {"close"}
        /\ cw'.pc \notin {"user", "idp", "token"}
    BY <2>1, <2>4 DEF NormalSteps
  <2> QED BY <1>0, <2>1, <2>4, <2>5, ClusterNormal
<1>3. CASE ControlPlane!ReconcileLogForwarders \/ ControlPlane!UpdateOCMCluster
  <2>1. /\ cw.pc \in {"forwarders", "update"} /\ UNCHANGED <<spec, cp, access>>
        /\ \/ ControlPlane!Goto("update") /\ ocm' = [ocm EXCEPT !.fwd = cw.sp.fwd]
           \/ ControlPlane!Goto("version") /\ ocm' = [ocm EXCEPT !.cfg = cw.sp.cfg]
           \/ ControlPlane!Goto("version") /\ UNCHANGED ocm
           \/ ControlPlane!Goto("close") /\ UNCHANGED ocm
           \/ ControlPlane!Goto("close") /\ ocm' = [ocm EXCEPT !.fwd = cw.sp.fwd]
           \/ ControlPlane!Goto("close") /\ ocm' = [ocm EXCEPT !.cfg = cw.sp.cfg]
    BY <1>3 DEF ControlPlane!ReconcileLogForwarders, ControlPlane!UpdateOCMCluster
  <2>2. "update" \in ClusterLabels /\ "version" \in ClusterLabels
    BY DEF ClusterLabels
  <2>3. ocm' \in Clusters /\ ocm'.adm = ocm.adm
    BY <1>0, <1>f, <2>1 DEF Clusters
  <2>4. cw' \in ClusterWorks /\ cw'.pc \in {"update", "version", "close"} /\ cw'.loc = cw.loc
    BY <1>0, <1>l, <2>1, <2>2, ClusterGoto
  <2>5. /\ cw.pc \in NormalSteps /\ cw'.pc \in NormalSteps \cup {"close"}
        /\ cw'.pc \notin {"user", "idp", "token"}
    BY <2>1, <2>4 DEF NormalSteps
  <2> QED BY <1>0, <2>1, <2>3, <2>4, <2>5, ClusterNormal
<1>4. CASE ControlPlane!ReconcileClusterVersion
  <2> DEFINE s == ocm.acked \cup {cw.sp.version}
  <2> DEFINE r == cw.sp.gate = "Acknowledge"
  <2>1. /\ cw.pc = "version" /\ UNCHANGED <<spec, cp, access>>
        /\ \/ UNCHANGED ocm \/ ocm' = [ocm EXCEPT !.acked = s, !.upg = cw.sp.version]
           \/ ocm' = [ocm EXCEPT !.acked = s]
        /\ \/ cw' = [cw EXCEPT !.pc = "password", !.reset = r]
           \/ ControlPlane!Goto("password")
           \/ ControlPlane!Goto("close")
    BY <1>4 DEF ControlPlane!ReconcileClusterVersion, ControlPlane!Scheduled
  <2>2. ocm' \in Clusters /\ ocm'.adm = ocm.adm
    <3>1. s \in SUBSET ControlPlane!Versions /\ cw.sp.version \in 0 .. MaxVersion
      BY <1>0, <1>f, ROSAAssumption DEF Clusters, ControlPlane!Versions
    <3> HIDE DEF s
    <3> QED BY <1>0, <2>1, <3>1 DEF Clusters
  <2>3. cw' \in ClusterWorks /\ cw'.pc \in {"password", "close"} /\ cw'.loc = cw.loc
    <3>1. "password" \in ClusterLabels /\ r \in BOOLEAN
      BY DEF ClusterLabels
    <3> HIDE DEF r
    <3>2. CASE cw' = [cw EXCEPT !.pc = "password", !.reset = r]
      BY <1>0, <3>1, <3>2 DEF ClusterWorks
    <3>3. CASE ControlPlane!Goto("password") \/ ControlPlane!Goto("close")
      BY <1>0, <1>l, <3>1, <3>3, ClusterGoto
    <3> QED BY <2>1, <3>2, <3>3
  <2>4. /\ cw.pc \in NormalSteps /\ cw'.pc \in NormalSteps \cup {"close"}
        /\ cw'.pc \notin {"user", "idp", "token"}
    BY <2>1, <2>3 DEF NormalSteps
  <2> QED BY <1>0, <2>1, <2>2, <2>3, <2>4, ClusterNormal
<1> QED BY <1>1, <1>2, <1>3, <1>4

\* reconcileKubeconfig: the password, the user and the kubeconfig.
LEMMA ClusterStepAccess ==
    ASSUME ClusterAll,
           \/ ControlPlane!ClusterAdminPassword \/ ControlPlane!CreateUser
           \/ ControlPlane!CreateIdentityProvider \/ ControlPlane!WriteKubeconfig
    PROVE  ClusterAll'
<1>0. /\ ClusterType /\ ClusterInv /\ cw \in ClusterWorks /\ ocm \in Clusters
      /\ access \in Accesses /\ (ocm.adm # "none" => access.pw) /\ access.pw \in BOOLEAN
      /\ (cw.pc \in {"user", "idp", "token"} => access.pw)
  BY ClusterFields DEF ClusterAll, ClusterType, ClusterInv
<1>l. {"user", "idp", "token", "close"} \subseteq ClusterLabels
  BY DEF ClusterLabels
<1>1. CASE ControlPlane!ClusterAdminPassword
  <2>1. /\ cw.pc = "password" /\ UNCHANGED <<ocm, spec, cp>>
        /\ \/ access' = [access EXCEPT !.pw = TRUE] /\ ControlPlane!Goto("user")
           \/ UNCHANGED access /\ ControlPlane!Goto("close")
    BY <1>1 DEF ControlPlane!ClusterAdminPassword
  <2>2. /\ cw' \in ClusterWorks /\ cw'.loc = cw.loc /\ access' \in Accesses
        /\ \/ cw'.pc = "user" /\ access'.pw = TRUE
           \/ cw'.pc = "close" /\ access' = access
    <3>1. /\ [access EXCEPT !.pw = TRUE] \in Accesses
          /\ [access EXCEPT !.pw = TRUE].pw = TRUE
      BY <1>0 DEF Accesses
    <3> QED BY <1>0, <1>l, <2>1, <3>1, ClusterGoto
  <2>3. cw.pc \in NormalSteps /\ cw'.pc \in NormalSteps \cup {"close"}
    BY <2>1, <2>2 DEF NormalSteps
  <2> QED BY <1>0, <2>1, <2>2, <2>3, ClusterNormal
<1>2. CASE ControlPlane!CreateUser \/ ControlPlane!CreateIdentityProvider
  <2>1. /\ cw.pc \in {"user", "idp"} /\ UNCHANGED <<spec, cp, access>>
        /\ UNCHANGED ocm \/ \E a \in ControlPlane!Admins : ocm' = [ocm EXCEPT !.adm = a]
        /\ ControlPlane!Goto("token") \/ ControlPlane!Goto("idp") \/ ControlPlane!Goto("close")
    <3>1. CASE ControlPlane!CreateUser
      <4> DEFINE a == IF ocm.adm = "none" THEN "user" ELSE ocm.adm
      <4>1. a \in ControlPlane!Admins
        BY <1>0 DEF Clusters, ControlPlane!Admins
      <4>2. /\ cw.pc = "user" /\ UNCHANGED <<spec, cp, access>>
            /\ UNCHANGED ocm \/ ocm' = [ocm EXCEPT !.adm = a]
            /\ ControlPlane!Goto("token") \/ ControlPlane!Goto("idp") \/ ControlPlane!Goto("close")
        BY <3>1 DEF ControlPlane!CreateUser
      <4> HIDE DEF a
      <4> QED BY <4>1, <4>2
    <3>2. CASE ControlPlane!CreateIdentityProvider
      <4>1. "idp" \in ControlPlane!Admins
        BY DEF ControlPlane!Admins
      <4> QED BY <3>2, <4>1 DEF ControlPlane!CreateIdentityProvider, ControlPlane!Reverted
    <3> QED BY <1>2, <3>1, <3>2
  <2>2. cw' \in ClusterWorks /\ cw'.loc = cw.loc /\ cw'.pc \in {"token", "idp", "close"}
    BY <1>0, <1>l, <2>1, ClusterGoto
  <2>3. ocm' \in Clusters
    BY <1>0, <2>1 DEF Clusters
  <2>4. cw.pc \in NormalSteps /\ cw'.pc \in NormalSteps \cup {"close"}
    BY <2>1, <2>2 DEF NormalSteps
  <2> QED BY <1>0, <2>1, <2>2, <2>3, <2>4, ClusterNormal
<1>3. CASE ControlPlane!WriteKubeconfig
  <2>1. /\ cw.pc = "token" /\ UNCHANGED <<ocm, spec, cp>> /\ ControlPlane!Goto("close")
        /\ UNCHANGED access \/ access' = [access EXCEPT !.kube = TRUE]
    BY <1>3 DEF ControlPlane!WriteKubeconfig
  <2>2. access' \in Accesses /\ access'.pw = access.pw
    BY <1>0, <2>1 DEF Accesses
  <2>3. cw' \in ClusterWorks /\ cw'.loc = cw.loc /\ cw'.pc = "close"
    BY <1>0, <1>l, <2>1, ClusterGoto
  <2>4. cw.pc \in NormalSteps /\ cw'.pc \in NormalSteps \cup {"close"}
    BY <2>1, <2>3 DEF NormalSteps
  <2> QED BY <1>0, <2>1, <2>2, <2>3, <2>4, ClusterNormal
<1> QED BY <1>1, <1>2, <1>3

\* reconcileDelete, whose first step is the composition's, and the deferred patch.
LEMMA ClusterStepDelete ==
    ASSUME ClusterAll, NEW all \in BOOLEAN,
           \/ ControlPlane!MachinePoolsDeleted(all) \/ ControlPlane!DeleteCluster
           \/ ControlPlane!Close
    PROVE  ClusterAll'
<1>0. /\ ClusterType /\ ClusterInv /\ cw \in ClusterWorks /\ ocm \in Clusters
      /\ cp \in ClusterObjects /\ spec \in ControlPlane!Specs
  BY DEF ClusterAll, ClusterType
<1>f. /\ cw.loc \in ControlPlane!Locals /\ cp.loc \in ControlPlane!Locals
      /\ cp.st \in {"absent", "live", "deleting", "gone"}
      /\ cp.loc.fin \in BOOLEAN /\ cw.loc.fin \in BOOLEAN
  BY <1>0, ClusterFields
<1>l. "delete" \in ClusterLabels /\ "close" \in ClusterLabels
  BY DEF ClusterLabels
<1>1. CASE ControlPlane!MachinePoolsDeleted(all)
  <2>1. /\ cw.pc = "machinePools" /\ UNCHANGED <<ocm, spec, cp, access>>
        /\ ControlPlane!Goto("delete") \/ ControlPlane!Goto("close")
    BY <1>1 DEF ControlPlane!MachinePoolsDeleted
  <2>2. cw' \in ClusterWorks /\ cw'.loc = cw.loc /\ cw'.pc \in {"delete", "close"}
    BY <1>0, <1>l, <2>1, ClusterGoto
  <2>3. ClusterType'
    BY <1>0, <2>1, <2>2 DEF ClusterType
  <2>4. ClusterInv'
    BY <1>0, <1>f, <2>1, <2>2 DEF ClusterInv
  <2> QED BY <2>3, <2>4 DEF ClusterAll
<1>2. CASE ControlPlane!DeleteCluster
  <2> DEFINE x == [cw.loc EXCEPT !.fin = FALSE]
  <2> DEFINE y == [cw.loc EXCEPT !.ready = FALSE]
  <2>1. /\ x \in ControlPlane!Locals /\ x.fin = FALSE
        /\ y \in ControlPlane!Locals /\ y.fin = cw.loc.fin
    BY <1>f, ClusterLocals
  <2>2. /\ cw.pc = "delete" /\ UNCHANGED <<spec, cp, access>>
        /\ \/ ocm.st = "none" /\ ControlPlane!Sets(x) /\ UNCHANGED ocm
           \/ /\ ControlPlane!Sets(y)
              /\ UNCHANGED ocm \/ ocm' = [ocm EXCEPT !.st = "uninstalling", !.upg = 0]
           \/ /\ ControlPlane!Goto("close")
              /\ UNCHANGED ocm \/ ocm' = [ocm EXCEPT !.st = "uninstalling", !.upg = 0]
    BY <1>2 DEF ControlPlane!DeleteCluster, ControlPlane!ClusterGone, ControlPlane!Uninstalling
  <2> HIDE DEF x, y
  <2>3. /\ [ocm EXCEPT !.st = "uninstalling", !.upg = 0] \in Clusters
        /\ [ocm EXCEPT !.st = "uninstalling", !.upg = 0].adm = ocm.adm
    <3>1. "uninstalling" \in ControlPlane!ClusterStates /\ 0 \in 0 .. MaxVersion
      BY ROSAAssumption DEF ControlPlane!ClusterStates
    <3> QED BY <1>0, <3>1 DEF Clusters
  <2>4. /\ cw' \in ClusterWorks /\ cw'.pc = "close" /\ ocm' \in Clusters /\ ocm'.adm = ocm.adm
        /\ \/ cw'.loc.fin = FALSE /\ ocm.st = "none" /\ ocm' = ocm
           \/ cw'.loc.fin = cw.loc.fin
    BY <1>0, <1>l, <2>1, <2>2, <2>3, ClusterGoto, ClusterSets
  <2>5. ClusterType'
    BY <1>0, <2>2, <2>4 DEF ClusterType
  <2>6. ClusterInv'
    BY <1>0, <1>f, <2>2, <2>4 DEF ClusterInv
  <2> QED BY <2>5, <2>6 DEF ClusterAll
<1>3. CASE ControlPlane!Close
  <2> DEFINE st == IF cp.st = "deleting" /\ ~cw.loc.fin THEN "gone" ELSE cp.st
  <2>1. /\ cw.pc = "close" /\ cw' = ControlPlane!NoWork /\ UNCHANGED <<ocm, access>>
        /\ UNCHANGED cp \/ (cp.st # "gone" /\ cp' = [st |-> st, loc |-> cw.loc])
        /\ UNCHANGED spec \/ spec' = [spec EXCEPT !.gate = "WaitForAcknowledge"]
    BY <1>3 DEF ControlPlane!Close
  <2>2. cw' \in ClusterWorks /\ cw'.pc = "idle"
    BY <2>1, ClusterStart
  <2>3. spec' \in ControlPlane!Specs
    BY <1>0, <2>1 DEF ControlPlane!Specs, ControlPlane!Gates
  <2>4. /\ cp' \in ClusterObjects
        /\ \/ cp' = cp
           \/ /\ cp.st # "gone" /\ cp'.loc = cw.loc
              /\ cp'.st = IF cp.st = "deleting" /\ ~cw.loc.fin THEN "gone" ELSE cp.st
    BY <1>0, <1>f, <2>1 DEF ClusterObjects
  <2>5. ClusterType'
    BY <1>0, <2>1, <2>2, <2>3, <2>4 DEF ClusterType
  <2>6. ClusterInv'
    BY <1>0, <1>f, <2>1, <2>2, <2>4 DEF ClusterInv
  <2> QED BY <2>5, <2>6 DEF ClusterAll
<1> QED BY <1>1, <1>2, <1>3

\* OCM and the user.
LEMMA ClusterStepEnvironment ==
    ASSUME ClusterAll,
           ControlPlane!Progress \/ ControlPlane!EditSpec \/ ControlPlane!DeleteControlPlane
    PROVE  ClusterAll'
<1>0. /\ ClusterType /\ ClusterInv /\ cw \in ClusterWorks /\ ocm \in Clusters
      /\ cp \in ClusterObjects /\ spec \in ControlPlane!Specs
  BY DEF ClusterAll, ClusterType
<1>f. /\ cp.loc \in ControlPlane!Locals /\ cp.st \in {"absent", "live", "deleting", "gone"}
      /\ cp.loc.fin \in BOOLEAN /\ cw.loc.fin \in BOOLEAN /\ ocm.upg \in 0 .. MaxVersion
  BY <1>0, ClusterFields
<1>1. CASE ControlPlane!Progress
  <2>1. /\ UNCHANGED <<spec, cp, access, cw>>
        /\ \/ ocm.st = "installing" /\ ocm' = [ocm EXCEPT !.st = "ready"]
           \/ ocm.st = "installing" /\ ocm' = [ocm EXCEPT !.st = "error"]
           \/ ocm.upg # 0 /\ ocm' = [ocm EXCEPT !.ver = ocm.upg, !.upg = 0]
           \/ ocm' = ControlPlane!NoCluster
    BY <1>1 DEF ControlPlane!Progress
  <2>2. /\ ocm' \in Clusters /\ (ocm.st = "none" => ocm'.st = "none")
        /\ (ocm'.adm # "none" => ocm.adm # "none")
    <3>0. {"ready", "error"} \subseteq ControlPlane!ClusterStates
      BY DEF ControlPlane!ClusterStates
    <3>1. CASE ocm.st = "installing" /\ ocm' = [ocm EXCEPT !.st = "ready"]
      BY <1>0, <3>0, <3>1 DEF Clusters
    <3>2. CASE ocm.st = "installing" /\ ocm' = [ocm EXCEPT !.st = "error"]
      BY <1>0, <3>0, <3>2 DEF Clusters
    <3>3. CASE ocm.upg # 0 /\ ocm' = [ocm EXCEPT !.ver = ocm.upg, !.upg = 0]
      <4>1. ocm.upg \in ControlPlane!Versions /\ 0 \in 0 .. MaxVersion
        BY <1>f, <3>3, ROSAAssumption DEF ControlPlane!Versions
      <4> QED BY <1>0, <3>3, <4>1 DEF Clusters
    <3>4. CASE ocm' = ControlPlane!NoCluster
      BY <3>4, ClusterStart
    <3> QED BY <2>1, <3>1, <3>2, <3>3, <3>4
  <2>3. ClusterType'
    BY <1>0, <2>1, <2>2 DEF ClusterType
  <2>4. ClusterInv'
    BY <1>0, <1>f, <2>1, <2>2 DEF ClusterInv
  <2> QED BY <2>3, <2>4 DEF ClusterAll
<1>2. CASE ControlPlane!EditSpec
  <2>1. UNCHANGED <<ocm, cp, access, cw>>
    BY <1>2 DEF ControlPlane!EditSpec
  <2>2. spec' \in ControlPlane!Specs
    <3>1. CASE /\ spec.version < MaxVersion
               /\ \E gate \in ControlPlane!Gates :
                    spec' = [spec EXCEPT !.version = spec.version + 1, !.gate = gate]
      <4>1. PICK gate \in ControlPlane!Gates :
                    spec' = [spec EXCEPT !.version = spec.version + 1, !.gate = gate]
        BY <3>1
      <4>2. spec.version + 1 \in ControlPlane!Versions
        BY <1>0, <3>1, ROSAAssumption DEF ControlPlane!Specs, ControlPlane!Versions
      <4> QED BY <1>0, <4>1, <4>2 DEF ControlPlane!Specs
    <3>2. CASE spec' = [spec EXCEPT !.cfg = ~spec.cfg, !.fwd = ~spec.fwd]
      <4> DEFINE a == ~spec.cfg
      <4> DEFINE b == ~spec.fwd
      <4>1. spec' = [spec EXCEPT !.cfg = a, !.fwd = b] /\ a \in BOOLEAN /\ b \in BOOLEAN
        BY <3>2
      <4> HIDE DEF a, b
      <4> QED BY <1>0, <4>1 DEF ControlPlane!Specs
    <3>3. CASE spec' = [spec EXCEPT !.gate = "Acknowledge"]
      BY <1>0, <3>3 DEF ControlPlane!Specs, ControlPlane!Gates
    <3> QED BY <1>2, <3>1, <3>2, <3>3 DEF ControlPlane!EditSpec
  <2>3. ClusterType'
    BY <1>0, <2>1, <2>2 DEF ClusterType
  <2>4. ClusterInv'
    BY <1>0, <2>1 DEF ClusterInv
  <2> QED BY <2>3, <2>4 DEF ClusterAll
<1>3. CASE ControlPlane!DeleteControlPlane
  <2> DEFINE st == IF cp.loc.fin THEN "deleting" ELSE "gone"
  <2>1. /\ cp.st = "live" /\ cp' = [cp EXCEPT !.st = st] /\ UNCHANGED <<ocm, spec, access, cw>>
    BY <1>3 DEF ControlPlane!DeleteControlPlane
  <2>2. cp' \in ClusterObjects /\ cp'.st = st /\ cp'.loc = cp.loc
    BY <1>0, <2>1 DEF ClusterObjects
  <2>3. ClusterType'
    BY <1>0, <2>1, <2>2 DEF ClusterType
  <2>4. ClusterInv'
    BY <1>0, <1>f, <2>1, <2>2 DEF ClusterInv
  <2> QED BY <2>3, <2>4 DEF ClusterAll
<1> QED BY <1>1, <1>2, <1>3

\* The controller never makes OCM forget a cluster: only OCM's own progress does.
LEMMA ClusterStays ==
    ASSUME ClusterType, NEW b, NEW c,
           ControlPlane!Worker \/ ControlPlane!GetCluster(b) \/ ControlPlane!CreateCluster(c)
    PROVE  ocm'.st = "none" => ocm.st = "none"
<1>0. ocm \in Clusters
  BY DEF ClusterType
<1>1. CASE \/ ControlPlane!Reconcile \/ ControlPlane!AddFinalizer \/ ControlPlane!GetCluster(b)
           \/ ControlPlane!ClusterAdminPassword \/ ControlPlane!WriteKubeconfig \/ ControlPlane!Close
  BY <1>1 DEF ControlPlane!Reconcile, ControlPlane!AddFinalizer, ControlPlane!GetCluster,
              ControlPlane!ClusterAdminPassword, ControlPlane!WriteKubeconfig, ControlPlane!Close
<1>2. CASE ControlPlane!CreateCluster(c)
  <2>1. ControlPlane!NewCluster.st = "installing"
    BY ClusterStart DEF ControlPlane!NewCluster, Clusters
  <2> QED BY <1>2, <2>1 DEF ControlPlane!CreateCluster
<1>3. CASE ControlPlane!ReconcileLogForwarders \/ ControlPlane!UpdateOCMCluster
  <2>1. \/ UNCHANGED ocm \/ ocm' = [ocm EXCEPT !.fwd = cw.sp.fwd]
        \/ ocm' = [ocm EXCEPT !.cfg = cw.sp.cfg]
    BY <1>3 DEF ControlPlane!ReconcileLogForwarders, ControlPlane!UpdateOCMCluster
  <2> QED BY <1>0, <2>1 DEF Clusters
<1>4. CASE ControlPlane!ReconcileClusterVersion
  <2> DEFINE s == ocm.acked \cup {cw.sp.version}
  <2>1. \/ UNCHANGED ocm \/ ocm' = [ocm EXCEPT !.acked = s, !.upg = cw.sp.version]
        \/ ocm' = [ocm EXCEPT !.acked = s]
    BY <1>4 DEF ControlPlane!ReconcileClusterVersion, ControlPlane!Scheduled
  <2> HIDE DEF s
  <2> QED BY <1>0, <2>1 DEF Clusters
<1>5. CASE ControlPlane!CreateUser \/ ControlPlane!CreateIdentityProvider
  <2>1. UNCHANGED ocm \/ \E a \in ControlPlane!Admins : ocm' = [ocm EXCEPT !.adm = a]
    <3>1. CASE ControlPlane!CreateUser
      <4> DEFINE a == IF ocm.adm = "none" THEN "user" ELSE ocm.adm
      <4>1. a \in ControlPlane!Admins
        BY <1>0 DEF Clusters, ControlPlane!Admins
      <4>2. UNCHANGED ocm \/ ocm' = [ocm EXCEPT !.adm = a]
        BY <3>1 DEF ControlPlane!CreateUser
      <4> HIDE DEF a
      <4> QED BY <4>1, <4>2
    <3>2. CASE ControlPlane!CreateIdentityProvider
      <4>1. "idp" \in ControlPlane!Admins
        BY DEF ControlPlane!Admins
      <4> QED BY <3>2, <4>1 DEF ControlPlane!CreateIdentityProvider, ControlPlane!Reverted
    <3> QED BY <1>5, <3>1, <3>2
  <2> QED BY <1>0, <2>1 DEF Clusters
<1>6. CASE ControlPlane!DeleteCluster
  <2>1. UNCHANGED ocm \/ ocm' = [ocm EXCEPT !.st = "uninstalling", !.upg = 0]
    BY <1>6 DEF ControlPlane!DeleteCluster, ControlPlane!Uninstalling
  <2> QED BY <1>0, <2>1 DEF Clusters
<1> QED BY <1>1, <1>2, <1>3, <1>4, <1>5, <1>6 DEF ControlPlane!Worker

-----------------------------------------------------------------------------
(* The node pools, step by step *)

\* The states of one node pool.
PoolRecords ==
    [st: {"none", "creating", "ready", "deleting"}, size: Pool!Sizes, ver: Pool!Versions,
     upg: 0 .. MaxVersion]

\* What PoolsType says of the fields.
LEMMA PoolsFields ==
    ASSUME PoolsType
    PROVE  /\ np.pool \in PoolRecords /\ np.sole \in BOOLEAN /\ pw.sp \in Pool!Wanted
           /\ np.pool.size \in Pool!Sizes /\ np.pool.ver \in Pool!Versions
           /\ np.pool.upg \in 0 .. MaxVersion
           /\ np.pool.st \in {"none", "creating", "ready", "deleting"}
           /\ pw.sp.size \in Pool!Sizes /\ pw.sp.version \in Pool!Versions
<1>1. np.pool \in PoolRecords /\ np.sole \in BOOLEAN
  BY DEF PoolsType, NodePools, PoolRecords
<1>2. pw.sp \in Pool!Wanted
  BY DEF PoolsType, PoolWorks
<1> QED BY <1>1, <1>2 DEF PoolRecords, Pool!Wanted

\* The worker moves on.
LEMMA PoolsGoto ==
    ASSUME PoolsType,
           NEW l \in {"idle", "finalizer", "get", "version", "create", "delete", "close"},
           Pool!Goto(l)
    PROVE  pw' \in PoolWorks
BY DEF PoolsType, PoolWorks, Pool!Goto

\* Whatever writes the object writes an object.
LEMMA PoolsObject ==
    ASSUME PoolsType,
           \/ Pool!PoolWorker \/ Pool!Sync \/ Pool!Progress \/ Pool!MachinePoolController
           \/ Pool!EditPool \/ Pool!DeletePool
    PROVE  rmp' \in PoolObjects
<1>0. rmp \in PoolObjects /\ pw.fin \in BOOLEAN
  BY DEF PoolsType, PoolWorks
<1>1. Pool!NoObject \in PoolObjects /\ [Pool!NoObject EXCEPT !.st = "live"] \in PoolObjects
  BY DEF Pool!NoObject, PoolObjects
<1>2. \/ UNCHANGED rmp \/ rmp' = Pool!NoObject \/ rmp' = [Pool!NoObject EXCEPT !.st = "live"]
      \/ rmp' = [rmp EXCEPT !.fin = TRUE] \/ rmp' = [rmp EXCEPT !.fin = pw.fin]
      \/ rmp' = [rmp EXCEPT !.owner = TRUE] \/ rmp' = [rmp EXCEPT !.st = "deleting"]
  <2> USE DEF Pool!objectVars
  <2>1. CASE Pool!Reconcile \/ Pool!ControlPlaneNotFound \/ Pool!AddFinalizer
    BY <2>1 DEF Pool!Reconcile, Pool!ControlPlaneNotFound, Pool!AddFinalizer
  <2>2. CASE \/ Pool!UpdateNodePool \/ Pool!ReconcileMachinePoolVersion \/ Pool!CreateNodePool
             \/ Pool!DeleteNodePool
    BY <2>2 DEF Pool!UpdateNodePool, Pool!ReconcileMachinePoolVersion, Pool!CreateNodePool,
                Pool!DeleteNodePool
  <2>3. CASE Pool!Close
    BY <2>3 DEF Pool!Close
  <2>4. CASE Pool!Sync
    BY <2>4 DEF Pool!Sync, Pool!ListNodePools, Pool!CreateROSAMachinePool, Pool!CreateMachinePool
  <2>5. CASE Pool!Progress \/ Pool!EditPool \/ Pool!DeletePool
    BY <2>5 DEF Pool!Progress, Pool!EditPool, Pool!DeletePool
  <2>6. CASE Pool!MachinePoolController
    BY <2>6 DEF Pool!MachinePoolController
  <2> QED BY <2>1, <2>2, <2>3, <2>4, <2>5, <2>6 DEF Pool!PoolWorker
<1> QED BY <1>0, <1>1, <1>2 DEF PoolObjects

\* A node pool of the right type that exists only if there was one or the cluster is ready.
LEMMA PoolsKept ==
    ASSUME PoolsType, PoolsInv, ClusterType, UNCHANGED ocm, NEW p \in PoolRecords,
           np' = [np EXCEPT !.pool = p],
           p.st # "none" => ocm.st # "none" \/ np.pool.st # "none"
    PROVE  np' \in NodePools /\ PoolsInv'
<1>1. np' \in NodePools /\ np'.pool = p
  BY DEF PoolsType, NodePools, PoolRecords
<1> QED BY <1>1 DEF PoolsInv

\* The inductive invariant of the node pools.
PoolsAll == PoolsType /\ PoolsInv

\* The controller of the node pool.
LEMMA PoolsStepWorker ==
    ASSUME PoolsAll, ClusterType, UNCHANGED ocm, Pool!PoolWorker
    PROVE  PoolsAll'
<1>0. PoolsType /\ PoolsInv /\ np \in NodePools /\ rspec \in Pool!Wanted /\ pw \in PoolWorks
  BY DEF PoolsAll, PoolsType
<1>f. /\ np.pool \in PoolRecords /\ pw.sp \in Pool!Wanted /\ np.pool.ver \in Pool!Versions
      /\ pw.sp.size \in Pool!Sizes /\ pw.sp.version \in Pool!Versions
      /\ np.pool.st \in {"none", "creating", "ready", "deleting"}
  BY <1>0, PoolsFields
<1>i. UNCHANGED np => np' \in NodePools /\ PoolsInv'
  BY <1>0 DEF PoolsInv
<1>n. Pool!NoWork \in PoolWorks
  <2>1. [size |-> 1, version |-> 1] \in Pool!Wanted
    BY ROSAAssumption DEF Pool!Wanted, Pool!Sizes, Pool!Versions
  <2> QED BY <2>1 DEF Pool!NoWork, PoolWorks
<1> SUFFICES np' \in NodePools /\ PoolsInv' /\ pw' \in PoolWorks /\ UNCHANGED rspec
  BY <1>0, PoolsObject DEF PoolsAll, PoolsType
<1>1. CASE Pool!Reconcile
  <2> DEFINE l == IF rmp.st = "deleting" THEN "delete" ELSE IF rmp.fin THEN "get" ELSE "finalizer"
  <2>1. UNCHANGED <<np, rspec>> /\ pw' = [pc |-> l, fin |-> rmp.fin, sp |-> rspec]
    BY <1>1 DEF Pool!Reconcile, Pool!objectVars
  <2>2. rmp.fin \in BOOLEAN
    BY <1>0 DEF PoolsType, PoolObjects
  <2> QED BY <1>0, <1>i, <2>1, <2>2 DEF PoolWorks
<1>2. CASE Pool!ControlPlaneNotFound
  BY <1>0, <1>i, <1>2 DEF Pool!ControlPlaneNotFound
<1>3. CASE Pool!AddFinalizer
  <2>1. /\ UNCHANGED <<np, rspec>>
        /\ \/ pw' = [pw EXCEPT !.fin = TRUE, !.pc = "get"]
           \/ pw' = [pw EXCEPT !.fin = TRUE, !.pc = "close"]
    BY <1>3 DEF Pool!AddFinalizer
  <2> QED BY <1>0, <1>i, <2>1 DEF PoolWorks
<1>4. CASE Pool!UpdateNodePool
  <2> DEFINE p == [[np.pool EXCEPT !.size = pw.sp.size] EXCEPT !.st = "creating"]
  <2>1. /\ UNCHANGED rspec
        /\ \/ UNCHANGED np
           \/ np.pool.st \in {"creating", "ready"} /\ np' = [np EXCEPT !.pool = p]
        /\ \/ Pool!Goto("close") \/ Pool!Goto("create") \/ Pool!Goto("version")
    BY <1>0, <1>4 DEF Pool!UpdateNodePool, Pool!Resized, Pool!SizeWanted, Pool!objectVars, NodePools
  <2>2. p \in PoolRecords
    BY <1>f DEF PoolRecords
  <2> HIDE DEF p
  <2>3. np' \in NodePools /\ PoolsInv'
    BY <1>0, <1>i, <2>1, <2>2, PoolsKept
  <2> QED BY <1>0, <2>1, <2>3, PoolsGoto
<1>5. CASE Pool!ReconcileMachinePoolVersion
  <2> DEFINE p == [np.pool EXCEPT !.upg = pw.sp.version]
  <2>1. /\ UNCHANGED rspec /\ Pool!Goto("close")
        /\ \/ UNCHANGED np
           \/ np.pool.st = "ready" /\ np' = [np EXCEPT !.pool = p]
    BY <1>0, <1>5 DEF Pool!ReconcileMachinePoolVersion, Pool!Schedulable, Pool!PoolReady,
                      Pool!objectVars, NodePools
  <2>2. p \in PoolRecords
    <3>1. pw.sp.version \in 0 .. MaxVersion
      BY <1>f, ROSAAssumption DEF Pool!Versions
    <3> QED BY <1>f, <3>1 DEF PoolRecords
  <2> HIDE DEF p
  <2>3. np' \in NodePools /\ PoolsInv'
    BY <1>0, <1>i, <2>1, <2>2, PoolsKept
  <2> QED BY <1>0, <2>1, <2>3, PoolsGoto
<1>6. CASE Pool!CreateNodePool
  <2>1. /\ UNCHANGED rspec /\ Pool!Goto("close")
        /\ \/ UNCHANGED np
           \/ ocm.st = "ready" /\ np' = [np EXCEPT !.pool = Pool!NewNodePool]
    BY <1>6 DEF Pool!CreateNodePool, Pool!objectVars
  <2>2. Pool!NewNodePool \in PoolRecords
    <3>1. 0 \in 0 .. MaxVersion
      BY ROSAAssumption
    <3> QED BY <1>f, <3>1 DEF Pool!NewNodePool, PoolRecords
  <2>3. np' \in NodePools /\ PoolsInv'
    BY <1>0, <1>i, <2>1, <2>2, PoolsKept
  <2> QED BY <1>0, <2>1, <2>3, PoolsGoto
<1>7. CASE Pool!DeleteNodePool
  <2> DEFINE p == [[np.pool EXCEPT !.st = "deleting"] EXCEPT !.upg = 0]
  <2> DEFINE k == Pool!Kept
  <2>1. /\ UNCHANGED rspec
        /\ \/ UNCHANGED np
           \/ np.pool.st # "none" /\ np' = [np EXCEPT !.pool = p]
        /\ \/ pw' = [pw EXCEPT !.fin = k, !.pc = "close"] \/ Pool!Goto("close")
    BY <1>0, <1>7 DEF Pool!DeleteNodePool, Pool!objectVars, NodePools
  <2>2. p \in PoolRecords
    <3>1. 0 \in 0 .. MaxVersion
      BY ROSAAssumption
    <3> QED BY <1>f, <3>1 DEF PoolRecords
  <2>3. k \in BOOLEAN
    BY DEF Pool!Kept
  <2> HIDE DEF p, k
  <2>4. np' \in NodePools /\ PoolsInv'
    BY <1>0, <1>i, <2>1, <2>2, PoolsKept
  <2>5. pw' \in PoolWorks
    <3>1. CASE pw' = [pw EXCEPT !.fin = k, !.pc = "close"]
      BY <1>0, <2>3, <3>1 DEF PoolWorks
    <3>2. CASE Pool!Goto("close")
      BY <1>0, <3>2, PoolsGoto
    <3> QED BY <2>1, <3>1, <3>2
  <2> QED BY <2>1, <2>4, <2>5
<1>8. CASE Pool!Close
  BY <1>0, <1>i, <1>n, <1>8 DEF Pool!Close
<1> QED BY <1>1, <1>2, <1>3, <1>4, <1>5, <1>6, <1>7, <1>8 DEF Pool!PoolWorker

\* The sync of the ROSACluster controller, OCM, Cluster API and the user.
LEMMA PoolsStepOther ==
    ASSUME PoolsAll, ClusterType, UNCHANGED ocm,
           \/ Pool!Sync \/ Pool!Progress \/ Pool!MachinePoolController \/ Pool!EditPool
           \/ Pool!DeletePool
    PROVE  PoolsAll'
<1>0. PoolsType /\ PoolsInv /\ np \in NodePools /\ rspec \in Pool!Wanted /\ pw \in PoolWorks
  BY DEF PoolsAll, PoolsType
<1>f. /\ np.pool \in PoolRecords /\ np.pool.ver \in Pool!Versions /\ np.pool.size \in Pool!Sizes
      /\ np.pool.upg \in 0 .. MaxVersion
      /\ np.pool.st \in {"none", "creating", "ready", "deleting"}
  BY <1>0, PoolsFields
<1>i. UNCHANGED np => np' \in NodePools /\ PoolsInv'
  BY <1>0 DEF PoolsInv
<1> SUFFICES np' \in NodePools /\ PoolsInv' /\ UNCHANGED pw /\ rspec' \in Pool!Wanted
  BY <1>0, PoolsObject DEF PoolsAll, PoolsType
<1>1. CASE Pool!Sync
  <2>1. /\ UNCHANGED <<np, pw>>
        /\ \/ UNCHANGED rspec
           \/ rspec' = [rspec EXCEPT !.version = Pool!AdoptedVersion]
           \/ rspec' = [rspec EXCEPT !.size = 1]
    BY <1>1 DEF Pool!Sync, Pool!ListNodePools, Pool!CreateROSAMachinePool, Pool!CreateMachinePool,
                Pool!objectVars, Pool!AdoptedSize
  <2>2. Pool!AdoptedVersion \in Pool!Versions /\ 1 \in Pool!Sizes
    BY <1>0, <1>f, ROSAAssumption DEF Pool!AdoptedVersion, Pool!Wanted, Pool!Sizes
  <2>3. rspec' \in Pool!Wanted
    BY <1>0, <2>1, <2>2 DEF Pool!Wanted
  <2> QED BY <1>0, <1>i, <2>1, <2>3
<1>2. CASE Pool!Progress
  <2> DEFINE new(z) == [st |-> "ready", size |-> z, ver |-> ocm.ver, upg |-> 0]
  <2> DEFINE ready == [np.pool EXCEPT !.st = "ready"]
  <2> DEFINE done == [[np.pool EXCEPT !.ver = np.pool.upg] EXCEPT !.upg = 0]
  <2>1. /\ UNCHANGED <<pw, rspec>>
        /\ \/ \E z \in Pool!Sizes : ocm.st = "ready" /\ np' = [np EXCEPT !.pool = new(z)]
           \/ np.pool.st = "creating" /\ np' = [np EXCEPT !.pool = ready]
           \/ np.pool.upg # 0 /\ np' = [np EXCEPT !.pool = done]
           \/ np' = [np EXCEPT !.pool = Pool!NoNodePool]
    BY <1>0, <1>2 DEF Pool!Progress, Pool!objectVars, NodePools
  <2>0. 0 \in 0 .. MaxVersion /\ 1 \in Pool!Versions /\ 1 \in Pool!Sizes
    BY ROSAAssumption DEF Pool!Versions, Pool!Sizes
  <2>2. Pool!NoNodePool \in PoolRecords /\ Pool!NoNodePool.st = "none"
    BY <2>0 DEF Pool!NoNodePool, PoolRecords
  <2>3. ASSUME NEW z \in Pool!Sizes PROVE new(z) \in PoolRecords
    <3>1. ocm.ver \in Pool!Versions
      BY ClusterFields DEF ControlPlane!Versions, Pool!Versions
    <3> QED BY <2>0, <3>1 DEF PoolRecords
  <2>4. ready \in PoolRecords
    BY <1>f DEF PoolRecords
  <2>5. np.pool.upg # 0 => done \in PoolRecords /\ done.st = np.pool.st
    <3>1. np.pool.upg # 0 => np.pool.upg \in Pool!Versions
      BY <1>f, ROSAAssumption DEF Pool!Versions
    <3> QED BY <1>f, <2>0, <3>1 DEF PoolRecords
  <2> HIDE DEF new, ready, done
  <2>6. np' \in NodePools /\ PoolsInv'
    <3>1. ASSUME NEW z \in Pool!Sizes, ocm.st = "ready", np' = [np EXCEPT !.pool = new(z)]
          PROVE  np' \in NodePools /\ PoolsInv'
      <4>1. new(z) \in PoolRecords
        BY <2>3
      <4> QED BY <1>0, <3>1, <4>1, PoolsKept
    <3>2. CASE np.pool.st = "creating" /\ np' = [np EXCEPT !.pool = ready]
      BY <1>0, <2>4, <3>2, PoolsKept
    <3>3. CASE np.pool.upg # 0 /\ np' = [np EXCEPT !.pool = done]
      BY <1>0, <2>5, <3>3, PoolsKept
    <3>4. CASE np' = [np EXCEPT !.pool = Pool!NoNodePool]
      BY <1>0, <2>2, <3>4, PoolsKept
    <3> QED BY <2>1, <3>1, <3>2, <3>3, <3>4
  <2> QED BY <1>0, <2>1, <2>6
<1>3. CASE Pool!MachinePoolController \/ Pool!DeletePool
  BY <1>0, <1>i, <1>3 DEF Pool!MachinePoolController, Pool!DeletePool
<1>4. CASE Pool!EditPool
  BY <1>0, <1>i, <1>4 DEF Pool!EditPool
<1> QED BY <1>1, <1>2, <1>3, <1>4

-----------------------------------------------------------------------------
(* The networks, step by step *)

\* The inductive invariant of the networks.
NetworkAll == NetworkType /\ NetworkInv

\* A step of network n leaves the others alone; it may write the field, and a network
\* that reads what it did not write is no longer followed.
LEMMA NetworkFrame ==
    ASSUME NetworkAll, NEW n \in Networks,
           NEW s \in Network!StackStates, stack' = [stack EXCEPT ![n] = s],
           NEW o \in NetworkObjects, net' = [net EXCEPT ![n] = o],
           NEW v \in NetworkWorks, nw' = [nw EXCEPT ![n] = v],
           raced \subseteq raced', cfStack' \in [st: Network!StackStates, by: Networks],
           cfStack' = cfStack \/ cfStack'.by = n,
           n \notin raced' =>
             NetworkOk(s, o, v, IF cfStack'.by = n THEN cfStack'.st ELSE "other")
    PROVE  NetworkAll'
<1>1. NetworkType'
  BY DEF NetworkAll, NetworkType
<1>2. ASSUME NEW m \in Networks \ raced'
      PROVE  NetworkOk(stack'[m], net'[m], nw'[m], IF cfStack'.by = m THEN cfStack'.st ELSE "other")
  <2>1. CASE m = n
    <3>1. stack'[n] = s /\ net'[n] = o /\ nw'[n] = v
      BY DEF NetworkAll, NetworkType
    <3> QED BY <1>2, <2>1, <3>1
  <2>2. CASE m # n
    <3>1. stack'[m] = stack[m] /\ net'[m] = net[m] /\ nw'[m] = nw[m]
      BY <1>2, <2>2 DEF NetworkAll, NetworkType
    <3>2. NetworkOk(stack[m], net[m], nw[m], IF cfStack.by = m THEN cfStack.st ELSE "other")
      BY <1>2 DEF NetworkAll, NetworkInv, Field
    <3>3. CASE cfStack' = cfStack
      BY <3>1, <3>2, <3>3
    <3>4. CASE cfStack'.by = n
      BY <2>2, <3>1, <3>2, <3>4 DEF NetworkOk
    <3> QED BY <3>3, <3>4
  <2> QED BY <2>1, <2>2
<1>3. NetworkInv'
  BY <1>2 DEF NetworkInv, Field
<1> QED BY <1>1, <1>3 DEF NetworkAll

\* What NetworkType says of one network.
LEMMA NetworkFields ==
    ASSUME NetworkType, NEW n \in Networks
    PROVE  /\ stack[n] \in Network!StackStates /\ net[n] \in NetworkObjects
           /\ nw[n] \in NetworkWorks /\ nw[n].pc \in NetworkLabels
           /\ nw[n].loc \in Network!Locals /\ net[n].loc \in Network!Locals
           /\ net[n].st \in {"absent", "live", "deleting", "gone"}
           /\ net[n].loc.fin \in BOOLEAN /\ nw[n].loc.fin \in BOOLEAN
           /\ nw[n].loc.ready \in BOOLEAN
           /\ stack = [stack EXCEPT ![n] = stack[n]] /\ net = [net EXCEPT ![n] = net[n]]
           /\ nw = [nw EXCEPT ![n] = nw[n]]
           /\ cfStack \in [st: Network!StackStates, by: Networks]
<1>1. /\ stack[n] \in Network!StackStates /\ net[n] \in NetworkObjects /\ nw[n] \in NetworkWorks
      /\ stack = [stack EXCEPT ![n] = stack[n]] /\ net = [net EXCEPT ![n] = net[n]]
      /\ nw = [nw EXCEPT ![n] = nw[n]] /\ cfStack \in [st: Network!StackStates, by: Networks]
  BY DEF NetworkType
<1>2. /\ nw[n].pc \in NetworkLabels /\ nw[n].loc \in Network!Locals /\ net[n].loc \in Network!Locals
      /\ net[n].st \in {"absent", "live", "deleting", "gone"}
  BY <1>1 DEF NetworkWorks, NetworkObjects
<1> QED BY <1>1, <1>2 DEF Network!Locals

\* The worker of a network moves on.
LEMMA NetworkGoto ==
    ASSUME NetworkType, NEW n \in Networks, NEW l \in NetworkLabels
    PROVE  /\ [nw[n] EXCEPT !.pc = l] \in NetworkWorks /\ [nw[n] EXCEPT !.pc = l].pc = l
           /\ [nw[n] EXCEPT !.pc = l].loc = nw[n].loc
           /\ Network!Goto(n, l) => nw' = [nw EXCEPT ![n] = [nw[n] EXCEPT !.pc = l]]
<1>1. nw[n] \in NetworkWorks
  BY NetworkFields
<1>2. /\ [nw[n] EXCEPT !.pc = l] \in NetworkWorks /\ [nw[n] EXCEPT !.pc = l].pc = l
      /\ [nw[n] EXCEPT !.pc = l].loc = nw[n].loc
  BY <1>1 DEF NetworkWorks
<1>3. Network!Goto(n, l) => nw' = [nw EXCEPT ![n] = [nw[n] EXCEPT !.pc = l]]
  BY DEF Network!Goto
<1> QED BY <1>2, <1>3

\* It ends with the condition.
LEMMA NetworkEnds ==
    ASSUME NetworkType, NEW n \in Networks, NEW r \in BOOLEAN, Network!Ends(n, r)
    PROVE  \E v \in NetworkWorks : /\ nw' = [nw EXCEPT ![n] = v] /\ v.pc = "close"
                                   /\ v.loc.fin = nw[n].loc.fin
<1>1. nw[n] \in NetworkWorks /\ nw[n].loc \in Network!Locals /\ nw \in [Networks -> NetworkWorks]
  BY NetworkFields DEF NetworkType
<1> DEFINE x == [nw[n].loc EXCEPT !.ready = r]
<1> DEFINE v == [nw[n] EXCEPT !.pc = "close", !.loc = x]
<1>2. x \in Network!Locals /\ x.fin = nw[n].loc.fin
  BY <1>1 DEF Network!Locals
<1>3. nw' = [nw EXCEPT ![n] = v]
  BY <1>1 DEF Network!Ends, NetworkWorks
<1> HIDE DEF x
<1>4. v \in NetworkWorks /\ v.pc = "close" /\ v.loc = x
  BY <1>1, <1>2 DEF NetworkWorks, NetworkLabels
<1> HIDE DEF v
<1> QED BY <1>2, <1>3, <1>4

\* Only the worker moves, having read the field or not.
LEMMA NetworkMoves ==
    ASSUME NetworkAll, NEW n \in Networks, NEW v \in NetworkWorks, nw' = [nw EXCEPT ![n] = v],
           UNCHANGED <<stack, net, cfStack>>, raced \subseteq raced',
           n \notin raced' =>
             NetworkOk(stack[n], net[n], v, IF cfStack.by = n THEN cfStack.st ELSE "other")
    PROVE  NetworkAll'
<1>1. /\ stack[n] \in Network!StackStates /\ net[n] \in NetworkObjects
      /\ cfStack \in [st: Network!StackStates, by: Networks]
      /\ stack = [stack EXCEPT ![n] = stack[n]] /\ net = [net EXCEPT ![n] = net[n]]
  BY NetworkFields DEF NetworkAll
<1>2. /\ stack' = [stack EXCEPT ![n] = stack[n]] /\ net' = [net EXCEPT ![n] = net[n]]
      /\ cfStack' = cfStack
  BY <1>1
<1> QED BY <1>1, <1>2, NetworkFrame

\* reconcileNormal of a network.
LEMMA NetworkStepNormal ==
    ASSUME NetworkAll, NEW n \in Networks,
           \/ Network!GetCFStack(n) \/ Network!AddFinalizer(n) \/ Network!ReconcileNormal(n)
           \/ Network!CreateStack(n) \/ Network!UpdateResources(n) \/ Network!StackStatus(n)
    PROVE  NetworkAll'
<1> DEFINE f == IF cfStack.by = n THEN cfStack.st ELSE "other"
<1>0. /\ NetworkType /\ net \in [Networks -> NetworkObjects] /\ nw \in [Networks -> NetworkWorks]
      /\ n \notin raced => NetworkOk(stack[n], net[n], nw[n], f)
  BY DEF NetworkAll, NetworkType, NetworkInv, Field
<1>f. /\ stack[n] \in Network!StackStates /\ net[n] \in NetworkObjects /\ nw[n] \in NetworkWorks
      /\ nw[n].loc \in Network!Locals /\ net[n].loc \in Network!Locals
      /\ net[n].st \in {"absent", "live", "deleting", "gone"}
      /\ net[n].loc.fin \in BOOLEAN /\ nw[n].loc.fin \in BOOLEAN /\ nw[n].loc.ready \in BOOLEAN
      /\ cfStack \in [st: Network!StackStates, by: Networks]
  BY <1>0, NetworkFields
<1>u. /\ stack = [stack EXCEPT ![n] = stack[n]] /\ net = [net EXCEPT ![n] = net[n]]
      /\ nw = [nw EXCEPT ![n] = nw[n]]
  BY <1>0, NetworkFields
<1> USE DEF NetworkLabels
<1>1. CASE Network!GetCFStack(n)
  <2> DEFINE l == IF net[n].st = "deleting" THEN "deleting"
                  ELSE IF net[n].loc.fin THEN "normal" ELSE "finalizer"
  <2> DEFINE v == [pc |-> l, loc |-> net[n].loc]
  <2>1. /\ nw[n].pc = "idle" /\ net[n].st \in {"live", "deleting"} /\ UNCHANGED <<stack, net, raced>>
        /\ \/ cfStack' = [st |-> stack[n], by |-> n] /\ nw' = [nw EXCEPT ![n] = v]
           \/ cfStack' = [st |-> Network!None, by |-> n] /\ UNCHANGED nw
    BY <1>1 DEF Network!GetCFStack
  <2>2. v \in NetworkWorks /\ v.pc = l /\ v.loc = net[n].loc
    BY <1>f DEF NetworkWorks
  <2>3. CASE cfStack' = [st |-> Network!None, by |-> n] /\ UNCHANGED nw
    <3>1. /\ cfStack' \in [st: Network!StackStates, by: Networks]
          /\ cfStack'.by = n /\ cfStack'.st = Network!None
      BY <2>3 DEF Network!StackStates
    <3>2. n \notin raced' => NetworkOk(stack[n], net[n], nw[n], Network!None)
      BY <1>0, <1>f, <2>1 DEF NetworkOk
    <3>3. n \notin raced' =>
            NetworkOk(stack[n], net[n], nw[n], IF cfStack'.by = n THEN cfStack'.st ELSE "other")
      BY <3>1, <3>2
    <3> QED BY <1>f, <1>u, <2>1, <2>3, <3>1, <3>3, NetworkFrame
  <2>4. CASE cfStack' = [st |-> stack[n], by |-> n] /\ nw' = [nw EXCEPT ![n] = v]
    <3>1. /\ cfStack' \in [st: Network!StackStates, by: Networks]
          /\ cfStack'.by = n /\ cfStack'.st = stack[n]
      BY <1>f, <2>4
    <3>2. n \notin raced' => NetworkOk(stack[n], net[n], v, stack[n])
      BY <1>0, <1>f, <2>1, <2>2 DEF NetworkOk
    <3> HIDE DEF v
    <3>3. n \notin raced' =>
            NetworkOk(stack[n], net[n], v, IF cfStack'.by = n THEN cfStack'.st ELSE "other")
      BY <3>1, <3>2
    <3> QED BY <1>f, <1>u, <2>1, <2>2, <2>4, <3>1, <3>3, NetworkFrame
  <2> QED BY <2>1, <2>3, <2>4
<1>2. CASE Network!AddFinalizer(n)
  <2> DEFINE x == [nw[n].loc EXCEPT !.fin = TRUE]
  <2> DEFINE y == [net[n].loc EXCEPT !.fin = TRUE]
  <2> DEFINE o == [net[n] EXCEPT !.loc = y]
  <2> DEFINE v(l) == [nw[n] EXCEPT !.loc = x, !.pc = l]
  <2>1. /\ nw[n].pc = "finalizer" /\ UNCHANGED <<stack, cfStack, raced>>
        /\ \/ /\ net[n].st # "gone" /\ net' = [net EXCEPT ![n] = o]
              /\ nw' = [nw EXCEPT ![n] = v("normal")]
           \/ nw' = [nw EXCEPT ![n] = v("close")] /\ UNCHANGED net
    BY <1>0, <1>2 DEF Network!AddFinalizer, NetworkWorks, NetworkObjects
  <2>2. /\ x \in Network!Locals /\ x.fin = TRUE /\ y \in Network!Locals /\ y.fin = TRUE
    BY <1>f DEF Network!Locals
  <2> HIDE DEF x, y
  <2>3. o \in NetworkObjects /\ o.st = net[n].st /\ o.loc = y
    BY <1>f, <2>2 DEF NetworkObjects
  <2>4. ASSUME NEW l \in {"normal", "close"}
        PROVE  v(l) \in NetworkWorks /\ v(l).pc = l /\ v(l).loc = x
    BY <1>f, <2>2 DEF NetworkWorks
  <2>5. CASE /\ net[n].st # "gone" /\ net' = [net EXCEPT ![n] = o]
             /\ nw' = [nw EXCEPT ![n] = v("normal")]
    <3>1. n \notin raced' => NetworkOk(stack[n], o, v("normal"), f)
      BY <1>0, <1>f, <2>1, <2>2, <2>3, <2>4, <2>5 DEF NetworkOk
    <3>2. v("normal") \in NetworkWorks
      BY <2>4
    <3> HIDE DEF o, v
    <3> QED BY <1>f, <1>u, <2>1, <2>3, <2>5, <3>1, <3>2, NetworkFrame
  <2>6. CASE nw' = [nw EXCEPT ![n] = v("close")] /\ UNCHANGED net
    <3>1. n \notin raced' => NetworkOk(stack[n], net[n], v("close"), f)
      BY <1>0, <1>f, <2>1, <2>2, <2>4 DEF NetworkOk
    <3>2. v("close") \in NetworkWorks
      BY <2>4
    <3> HIDE DEF v
    <3>3. UNCHANGED <<stack, net, cfStack>> /\ raced \subseteq raced'
      BY <2>1, <2>6
    <3> QED BY <2>6, <3>1, <3>2, <3>3, NetworkMoves
  <2> QED BY <2>1, <2>5, <2>6
<1>3. CASE Network!ReconcileNormal(n) \/ Network!UpdateResources(n)
  <2>1. /\ UNCHANGED <<stack, net, cfStack>> /\ raced \subseteq raced'
        /\ \/ /\ nw[n].pc \in {"normal", "resources"}
              /\ \E l \in {"create", "resources", "status", "close"} : Network!Goto(n, l)
           \/ nw[n].pc = "delResources" /\ \E l \in {"delStatus", "close"} : Network!Goto(n, l)
    BY <1>3 DEF Network!ReconcileNormal, Network!UpdateResources, Network!UsesField
  <2>2. PICK l \in NetworkLabels :
          /\ Network!Goto(n, l)
          /\ \/ nw[n].pc \in {"normal", "resources"} /\ l \in {"create", "resources", "status", "close"}
             \/ nw[n].pc = "delResources" /\ l \in {"delStatus", "close"}
    BY <2>1
  <2> DEFINE v == [nw[n] EXCEPT !.pc = l]
  <2>3. v \in NetworkWorks /\ v.pc = l /\ v.loc = nw[n].loc /\ nw' = [nw EXCEPT ![n] = v]
    <3>1. l \in NetworkLabels /\ Network!Goto(n, l)
      BY <2>2
    <3> HIDE DEF NetworkLabels
    <3> QED BY <1>0, <3>1, NetworkGoto, Zenon
  <2> HIDE DEF v
  <2>4. n \notin raced' => NetworkOk(stack[n], net[n], v, f)
    BY <1>0, <1>f, <2>1, <2>2, <2>3 DEF NetworkOk
  <2> QED BY <2>1, <2>3, <2>4, NetworkMoves
<1>4. CASE Network!CreateStack(n) \/ Network!StackStatus(n)
  <2>1. /\ nw[n].pc \in {"create", "status"} /\ UNCHANGED <<net, cfStack>> /\ raced \subseteq raced'
        /\ \E r \in BOOLEAN : Network!Ends(n, r)
        /\ UNCHANGED stack \/ stack' = [stack EXCEPT ![n] = "CREATE_IN_PROGRESS"]
    <3>1. CASE Network!CreateStack(n)
      BY <1>u, <3>1 DEF Network!CreateStack
    <3>2. CASE Network!StackStatus(n)
      BY <1>f, <3>2 DEF Network!StackStatus, Network!UsesField
    <3> QED BY <1>4, <3>1, <3>2
  <2>2. PICK v \in NetworkWorks : /\ nw' = [nw EXCEPT ![n] = v] /\ v.pc = "close"
                                  /\ v.loc.fin = nw[n].loc.fin
    BY <1>0, <2>1, NetworkEnds
  <2>3. ASSUME NEW s \in Network!StackStates
        PROVE  n \notin raced' => NetworkOk(s, net[n], v, f)
    BY <1>0, <1>f, <2>1, <2>2 DEF NetworkOk
  <2>4. "CREATE_IN_PROGRESS" \in Network!StackStates
    BY DEF Network!StackStates
  <2> QED BY <1>f, <1>u, <2>1, <2>2, <2>3, <2>4, NetworkFrame
<1> QED BY <1>1, <1>2, <1>3, <1>4

\* reconcileDelete of a network, the deferred patch, CloudFormation and the user.
LEMMA NetworkStepDelete ==
    ASSUME NetworkAll, NEW n \in Networks,
           \/ Network!ReconcileDelete(n) \/ Network!DeleteStatus(n) \/ Network!DeleteCFStack(n)
           \/ Network!Close(n) \/ Network!Progress(n) \/ Network!DeleteNetwork(n)
    PROVE  NetworkAll'
<1> DEFINE f == IF cfStack.by = n THEN cfStack.st ELSE "other"
<1>0. /\ NetworkType /\ net \in [Networks -> NetworkObjects] /\ nw \in [Networks -> NetworkWorks]
      /\ n \notin raced => NetworkOk(stack[n], net[n], nw[n], f)
  BY DEF NetworkAll, NetworkType, NetworkInv, Field
<1>f. /\ stack[n] \in Network!StackStates /\ net[n] \in NetworkObjects /\ nw[n] \in NetworkWorks
      /\ nw[n].loc \in Network!Locals /\ net[n].loc \in Network!Locals
      /\ net[n].st \in {"absent", "live", "deleting", "gone"}
      /\ net[n].loc.fin \in BOOLEAN /\ nw[n].loc.fin \in BOOLEAN
      /\ cfStack \in [st: Network!StackStates, by: Networks]
  BY <1>0, NetworkFields
<1>u. /\ stack = [stack EXCEPT ![n] = stack[n]] /\ net = [net EXCEPT ![n] = net[n]]
      /\ nw = [nw EXCEPT ![n] = nw[n]]
  BY <1>0, NetworkFields
<1> USE DEF NetworkLabels
<1>1. CASE Network!ReconcileDelete(n)
  <2> DEFINE x == [nw[n].loc EXCEPT !.fin = FALSE]
  <2> DEFINE u == [nw[n] EXCEPT !.loc = x, !.pc = "close"]
  <2> DEFINE v == [nw[n] EXCEPT !.pc = "delResources"]
  <2>1. /\ nw[n].pc = "deleting" /\ UNCHANGED <<stack, net, cfStack>>
        /\ raced \subseteq raced' /\ (n \notin raced' => cfStack.by = n)
        /\ \/ Network!Goto(n, "delResources")
           \/ cfStack.st = "none" /\ nw' = [nw EXCEPT ![n] = u]
    BY <1>0, <1>1 DEF Network!ReconcileDelete, Network!StillExists, Network!None,
                      Network!UsesField, NetworkWorks
  <2>2. x \in Network!Locals /\ x.fin = FALSE
    BY <1>f DEF Network!Locals
  <2> HIDE DEF x
  <2>3. u \in NetworkWorks /\ u.pc = "close" /\ u.loc = x
    BY <1>f, <2>2 DEF NetworkWorks
  <2> HIDE DEF u
  <2>4. CASE cfStack.st = "none" /\ nw' = [nw EXCEPT ![n] = u]
    <3>1. n \notin raced' => NetworkOk(stack[n], net[n], u, f)
      BY <1>0, <1>f, <2>1, <2>2, <2>3, <2>4 DEF NetworkOk
    <3> QED BY <2>1, <2>3, <2>4, <3>1, NetworkMoves
  <2>5. CASE Network!Goto(n, "delResources")
    <3>1. /\ v \in NetworkWorks /\ v.pc = "delResources" /\ v.loc = nw[n].loc
          /\ nw' = [nw EXCEPT ![n] = v]
      BY <1>0, <2>5, NetworkGoto
    <3> HIDE DEF v
    <3>2. n \notin raced' => NetworkOk(stack[n], net[n], v, f)
      BY <1>0, <1>f, <2>1, <3>1 DEF NetworkOk
    <3> QED BY <2>1, <3>1, <3>2, NetworkMoves
  <2> QED BY <2>1, <2>4, <2>5
<1>2. CASE Network!DeleteStatus(n) \/ Network!DeleteCFStack(n)
  <2>1. /\ nw[n].pc \in {"delStatus", "delStack"} /\ UNCHANGED <<net, cfStack>>
        /\ raced \subseteq raced'
        /\ \/ UNCHANGED stack
           \/ stack[n] # "none" /\ stack' = [stack EXCEPT ![n] = "DELETE_IN_PROGRESS"]
        /\ \/ Network!Goto(n, "close") \/ Network!Goto(n, "delStack") \/ Network!Ends(n, FALSE)
    <3>1. CASE Network!DeleteStatus(n)
      BY <3>1 DEF Network!DeleteStatus, Network!UsesField
    <3>2. CASE Network!DeleteCFStack(n)
      BY <1>u, <3>2 DEF Network!DeleteCFStack, Network!None
    <3> QED BY <1>2, <3>1, <3>2
  <2>2. PICK v \in NetworkWorks : /\ nw' = [nw EXCEPT ![n] = v] /\ v.pc \in {"close", "delStack"}
                                  /\ v.loc.fin = nw[n].loc.fin
    <3>1. ASSUME NEW l \in {"close", "delStack"}, Network!Goto(n, l)
          PROVE  \E v \in NetworkWorks : /\ nw' = [nw EXCEPT ![n] = v] /\ v.pc \in {"close", "delStack"}
                                         /\ v.loc.fin = nw[n].loc.fin
      <4> DEFINE v == [nw[n] EXCEPT !.pc = l]
      <4>1. v \in NetworkWorks /\ v.pc = l /\ v.loc = nw[n].loc /\ nw' = [nw EXCEPT ![n] = v]
        <5>1. l \in NetworkLabels
          BY <3>1
        <5> HIDE DEF NetworkLabels
        <5> QED BY <1>0, <3>1, <5>1, NetworkGoto, Zenon
      <4> HIDE DEF v
      <4> QED BY <3>1, <4>1
    <3>2. CASE Network!Ends(n, FALSE)
      BY <1>0, <3>2, NetworkEnds
    <3> QED BY <2>1, <3>1, <3>2
  <2>3. ASSUME NEW s \in Network!StackStates
        PROVE  n \notin raced' => NetworkOk(s, net[n], v, f)
    BY <1>0, <1>f, <2>1, <2>2 DEF NetworkOk
  <2>4. "DELETE_IN_PROGRESS" \in Network!StackStates
    BY DEF Network!StackStates
  <2> QED BY <1>f, <1>u, <2>1, <2>2, <2>3, <2>4, NetworkFrame
<1>3. CASE Network!Close(n)
  <2> DEFINE st == IF net[n].st = "deleting" /\ ~nw[n].loc.fin THEN "gone" ELSE net[n].st
  <2> DEFINE o == [st |-> st, loc |-> nw[n].loc]
  <2>1. /\ nw[n].pc = "close" /\ nw' = [nw EXCEPT ![n] = Network!NoWork]
        /\ UNCHANGED <<stack, cfStack, raced>>
        /\ UNCHANGED net \/ (net[n].st # "gone" /\ net' = [net EXCEPT ![n] = o])
    BY <1>3 DEF Network!Close
  <2>2. Network!NoWork \in NetworkWorks /\ Network!NoWork.pc = "idle"
    BY DEF Network!NoWork, Network!NoLocal, NetworkWorks, Network!Locals
  <2>3. o \in NetworkObjects /\ o.st = st /\ o.loc = nw[n].loc
    BY <1>f DEF NetworkObjects
  <2>4. CASE UNCHANGED net
    <3>1. n \notin raced' => NetworkOk(stack[n], net[n], Network!NoWork, f)
      BY <1>0, <1>f, <2>1, <2>2 DEF NetworkOk
    <3> QED BY <2>1, <2>2, <2>4, <3>1, NetworkMoves
  <2>5. CASE net[n].st # "gone" /\ net' = [net EXCEPT ![n] = o]
    <3>1. n \notin raced' => NetworkOk(stack[n], o, Network!NoWork, f)
      BY <1>0, <1>f, <2>1, <2>2, <2>3, <2>5 DEF NetworkOk
    <3> HIDE DEF o
    <3> QED BY <1>f, <1>u, <2>1, <2>2, <2>3, <2>5, <3>1, NetworkFrame
  <2> QED BY <2>1, <2>4, <2>5
<1>4. CASE Network!Progress(n)
  <2>1. UNCHANGED <<net, nw, cfStack, raced>>
    BY <1>4 DEF Network!Progress
  <2>2. PICK s \in Network!StackStates : stack' = [stack EXCEPT ![n] = s]
    BY <1>4 DEF Network!Progress, Network!StackStates
  <2>3. stack[n] # "none"
    BY <1>4 DEF Network!Progress
  <2>4. n \notin raced' => NetworkOk(s, net[n], nw[n], f)
    BY <1>0, <1>f, <2>1, <2>3 DEF NetworkOk
  <2> QED BY <1>f, <1>u, <2>1, <2>2, <2>4, NetworkFrame
<1>5. CASE Network!DeleteNetwork(n)
  <2> DEFINE st == IF net[n].loc.fin THEN "deleting" ELSE "gone"
  <2> DEFINE o == [net[n] EXCEPT !.st = st]
  <2>1. /\ net[n].st = "live" /\ UNCHANGED <<stack, nw, cfStack, raced>>
        /\ net' = [net EXCEPT ![n] = o]
    BY <1>0, <1>5 DEF Network!DeleteNetwork, NetworkObjects
  <2>2. o \in NetworkObjects /\ o.st = st /\ o.loc = net[n].loc
    BY <1>f DEF NetworkObjects
  <2>3. n \notin raced' => NetworkOk(stack[n], o, nw[n], f)
    BY <1>0, <1>f, <2>1, <2>2 DEF NetworkOk
  <2>4. /\ raced \subseteq raced' /\ cfStack' = cfStack /\ net' = [net EXCEPT ![n] = o]
        /\ stack' = [stack EXCEPT ![n] = stack[n]] /\ nw' = [nw EXCEPT ![n] = nw[n]]
    BY <1>u, <2>1
  <2>5. n \notin raced' =>
          NetworkOk(stack[n], o, nw[n], IF cfStack'.by = n THEN cfStack'.st ELSE "other")
    BY <2>3, <2>4
  <2>6. o \in NetworkObjects /\ cfStack' \in [st: Network!StackStates, by: Networks]
    BY <1>f, <2>2, <2>4
  <2> HIDE DEF o, st, f
  <2> QED BY <1>f, <2>4, <2>5, <2>6, NetworkFrame
<1> QED BY <1>1, <1>2, <1>3, <1>4, <1>5

-----------------------------------------------------------------------------
(* The roles, step by step *)

\* The inductive invariant of the roles.
RolesAll == RolesType /\ RolesInv

\* What RolesType says of the fields.
LEMMA RolesFields ==
    ASSUME RolesType
    PROVE  /\ iam.acct \in BOOLEAN /\ iam.prov \subseteq Nat /\ iam.op \in Nat
           /\ rc.st \in {"absent", "live", "deleting", "gone"} /\ rc.loc \in RoleLocals
           /\ rw.pc \in RoleLabels /\ rw.loc \in RoleLocals
           /\ rc.loc.fin \in BOOLEAN /\ rc.loc.id \in Nat
           /\ rw.loc.fin \in BOOLEAN /\ rw.loc.id \in Nat
<1>1. /\ iam.acct \in BOOLEAN /\ iam.prov \subseteq Nat /\ iam.op \in Nat
      /\ rc.st \in {"absent", "live", "deleting", "gone"} /\ rc.loc \in RoleLocals
      /\ rw.pc \in RoleLabels /\ rw.loc \in RoleLocals
  BY DEF RolesType
<1> QED BY <1>1 DEF RoleLocals

\* A field of a copy is set; the finalizer and the id are the ones that matter.
LEMMA RoleLocalSet ==
    ASSUME NEW x \in RoleLocals, NEW b \in BOOLEAN
    PROVE  /\ [x EXCEPT !.ready = b] \in RoleLocals
           /\ [x EXCEPT !.ready = b].fin = x.fin /\ [x EXCEPT !.ready = b].id = x.id
           /\ [x EXCEPT !.acct = b] \in RoleLocals
           /\ [x EXCEPT !.acct = b].fin = x.fin /\ [x EXCEPT !.acct = b].id = x.id
           /\ [x EXCEPT !.prov = b] \in RoleLocals
           /\ [x EXCEPT !.prov = b].fin = x.fin /\ [x EXCEPT !.prov = b].id = x.id
           /\ [x EXCEPT !.op = b] \in RoleLocals
           /\ [x EXCEPT !.op = b].fin = x.fin /\ [x EXCEPT !.op = b].id = x.id
           /\ [x EXCEPT !.fin = b] \in RoleLocals
           /\ [x EXCEPT !.fin = b].fin = b /\ [x EXCEPT !.fin = b].id = x.id
  BY DEF RoleLocals

\* The worker moves on with a copy.
LEMMA RolesGoto ==
    ASSUME NEW l \in RoleLabels, NEW x \in RoleLocals, Roles!Goto(l, x)
    PROVE  rw' \in [pc: RoleLabels, loc: RoleLocals] /\ rw'.pc = l /\ rw'.loc = x
  BY DEF Roles!Goto

\* An error keeps the finalizer and the id.
LEMMA RolesFails ==
    ASSUME RolesType, Roles!Fails
    PROVE  /\ rw' \in [pc: RoleLabels, loc: RoleLocals] /\ rw'.pc = "close"
           /\ rw'.loc.fin = rw.loc.fin /\ rw'.loc.id = rw.loc.id
<1> DEFINE x == [rw.loc EXCEPT !.ready = FALSE]
<1>1. x \in RoleLocals /\ x.fin = rw.loc.fin /\ x.id = rw.loc.id
  BY RolesFields, RoleLocalSet
<1>2. Roles!Goto("close", x)
  BY DEF Roles!Fails
<1>3. "close" \in RoleLabels
  BY DEF RoleLabels
<1> HIDE DEF x
<1> QED BY <1>1, <1>2, <1>3, RolesGoto

\* The configurations stay finite, and a new one has an id that is not 0.
LEMMA RolesConfigs ==
    ASSUME RolesType
    PROVE  /\ Roles!NewId \in Nat /\ Roles!NewId # 0
           /\ IsFiniteSet(oidc \cup {Roles!NewId})
           /\ \A id : IsFiniteSet(oidc \ {id})
<1>1. IsFiniteSet(oidc)
  BY DEF RolesType
<1>2. Cardinality(oidc) \in Nat
  BY <1>1, FS_CardinalityType
<1>3. Roles!NewId \in Nat /\ Roles!NewId # 0
  <2>1. Roles!Cardinality(oidc) = Cardinality(oidc)
    BY Zenon DEF Roles!Cardinality, Cardinality
  <2> QED BY <1>2, <2>1 DEF Roles!NewId
<1>4. \A id : IsFiniteSet(oidc \cup {id}) /\ IsFiniteSet(oidc \ {id})
  BY <1>1, FS_AddElement, FS_RemoveElement
<1> QED BY <1>3, <1>4

\* A step of the worker that leaves the stored object alone: the types it has to keep.
LEMMA RolesTypeKept ==
    ASSUME RolesType, rc' = rc, rw' \in [pc: RoleLabels, loc: RoleLocals],
           iam' \in [acct: BOOLEAN, prov: SUBSET Nat, op: Nat], 0 \notin iam'.prov,
           oidc' \subseteq Nat, IsFiniteSet(oidc'), 0 \notin oidc'
    PROVE  RolesType'
  BY DEF RolesType

\* Reconcile and the steps that create, up to the configuration.
LEMMA RolesStepStart ==
    ASSUME RolesAll, Roles!Reconcile \/ Roles!AccountRoles \/ Roles!OIDCConfig
    PROVE  RolesAll'
<1>0. RolesType /\ RolesInv
  BY DEF RolesAll
<1>t. /\ iam \in [acct: BOOLEAN, prov: SUBSET Nat, op: Nat] /\ 0 \notin iam.prov
      /\ oidc \subseteq Nat /\ IsFiniteSet(oidc) /\ 0 \notin oidc
  BY <1>0 DEF RolesType
<1>f. /\ iam.acct \in BOOLEAN /\ iam.op \in Nat
      /\ rc.st \in {"absent", "live", "deleting", "gone"} /\ rc.loc \in RoleLocals
      /\ rw.pc \in RoleLabels /\ rw.loc \in RoleLocals
      /\ rc.loc.fin \in BOOLEAN /\ rc.loc.id \in Nat /\ rw.loc.fin \in BOOLEAN /\ rw.loc.id \in Nat
  BY <1>0, RolesFields
<1>l. RoleLabels = {"idle", "account", "config", "provider", "operator", "ready", "delOperator",
                    "delConfig", "delAccount", "close"}
  BY DEF RoleLabels
<1>1. CASE Roles!Reconcile
  <2> DEFINE x == [rc.loc EXCEPT !.ready = FALSE]
  <2> DEFINE y == [rc.loc EXCEPT !.fin = TRUE]
  <2>1. /\ rw.pc = "idle" /\ rc.st \in {"live", "deleting"} /\ UNCHANGED <<iam, oidc, rc>>
        /\ \/ rc.st = "deleting" /\ Roles!Goto("delOperator", x)
           \/ rc.st = "live" /\ Roles!Goto("close", y)
           \/ rc.loc.fin /\ Roles!Goto("account", rc.loc)
           \/ Roles!Goto("close", rc.loc)
    BY <1>1 DEF Roles!Reconcile
  <2>2. /\ x \in RoleLocals /\ x.fin = rc.loc.fin /\ x.id = rc.loc.id
        /\ y \in RoleLocals /\ y.fin = TRUE /\ y.id = rc.loc.id
    BY <1>f, RoleLocalSet
  <2> HIDE DEF x, y
  <2>3. /\ rw' \in [pc: RoleLabels, loc: RoleLocals]
        /\ \/ rc.st = "deleting" /\ rw'.pc = "delOperator" /\ rw'.loc.fin = rc.loc.fin
           \/ rw'.pc = "close" /\ rw'.loc.fin = TRUE
           \/ rc.loc.fin /\ rw'.pc = "account" /\ rw'.loc.fin = rc.loc.fin
           \/ rw'.pc = "close" /\ rw'.loc = rc.loc
    <3>1. CASE rc.st = "deleting" /\ Roles!Goto("delOperator", x)
      BY <1>l, <2>2, <3>1, RolesGoto
    <3>2. CASE Roles!Goto("close", y)
      BY <1>l, <2>2, <3>2, RolesGoto
    <3>3. CASE rc.loc.fin /\ Roles!Goto("account", rc.loc)
      BY <1>f, <1>l, <3>3, RolesGoto
    <3>4. CASE Roles!Goto("close", rc.loc)
      BY <1>f, <1>l, <3>4, RolesGoto
    <3> QED BY <2>1, <3>1, <3>2, <3>3, <3>4
  <2>4. RolesType'
    BY <1>0, <1>t, <2>1, <2>3, RolesTypeKept
  <2>5. RolesInv'
    BY <1>0, <1>f, <2>1, <2>3 DEF RolesInv, NoRoles, NoConfig
  <2> QED BY <2>4, <2>5 DEF RolesAll
<1>2. CASE Roles!AccountRoles
  <2> DEFINE b == rw.loc.acct \/ iam.acct
  <2> DEFINE x == [rw.loc EXCEPT !.acct = b]
  <2>1. /\ rw.pc = "account" /\ UNCHANGED <<oidc, rc>>
        /\ \E a \in BOOLEAN : iam' = [iam EXCEPT !.acct = a]
        /\ Roles!Goto("config", x) \/ Roles!Fails
    BY <1>2, <1>f DEF Roles!AccountRoles
  <2>2. x \in RoleLocals /\ x.fin = rw.loc.fin /\ x.id = rw.loc.id
    <3>1. b \in BOOLEAN
      OBVIOUS
    <3> HIDE DEF b
    <3> QED BY <1>f, <3>1 DEF RoleLocals
  <2> HIDE DEF x
  <2>3. /\ rw' \in [pc: RoleLabels, loc: RoleLocals] /\ rw'.pc \in {"config", "close"}
        /\ rw'.loc.fin = rw.loc.fin /\ rw'.loc.id = rw.loc.id
    <3>1. CASE Roles!Goto("config", x)
      BY <1>l, <2>2, <3>1, RolesGoto
    <3>2. CASE Roles!Fails
      BY <1>0, <3>2, RolesFails
    <3> QED BY <2>1, <3>1, <3>2
  <2>4. /\ iam' \in [acct: BOOLEAN, prov: SUBSET Nat, op: Nat]
        /\ iam'.prov = iam.prov /\ iam'.op = iam.op
    BY <1>t, <2>1
  <2>5. RolesType'
    BY <1>0, <1>t, <2>1, <2>3, <2>4, RolesTypeKept
  <2>6. RolesInv'
    BY <1>0, <1>f, <2>1, <2>3, <2>4 DEF RolesInv, NoRoles, NoConfig
  <2> QED BY <2>5, <2>6 DEF RolesAll
<1>3. CASE Roles!OIDCConfig
  <2> DEFINE i == Roles!NewId
  <2> DEFINE x(k) == [rw.loc EXCEPT !.id = k]
  <2> DEFINE y(k) == [rw.loc EXCEPT !.id = k, !.ready = FALSE]
  <2>0. i \in Nat /\ i # 0 /\ IsFiniteSet(oidc \cup {i})
    BY <1>0, RolesConfigs
  <2>1. /\ rw.pc = "config" /\ UNCHANGED <<iam, rc>> /\ oidc' \in {oidc, oidc \cup {i}}
        /\ \/ rw.loc.id # 0 /\ Roles!Goto("provider", rw.loc)
           \/ Roles!Goto("provider", x(i))
           \/ Roles!Fails
           \/ \E k \in {0, i} : Roles!Goto("close", y(k))
    BY <1>3 DEF Roles!OIDCConfig
  <2>2. ASSUME NEW k \in Nat
        PROVE  /\ x(k) \in RoleLocals /\ x(k).fin = rw.loc.fin /\ x(k).id = k
               /\ y(k) \in RoleLocals /\ y(k).fin = rw.loc.fin
    BY <1>f DEF RoleLocals
  <2> HIDE DEF x, y, i
  <2>3. /\ rw' \in [pc: RoleLabels, loc: RoleLocals] /\ rw'.loc.fin = rw.loc.fin
        /\ (rw'.pc = "provider" /\ rw'.loc.id # 0) \/ rw'.pc = "close"
    <3>1. CASE rw.loc.id # 0 /\ Roles!Goto("provider", rw.loc)
      BY <1>f, <1>l, <3>1, RolesGoto
    <3>2. CASE Roles!Goto("provider", x(i))
      BY <1>l, <2>0, <2>2, <3>2, RolesGoto
    <3>3. CASE Roles!Fails
      BY <1>0, <3>3, RolesFails
    <3>4. ASSUME NEW k \in {0, i}, Roles!Goto("close", y(k))
          PROVE  rw' \in [pc: RoleLabels, loc: RoleLocals] /\ rw'.pc = "close" /\ rw'.loc.fin = rw.loc.fin
      <4>1. k \in Nat
        BY <2>0
      <4> QED BY <1>l, <2>2, <3>4, <4>1, RolesGoto
    <3> QED BY <2>1, <3>1, <3>2, <3>3, <3>4
  <2>4. oidc' \subseteq Nat /\ IsFiniteSet(oidc') /\ 0 \notin oidc'
    BY <1>t, <2>0, <2>1
  <2>5. RolesType'
    BY <1>0, <1>t, <2>1, <2>3, <2>4, RolesTypeKept
  <2>6. RolesInv'
    BY <1>0, <1>f, <2>1, <2>3 DEF RolesInv, NoRoles, NoConfig
  <2> QED BY <2>5, <2>6 DEF RolesAll
<1> QED BY <1>1, <1>2, <1>3

\* The provider, the operator roles and the condition.
LEMMA RolesStepOperator ==
    ASSUME RolesAll, Roles!OIDCProvider \/ Roles!OperatorRoles \/ Roles!SetReady
    PROVE  RolesAll'
<1>0. RolesType /\ RolesInv
  BY DEF RolesAll
<1>t. /\ iam \in [acct: BOOLEAN, prov: SUBSET Nat, op: Nat] /\ 0 \notin iam.prov
      /\ oidc \subseteq Nat /\ IsFiniteSet(oidc) /\ 0 \notin oidc
  BY <1>0 DEF RolesType
<1>f. /\ iam.acct \in BOOLEAN /\ iam.op \in Nat
      /\ rc.st \in {"absent", "live", "deleting", "gone"} /\ rc.loc \in RoleLocals
      /\ rw.pc \in RoleLabels /\ rw.loc \in RoleLocals
      /\ rc.loc.fin \in BOOLEAN /\ rc.loc.id \in Nat /\ rw.loc.fin \in BOOLEAN /\ rw.loc.id \in Nat
  BY <1>0, RolesFields
<1>l. RoleLabels = {"idle", "account", "config", "provider", "operator", "ready", "delOperator",
                    "delConfig", "delAccount", "close"}
  BY DEF RoleLabels
<1>1. CASE Roles!OIDCProvider
  <2> DEFINE x == [rw.loc EXCEPT !.prov = TRUE]
  <2> DEFINE c == [iam EXCEPT !.prov = iam.prov \cup {rw.loc.id}]
  <2>1. /\ rw.pc = "provider" /\ UNCHANGED <<oidc, rc>> /\ iam' \in {iam, c}
        /\ Roles!Goto("operator", x) \/ Roles!Fails
    BY <1>1 DEF Roles!OIDCProvider
  <2>2. x \in RoleLocals /\ x.fin = rw.loc.fin
    BY <1>f, RoleLocalSet
  <2> HIDE DEF x
  <2>3. /\ rw' \in [pc: RoleLabels, loc: RoleLocals] /\ rw'.pc \in {"operator", "close"}
        /\ rw'.loc.fin = rw.loc.fin
    <3>1. CASE Roles!Goto("operator", x)
      BY <1>l, <2>2, <3>1, RolesGoto
    <3>2. CASE Roles!Fails
      BY <1>0, <3>2, RolesFails
    <3> QED BY <2>1, <3>1, <3>2
  <2>4. rw.loc.id # 0
    BY <1>0, <2>1 DEF RolesInv
  <2>5. iam' \in [acct: BOOLEAN, prov: SUBSET Nat, op: Nat] /\ 0 \notin iam'.prov
    BY <1>t, <1>f, <2>1, <2>4
  <2>6. RolesType'
    BY <1>0, <1>t, <2>1, <2>3, <2>5, RolesTypeKept
  <2> HIDE DEF c
  <2>7. RolesInv'
    BY <1>0, <1>f, <2>1, <2>3 DEF RolesInv, NoRoles, NoConfig
  <2> QED BY <2>6, <2>7 DEF RolesAll
<1>2. CASE Roles!OperatorRoles
  <2> DEFINE b == rw.loc.op \/ iam.op # 0
  <2> DEFINE x == [rw.loc EXCEPT !.op = b]
  <2> DEFINE c == [iam EXCEPT !.op = rw.loc.id]
  <2>1. /\ rw.pc = "operator" /\ UNCHANGED <<oidc, rc>> /\ iam' \in {iam, c}
        /\ Roles!Goto("ready", x) \/ Roles!Fails
    BY <1>2 DEF Roles!OperatorRoles
  <2>2. x \in RoleLocals /\ x.fin = rw.loc.fin
    <3>1. b \in BOOLEAN
      OBVIOUS
    <3> HIDE DEF b
    <3> QED BY <1>f, <3>1 DEF RoleLocals
  <2> HIDE DEF x
  <2>3. /\ rw' \in [pc: RoleLabels, loc: RoleLocals] /\ rw'.pc \in {"ready", "close"}
        /\ rw'.loc.fin = rw.loc.fin
    <3>1. CASE Roles!Goto("ready", x)
      BY <1>l, <2>2, <3>1, RolesGoto
    <3>2. CASE Roles!Fails
      BY <1>0, <3>2, RolesFails
    <3> QED BY <2>1, <3>1, <3>2
  <2>5. iam' \in [acct: BOOLEAN, prov: SUBSET Nat, op: Nat] /\ 0 \notin iam'.prov
    BY <1>t, <1>f, <2>1
  <2>6. RolesType'
    BY <1>0, <1>t, <2>1, <2>3, <2>5, RolesTypeKept
  <2> HIDE DEF c
  <2>7. RolesInv'
    BY <1>0, <1>f, <2>1, <2>3 DEF RolesInv, NoRoles, NoConfig
  <2> QED BY <2>6, <2>7 DEF RolesAll
<1>3. CASE Roles!SetReady
  <2> DEFINE b == Roles!RolesReady
  <2> DEFINE x == [rw.loc EXCEPT !.ready = b]
  <2>1. rw.pc = "ready" /\ UNCHANGED <<iam, oidc, rc>> /\ Roles!Goto("close", x)
    BY <1>3 DEF Roles!SetReady
  <2>2. x \in RoleLocals /\ x.fin = rw.loc.fin
    <3>1. b \in BOOLEAN
      BY DEF Roles!RolesReady
    <3> HIDE DEF b
    <3> QED BY <1>f, <3>1 DEF RoleLocals
  <2> HIDE DEF x
  <2>3. /\ rw' \in [pc: RoleLabels, loc: RoleLocals] /\ rw'.pc = "close"
        /\ rw'.loc.fin = rw.loc.fin
    BY <1>l, <2>1, <2>2, RolesGoto
  <2>6. RolesType'
    BY <1>0, <1>t, <2>1, <2>3, RolesTypeKept
  <2>7. RolesInv'
    BY <1>0, <1>f, <2>1, <2>3 DEF RolesInv, NoRoles, NoConfig
  <2> QED BY <2>6, <2>7 DEF RolesAll
<1> QED BY <1>1, <1>2, <1>3

\* reconcileDelete.
LEMMA RolesStepDelete ==
    ASSUME RolesAll, NEW used,
           \/ Roles!DeleteOperatorRoles(used) \/ Roles!DeleteOIDC(used) \/ Roles!DeleteAccountRoles
    PROVE  RolesAll'
<1>0. RolesType /\ RolesInv
  BY DEF RolesAll
<1>t. /\ iam \in [acct: BOOLEAN, prov: SUBSET Nat, op: Nat] /\ 0 \notin iam.prov
      /\ oidc \subseteq Nat /\ IsFiniteSet(oidc) /\ 0 \notin oidc
  BY <1>0 DEF RolesType
<1>f. /\ iam.acct \in BOOLEAN /\ iam.op \in Nat
      /\ rc.st \in {"absent", "live", "deleting", "gone"} /\ rc.loc \in RoleLocals
      /\ rw.pc \in RoleLabels /\ rw.loc \in RoleLocals
      /\ rc.loc.fin \in BOOLEAN /\ rc.loc.id \in Nat /\ rw.loc.fin \in BOOLEAN /\ rw.loc.id \in Nat
  BY <1>0, RolesFields
<1>l. RoleLabels = {"idle", "account", "config", "provider", "operator", "ready", "delOperator",
                    "delConfig", "delAccount", "close"}
  BY DEF RoleLabels
<1>1. CASE Roles!DeleteOperatorRoles(used)
  <2>1. /\ rw.pc = "delOperator" /\ UNCHANGED <<oidc, rc>>
        /\ \/ iam' = [iam EXCEPT !.op = 0] /\ Roles!Goto("delConfig", rw.loc)
           \/ Roles!Fails /\ iam' = iam
           \/ Roles!Fails /\ \E k \in {0, iam.op} : iam' = [iam EXCEPT !.op = k]
    BY <1>1 DEF Roles!DeleteOperatorRoles
  <2>2. /\ iam' \in [acct: BOOLEAN, prov: SUBSET Nat, op: Nat] /\ iam'.prov = iam.prov
        /\ iam'.acct = iam.acct
    BY <1>t, <1>f, <2>1
  <2>3. /\ rw' \in [pc: RoleLabels, loc: RoleLocals] /\ rw'.loc.fin = rw.loc.fin
        /\ rw'.loc.id = rw.loc.id
        /\ \/ rw'.pc = "delConfig" /\ iam' = [iam EXCEPT !.op = 0]
           \/ rw'.pc = "close"
    <3>1. CASE iam' = [iam EXCEPT !.op = 0] /\ Roles!Goto("delConfig", rw.loc)
      BY <1>f, <1>l, <3>1, RolesGoto
    <3>2. CASE Roles!Fails
      BY <1>0, <3>2, RolesFails
    <3> QED BY <2>1, <3>1, <3>2
  <2>4. rw'.pc = "delConfig" => iam'.op = 0
    BY <1>t, <2>3
  <2>6. RolesType'
    BY <1>0, <1>t, <2>1, <2>2, <2>3, RolesTypeKept
  <2>7. RolesInv'
    BY <1>0, <1>f, <2>1, <2>2, <2>3, <2>4 DEF RolesInv, NoRoles, NoConfig
  <2> QED BY <2>6, <2>7 DEF RolesAll
<1>2. CASE Roles!DeleteOIDC(used)
  <2> DEFINE w == [iam EXCEPT !.prov = iam.prov \ {rw.loc.id}]
  <2>1. /\ rw.pc = "delConfig" /\ UNCHANGED rc
        /\ \/ rw.loc.id = 0 /\ Roles!Goto("delAccount", rw.loc) /\ UNCHANGED <<iam, oidc>>
           \/ Roles!Goto("delAccount", rw.loc) /\ iam' = w /\ oidc' = oidc \ {rw.loc.id}
           \/ Roles!Fails /\ iam' \in {iam, w} /\ oidc' \in {oidc, oidc \ {rw.loc.id}}
    BY <1>2 DEF Roles!DeleteOIDC
  <2>w. /\ w \in [acct: BOOLEAN, prov: SUBSET Nat, op: Nat] /\ w.prov = iam.prov \ {rw.loc.id}
        /\ w.op = iam.op /\ w.acct = iam.acct
    BY <1>t
  <2> HIDE DEF w
  <2>2. /\ iam' \in [acct: BOOLEAN, prov: SUBSET Nat, op: Nat] /\ iam'.prov \subseteq iam.prov
        /\ iam'.op = iam.op /\ 0 \notin iam'.prov
    BY <1>t, <2>1, <2>w
  <2>3. oidc' \subseteq Nat /\ IsFiniteSet(oidc') /\ 0 \notin oidc'
    <3>1. IsFiniteSet(oidc \ {rw.loc.id})
      BY <1>0, RolesConfigs
    <3> QED BY <1>t, <2>1, <3>1
  <2>4. /\ rw' \in [pc: RoleLabels, loc: RoleLocals] /\ rw'.loc.fin = rw.loc.fin
        /\ rw'.loc.id = rw.loc.id
        /\ \/ rw'.pc = "delAccount" /\ rw.loc.id \notin oidc' /\ rw.loc.id \notin iam'.prov
           \/ rw'.pc = "close"
    <3>1. CASE rw.loc.id = 0 /\ Roles!Goto("delAccount", rw.loc) /\ UNCHANGED <<iam, oidc>>
      BY <1>t, <1>f, <1>l, <3>1, RolesGoto
    <3>2. CASE Roles!Goto("delAccount", rw.loc) /\ iam' = w /\ oidc' = oidc \ {rw.loc.id}
      BY <1>f, <1>l, <2>w, <3>2, RolesGoto
    <3>3. CASE Roles!Fails
      BY <1>0, <3>3, RolesFails
    <3> QED BY <2>1, <3>1, <3>2, <3>3
  <2>6. RolesType'
    BY <1>0, <1>t, <2>1, <2>2, <2>3, <2>4, RolesTypeKept
  <2>7. RolesInv'
    BY <1>0, <1>f, <2>1, <2>2, <2>4 DEF RolesInv, NoRoles, NoConfig
  <2> QED BY <2>6, <2>7 DEF RolesAll
<1>3. CASE Roles!DeleteAccountRoles
  <2> DEFINE x == [rw.loc EXCEPT !.fin = FALSE]
  <2>1. /\ rw.pc = "delAccount" /\ UNCHANGED <<oidc, rc>>
        /\ \/ iam' = [iam EXCEPT !.acct = FALSE] /\ Roles!Goto("close", x)
           \/ Roles!Fails /\ iam' = iam
           \/ Roles!Fails /\ \E a \in BOOLEAN : iam' = [iam EXCEPT !.acct = a]
    BY <1>3, <1>f DEF Roles!DeleteAccountRoles
  <2>2. x \in RoleLocals /\ x.fin = FALSE /\ x.id = rw.loc.id
    BY <1>f, RoleLocalSet
  <2> HIDE DEF x
  <2>3. /\ iam' \in [acct: BOOLEAN, prov: SUBSET Nat, op: Nat] /\ iam'.prov = iam.prov
        /\ iam'.op = iam.op
    BY <1>t, <2>1
  <2>4. /\ rw' \in [pc: RoleLabels, loc: RoleLocals] /\ rw'.pc = "close" /\ rw'.loc.id = rw.loc.id
        /\ \/ iam' = [iam EXCEPT !.acct = FALSE]
           \/ rw'.loc.fin = rw.loc.fin
    <3>1. CASE iam' = [iam EXCEPT !.acct = FALSE] /\ Roles!Goto("close", x)
      BY <1>l, <2>2, <3>1, RolesGoto
    <3>2. CASE Roles!Fails
      BY <1>0, <3>2, RolesFails
    <3> QED BY <2>1, <3>1, <3>2
  <2>5. ~iam'.acct \/ rw'.loc.fin = rw.loc.fin
    BY <1>t, <2>4
  <2>6. RolesType'
    BY <1>0, <1>t, <2>1, <2>3, <2>4, RolesTypeKept
  <2>7. RolesInv'
    BY <1>0, <1>f, <2>1, <2>3, <2>4, <2>5 DEF RolesInv, NoRoles, NoConfig
  <2> QED BY <2>6, <2>7 DEF RolesAll
<1> QED BY <1>1, <1>2, <1>3

\* The deferred patch and the user.
LEMMA RolesStepStored ==
    ASSUME RolesAll, Roles!Close \/ Roles!DeleteRoleConfig
    PROVE  RolesAll'
<1>0. RolesType /\ RolesInv
  BY DEF RolesAll
<1>t. rc \in [st: {"absent", "live", "deleting", "gone"}, loc: RoleLocals]
  BY <1>0 DEF RolesType
<1>f. /\ rc.st \in {"absent", "live", "deleting", "gone"} /\ rc.loc \in RoleLocals
      /\ rw.pc \in RoleLabels /\ rw.loc \in RoleLocals
      /\ rc.loc.fin \in BOOLEAN /\ rw.loc.fin \in BOOLEAN
  BY <1>0, RolesFields
<1>1. CASE Roles!Close
  <2> DEFINE st == IF rc.st = "deleting" /\ ~rw.loc.fin THEN "gone" ELSE rc.st
  <2>1. /\ rw.pc = "close" /\ rw' = Roles!NoWork /\ UNCHANGED <<iam, oidc>>
        /\ rc' = rc \/ (rc.st # "gone" /\ rc' = [st |-> st, loc |-> rw.loc])
    BY <1>1 DEF Roles!Close
  <2>2. Roles!NoWork \in [pc: RoleLabels, loc: RoleLocals] /\ Roles!NoWork.pc = "idle"
    BY DEF Roles!NoWork, Roles!NoLocal, RoleLabels, RoleLocals
  <2>3. /\ rc' \in [st: {"absent", "live", "deleting", "gone"}, loc: RoleLocals]
        /\ rc' = rc \/ (rc'.st = st /\ rc'.loc = rw.loc /\ rc.st # "gone")
    BY <1>t, <1>f, <2>1
  <2>4. RolesType'
    BY <1>0, <2>1, <2>2, <2>3 DEF RolesType
  <2>5. RolesInv'
    <3>1. CASE rc' = rc
      BY <1>0, <2>1, <2>2, <3>1 DEF RolesInv, NoRoles, NoConfig
    <3>2. CASE rc'.st = st /\ rc'.loc = rw.loc /\ rc.st # "gone"
      BY <1>0, <1>f, <2>1, <2>2, <3>2 DEF RolesInv, NoRoles, NoConfig
    <3> QED BY <2>3, <3>1, <3>2
  <2> QED BY <2>4, <2>5 DEF RolesAll
<1>2. CASE Roles!DeleteRoleConfig
  <2> DEFINE st == IF rc.loc.fin THEN "deleting" ELSE "gone"
  <2>1. rc.st = "live" /\ rc' = [rc EXCEPT !.st = st] /\ UNCHANGED <<iam, oidc, rw>>
    BY <1>2 DEF Roles!DeleteRoleConfig
  <2>2. /\ rc' \in [st: {"absent", "live", "deleting", "gone"}, loc: RoleLocals]
        /\ rc'.st = st /\ rc'.loc = rc.loc
    BY <1>t, <2>1
  <2>3. RolesType'
    BY <1>0, <2>1, <2>2 DEF RolesType
  <2>4. RolesInv'
    BY <1>0, <1>f, <2>1, <2>2 DEF RolesInv, NoRoles, NoConfig
  <2> QED BY <2>3, <2>4 DEF RolesAll
<1> QED BY <1>1, <1>2

-----------------------------------------------------------------------------
(* The composition *)

\* The inductive invariant.
ROSAInv == ClusterAll /\ PoolsAll /\ NetworkAll /\ RolesAll

\* A step of one controller leaves the state of the others alone.
LEMMA OthersKept ==
    /\ ClusterAll /\ UNCHANGED cpVars => ClusterAll'
    /\ NetworkAll /\ UNCHANGED networkVars => NetworkAll'
    /\ RolesAll /\ UNCHANGED roleVars => RolesAll'
    /\ PoolsAll /\ UNCHANGED <<np, rspec, rmp, pw>> /\ (ocm'.st = "none" => ocm.st = "none") => PoolsAll'
<1>1. ASSUME ClusterAll, UNCHANGED cpVars PROVE ClusterAll'
  BY <1>1 DEF cpVars, ClusterAll, ClusterType, ClusterInv
<1>2. ASSUME NetworkAll, UNCHANGED networkVars PROVE NetworkAll'
  BY <1>2 DEF networkVars, NetworkAll, NetworkType, NetworkInv, Field
<1>3. ASSUME RolesAll, UNCHANGED roleVars PROVE RolesAll'
  BY <1>3 DEF roleVars, RolesAll, RolesType, RolesInv, NoRoles, NoConfig
<1>4. ASSUME PoolsAll, UNCHANGED <<np, rspec, rmp, pw>>, ocm'.st = "none" => ocm.st = "none"
      PROVE  PoolsAll'
  BY <1>4 DEF PoolsAll, PoolsType, PoolsInv
<1> QED BY <1>1, <1>2, <1>3, <1>4

\* What the workers are when no reconcile runs.
LEMMA NoWorks ==
    /\ Network!NoWork \in NetworkWorks /\ Network!NoWork.pc = "idle"
    /\ ControlPlane!NoWork \in ClusterWorks /\ ControlPlane!NoWork.pc = "idle"
    /\ Roles!NoWork \in [pc: RoleLabels, loc: RoleLocals] /\ Roles!NoWork.pc = "idle"
    /\ Pool!NoWork \in PoolWorks
<1>0. 1 \in 1 .. MaxVersion /\ 1 \in 1 .. MaxSize
  BY ROSAAssumption
<1>1. Network!NoWork \in NetworkWorks /\ Network!NoWork.pc = "idle"
  BY DEF Network!NoWork, Network!NoLocal, NetworkWorks, NetworkLabels, Network!Locals
<1>2. ControlPlane!NoWork \in ClusterWorks /\ ControlPlane!NoWork.pc = "idle"
  <2>1. ControlPlane!NoSpec \in ControlPlane!Specs
    BY <1>0 DEF ControlPlane!NoSpec, ControlPlane!Specs, ControlPlane!Versions, ControlPlane!Gates
  <2>2. ControlPlane!NoLocal \in ControlPlane!Locals
    BY DEF ControlPlane!NoLocal, ControlPlane!Locals
  <2> QED BY <1>0, <2>1, <2>2 DEF ControlPlane!NoWork, ClusterWorks, ClusterLabels, ControlPlane!Versions
<1>3. Roles!NoWork \in [pc: RoleLabels, loc: RoleLocals] /\ Roles!NoWork.pc = "idle"
  BY DEF Roles!NoWork, Roles!NoLocal, RoleLabels, RoleLocals
<1>4. Pool!NoWork \in PoolWorks
  BY <1>0 DEF Pool!NoWork, PoolWorks, Pool!Wanted, Pool!Sizes, Pool!Versions
<1> QED BY <1>1, <1>2, <1>3, <1>4

\* Before the first reconcile there is nothing to leave behind.
LEMMA ROSAInit == Init => ROSAInv
<1> SUFFICES ASSUME Init PROVE ROSAInv
  OBVIOUS
<1>0. 1 \in 1 .. MaxVersion /\ 1 \in 1 .. MaxSize /\ MaxVersion \in 1 .. MaxVersion /\ 0 \in 0 .. MaxVersion
  BY ROSAAssumption
<1>1. ClusterAll
  <2> DEFINE ver == IF "edit pool" \in shape THEN MaxVersion ELSE 1
  <2> DEFINE st == IF "cluster" \in shape THEN "live" ELSE "absent"
  <2>0. ver \in 1 .. MaxVersion /\ st \in {"live", "absent"}
    BY <1>0
  <2>1. /\ ocm = ControlPlane!NoCluster /\ cw = ControlPlane!NoWork
        /\ access = [pw |-> FALSE, kube |-> FALSE]
        /\ spec = [ControlPlane!NoSpec EXCEPT !.version = ver]
        /\ cp = [st |-> st, loc |-> ControlPlane!NoLocal]
    BY DEF Init, ControlPlane!Init
  <2> HIDE DEF ver, st
  <2>2. ocm \in Clusters /\ ocm.st = "none" /\ ocm.adm = "none"
    BY <1>0, <2>1 DEF ControlPlane!NoCluster, Clusters, ControlPlane!ClusterStates, ControlPlane!Versions,
                      ControlPlane!Admins
  <2>3. spec \in ControlPlane!Specs
    BY <2>0, <2>1 DEF ControlPlane!NoSpec, ControlPlane!Specs, ControlPlane!Versions, ControlPlane!Gates
  <2>4. cp \in ClusterObjects /\ cp.st \in {"live", "absent"}
    BY <2>0, <2>1 DEF ControlPlane!NoLocal, ControlPlane!Locals, ClusterObjects
  <2>5. access \in Accesses
    BY <2>1 DEF Accesses
  <2>6. ClusterType
    BY <2>1, <2>2, <2>3, <2>4, <2>5, NoWorks DEF ClusterType
  <2>7. ClusterInv
    BY <2>1, <2>2, <2>4, NoWorks DEF ClusterInv
  <2> QED BY <2>6, <2>7 DEF ClusterAll
<1>2. PoolsAll
  <2>1. PICK sole \in BOOLEAN, m \in {"live", "absent"} :
          np = [pool |-> Pool!NoNodePool, sole |-> sole] /\ rmp = [Pool!NoObject EXCEPT !.st = m]
    BY DEF Init, Pool!Init
  <2>2. rspec = [size |-> 1, version |-> 1] /\ pw = Pool!NoWork
    BY DEF Init, Pool!Init
  <2>3. np \in NodePools /\ np.pool.st = "none"
    BY <1>0, <2>1 DEF NodePools, Pool!NoNodePool, Pool!Sizes, Pool!Versions
  <2>4. rmp \in PoolObjects
    BY <2>1 DEF PoolObjects, Pool!NoObject
  <2>5. rspec \in Pool!Wanted
    BY <1>0, <2>2 DEF Pool!Wanted, Pool!Sizes, Pool!Versions
  <2> QED BY <2>2, <2>3, <2>4, <2>5, NoWorks DEF PoolsAll, PoolsType, PoolsInv
<1>3. NetworkAll
  <2>1. /\ stack = [n \in Networks |-> "none"] /\ nw = [n \in Networks |-> Network!NoWork]
        /\ net = [n \in Networks |->
                    [st |-> IF n \in shape \cap Networks THEN "live" ELSE "absent", loc |-> Network!NoLocal]]
        /\ cfStack = [st |-> "none", by |-> CHOOSE n \in Networks : TRUE]
    BY DEF Init, Network!Init, Network!None
  <2>2. "none" \in Network!StackStates
    BY DEF Network!StackStates, Network!None
  <2>3. (CHOOSE n \in Networks : TRUE) \in Networks
    BY ROSAAssumption
  <2>4. Network!NoLocal \in Network!Locals
    BY DEF Network!NoLocal, Network!Locals
  <2>5. \A n \in Networks : net[n] \in NetworkObjects /\ net[n].st \in {"live", "absent"}
    BY <2>1, <2>4 DEF NetworkObjects
  <2>6. NetworkType
    <3>1. stack \in [Networks -> Network!StackStates] /\ nw \in [Networks -> NetworkWorks]
      BY <2>1, <2>2, NoWorks
    <3>2. net \in [Networks -> NetworkObjects]
      BY <2>1, <2>5
    <3>3. cfStack \in [st: Network!StackStates, by: Networks]
      BY <2>1, <2>2, <2>3
    <3> QED BY <3>1, <3>2, <3>3 DEF NetworkType
  <2>7. NetworkInv
    <3>1. \A n \in Networks : stack[n] = "none" /\ nw[n] = Network!NoWork
      BY <2>1
    <3> QED BY <2>5, <3>1, NoWorks DEF NetworkInv, NetworkOk
  <2> QED BY <2>6, <2>7 DEF NetworkAll
<1>4. RolesAll
  <2> DEFINE st == IF "roles" \in shape THEN "live" ELSE "absent"
  <2>1. /\ iam = [acct |-> FALSE, prov |-> {}, op |-> 0] /\ oidc = {} /\ rw = Roles!NoWork
        /\ rc = [st |-> st, loc |-> Roles!NoLocal] /\ st \in {"live", "absent"}
    BY DEF Init, Roles!Init
  <2> HIDE DEF st
  <2>2. Roles!NoLocal \in RoleLocals
    BY DEF Roles!NoLocal, RoleLocals
  <2>3. IsFiniteSet(oidc)
    BY <2>1, FS_EmptySet
  <2>4. RolesType
    BY <2>1, <2>2, <2>3, NoWorks DEF RolesType
  <2>5. RolesInv
    BY <2>1, NoWorks DEF RolesInv, NoRoles, NoConfig
  <2> QED BY <2>4, <2>5 DEF RolesAll
<1> QED BY <1>1, <1>2, <1>3, <1>4 DEF ROSAInv

\* The controllers start over with nothing but what is stored.
LEMMA ROSACrash == ROSAInv /\ Crash => ROSAInv'
<1> SUFFICES ASSUME ROSAInv, Crash PROVE ROSAInv'
  OBVIOUS
<1>1. /\ nw' = [n \in Networks |-> Network!NoWork] /\ cw' = ControlPlane!NoWork
      /\ rw' = Roles!NoWork /\ pw' = Pool!NoWork /\ cfStack' = [cfStack EXCEPT !.st = "none"]
      /\ UNCHANGED <<stack, net, raced, iam, oidc, rc, ocm, spec, cp, access, np, rspec, rmp>>
  BY DEF Crash, Network!None
<1>2. ClusterAll'
  BY <1>1, NoWorks DEF ROSAInv, ClusterAll, ClusterType, ClusterInv
<1>3. PoolsAll'
  BY <1>1, NoWorks DEF ROSAInv, PoolsAll, PoolsType, PoolsInv
<1>4. NetworkAll'
  <2>1. NetworkType /\ NetworkInv
    BY DEF ROSAInv, NetworkAll
  <2>2. NetworkType'
    <3>1. "none" \in Network!StackStates
      BY DEF Network!StackStates, Network!None
    <3> QED BY <1>1, <2>1, <3>1, NoWorks DEF NetworkType
  <2>3. NetworkInv'
    BY <1>1, <2>1, NoWorks DEF NetworkInv, NetworkOk
  <2> QED BY <2>2, <2>3 DEF NetworkAll
<1>5. RolesAll'
  BY <1>1, NoWorks DEF ROSAInv, RolesAll, RolesType, RolesInv, NoRoles, NoConfig
<1> QED BY <1>2, <1>3, <1>4, <1>5 DEF ROSAInv

\* The steps of the control plane, of OCM with its cluster and of the user with it.
LEMMA ROSAClusterStep ==
    ASSUME ROSAInv, ControlPlaneWorker \/ ClusterProgress
    PROVE  ROSAInv'
<1>0. ClusterAll /\ PoolsAll /\ NetworkAll /\ RolesAll /\ ClusterType
  BY DEF ROSAInv, ClusterAll
<1>k. ASSUME ClusterAll', UNCHANGED <<networkVars, roleVars>>, UNCHANGED <<np, rspec, rmp, pw>>,
             ocm'.st = "none" => ocm.st = "none"
      PROVE  ROSAInv'
  BY <1>0, <1>k, OthersKept DEF ROSAInv
<1>1. CASE /\ \/ ControlPlane!Worker \/ ControlPlane!GetCluster(RolesReady)
              \/ ControlPlane!CreateCluster(NetworkReady)
           /\ UNCHANGED <<networkVars, roleVars, poolVars, shape, edits>>
  <2>1. ocm'.st = "none" => ocm.st = "none"
    BY <1>0, <1>1, ClusterStays
  <2>2. ClusterAll'
    <3>1. CASE ControlPlane!Worker
      BY <1>0, <3>1, ClusterStepStart, ClusterStepSpec, ClusterStepAccess, ClusterStepDelete
         DEF ControlPlane!Worker
    <3>2. CASE ControlPlane!GetCluster(RolesReady) \/ ControlPlane!CreateCluster(NetworkReady)
      BY <1>0, <3>2, ClusterStepSpec
    <3> QED BY <1>1, <3>1, <3>2
  <2> QED BY <1>1, <1>k, <2>1, <2>2 DEF poolVars
<1>2. CASE DeleteMachinePools /\ UNCHANGED <<networkVars, roleVars, shape, edits>>
  <2>1. PICK all \in BOOLEAN : ControlPlane!MachinePoolsDeleted(all)
    <3> DEFINE b == mp # "live"
    <3>1. b \in BOOLEAN
      OBVIOUS
    <3>2. ControlPlane!MachinePoolsDeleted(b) \/ ControlPlane!MachinePoolsDeleted(FALSE)
      BY <1>2 DEF DeleteMachinePools
    <3> HIDE DEF b
    <3> QED BY <3>1, <3>2
  <2>2. ClusterAll'
    BY <1>0, <2>1, ClusterStepDelete
  <2>3. UNCHANGED ocm
    BY <2>1 DEF ControlPlane!MachinePoolsDeleted
  <2> QED BY <1>2, <1>k, <2>2, <2>3 DEF DeleteMachinePools
<1>3. CASE ClusterProgress
  <2>1. /\ ControlPlane!Progress /\ UNCHANGED <<networkVars, roleVars, poolVars>>
        /\ ocm.st = "uninstalling" => np.pool.st = "none"
    BY <1>3 DEF ClusterProgress
  <2>2. ClusterAll'
    BY <1>0, <2>1, ClusterStepEnvironment
  <2>3. ocm'.st = "none" => ocm.st \in {"none", "uninstalling"}
    <3>1. ocm \in Clusters
      BY <1>0 DEF ClusterType
    <3> QED BY <2>1, <3>1 DEF ControlPlane!Progress, Clusters
  <2>4. PoolsAll'
    BY <1>0, <2>1, <2>3 DEF poolVars, PoolsAll, PoolsType, PoolsInv
  <2>5. NetworkAll' /\ RolesAll'
    BY <1>0, <2>1, OthersKept
  <2> QED BY <2>2, <2>4, <2>5 DEF ROSAInv
<1> QED BY <1>1, <1>2, <1>3 DEF ControlPlaneWorker

\* The steps of the node pools.
LEMMA ROSAPoolStep ==
    ASSUME ROSAInv, UNCHANGED <<networkVars, roleVars, cpVars>>,
           \/ Pool!PoolWorker \/ Pool!Sync \/ Pool!Progress \/ Pool!MachinePoolController
           \/ Pool!EditPool \/ Pool!DeletePool
    PROVE  ROSAInv'
<1>0. ClusterAll /\ PoolsAll /\ NetworkAll /\ RolesAll /\ ClusterType
  BY DEF ROSAInv, ClusterAll
<1>1. UNCHANGED ocm
  BY DEF cpVars
<1>2. PoolsAll'
  BY <1>0, <1>1, PoolsStepWorker, PoolsStepOther
<1>3. ClusterAll' /\ NetworkAll' /\ RolesAll'
  BY <1>0, OthersKept
<1> QED BY <1>2, <1>3 DEF ROSAInv

\* The steps of the networks.
LEMMA ROSANetworkStep ==
    ASSUME ROSAInv, UNCHANGED <<roleVars, cpVars, poolVars>>, NEW n \in Networks,
           Network!Worker(n) \/ Network!Progress(n) \/ Network!DeleteNetwork(n)
    PROVE  ROSAInv'
<1>0. ClusterAll /\ PoolsAll /\ NetworkAll /\ RolesAll
  BY DEF ROSAInv
<1>1. NetworkAll'
  BY <1>0, NetworkStepNormal, NetworkStepDelete DEF Network!Worker
<1>2. ClusterAll' /\ RolesAll'
  BY <1>0, OthersKept
<1>3. PoolsAll'
  BY <1>0, OthersKept DEF cpVars, poolVars
<1> QED BY <1>1, <1>2, <1>3 DEF ROSAInv

\* The steps of the roles.
LEMMA ROSARolesStep ==
    ASSUME ROSAInv, UNCHANGED <<networkVars, cpVars, poolVars>>, NEW used,
           Roles!Worker(used) \/ Roles!DeleteRoleConfig
    PROVE  ROSAInv'
<1>0. ClusterAll /\ PoolsAll /\ NetworkAll /\ RolesAll
  BY DEF ROSAInv
<1>1. RolesAll'
  BY <1>0, RolesStepStart, RolesStepOperator, RolesStepDelete, RolesStepStored DEF Roles!Worker
<1>2. ClusterAll' /\ NetworkAll'
  BY <1>0, OthersKept
<1>3. PoolsAll'
  BY <1>0, OthersKept DEF cpVars, poolVars
<1> QED BY <1>1, <1>2, <1>3 DEF ROSAInv

\* The user.
LEMMA ROSAUser == ROSAInv /\ User => ROSAInv'
<1> SUFFICES ASSUME ROSAInv, User PROVE ROSAInv'
  OBVIOUS
<1>1. CASE /\ ControlPlane!EditSpec \/ ControlPlane!DeleteControlPlane
           /\ UNCHANGED <<networkVars, roleVars, poolVars>>
  <2>0. ClusterAll /\ PoolsAll /\ NetworkAll /\ RolesAll
    BY DEF ROSAInv
  <2>1. ClusterAll'
    BY <1>1, <2>0, ClusterStepEnvironment
  <2>2. UNCHANGED ocm
    BY <1>1 DEF ControlPlane!EditSpec, ControlPlane!DeleteControlPlane
  <2>3. PoolsAll' /\ NetworkAll' /\ RolesAll'
    BY <1>1, <2>0, <2>2, OthersKept DEF poolVars
  <2> QED BY <2>1, <2>3 DEF ROSAInv
<1>2. CASE /\ Pool!EditPool \/ Pool!DeletePool
           /\ UNCHANGED <<networkVars, roleVars, cpVars>>
  BY <1>2, ROSAPoolStep
<1>3. CASE Roles!DeleteRoleConfig /\ UNCHANGED <<networkVars, cpVars, poolVars>>
  BY <1>3, ROSARolesStep
<1>4. CASE \E n \in Networks : Network!DeleteNetwork(n) /\ UNCHANGED <<roleVars, cpVars, poolVars>>
  BY <1>4, ROSANetworkStep
<1> QED BY <1>1, <1>2, <1>3, <1>4 DEF User

\* Every step keeps the invariant.
LEMMA ROSAStep == ROSAInv /\ [Next]_vars => ROSAInv'
<1> SUFFICES ASSUME ROSAInv, [Next]_vars PROVE ROSAInv'
  OBVIOUS
<1>1. ASSUME NEW n \in Networks, NetworkWorker(n) \/ StackProgress(n) PROVE ROSAInv'
  <2>1. /\ UNCHANGED <<roleVars, cpVars, poolVars>>
        /\ Network!Worker(n) \/ Network!Progress(n)
    BY <1>1 DEF NetworkWorker, StackProgress
  <2> QED BY <2>1, ROSANetworkStep
<1>2. CASE RoleWorker
  <2> DEFINE used == ocm.st # "none"
  <2>1. UNCHANGED <<networkVars, cpVars, poolVars>> /\ Roles!Worker(used)
    BY <1>2 DEF RoleWorker
  <2> HIDE DEF used
  <2> QED BY <2>1, ROSARolesStep
<1>3. CASE ControlPlaneWorker \/ ClusterProgress
  BY <1>3, ROSAClusterStep
<1>4. CASE PoolWorker \/ SyncNodePools \/ PoolProgress
  <2>1. /\ UNCHANGED <<networkVars, roleVars, cpVars>>
        /\ Pool!PoolWorker \/ Pool!Sync \/ Pool!Progress \/ Pool!MachinePoolController
    BY <1>4 DEF PoolWorker, SyncNodePools, PoolProgress
  <2> QED BY <2>1, ROSAPoolStep
<1>5. CASE Crash
  BY <1>5, ROSACrash
<1>6. CASE User
  BY <1>6, ROSAUser
<1>7. CASE UNCHANGED vars
  <2>1. UNCHANGED <<networkVars, roleVars, cpVars, poolVars>>
    BY <1>7 DEF vars
  <2> QED BY <2>1, OthersKept DEF ROSAInv, poolVars, cpVars
<1> QED BY <1>1, <1>2, <1>3, <1>4, <1>5, <1>6, <1>7 DEF Next

\* An object of a ROSA cluster that is gone left nothing behind: neither a cluster, a
\* node pool, a stack of a network that read its own state only, a role nor a recorded
\* OIDC configuration; and no admin user exists whose password is not stored.
THEOREM ROSADeleted == Spec => []NoOrphanROSA
<1>1. ROSAInv => NoOrphanROSA
  <2> SUFFICES ASSUME ROSAInv PROVE NoOrphanROSA
    OBVIOUS
  <2>0. ClusterInv /\ PoolsInv /\ NetworkInv /\ RolesInv
    BY DEF ROSAInv, ClusterAll, PoolsAll, NetworkAll, RolesAll
  <2>1. cp.st = "gone" => ocm.st = "none" /\ np.pool.st = "none"
    BY <2>0 DEF ClusterInv, PoolsInv
  <2>2. ASSUME NEW n \in Networks, net[n].st = "gone", n \notin raced PROVE stack[n] = "none"
    BY <2>0, <2>2 DEF NetworkInv, NetworkOk
  <2>3. rc.st = "gone" => ~iam.acct /\ iam.op = 0 /\ rc.loc.id \notin oidc \cup iam.prov
    BY <2>0 DEF RolesInv, NoRoles, NoConfig
  <2>4. ocm.adm # "none" => access.pw
    BY <2>0 DEF ClusterInv
  <2> QED BY <2>1, <2>2, <2>3, <2>4 DEF NoOrphanROSA, Network!None
<1> QED BY <1>1, ROSAInit, ROSAStep, PTL DEF Spec
=============================================================================

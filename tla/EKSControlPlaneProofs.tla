----------------------- MODULE EKSControlPlaneProofs ------------------------
(***************************************************************************)
(* That a deleted AWSManagedControlPlane leaves nothing behind             *)
(* (NoOrphanEKS), for any add-ons, principals, versions, edits and faults. *)
(* The finalizer is stored before anything is created and leaves memory    *)
(* when the cluster, the role and the provider are gone (FinalizerInv,     *)
(* DeletionInv); and while no patch was lost, memory or the stored object  *)
(* names the role there is and, unless the answer that would have named it *)
(* was lost, the provider (NamesInv).                                      *)
(***************************************************************************)
EXTENDS EKSControlPlane, TLAPS

-----------------------------------------------------------------------------
(* The inductive invariant *)

\* The steps of reconcileNormal past the finalizer, and those of reconcileDelete.
NormalLabels ==
    {"role", "describe", "create", "setStatus", "wait", "version", "vpc", "auth", "entries",
     "logging", "encryption", "updating", "oidc", "oidcPatch", "trust", "addons", "procedure",
     "addonStatus", "idp"}
DeleteLabels == {"delCluster", "waitDeleted", "delRole", "delOIDC", "delOIDCPatch", "finish"}
Labels == {"idle", "finalizer", "close"} \cup NormalLabels \cup DeleteLabels

\* Records with these fields; what the other fields hold does not matter here.
IsLocal(x) ==
    /\ x = [fin |-> x.fin, role |-> x.role, arn |-> x.arn, ready |-> x.ready, addons |-> x.addons]
    /\ x.fin \in BOOLEAN /\ x.role \in BOOLEAN /\ x.arn \in BOOLEAN
IsWork(x) ==
    /\ x = [pc |-> x.pc, spec |-> x.spec, loc |-> x.loc, seen |-> x.seen, next |-> x.next,
            names |-> x.names, plan |-> x.plan]
    /\ x.pc \in Labels /\ IsLocal(x.loc)
IsObject(x) ==
    x = [st |-> x.st, loc |-> x.loc] /\ x.st \in {"live", "deleting", "gone"} /\ IsLocal(x.loc)
IsCluster(x) == x = [st |-> x.st, version |-> x.version, on |-> x.on, upd |-> x.upd]

\* The types, and where WaitUntilClusterUpdating leads.
FieldsInv ==
    /\ IsWork(w) /\ IsObject(obj) /\ IsCluster(eks)
    /\ role \in BOOLEAN /\ provider \in BOOLEAN /\ lost \in BOOLEAN /\ unanswered \in BOOLEAN
    /\ w.pc = "updating" => w.next \in {"vpc", "auth", "entries", "encryption", "oidc"}

\* What NoOrphanEKS asks for.
Clean == eks.st = "none" /\ (~lost => ~role /\ (spec.oidc /\ ~unanswered => ~provider))

\* Nothing exists before the finalizer is stored, nor when it leaves.
FinalizerInv ==
    /\ obj.st = "gone" => Clean
    /\ obj.st # "gone" /\ ~obj.loc.fin =>
         obj.st = "live" /\ eks.st = "none" /\ ~role /\ ~provider
    /\ ~obj.loc.fin \/ obj.st = "gone" => w.pc \in {"idle", "finalizer", "close"}
    /\ w.pc \in NormalLabels \cup DeleteLabels => w.loc.fin
    /\ w.pc = "close" /\ ~w.loc.fin => obj.st = "deleting" /\ Clean

\* The copy the next call or the next reconcile works with names what exists.
Copy == IF w.pc = "idle" THEN obj.loc ELSE w.loc
NamesInv == ~lost /\ obj.st # "gone" => (role => Copy.role) /\ (provider /\ ~unanswered => Copy.arn)

\* reconcileDelete: what the calls it has passed have deleted.  Nobody edits the spec of
\* an object in deletion.
DeletionInv ==
    /\ w.pc \in DeleteLabels => obj.st = "deleting" /\ w.spec.oidc = spec.oidc
    /\ w.pc \in {"delRole", "delOIDC", "delOIDCPatch", "finish"} => eks.st = "none"
    /\ w.pc \in {"delOIDC", "delOIDCPatch", "finish"} /\ ~lost => ~role
    /\ w.pc = "finish" /\ ~lost /\ spec.oidc /\ ~unanswered => ~provider
    /\ w.pc = "delOIDCPatch" => ~provider

\* All of it.
EKSInv == FieldsInv /\ FinalizerInv /\ NamesInv /\ DeletionInv

-----------------------------------------------------------------------------
(* Records *)

\* A field of a copy is set.
LEMMA LocalSet ==
    ASSUME NEW x, IsLocal(x), NEW b \in BOOLEAN
    PROVE  /\ IsLocal([x EXCEPT !.fin = b]) /\ [x EXCEPT !.fin = b].fin = b
           /\ [x EXCEPT !.fin = b].role = x.role /\ [x EXCEPT !.fin = b].arn = x.arn
           /\ IsLocal([x EXCEPT !.role = b]) /\ [x EXCEPT !.role = b].fin = x.fin
           /\ [x EXCEPT !.role = b].role = b /\ [x EXCEPT !.role = b].arn = x.arn
           /\ IsLocal([x EXCEPT !.arn = b]) /\ [x EXCEPT !.arn = b].fin = x.fin
           /\ [x EXCEPT !.arn = b].role = x.role /\ [x EXCEPT !.arn = b].arn = b
  BY DEF IsLocal

\* What does not concern the finalizer, the role and the provider.
LEMMA LocalKept ==
    ASSUME NEW x, IsLocal(x), NEW v
    PROVE  /\ IsLocal([x EXCEPT !.ready = v]) /\ [x EXCEPT !.ready = v].fin = x.fin
           /\ [x EXCEPT !.ready = v].role = x.role /\ [x EXCEPT !.ready = v].arn = x.arn
           /\ IsLocal([x EXCEPT !.addons = v]) /\ [x EXCEPT !.addons = v].fin = x.fin
           /\ [x EXCEPT !.addons = v].role = x.role /\ [x EXCEPT !.addons = v].arn = x.arn
  BY DEF IsLocal

\* The worker moves on.
LEMMA WorkGoto ==
    ASSUME IsWork(w), NEW l \in Labels, Goto(l)
    PROVE  IsWork(w') /\ w'.pc = l /\ w'.loc = w.loc /\ w'.spec = w.spec
  BY DEF IsWork, Goto

\* The worker moves on with a copy.
LEMMA WorkSets ==
    ASSUME IsWork(w), NEW l \in Labels, NEW x, IsLocal(x), w' = [w EXCEPT !.loc = x, !.pc = l]
    PROVE  IsWork(w') /\ w'.pc = l /\ w'.loc = x /\ w'.spec = w.spec
  BY DEF IsWork

\* No reconcile runs.
LEMMA Idle == IsWork(NoWork) /\ NoWork.pc = "idle"
<1>1. IsLocal(NoLocal)
  BY DEF IsLocal, NoLocal
<1>2. "idle" \in Labels
  BY DEF Labels
<1> HIDE DEF Labels
<1> QED BY <1>1, <1>2 DEF IsWork, NoWork

\* PatchObject stores the copy, or the reconcile ends with a patch lost.
LEMMA Patched ==
    ASSUME IsWork(w), IsObject(obj), NEW l \in Labels, NEW x, IsLocal(x), PatchObject(x, l)
    PROVE  /\ IsWork(w') /\ IsObject(obj') /\ w'.loc = x /\ w'.spec = w.spec /\ obj'.st = obj.st
           /\ \/ w'.pc = l /\ obj'.loc = x /\ lost' = lost /\ obj.st # "gone"
              \/ w'.pc = "close" /\ obj' = obj /\ lost' = TRUE
<1>0. "close" \in Labels
  BY DEF Labels
<1>1. CASE /\ obj.st # "gone" /\ obj' = [obj EXCEPT !.loc = x] /\ UNCHANGED lost
           /\ w' = [w EXCEPT !.loc = x, !.pc = l]
  <2>1. IsObject(obj') /\ obj'.st = obj.st /\ obj'.loc = x
    BY <1>1 DEF IsObject
  <2> QED BY <1>1, <2>1, WorkSets
<1>2. CASE w' = [w EXCEPT !.loc = x, !.pc = "close"] /\ lost' = TRUE /\ UNCHANGED obj
  BY <1>0, <1>2, WorkSets
<1> QED BY <1>1, <1>2 DEF PatchObject

-----------------------------------------------------------------------------
(* reconcileNormal *)

\* A step past the finalizer that stores nothing: it forgets no name, and what it creates
\* it names.
LEMMA NormalStep ==
    ASSUME EKSInv, w.pc \in NormalLabels, UNCHANGED <<obj, lost, spec>>, IsWork(w'),
           IsCluster(eks'), role' \in BOOLEAN, provider' \in BOOLEAN, unanswered' \in BOOLEAN,
           w'.pc \in NormalLabels \cup {"close"}, w'.loc.fin = w.loc.fin,
           w'.pc = "updating" => w'.next \in {"vpc", "auth", "entries", "encryption", "oidc"},
           w.loc.role => w'.loc.role, w.loc.arn => w'.loc.arn,
           role' = role \/ w'.loc.role,
           \/ provider' = provider /\ unanswered' = unanswered
           \/ w'.loc.arn \/ unanswered'
    PROVE  EKSInv'
<1>1. /\ FieldsInv /\ FinalizerInv /\ NamesInv /\ IsObject(obj) /\ lost \in BOOLEAN
      /\ w.pc \notin {"idle", "finalizer", "close"} \cup DeleteLabels
      /\ w'.pc \notin {"idle", "finalizer"} \cup DeleteLabels
  BY DEF EKSInv, FieldsInv, NormalLabels, DeleteLabels
<1>2. w.loc.fin /\ obj.loc.fin /\ obj.st # "gone"
  BY <1>1 DEF FinalizerInv
<1>3. FieldsInv'
  BY <1>1 DEF FieldsInv
<1>4. FinalizerInv'
  BY <1>1, <1>2 DEF FinalizerInv
<1>5. NamesInv'
  BY <1>1, <1>2 DEF NamesInv, Copy
<1>6. DeletionInv'
  BY <1>1 DEF DeletionInv, DeleteLabels
<1> QED BY <1>3, <1>4, <1>5, <1>6 DEF EKSInv

\* A step past the finalizer that only moves the worker.
LEMMA NormalGoto ==
    ASSUME EKSInv, w.pc \in NormalLabels, UNCHANGED <<obj, lost, unanswered, spec, role, provider>>,
           IsCluster(eks'), NEW l \in (NormalLabels \ {"updating"}) \cup {"close"}, Goto(l)
    PROVE  EKSInv'
<1>1. l \in Labels /\ IsWork(w) /\ role \in BOOLEAN /\ provider \in BOOLEAN
      /\ unanswered \in BOOLEAN
  BY DEF Labels, EKSInv, FieldsInv
<1>2. IsWork(w') /\ w'.pc = l /\ w'.loc = w.loc
  BY <1>1, WorkGoto
<1> QED BY <1>1, <1>2, NormalStep

\* A step past the finalizer that stores the copy, with the names in it.
LEMMA NormalPatch ==
    ASSUME EKSInv, w.pc \in NormalLabels, UNCHANGED <<eks, role, provider, unanswered, spec>>,
           NEW l \in NormalLabels \ {"updating"}, NEW x, IsLocal(x), PatchObject(x, l),
           x.fin = w.loc.fin, x.role = w.loc.role, x.arn = w.loc.arn
    PROVE  EKSInv'
<1>1. /\ FieldsInv /\ FinalizerInv /\ NamesInv /\ IsWork(w) /\ IsObject(obj) /\ lost \in BOOLEAN
      /\ w.pc \notin {"idle", "finalizer", "close"} \cup DeleteLabels
      /\ l \notin {"idle", "finalizer", "close", "updating"} \cup DeleteLabels /\ l \in Labels
  BY DEF EKSInv, FieldsInv, NormalLabels, DeleteLabels, Labels
<1>2. w.loc.fin /\ obj.loc.fin /\ obj.st # "gone"
  BY <1>1 DEF FinalizerInv
<1>3. /\ IsWork(w') /\ IsObject(obj') /\ w'.loc = x /\ obj'.st = obj.st
      /\ \/ w'.pc = l /\ obj'.loc = x /\ lost' = lost
         \/ w'.pc = "close" /\ obj' = obj /\ lost' = TRUE
  BY <1>1, Patched
<1>4. FieldsInv'
  BY <1>1, <1>3 DEF FieldsInv
<1>5. FinalizerInv'
  BY <1>1, <1>2, <1>3 DEF FinalizerInv
<1>6. NamesInv'
  BY <1>1, <1>2, <1>3 DEF NamesInv, Copy
<1>7. DeletionInv'
  BY <1>1, <1>3 DEF DeletionInv, DeleteLabels
<1> QED BY <1>4, <1>5, <1>6, <1>7 DEF EKSInv

\* Reconcile begins: with the finalizer, or with reconcileDelete.
LEMMA StepStart ==
    ASSUME EKSInv, Start \/ AddFinalizer
    PROVE  EKSInv'
<1>0. /\ FieldsInv /\ FinalizerInv /\ NamesInv /\ DeletionInv
      /\ IsWork(w) /\ IsObject(obj) /\ IsLocal(w.loc) /\ IsLocal(obj.loc) /\ lost \in BOOLEAN
      /\ obj.st \in {"live", "deleting", "gone"} /\ obj.loc.fin \in BOOLEAN
  BY DEF EKSInv, FieldsInv, IsWork, IsObject, IsLocal
<1> USE DEF NormalLabels, DeleteLabels
<1>1. CASE Start
  <2> DEFINE l == FirstStep(obj)
  <2>1. /\ w.pc = "idle" /\ obj.st # "gone"
        /\ w' = [NoWork EXCEPT !.pc = l, !.spec = spec, !.loc = obj.loc]
        /\ UNCHANGED <<eks, role, provider, spec, obj, lost, unanswered>>
    BY <1>1 DEF Start, history, awsVars
  <2>2. /\ obj.st = "deleting" => l = "delCluster"
        /\ obj.st # "deleting" => l = IF obj.loc.fin THEN "role" ELSE "finalizer"
    BY DEF FirstStep
  <2>3. l \in Labels
    BY <2>2 DEF Labels
  <2> HIDE DEF l
  <2>4. IsWork(w') /\ w'.pc = l /\ w'.spec = spec /\ w'.loc = obj.loc
    BY <1>0, <2>1, <2>3 DEF IsWork, NoWork
  <2>5. FieldsInv'
    BY <1>0, <2>1, <2>2, <2>4 DEF FieldsInv
  <2>6. FinalizerInv'
    BY <1>0, <2>1, <2>2, <2>4 DEF FinalizerInv, Clean
  <2>7. NamesInv'
    BY <1>0, <2>1, <2>2, <2>4 DEF NamesInv, Copy
  <2>8. DeletionInv'
    BY <1>0, <2>1, <2>2, <2>4 DEF DeletionInv
  <2> QED BY <2>5, <2>6, <2>7, <2>8 DEF EKSInv
<1>2. CASE AddFinalizer
  <2> DEFINE x == [w.loc EXCEPT !.fin = TRUE]
  <2>1. w.pc = "finalizer" /\ PatchObject(x, "role") /\ UNCHANGED <<eks, role, provider, unanswered, spec>>
    BY <1>2 DEF AddFinalizer, awsVars
  <2>2. IsLocal(x) /\ x.fin = TRUE /\ x.role = w.loc.role /\ x.arn = w.loc.arn
    BY <1>0, LocalSet
  <2> HIDE DEF x
  <2>3. /\ IsWork(w') /\ IsObject(obj') /\ w'.loc = x /\ obj'.st = obj.st
        /\ \/ w'.pc = "role" /\ obj'.loc = x /\ lost' = lost /\ obj.st # "gone"
           \/ w'.pc = "close" /\ obj' = obj /\ lost' = TRUE
    <3>1. "role" \in Labels
      BY DEF Labels
    <3> QED BY <1>0, <2>1, <2>2, <3>1, Patched
  <2>5. FieldsInv'
    BY <1>0, <2>1, <2>3 DEF FieldsInv
  <2>6. FinalizerInv'
    BY <1>0, <2>1, <2>2, <2>3 DEF FinalizerInv, Clean
  <2>7. NamesInv'
    BY <1>0, <2>1, <2>2, <2>3 DEF NamesInv, Copy
  <2>8. DeletionInv'
    BY <2>3 DEF DeletionInv
  <2> QED BY <2>5, <2>6, <2>7, <2>8 DEF EKSInv
<1> QED BY <1>1, <1>2

\* The role and the cluster: described, created and waited for.
LEMMA StepCluster ==
    ASSUME EKSInv,
           \/ ReconcileRole \/ DescribeCluster \/ CreateCluster \/ SetStatus \/ WaitForClusterActive
    PROVE  EKSInv'
<1>0. /\ IsWork(w) /\ IsLocal(w.loc) /\ IsCluster(eks) /\ role \in BOOLEAN /\ provider \in BOOLEAN
      /\ unanswered \in BOOLEAN
      /\ w.loc.role \in BOOLEAN /\ w.loc.arn \in BOOLEAN
  BY DEF EKSInv, FieldsInv, IsWork, IsLocal
<1> USE DEF NormalLabels
<1>l. NormalLabels \cup {"close"} \subseteq Labels
  BY DEF Labels
<1>1. CASE ReconcileRole
  <2> DEFINE x == [w.loc EXCEPT !.role = TRUE]
  <2>1. PICK l \in {"describe", "close"} :
          /\ w' = [w EXCEPT !.loc = x, !.pc = l] /\ w.pc = "role" /\ role' \in {role, TRUE}
          /\ UNCHANGED <<eks, provider, spec, obj, lost, unanswered>>
    BY <1>0, <1>1 DEF ReconcileRole, history, IsWork
  <2>2. IsLocal(x) /\ x.fin = w.loc.fin /\ x.role = TRUE /\ x.arn = w.loc.arn
    BY <1>0, LocalSet
  <2> HIDE DEF x
  <2>3. IsWork(w') /\ w'.pc = l /\ w'.loc = x
    BY <1>0, <1>l, <2>1, <2>2, WorkSets
  <2>4. role' \in BOOLEAN /\ IsCluster(eks') /\ provider' = provider /\ w.pc \in NormalLabels
    BY <1>0, <2>1
  <2> QED BY <1>0, <2>1, <2>2, <2>3, <2>4, NormalStep
<1>2. CASE DescribeCluster \/ WaitForClusterActive
  <2>1. /\ w.pc \in NormalLabels /\ UNCHANGED <<eks, role, provider, spec, obj, lost, unanswered>>
        /\ \/ \E l \in {"create", "setStatus"} : w' = [w EXCEPT !.seen = eks, !.pc = l]
           \/ Goto("close")
    BY <1>2 DEF DescribeCluster, history, WaitForClusterActive, Fails, awsVars
  <2>2. IsCluster(eks')
    BY <1>0, <2>1
  <2>3. CASE Goto("close")
    BY <2>1, <2>2, <2>3, NormalGoto
  <2>4. CASE \E l \in {"create", "setStatus"} : w' = [w EXCEPT !.seen = eks, !.pc = l]
    <3>1. IsWork(w') /\ w'.pc \in {"create", "setStatus"} /\ w'.loc = w.loc
      BY <1>0, <1>l, <2>4 DEF IsWork
    <3> QED BY <1>0, <2>1, <2>2, <3>1, NormalStep
  <2> QED BY <2>1, <2>3, <2>4
<1>3. CASE CreateCluster
  <2> DEFINE c == [st |-> "CREATING", version |-> w.spec.version, on |-> w.spec.on, upd |-> "none"]
  <2>1. /\ w.pc = "create" /\ UNCHANGED <<role, provider, spec, obj, lost, unanswered>>
        /\ eks' = c \/ eks' = eks
        /\ w' = [w EXCEPT !.seen = eks', !.pc = "setStatus"] \/ Goto("close")
    BY <1>3 DEF CreateCluster, history, Fails, None
  <2>2. IsCluster(eks')
    <3>1. IsCluster(c)
      BY DEF IsCluster
    <3> HIDE DEF c
    <3> QED BY <1>0, <2>1, <3>1
  <2>3. CASE Goto("close")
    BY <2>1, <2>2, <2>3, NormalGoto
  <2>4. CASE w' = [w EXCEPT !.seen = eks', !.pc = "setStatus"]
    <3>1. IsWork(w') /\ w'.pc = "setStatus" /\ w'.loc = w.loc
      BY <1>0, <1>l, <2>4 DEF IsWork
    <3> QED BY <1>0, <2>1, <2>2, <3>1, NormalStep
  <2> QED BY <2>1, <2>3, <2>4
<1>4. CASE SetStatus
  <2> DEFINE x == [w.loc EXCEPT !.ready = ReadyIn(w.seen.st)]
  <2>1. PICK l \in {"wait", "version", "addons"} :
          w.pc = "setStatus" /\ PatchObject(x, l) /\ UNCHANGED <<eks, role, provider, unanswered, spec>>
    BY <1>4 DEF SetStatus, awsVars
  <2>2. IsLocal(x) /\ x.fin = w.loc.fin /\ x.role = w.loc.role /\ x.arn = w.loc.arn
    <3> DEFINE b == ReadyIn(w.seen.st)
    <3> HIDE DEF b
    <3>1. /\ IsLocal([w.loc EXCEPT !.ready = b]) /\ [w.loc EXCEPT !.ready = b].fin = w.loc.fin
          /\ [w.loc EXCEPT !.ready = b].role = w.loc.role /\ [w.loc EXCEPT !.ready = b].arn = w.loc.arn
      BY <1>0, LocalKept
    <3> QED BY <3>1 DEF b
  <2> HIDE DEF x
  <2> QED BY <2>1, <2>2, NormalPatch
<1> QED BY <1>1, <1>2, <1>3, <1>4

\* The updates of the cluster and the access entries.
LEMMA StepUpdate ==
    ASSUME EKSInv,
           \/ \E a \in DOMAIN NextStep : ReconcileUpdate(a)
           \/ WaitUntilClusterUpdating \/ ReconcileAccessEntries
    PROVE  EKSInv'
<1>0. /\ IsWork(w) /\ IsCluster(eks) /\ role \in BOOLEAN /\ provider \in BOOLEAN
      /\ unanswered \in BOOLEAN
      /\ w.pc = "updating" => w.next \in {"vpc", "auth", "entries", "encryption", "oidc"}
  BY DEF EKSInv, FieldsInv
<1> USE DEF NormalLabels
<1>l. NormalLabels \cup {"close"} \subseteq Labels
  BY DEF Labels
<1>1. ASSUME NEW a \in DOMAIN NextStep, ReconcileUpdate(a) PROVE EKSInv'
  <2> DEFINE n == NextStep[a]
  <2>0. /\ a \in {"version", "vpc", "auth", "logging", "encryption"}
        /\ n \in {"vpc", "auth", "entries", "encryption", "oidc"}
    BY DEF NextStep
  <2> HIDE DEF n
  <2>1. /\ w.pc = a /\ UNCHANGED <<role, provider, spec, obj, lost, unanswered>>
        /\ eks' = eks \/ eks' = [eks EXCEPT !.upd = a]
        /\ \/ Goto(n) \/ Goto("close")
           \/ w' = [w EXCEPT !.pc = "updating", !.next = n]
    BY <1>1 DEF ReconcileUpdate, history, Fails, Goto, n
  <2>2. IsCluster(eks')
    BY <1>0, <2>1 DEF IsCluster
  <2>3. CASE Goto(n) \/ Goto("close")
    BY <2>0, <2>1, <2>2, <2>3, NormalGoto
  <2>4. CASE w' = [w EXCEPT !.pc = "updating", !.next = n]
    <3>1. IsWork(w') /\ w'.pc = "updating" /\ w'.loc = w.loc /\ w'.next = n
      BY <1>0, <1>l, <2>4 DEF IsWork
    <3> QED BY <1>0, <2>0, <2>1, <2>2, <3>1, NormalStep
  <2> QED BY <2>1, <2>3, <2>4
<1>2. CASE WaitUntilClusterUpdating
  <2>1. /\ w.pc = "updating" /\ UNCHANGED <<eks, role, provider, spec, obj, lost, unanswered>>
        /\ Goto("close") \/ w' = [w EXCEPT !.pc = w.next, !.next = None]
    BY <1>2 DEF WaitUntilClusterUpdating, history, awsVars
  <2>2. CASE Goto("close")
    BY <1>0, <2>1, <2>2, NormalGoto
  <2>3. CASE w' = [w EXCEPT !.pc = w.next, !.next = None]
    <3> DEFINE n == w.next
    <3>0. n \in {"vpc", "auth", "entries", "encryption", "oidc"} /\ n \in Labels
      BY <1>0, <1>l, <2>1
    <3> HIDE DEF n
    <3>1. IsWork(w') /\ w'.pc = n /\ w'.loc = w.loc
      BY <1>0, <2>3, <3>0 DEF IsWork, n
    <3> QED BY <1>0, <2>1, <3>0, <3>1, NormalStep
  <2> QED BY <2>1, <2>2, <2>3
<1>3. CASE ReconcileAccessEntries
  <2>1. /\ w.pc = "entries" /\ UNCHANGED <<eks, role, provider, spec, obj, lost, unanswered>>
        /\ Goto("logging") \/ UNCHANGED w \/ Goto("close")
    BY <1>3 DEF ReconcileAccessEntries, history, Fails
  <2>2. CASE Goto("logging") \/ Goto("close")
    BY <1>0, <2>1, <2>2, NormalGoto
  <2>3. CASE UNCHANGED w
    BY <1>0, <2>1, <2>3, NormalStep
  <2> QED BY <2>1, <2>2, <2>3
<1> QED BY <1>1, <1>2, <1>3

\* The OIDC provider and the trust policy.
LEMMA StepOIDC ==
    ASSUME EKSInv, ReconcileOIDCProvider \/ StoreOIDCProvider \/ ReconcileTrustPolicy
    PROVE  EKSInv'
<1>0. /\ IsWork(w) /\ IsLocal(w.loc) /\ IsCluster(eks) /\ role \in BOOLEAN /\ provider \in BOOLEAN
      /\ unanswered \in BOOLEAN
  BY DEF EKSInv, FieldsInv, IsWork
<1> USE DEF NormalLabels
<1>l. NormalLabels \cup {"close"} \subseteq Labels
  BY DEF Labels
<1>1. CASE ReconcileOIDCProvider
  <2> DEFINE x == [w.loc EXCEPT !.arn = TRUE]
  <2>1. /\ w.pc = "oidc" /\ UNCHANGED <<eks, role, spec, obj, lost>>
        /\ \/ (Goto("addons") \/ Goto("close")) /\ UNCHANGED <<provider, unanswered>>
           \/ Goto("close") /\ provider' = TRUE /\ unanswered' = TRUE
           \/ /\ provider' = TRUE /\ unanswered' = FALSE
              /\ w' = [w EXCEPT !.loc = x, !.pc = "oidcPatch"]
    BY <1>0, <1>1 DEF ReconcileOIDCProvider, Fails, IsWork
  <2>2. IsLocal(x) /\ x.fin = w.loc.fin /\ x.role = w.loc.role /\ x.arn = TRUE
    BY <1>0, LocalSet
  <2> HIDE DEF x
  <2>3. CASE UNCHANGED <<provider, unanswered>> /\ (Goto("addons") \/ Goto("close"))
    BY <1>0, <2>1, <2>3, NormalGoto
  <2>4. CASE /\ provider' = TRUE /\ unanswered' = FALSE
             /\ w' = [w EXCEPT !.loc = x, !.pc = "oidcPatch"]
    <3>1. IsWork(w') /\ w'.pc = "oidcPatch" /\ w'.loc = x
      BY <1>0, <1>l, <2>2, <2>4, WorkSets
    <3>2. /\ provider' \in BOOLEAN /\ unanswered' \in BOOLEAN /\ w'.loc.arn
          /\ IsCluster(eks') /\ w.pc \in NormalLabels
      BY <1>0, <2>1, <2>2, <2>4, <3>1
    <3> QED BY <1>0, <2>1, <2>2, <3>1, <3>2, NormalStep
  <2>5. CASE Goto("close") /\ provider' = TRUE /\ unanswered' = TRUE
    <3>1. IsWork(w') /\ w'.pc = "close" /\ w'.loc = w.loc
      BY <1>0, <1>l, <2>5, WorkGoto
    <3>2. /\ provider' \in BOOLEAN /\ unanswered' \in BOOLEAN /\ unanswered'
          /\ IsCluster(eks') /\ w.pc \in NormalLabels
      BY <1>0, <2>1, <2>5
    <3> QED BY <1>0, <2>1, <3>1, <3>2, NormalStep
  <2> QED BY <2>1, <2>3, <2>4, <2>5
<1>2. CASE StoreOIDCProvider
  <2> DEFINE x == w.loc
  <2>1. w.pc = "oidcPatch" /\ PatchObject(x, "trust") /\ UNCHANGED <<eks, role, provider, unanswered, spec>>
    BY <1>2 DEF StoreOIDCProvider, awsVars
  <2> QED BY <1>0, <2>1, NormalPatch
<1>3. CASE ReconcileTrustPolicy
  <2>1. /\ w.pc = "trust" /\ UNCHANGED <<eks, role, provider, spec, obj, lost, unanswered>>
        /\ Goto("addons") \/ Goto("close")
    BY <1>3 DEF ReconcileTrustPolicy, history, Fails
  <2> QED BY <1>0, <2>1, NormalGoto
<1> QED BY <1>1, <1>2, <1>3

\* The add-ons and the identity provider.
LEMMA StepAddons ==
    ASSUME EKSInv,
           PlanAddons \/ DoProcedure \/ StoreAddonStatus \/ ReconcileIdentityProvider
    PROVE  EKSInv'
<1>0. /\ IsWork(w) /\ IsLocal(w.loc) /\ IsCluster(eks) /\ role \in BOOLEAN /\ provider \in BOOLEAN
      /\ unanswered \in BOOLEAN
  BY DEF EKSInv, FieldsInv, IsWork
<1> USE DEF NormalLabels
<1>l. NormalLabels \cup {"close"} \subseteq Labels
  BY DEF Labels
<1>1. CASE PlanAddons
  <2>1. /\ w.pc = "addons" /\ UNCHANGED <<eks, role, provider, spec, obj, lost, unanswered>>
        /\ \/ Goto("idp") \/ Goto("close")
           \/ w' = [w EXCEPT !.names = {a \in Addons : addon[a].v # 0},
                             !.plan = AddonPlan(w.spec.addons, addon), !.pc = "procedure"]
    BY <1>1 DEF PlanAddons, history, Fails, awsVars
  <2>2. CASE Goto("idp") \/ Goto("close")
    BY <1>0, <2>1, <2>2, NormalGoto
  <2>3. CASE w' = [w EXCEPT !.names = {a \in Addons : addon[a].v # 0},
                            !.plan = AddonPlan(w.spec.addons, addon), !.pc = "procedure"]
    <3> DEFINE s == {a \in Addons : addon[a].v # 0}
    <3> DEFINE q == AddonPlan(w.spec.addons, addon)
    <3>0. w' = [w EXCEPT !.names = s, !.plan = q, !.pc = "procedure"]
      BY <2>3
    <3> HIDE DEF s, q
    <3>1. IsWork(w') /\ w'.pc = "procedure" /\ w'.loc = w.loc
      BY <1>0, <1>l, <3>0 DEF IsWork
    <3> QED BY <1>0, <2>1, <3>1, NormalStep
  <2> QED BY <2>1, <2>2, <2>3
<1>2. CASE DoProcedure
  <2>1. /\ w.pc = "procedure" /\ UNCHANGED <<eks, role, provider, spec, obj, lost, unanswered>>
        /\ \/ Goto("addonStatus") \/ Goto("close")
           \/ w' = [w EXCEPT !.plan = Tail(w.plan)]
    BY <1>2 DEF DoProcedure, history, Fails
  <2>2. CASE Goto("addonStatus") \/ Goto("close")
    BY <1>0, <2>1, <2>2, NormalGoto
  <2>3. CASE w' = [w EXCEPT !.plan = Tail(w.plan)]
    <3> DEFINE q == Tail(w.plan)
    <3>0. w' = [w EXCEPT !.plan = q]
      BY <2>3
    <3> HIDE DEF q
    <3>1. IsWork(w') /\ w'.pc = w.pc /\ w'.loc = w.loc
      BY <1>0, <3>0 DEF IsWork
    <3> QED BY <1>0, <2>1, <3>1, NormalStep
  <2> QED BY <2>1, <2>2, <2>3
<1>3. CASE StoreAddonStatus
  <2> DEFINE s == [a \in Addons |-> IF a \in w.names THEN addon[a].v ELSE 0]
  <2> DEFINE x == [w.loc EXCEPT !.addons = s]
  <2>1. /\ w.pc = "addonStatus" /\ UNCHANGED <<eks, role, provider, unanswered, spec>>
        /\ \/ Goto("close") /\ UNCHANGED <<obj, lost, unanswered>>
           \/ PatchObject(x, "idp")
    BY <1>3 DEF StoreAddonStatus, awsVars
  <2>2. IsLocal(x) /\ x.fin = w.loc.fin /\ x.role = w.loc.role /\ x.arn = w.loc.arn
    <3> HIDE DEF s
    <3> QED BY <1>0 DEF IsLocal
  <2> HIDE DEF x
  <2>3. CASE Goto("close") /\ UNCHANGED <<obj, lost, unanswered>>
    BY <1>0, <2>1, <2>3, NormalGoto
  <2>4. CASE PatchObject(x, "idp")
    BY <2>1, <2>2, <2>4, NormalPatch
  <2> QED BY <2>1, <2>3, <2>4
<1>4. CASE ReconcileIdentityProvider
  <2>1. /\ w.pc = "idp" /\ UNCHANGED <<eks, role, provider, spec, obj, lost, unanswered>> /\ Goto("close")
    BY <1>4 DEF ReconcileIdentityProvider, history, Fails
  <2> QED BY <1>0, <2>1, NormalGoto
<1> QED BY <1>1, <1>2, <1>3, <1>4

-----------------------------------------------------------------------------
(* reconcileDelete *)

\* A step of reconcileDelete that stores nothing and keeps the copy.
LEMMA DeleteGoto ==
    ASSUME EKSInv, w.pc \in DeleteLabels, UNCHANGED <<obj, lost, unanswered, spec>>,
           IsCluster(eks'), role' \in BOOLEAN, provider' \in BOOLEAN,
           NEW l \in DeleteLabels \cup {"close"}, Goto(l),
           role' => role, provider' => provider,
           l \in {"delRole", "delOIDC", "delOIDCPatch", "finish"} => eks'.st = "none",
           l \in {"delOIDC", "delOIDCPatch", "finish"} /\ ~lost => ~role',
           l = "finish" /\ ~lost /\ spec.oidc /\ ~unanswered => ~provider',
           l = "delOIDCPatch" => ~provider'
    PROVE  EKSInv'
<1>1. /\ FieldsInv /\ FinalizerInv /\ NamesInv /\ DeletionInv /\ IsWork(w) /\ IsObject(obj)
      /\ lost \in BOOLEAN /\ w.pc \notin {"idle", "finalizer", "close"} \cup NormalLabels
      /\ l \notin {"idle", "finalizer"} \cup NormalLabels /\ l \in Labels
  BY DEF EKSInv, FieldsInv, NormalLabels, DeleteLabels, Labels
<1>2. w.loc.fin /\ obj.loc.fin /\ obj.st = "deleting" /\ w.spec.oidc = spec.oidc
  BY <1>1 DEF FinalizerInv, DeletionInv
<1>3. IsWork(w') /\ w'.pc = l /\ w'.loc = w.loc /\ w'.spec = w.spec
  BY <1>1, WorkGoto
<1>4. FieldsInv'
  BY <1>1, <1>3 DEF FieldsInv, NormalLabels
<1>5. FinalizerInv'
  BY <1>1, <1>2, <1>3 DEF FinalizerInv
<1>6. NamesInv'
  BY <1>1, <1>2, <1>3 DEF NamesInv, Copy
<1>7. DeletionInv'
  BY <1>2, <1>3 DEF DeletionInv
<1> QED BY <1>4, <1>5, <1>6, <1>7 DEF EKSInv

\* The calls of reconcileDelete.
LEMMA StepDelete ==
    ASSUME EKSInv,
           DeleteCluster \/ WaitUntilClusterDeleted \/ DeleteRole \/ DeleteOIDCProvider
    PROVE  EKSInv'
<1>0. /\ IsCluster(eks) /\ IsWork(w) /\ role \in BOOLEAN /\ provider \in BOOLEAN /\ lost \in BOOLEAN
      /\ unanswered \in BOOLEAN /\ NamesInv /\ DeletionInv /\ w.loc.role \in BOOLEAN /\ w.loc.arn \in BOOLEAN
  BY DEF EKSInv, FieldsInv, IsWork, IsLocal
<1>d. w.pc \in DeleteLabels => obj.st = "deleting" /\ w.spec.oidc = spec.oidc /\ Copy = w.loc
  BY <1>0 DEF DeletionInv, Copy, DeleteLabels
<1> USE DEF DeleteLabels
<1>1. CASE DeleteCluster
  <2>1. /\ w.pc = "delCluster" /\ UNCHANGED <<role, provider, spec, obj, lost, unanswered>>
        /\ \/ eks.st = "none" /\ Goto("delRole") /\ UNCHANGED eks
           \/ eks' = [eks EXCEPT !.st = "DELETING"] /\ (Goto("waitDeleted") \/ Goto("close"))
           \/ Goto("close") /\ UNCHANGED eks
    BY <1>1 DEF DeleteCluster, history, Fails, Absent, None
  <2>2. IsCluster(eks')
    BY <1>0, <2>1 DEF IsCluster
  <2>3. CASE eks.st = "none" /\ Goto("delRole") /\ UNCHANGED eks
    BY <1>0, <2>1, <2>2, <2>3, DeleteGoto
  <2>4. CASE Goto("waitDeleted") \/ Goto("close")
    BY <1>0, <2>1, <2>2, <2>4, DeleteGoto
  <2> QED BY <2>1, <2>3, <2>4
<1>2. CASE WaitUntilClusterDeleted
  <2>1. /\ w.pc = "waitDeleted" /\ UNCHANGED <<eks, role, provider, spec, obj, lost, unanswered>>
        /\ (eks.st = "none" /\ Goto("delRole")) \/ Goto("close")
    BY <1>2 DEF WaitUntilClusterDeleted, history, awsVars, None
  <2> QED BY <1>0, <2>1, DeleteGoto
<1>3. CASE DeleteRole
  <2>1. /\ w.pc = "delRole" /\ UNCHANGED <<eks, provider, spec, obj, lost, unanswered>>
        /\ \/ role' = (role /\ ~w.loc.role) /\ Goto("delOIDC")
           \/ Goto("close") /\ (UNCHANGED role \/ role' = FALSE)
    BY <1>3 DEF DeleteRole, history, Fails
  <2>2. eks.st = "none"
    BY <1>0, <2>1 DEF DeletionInv
  <2>3. CASE role' = (role /\ ~w.loc.role) /\ Goto("delOIDC")
    <3>1. role' \in BOOLEAN /\ (role' => role) /\ (role' => ~w.loc.role)
      BY <2>3
    <3>2. ~lost => ~role'
      BY <1>0, <1>d, <2>1, <3>1 DEF NamesInv
    <3> QED BY <1>0, <2>1, <2>2, <2>3, <3>1, <3>2, DeleteGoto
  <2>4. CASE Goto("close") /\ (UNCHANGED role \/ role' = FALSE)
    <3>1. role' \in BOOLEAN /\ (role' => role)
      <4>1. CASE UNCHANGED role
        BY <1>0, <4>1
      <4>2. CASE role' = FALSE
        BY <4>2
      <4> QED BY <2>4, <4>1, <4>2
    <3> QED BY <1>0, <2>1, <2>4, <3>1, DeleteGoto
  <2> QED BY <2>1, <2>3, <2>4
<1>4. CASE DeleteOIDCProvider
  <2>1. /\ w.pc = "delOIDC" /\ UNCHANGED <<eks, role, spec, obj, lost, unanswered>>
        /\ \/ ~(w.spec.oidc /\ w.loc.arn) /\ Goto("finish") /\ UNCHANGED provider
           \/ provider' = FALSE /\ Goto("delOIDCPatch")
           \/ Goto("close") /\ (UNCHANGED provider \/ provider' = FALSE)
    BY <1>4 DEF DeleteOIDCProvider, history, Fails
  <2>2. eks.st = "none" /\ (~lost => ~role)
    BY <1>0, <2>1 DEF DeletionInv
  <2>3. CASE ~(w.spec.oidc /\ w.loc.arn) /\ Goto("finish") /\ UNCHANGED provider
    <3>1. ~lost /\ spec.oidc /\ ~unanswered => ~provider
      BY <1>0, <1>d, <2>1, <2>3 DEF NamesInv
    <3> QED BY <1>0, <2>1, <2>2, <2>3, <3>1, DeleteGoto
  <2>4. CASE provider' = FALSE /\ Goto("delOIDCPatch")
    <3>1. provider' \in BOOLEAN /\ ~provider'
      BY <2>4
    <3> QED BY <1>0, <2>1, <2>2, <2>4, <3>1, DeleteGoto
  <2>5. CASE Goto("close") /\ (UNCHANGED provider \/ provider' = FALSE)
    <3>1. provider' \in BOOLEAN /\ (provider' => provider)
      <4>1. CASE UNCHANGED provider
        BY <1>0, <4>1
      <4>2. CASE provider' = FALSE
        BY <4>2
      <4> QED BY <2>5, <4>1, <4>2
    <3> QED BY <1>0, <2>1, <2>5, <3>1, DeleteGoto
  <2> QED BY <2>1, <2>3, <2>4, <2>5
<1> QED BY <1>1, <1>2, <1>3, <1>4

\* The provider is forgotten, the finalizer leaves, and the deferred patch.
LEMMA StepFinish ==
    ASSUME EKSInv, ForgetOIDCProvider \/ FinishDeletion \/ Close
    PROVE  EKSInv'
<1>0. /\ FieldsInv /\ FinalizerInv /\ NamesInv /\ DeletionInv
      /\ IsWork(w) /\ IsObject(obj) /\ IsLocal(w.loc) /\ IsLocal(obj.loc)
      /\ IsCluster(eks) /\ role \in BOOLEAN /\ provider \in BOOLEAN /\ lost \in BOOLEAN
      /\ obj.st \in {"live", "deleting", "gone"} /\ w.loc.fin \in BOOLEAN
  BY DEF EKSInv, FieldsInv, IsWork, IsObject, IsLocal
<1> USE DEF NormalLabels, DeleteLabels
<1>1. CASE ForgetOIDCProvider
  <2> DEFINE x == [w.loc EXCEPT !.arn = FALSE]
  <2>1. /\ w.pc = "delOIDCPatch" /\ PatchObject(x, "finish")
        /\ UNCHANGED <<eks, role, provider, unanswered, spec>>
    BY <1>1 DEF ForgetOIDCProvider, awsVars
  <2>2. IsLocal(x) /\ x.fin = w.loc.fin /\ x.role = w.loc.role
    BY <1>0, LocalSet
  <2> HIDE DEF x
  <2>3. /\ IsWork(w') /\ IsObject(obj') /\ w'.loc = x /\ w'.spec = w.spec /\ obj'.st = obj.st
        /\ \/ w'.pc = "finish" /\ obj'.loc = x /\ lost' = lost
           \/ w'.pc = "close" /\ obj' = obj /\ lost' = TRUE
    <3>1. "finish" \in Labels
      BY DEF Labels
    <3> QED BY <1>0, <2>1, <2>2, <3>1, Patched
  <2>4. FieldsInv'
    BY <1>0, <2>1, <2>3 DEF FieldsInv
  <2>5. FinalizerInv'
    BY <1>0, <2>1, <2>2, <2>3 DEF FinalizerInv, Clean
  <2>6. NamesInv'
    BY <1>0, <2>1, <2>2, <2>3 DEF NamesInv, DeletionInv, Copy
  <2>7. DeletionInv'
    BY <1>0, <2>1, <2>3 DEF DeletionInv
  <2> QED BY <2>4, <2>5, <2>6, <2>7 DEF EKSInv
<1>2. CASE FinishDeletion
  <2> DEFINE x == [w.loc EXCEPT !.fin = FALSE]
  <2>1. /\ w.pc = "finish" /\ UNCHANGED <<eks, role, provider, spec, obj, lost, unanswered>>
        /\ w' = [w EXCEPT !.loc = x, !.pc = "close"] \/ Goto("close")
    BY <1>0, <1>2 DEF FinishDeletion, history, Fails, awsVars, IsWork
  <2>2. IsLocal(x) /\ x.fin = FALSE /\ x.role = w.loc.role /\ x.arn = w.loc.arn
    BY <1>0, LocalSet
  <2> HIDE DEF x
  <2>3. CASE Goto("close")
    BY <1>0, <2>1, <2>3, DeleteGoto
  <2>4. CASE w' = [w EXCEPT !.loc = x, !.pc = "close"]
    <3>1. IsWork(w') /\ w'.pc = "close" /\ w'.loc = x
      <4>1. "close" \in Labels
        BY DEF Labels
      <4> QED BY <1>0, <2>2, <2>4, <4>1, WorkSets
    <3>2. FieldsInv'
      BY <1>0, <2>1, <3>1 DEF FieldsInv
    <3>3. FinalizerInv'
      BY <1>0, <2>1, <3>1 DEF FinalizerInv, DeletionInv, Clean
    <3>4. NamesInv'
      BY <1>0, <2>1, <2>2, <3>1 DEF NamesInv, Copy
    <3>5. DeletionInv'
      BY <3>1 DEF DeletionInv
    <3> QED BY <3>2, <3>3, <3>4, <3>5 DEF EKSInv
  <2> QED BY <2>1, <2>3, <2>4
<1>3. CASE Close
  <2> DEFINE st == IF obj.st = "deleting" /\ ~w.loc.fin THEN "gone" ELSE obj.st
  <2>1. /\ w.pc = "close" /\ w' = NoWork /\ UNCHANGED <<eks, role, provider, unanswered, spec>>
        /\ \/ UNCHANGED <<obj, lost, unanswered>> /\ obj.st = "gone"
           \/ obj.st # "gone" /\ obj' = [st |-> st, loc |-> w.loc] /\ UNCHANGED lost
           \/ obj.st # "gone" /\ lost' = TRUE /\ UNCHANGED obj
    BY <1>3 DEF Close, awsVars
  <2>2. IsWork(w') /\ w'.pc = "idle"
    BY <2>1, Idle
  <2>3. /\ IsObject(obj')
        /\ \/ obj' = obj /\ lost' = lost /\ obj.st = "gone"
           \/ obj.st # "gone" /\ obj'.st = st /\ obj'.loc = w.loc /\ lost' = lost
           \/ obj' = obj /\ lost' = TRUE /\ obj.st # "gone"
    BY <1>0, <2>1 DEF IsObject
  <2>4. FieldsInv'
    BY <1>0, <2>1, <2>2, <2>3 DEF FieldsInv
  <2>5. FinalizerInv'
    BY <1>0, <2>1, <2>2, <2>3 DEF FinalizerInv, Clean
  <2>6. NamesInv'
    BY <1>0, <2>1, <2>2, <2>3 DEF NamesInv, Copy
  <2>7. DeletionInv'
    BY <2>2 DEF DeletionInv
  <2> QED BY <2>4, <2>5, <2>6, <2>7 DEF EKSInv
<1> QED BY <1>1, <1>2, <1>3

-----------------------------------------------------------------------------
(* EKS, the user and the process *)

\* EKS works on the cluster, the add-ons and the identity provider: it makes no cluster.
LEMMA StepEKS ==
    ASSUME EKSInv,
           \/ EKSProgress \/ (\E a \in Addons : AddonProgress(a)) \/ IdpProgress
           \/ \E p \in Principals : MakeForeignEntry(p)
    PROVE  EKSInv'
<1>0. IsCluster(eks) /\ FieldsInv
  BY DEF EKSInv, FieldsInv
<1>1. UNCHANGED <<role, provider, spec, obj, w, lost, unanswered>>
  BY DEF EKSProgress, AddonProgress, IdpProgress, MakeForeignEntry, history
<1>2. IsCluster(eks') /\ (eks.st = "none" => eks'.st = "none")
  <2>1. CASE EKSProgress
    <3>1. \/ eks.st = "CREATING" /\ \E s \in {"ACTIVE", "FAILED"} : eks' = [eks EXCEPT !.st = s]
          \/ eks.st = "ACTIVE" /\ eks' = [eks EXCEPT !.st = "UPDATING"]
          \/ eks.st = "UPDATING" /\ eks' = Applied(eks)
          \/ eks.st = "UPDATING" /\ eks' = [eks EXCEPT !.st = "ACTIVE", !.upd = None]
          \/ eks' = NoCluster
      BY <2>1 DEF EKSProgress
    <3>2. IsCluster(NoCluster) /\ NoCluster.st = "none"
      BY DEF IsCluster, NoCluster, None
    <3>3. CASE eks.st = "UPDATING" /\ eks' = Applied(eks)
      <4>1. CASE eks' = [eks EXCEPT !.st = "ACTIVE", !.version = eks.version + 1, !.upd = None]
        BY <1>0, <3>3, <4>1 DEF IsCluster
      <4> DEFINE s == IF eks.upd \in eks.on THEN eks.on \ {eks.upd} ELSE eks.on \cup {eks.upd}
      <4>2. CASE eks' = [eks EXCEPT !.st = "ACTIVE", !.upd = None, !.on = s]
        <5> HIDE DEF s
        <5> QED BY <1>0, <3>3, <4>2 DEF IsCluster
      <4> QED BY <3>3, <4>1, <4>2 DEF Applied
    <3>4. CASE eks' = NoCluster
      BY <3>2, <3>4
    <3>5. CASE \/ eks.st = "CREATING" /\ \E s \in {"ACTIVE", "FAILED"} : eks' = [eks EXCEPT !.st = s]
               \/ eks.st = "ACTIVE" /\ eks' = [eks EXCEPT !.st = "UPDATING"]
               \/ eks.st = "UPDATING" /\ eks' = [eks EXCEPT !.st = "ACTIVE", !.upd = None]
      BY <1>0, <3>5 DEF IsCluster
    <3> QED BY <3>1, <3>3, <3>4, <3>5
  <2>2. CASE UNCHANGED eks
    BY <1>0, <2>2
  <2> QED BY <2>1, <2>2 DEF AddonProgress, IdpProgress, MakeForeignEntry
<1> QED BY <1>1, <1>2
       DEF EKSInv, FieldsInv, FinalizerInv, Clean, NamesInv, Copy, DeletionInv

\* The user edits or deletes the object; an object in deletion is not edited.
LEMMA StepUser ==
    ASSUME EKSInv, EditSpec \/ DeleteObject
    PROVE  EKSInv'
<1>0. /\ FieldsInv /\ FinalizerInv /\ NamesInv /\ DeletionInv /\ IsObject(obj)
      /\ obj.loc.fin \in BOOLEAN
  BY DEF EKSInv, FieldsInv, IsObject, IsLocal
<1>1. CASE EditSpec
  <2>1. obj.st = "live" /\ UNCHANGED <<eks, role, provider, obj, w, lost, unanswered>>
    BY <1>1 DEF EditSpec, history, Edit, awsVars
  <2>2. FieldsInv'
    BY <1>0, <2>1 DEF FieldsInv
  <2>3. FinalizerInv'
    BY <1>0, <2>1 DEF FinalizerInv, Clean
  <2>4. NamesInv'
    BY <1>0, <2>1 DEF NamesInv, Copy
  <2>5. DeletionInv'
    BY <1>0, <2>1 DEF DeletionInv, DeleteLabels
  <2> QED BY <2>2, <2>3, <2>4, <2>5 DEF EKSInv
<1>2. CASE DeleteObject
  <2> DEFINE st == IF obj.loc.fin THEN "deleting" ELSE "gone"
  <2>1. /\ obj.st = "live" /\ obj' = [obj EXCEPT !.st = st]
        /\ UNCHANGED <<eks, role, provider, spec, w, lost, unanswered>>
    BY <1>2 DEF DeleteObject, history, awsVars
  <2>2. IsObject(obj') /\ obj'.st = st /\ obj'.loc = obj.loc
    BY <1>0, <2>1 DEF IsObject
  <2>3. FieldsInv'
    BY <1>0, <2>1, <2>2 DEF FieldsInv
  <2>4. FinalizerInv'
    BY <1>0, <2>1, <2>2 DEF FinalizerInv, Clean
  <2>5. NamesInv'
    BY <1>0, <2>1, <2>2 DEF NamesInv, Copy
  <2>6. DeletionInv'
    BY <1>0, <2>1, <2>2 DEF DeletionInv, DeleteLabels
  <2> QED BY <2>3, <2>4, <2>5, <2>6 DEF EKSInv
<1> QED BY <1>1, <1>2

\* The process ends in the middle of a reconcile.
LEMMA StepCrash ==
    ASSUME EKSInv, Crash
    PROVE  EKSInv'
<1>0. FieldsInv /\ FinalizerInv /\ obj.st \in {"live", "deleting", "gone"}
  BY DEF EKSInv, FieldsInv, IsObject
<1>1. w' = NoWork /\ lost' = TRUE /\ UNCHANGED <<eks, role, provider, unanswered, spec, obj>>
  BY DEF Crash, awsVars
<1>2. IsWork(w') /\ w'.pc = "idle"
  BY <1>1, Idle
<1>3. FieldsInv'
  BY <1>0, <1>1, <1>2 DEF FieldsInv
<1>4. FinalizerInv'
  BY <1>0, <1>1, <1>2 DEF FinalizerInv, Clean, NormalLabels, DeleteLabels
<1>5. NamesInv' /\ DeletionInv'
  BY <1>1, <1>2 DEF NamesInv, DeletionInv, DeleteLabels
<1> QED BY <1>3, <1>4, <1>5 DEF EKSInv

-----------------------------------------------------------------------------
(* The theorem *)

\* Before the first reconcile nothing exists.
LEMMA EKSInit == Init => EKSInv
<1> SUFFICES ASSUME Init PROVE EKSInv
  OBVIOUS
<1>1. /\ eks = NoCluster /\ role = FALSE /\ provider = FALSE /\ lost = FALSE /\ unanswered = FALSE
      /\ obj = [st |-> "live", loc |-> NoLocal] /\ w = NoWork
  BY DEF Init
<1>2. IsLocal(NoLocal) /\ NoLocal.fin = FALSE
  BY DEF IsLocal, NoLocal
<1>3. IsObject(obj) /\ obj.st = "live" /\ obj.loc = NoLocal
  BY <1>1, <1>2 DEF IsObject
<1>4. IsCluster(eks) /\ eks.st = "none"
  BY <1>1 DEF IsCluster, NoCluster, None
<1>5. IsWork(w) /\ w.pc = "idle"
  BY <1>1, Idle
<1>6. FieldsInv
  BY <1>1, <1>3, <1>4, <1>5 DEF FieldsInv
<1>7. FinalizerInv
  BY <1>1, <1>2, <1>3, <1>4, <1>5 DEF FinalizerInv, NormalLabels, DeleteLabels
<1>8. NamesInv /\ DeletionInv
  BY <1>1, <1>5 DEF NamesInv, DeletionInv, DeleteLabels
<1> QED BY <1>6, <1>7, <1>8 DEF EKSInv

\* Every step keeps the invariant.
LEMMA EKSStep == EKSInv /\ [Next]_vars => EKSInv'
<1> SUFFICES ASSUME EKSInv, [Next]_vars PROVE EKSInv'
  OBVIOUS
<1>1. CASE Worker
  BY <1>1, StepStart, StepCluster, StepUpdate, StepOIDC, StepAddons, StepDelete, StepFinish DEF Worker
<1>2. CASE \/ EKSProgress \/ (\E a \in Addons : AddonProgress(a)) \/ IdpProgress
           \/ \E p \in Principals : MakeForeignEntry(p)
  BY <1>2, StepEKS
<1>3. CASE EditSpec \/ DeleteObject
  BY <1>3, StepUser
<1>4. CASE Crash
  BY <1>4, StepCrash
<1>5. CASE UNCHANGED vars
  BY <1>5 DEF vars, awsVars, history, EKSInv, FieldsInv, FinalizerInv, Clean, NamesInv, Copy, DeletionInv
<1> QED BY <1>1, <1>2, <1>3, <1>4, <1>5 DEF Next

\* A deleted control plane leaves no EKS cluster behind and, unless a patch was lost or a
\* reconcile cut short, neither its IAM role, whichever answers of the calls before were
\* lost, nor the OIDC provider the spec still asks for, if its ARN was ever learnt.
THEOREM ControlPlaneDeleted == Spec => []NoOrphanEKS
<1>1. EKSInv => NoOrphanEKS
  BY DEF EKSInv, FinalizerInv, Clean, NoOrphanEKS, None
<1> QED BY <1>1, EKSInit, EKSStep, PTL DEF Spec
=============================================================================

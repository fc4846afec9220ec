--------------------------- MODULE EKSControlPlane ---------------------------
(***************************************************************************)
(* The AWSManagedControlPlane controller (controlplane/eks/controllers)    *)
(* and the EKS service it drives (pkg/cloud/services/eks): the IAM role,   *)
(* the EKS cluster with its version and configuration, the access entries, *)
(* the OIDC provider, the add-ons and the identity provider, created,      *)
(* updated and deleted by a worker that reconciles the object again and    *)
(* again, while EKS works on a request after it has accepted it and while  *)
(* the user edits the object.                                              *)
(*                                                                         *)
(* The network, security group, bastion and instance state services that   *)
(* the controller shares with the AWSCluster controller are in AWSCluster  *)
(* and InstanceState.  Tags, kubeconfig secrets, conditions and the        *)
(* contents of the configurations are abstracted away.                     *)
(***************************************************************************)
EXTENDS Naturals, Sequences, FiniteSets, SequencesExt

CONSTANTS
    Addons,      \* names of add-ons
    Principals,  \* principals of access entries
    MaxVersion,  \* the highest Kubernetes minor version asked for
    EditKinds,   \* what the user does
    MaxEdits,    \* bound on the number of edits
    FaultKinds,  \* the faults considered, out of AllFaults
    MaxFaults    \* bound on the number of faults in a behaviour

AllFaults == {"aws", "patch", "timeout", "update", "crash"}

ASSUME EKSAssumption ==
    /\ MaxVersion \in Nat \ {0} /\ MaxEdits \in Nat /\ MaxFaults \in Nat
    /\ FaultKinds \subseteq AllFaults

VARIABLES
    \* AWS
    eks,       \* the EKS cluster: st, version, on (configuration), upd (in progress)
    role,      \* the control plane's IAM role exists
    provider,  \* the IAM OIDC provider exists
    trust,     \* the trust policy ConfigMap is in the workload cluster
    addon,     \* the installed add-ons: version (0: none) and status
    idp,       \* the associated identity provider: configuration (0: none), status
    entry,     \* access entries: type (0: none), and whether tagged as the cluster's
    \* Kubernetes
    spec,      \* what the user asks for
    obj,       \* the stored AWSManagedControlPlane
    \* the controller process
    w,         \* the worker
    \* history and bounds
    lost,      \* a patch failed or a reconcile was cut short
    unanswered,  \* an OIDC provider was created and its ARN never learnt
    edits, faults

awsVars == <<eks, role, provider, trust, addon, idp, entry>>
history == <<lost, unanswered>>
vars == <<awsVars, spec, obj, w, history, edits, faults>>

-----------------------------------------------------------------------------
(* Data *)

None == "none"
Attrs == {"vpc", "auth", "logging", "encryption"}
NoCluster == [st |-> None, version |-> 0, on |-> {}, upd |-> None]
NoAddon == [v |-> 0, st |-> None]
NoIdp == [cfg |-> 0, st |-> None]
NoEntry == [type |-> 0, ours |-> FALSE]
NoLocal == [fin |-> FALSE, role |-> FALSE, arn |-> FALSE, ready |-> FALSE,
            addons |-> [a \in Addons |-> 0]]

Specs == [version: 1 .. MaxVersion, on: SUBSET Attrs, addons: [Addons -> 0 .. 2],
          oidc: BOOLEAN, idp: 0 .. 2, entries: [Principals -> 0 .. 2]]
FirstSpec == [version |-> 1, on |-> {}, addons |-> [a \in Addons |-> 0], oidc |-> FALSE,
              idp |-> 0, entries |-> [p \in Principals |-> 0]]
NoWork == [pc |-> "idle", spec |-> FirstSpec, loc |-> NoLocal, seen |-> NoCluster,
           next |-> None, names |-> {}, plan |-> <<>>]

Locals == [fin: BOOLEAN, role: BOOLEAN, arn: BOOLEAN, ready: BOOLEAN,
           addons: [Addons -> 0 .. 2]]
Clusters == [st: {None, "CREATING", "ACTIVE", "UPDATING", "FAILED", "DELETING"},
             version: 0 .. MaxVersion, on: SUBSET Attrs, upd: {None, "version"} \cup Attrs]
TypeOK ==
    /\ eks \in Clusters /\ role \in BOOLEAN /\ provider \in BOOLEAN /\ trust \in BOOLEAN
    /\ addon \in [Addons -> [v: 0 .. 2, st: {None, "CREATING", "ACTIVE", "DEGRADED",
                                             "UPDATING", "DELETING"}]]
    /\ idp \in [cfg: 0 .. 2, st: {None, "CREATING", "ACTIVE", "DELETING"}]
    /\ entry \in [Principals -> [type: 0 .. 2, ours: BOOLEAN]]
    /\ spec \in Specs
    /\ obj.st \in {"live", "deleting", "gone"} /\ obj.loc \in Locals
    /\ w.spec \in Specs /\ w.loc \in Locals /\ w.seen \in Clusters
    /\ w.names \subseteq Addons /\ lost \in BOOLEAN /\ unanswered \in BOOLEAN
    /\ edits \in 0 .. MaxEdits /\ faults \in 0 .. MaxFaults

Init ==
    /\ eks = NoCluster /\ role = FALSE /\ provider = FALSE /\ trust = FALSE
    /\ addon = [a \in Addons |-> NoAddon] /\ idp = NoIdp
    /\ entry = [p \in Principals |-> NoEntry]
    /\ spec = FirstSpec /\ obj = [st |-> "live", loc |-> NoLocal]
    /\ w = NoWork /\ lost = FALSE /\ unanswered = FALSE /\ edits = 0 /\ faults = 0

Fault(kind) == kind \in FaultKinds /\ faults < MaxFaults /\ faults' = faults + 1
NoFault == faults' = faults

Goto(pc) == w' = [w EXCEPT !.pc = pc]

\* The call fails, and the reconcile returns the error.  What the call asked for is
\* not done, or is done all the same and only the answer is lost: the actions say so.
Fails == Fault("aws") /\ Goto("close")

\* PatchObject stores the local copy; an object that is gone cannot be patched.
PatchObject(loc, next) ==
    \/ /\ NoFault /\ obj.st # "gone"
       /\ obj' = [obj EXCEPT !.loc = loc] /\ w' = [w EXCEPT !.loc = loc, !.pc = next]
       /\ UNCHANGED lost
    \/ /\ IF obj.st = "gone" THEN NoFault ELSE Fault("patch")
       /\ w' = [w EXCEPT !.loc = loc, !.pc = "close"]
       /\ lost' = TRUE /\ UNCHANGED obj

-----------------------------------------------------------------------------
(* Reconcile *)

\* Mutation: the role is created before the finalizer is stored.
FirstStep_Role(o) == IF o.st = "live" THEN "role" ELSE "delCluster"

\* Deletion, or the finalizer before anything is created.
FirstStep(o) ==
    IF o.st = "deleting" THEN "delCluster" ELSE IF o.loc.fin THEN "role" ELSE "finalizer"

Start ==
    /\ w.pc = "idle" /\ obj.st # "gone"
    /\ w' = [NoWork EXCEPT !.pc = FirstStep(obj), !.spec = spec, !.loc = obj.loc]
    /\ UNCHANGED <<awsVars, spec, obj, history, edits, faults>>

AddFinalizer ==
    /\ w.pc = "finalizer" /\ PatchObject([w.loc EXCEPT !.fin = TRUE], "role")
    /\ UNCHANGED <<awsVars, spec, unanswered, edits>>

\* reconcileControlPlaneIAMRole: the name is derived and kept in the local copy,
\* then the role of that name is found or created.
ReconcileRole ==
    /\ w.pc = "role"
    /\ \/ /\ NoFault /\ role' = TRUE
          /\ w' = [w EXCEPT !.loc.role = TRUE, !.pc = "describe"]
       \/ /\ Fault("aws") /\ role' \in {role, TRUE}
          /\ w' = [w EXCEPT !.loc.role = TRUE, !.pc = "close"]
    /\ UNCHANGED <<eks, provider, trust, addon, idp, entry, spec, obj, history, edits>>

\* Mutation: a cluster that does not exist is an error like any other.
Absent_Never(c) == FALSE

\* describeEKSCluster returns no cluster, and no error, for one that does not exist.
Absent(c) == c.st = None

DescribeCluster ==
    /\ w.pc = "describe"
    /\ \/ /\ NoFault
          /\ w' = [w EXCEPT !.seen = eks, !.pc = IF Absent(eks) THEN "create" ELSE "setStatus"]
       \/ Fails
    /\ UNCHANGED <<awsVars, spec, obj, history, edits>>

CreateCluster ==
    /\ w.pc = "create"
    /\ \/ /\ eks' = [st |-> "CREATING", version |-> w.spec.version, on |-> w.spec.on, upd |-> None]
          /\ \/ NoFault /\ w' = [w EXCEPT !.seen = eks', !.pc = "setStatus"]
             \/ Fails
       \/ Fails /\ UNCHANGED eks
    /\ UNCHANGED <<role, provider, trust, addon, idp, entry, spec, obj, history, edits>>

ReadyIn(st) == st \in {"ACTIVE", "UPDATING"}

\* setStatus.  A cluster that is not ready is left alone, but reconcileCluster
\* returns no error then, and the add-ons are reconciled all the same.
SetStatus ==
    /\ w.pc = "setStatus"
    /\ LET ready == ReadyIn(w.seen.st)
       IN  PatchObject([w.loc EXCEPT !.ready = ready],
                       IF w.seen.st \in {"CREATING", "UPDATING"} THEN "wait"
                       ELSE IF ready THEN "version" ELSE "addons")
    /\ UNCHANGED <<awsVars, spec, unanswered, edits>>

\* waitForClusterActive, which sets the status again.
WaitForClusterActive ==
    /\ w.pc = "wait"
    /\ \/ /\ NoFault /\ eks.st = "ACTIVE"
          /\ w' = [w EXCEPT !.seen = eks, !.pc = "setStatus"]
       \/ NoFault /\ eks.st = "FAILED" /\ Goto("close")
       \/ Fault("timeout") /\ Goto("close")
    /\ UNCHANGED <<awsVars, spec, obj, history, edits>>

-----------------------------------------------------------------------------
(* Updates of the cluster: EKS accepts one at a time *)

NextStep == [version |-> "vpc", vpc |-> "auth", auth |-> "entries", logging |-> "encryption",
             encryption |-> "oidc"]

\* Mutation: the version is raised only if the cluster is one behind.
NeedsVersion_OneBehind(seen, s) == seen.version + 1 = s.version

\* "you can only upgrade increments of minor versions"
NeedsVersion(seen, s) == seen.version < s.version

\* The access mode and the encryption are only ever turned on.
NeedsUpdate(a) ==
    CASE a = "version" -> NeedsVersion(w.seen, w.spec)
      [] a \in {"auth", "encryption"} -> a \in w.spec.on \ w.seen.on
      [] OTHER -> (a \in w.seen.on) # (a \in w.spec.on)

\* WaitUntilClusterUpdating follows these updates only.
Awaited == {"version", "auth", "encryption"}

\* EKS refuses a request while it works on another, and one that changes nothing.
Accepts(a) ==
    /\ eks.st = "ACTIVE" /\ eks.upd = None
    /\ IF a = "version" THEN eks.version = w.seen.version
       ELSE (a \in eks.on) # (a \in w.spec.on)

\* reconcileClusterVersion, reconcileClusterConfig, reconcileAccessConfig,
\* reconcileLogging and reconcileEKSEncryptionConfig: compare with the cluster
\* described before, and ask for an update.
ReconcileUpdate(a) ==
    /\ w.pc = a
    /\ \/ NoFault /\ ~NeedsUpdate(a) /\ Goto(NextStep[a]) /\ UNCHANGED eks
       \/ /\ NeedsUpdate(a) /\ NoFault
          /\ IF Accepts(a)
             THEN /\ eks' = [eks EXCEPT !.upd = a]
                  /\ w' = IF a \in Awaited
                          THEN [w EXCEPT !.pc = "updating", !.next = NextStep[a]]
                          ELSE [w EXCEPT !.pc = NextStep[a]]
             ELSE Goto("close") /\ UNCHANGED eks
       \/ /\ NeedsUpdate(a) /\ Fails
          /\ UNCHANGED eks \/ (Accepts(a) /\ eks' = [eks EXCEPT !.upd = a])
    /\ UNCHANGED <<role, provider, trust, addon, idp, entry, spec, obj, history, edits>>

\* WaitUntilClusterUpdating waits in vain if the update is over already.
WaitUntilClusterUpdating ==
    /\ w.pc = "updating"
    /\ \/ NoFault /\ eks.st = "UPDATING" /\ w' = [w EXCEPT !.pc = w.next, !.next = None]
       \/ /\ IF eks.st = "ACTIVE" /\ eks.upd = None THEN NoFault ELSE Fault("timeout")
          /\ Goto("close")
    /\ UNCHANGED <<awsVars, spec, obj, history, edits>>

-----------------------------------------------------------------------------
(* Access entries *)

Wanted(p) == w.spec.entries[p]
Foreign(e) == e.type # 0 /\ ~e.ours

\* getManagedAccessEntries: those that carry the cluster's tag.
Managed(e) == e.type # 0 /\ e.ours

Settled(p) == Wanted(p) # 0 /\ Managed(entry[p]) /\ entry[p].type = Wanted(p)
EntriesSkipped == (\A p \in Principals : Wanted(p) = 0) \/ "auth" \notin w.spec.on

\* reconcileAccessEntries, one call of the EKS API at a time: every entry wanted
\* is created, or deleted and created again when its type differs; then the
\* managed entries that are not wanted are deleted.  EKS refuses to create an
\* entry that exists, and any entry unless the access mode has taken effect.
SetEntry(p, e) == entry' = [entry EXCEPT ![p] = e]
DeleteEntry(p) ==
    /\ Managed(entry[p]) /\ entry[p].type # Wanted(p)
    /\ Wanted(p) = 0 => \A q \in Principals : Wanted(q) = 0 \/ Settled(q)
    /\ SetEntry(p, NoEntry)
CreateEntry(p) ==
    /\ Wanted(p) # 0 /\ entry[p].type = 0 /\ "auth" \in eks.on
    /\ SetEntry(p, [type |-> Wanted(p), ours |-> TRUE])
RefusedEntry(p) == Wanted(p) # 0 /\ (Foreign(entry[p]) \/ "auth" \notin eks.on) /\ ~Settled(p)
ReconcileAccessEntries ==
    /\ w.pc = "entries"
    /\ \/ /\ NoFault /\ UNCHANGED entry
          /\ \/ EntriesSkipped
             \/ \A p \in Principals : IF Wanted(p) = 0 THEN ~Managed(entry[p]) ELSE Settled(p)
          /\ Goto("logging")
       \/ /\ ~EntriesSkipped
          /\ (NoFault /\ UNCHANGED w) \/ Fails
          /\ \E p \in Principals : DeleteEntry(p) \/ CreateEntry(p)
       \/ /\ ~EntriesSkipped /\ NoFault /\ \E p \in Principals : RefusedEntry(p)
          /\ Goto("close") /\ UNCHANGED entry
       \/ ~EntriesSkipped /\ Fails /\ UNCHANGED entry
    /\ UNCHANGED <<eks, role, provider, trust, addon, idp, spec, obj, history, edits>>

-----------------------------------------------------------------------------
(* The OIDC provider *)

\* reconcileOIDCProvider: nothing is done again once the ARN is known.  Else the
\* provider of the cluster's issuer is found or created; if it is created and the
\* answer is lost, its ARN is known only when a later reconcile finds it.
ReconcileOIDCProvider ==
    /\ w.pc = "oidc"
    /\ \/ /\ NoFault /\ (~w.spec.oidc \/ w.loc.arn) /\ Goto("addons")
          /\ UNCHANGED <<provider, unanswered>>
       \/ /\ w.spec.oidc /\ ~w.loc.arn
          /\ \/ /\ NoFault /\ provider' = TRUE /\ unanswered' = FALSE
                /\ w' = [w EXCEPT !.loc.arn = TRUE, !.pc = "oidcPatch"]
             \/ Fails /\ UNCHANGED <<provider, unanswered>>
             \/ Fails /\ ~provider /\ provider' = TRUE /\ unanswered' = TRUE
    /\ UNCHANGED <<eks, role, trust, addon, idp, entry, spec, obj, lost, edits>>

StoreOIDCProvider ==
    /\ w.pc = "oidcPatch" /\ PatchObject(w.loc, "trust")
    /\ UNCHANGED <<awsVars, spec, unanswered, edits>>

\* TagOpenIDConnectProvider and reconcileTrustPolicy.
ReconcileTrustPolicy ==
    /\ w.pc = "trust"
    /\ \/ NoFault /\ trust' = TRUE /\ Goto("addons")
       \/ Fails /\ trust' \in {trust, TRUE}
    /\ UNCHANGED <<eks, role, provider, addon, idp, entry, spec, obj, history, edits>>

-----------------------------------------------------------------------------
(* Add-ons: a plan of procedures, executed in order *)

\* The procedures for one add-on, from the version wanted and what is installed.
Procedures(a, want, inst) ==
    CASE want # 0 /\ inst.v = 0    -> <<<<"create", a>>, <<"waitActive", a>>>>
      [] want # 0 /\ inst.v # 0 /\ inst.v # want
                                   -> <<<<"update", a>>, <<"waitActive", a>>>>
      [] want # 0 /\ inst.v = want /\ inst.st # "ACTIVE" -> <<<<"waitActive", a>>>>
      [] want = 0 /\ inst.v # 0 /\ inst.st # "DELETING"
                                   -> <<<<"delete", a>>, <<"waitDelete", a>>>>
      [] want = 0 /\ inst.st = "DELETING" -> <<<<"waitDelete", a>>>>
      [] OTHER                     -> <<>>

\* addons.plan.Create: creations and updates, then deletions.
AddonPlan(want, inst) ==
    LET names == SetToSeq({a \in Addons : want[a] # 0}) \o SetToSeq({a \in Addons : want[a] = 0})
    IN  FlattenSeq([i \in 1 .. Len(names) |-> Procedures(names[i], want[names[i]], inst[names[i]])])

\* ListAddons, DescribeAddon for each, and the plan.  Without an add-on wanted or
\* installed reconcileAddons is done, and does not update the status either.
PlanAddons ==
    /\ w.pc = "addons"
    /\ LET installed == {a \in Addons : addon[a].v # 0}
       IN  \/ /\ NoFault /\ Goto("idp")
              /\ installed = {} /\ \A a \in Addons : w.spec.addons[a] = 0
           \/ /\ NoFault /\ (installed # {} \/ \E a \in Addons : w.spec.addons[a] # 0)
              /\ w' = [w EXCEPT !.names = installed, !.plan = AddonPlan(w.spec.addons, addon),
                                !.pc = "procedure"]
           \/ Fails
    /\ UNCHANGED <<awsVars, spec, obj, history, edits>>

AddonCall(kind, a) ==
    IF eks.st \notin {"ACTIVE", "UPDATING"} THEN NoAddon
    ELSE CASE kind = "create" /\ addon[a].v = 0
                -> [v |-> w.spec.addons[a], st |-> "CREATING"]
           [] kind = "update" /\ addon[a].st \in {"ACTIVE", "DEGRADED"}
                -> [v |-> w.spec.addons[a], st |-> "UPDATING"]
           [] kind = "delete" /\ addon[a].st \in {"ACTIVE", "DEGRADED"}
                -> [addon[a] EXCEPT !.st = "DELETING"]
           [] OTHER -> NoAddon

WaitIsOver(kind, a) ==
    \/ kind = "waitActive" /\ addon[a].st \in {"ACTIVE", "DEGRADED"}
    \/ kind = "waitDelete" /\ addon[a].v = 0
WaitFails(kind, a) == kind = "waitActive" /\ addon[a].v = 0

\* procedure.Do for the next procedure; EKS refuses a call the add-on's state
\* does not allow.
DoProcedure ==
    /\ w.pc = "procedure"
    /\ \/ NoFault /\ w.plan = <<>> /\ Goto("addonStatus") /\ UNCHANGED addon
       \/ /\ w.plan # <<>>
          /\ LET kind == Head(w.plan)[1]
                 a == Head(w.plan)[2]
             IN  \/ /\ NoFault /\ kind \in {"create", "update", "delete"}
                    /\ IF AddonCall(kind, a) = NoAddon
                       THEN Goto("close") /\ UNCHANGED addon
                       ELSE /\ addon' = [addon EXCEPT ![a] = AddonCall(kind, a)]
                            /\ w' = [w EXCEPT !.plan = Tail(@)]
                 \/ /\ NoFault /\ WaitIsOver(kind, a) /\ w' = [w EXCEPT !.plan = Tail(@)]
                    /\ UNCHANGED addon
                 \/ NoFault /\ WaitFails(kind, a) /\ Goto("close") /\ UNCHANGED addon
                 \/ /\ kind \in {"waitActive", "waitDelete"} /\ Fault("timeout")
                    /\ Goto("close") /\ UNCHANGED addon
                 \/ /\ kind \in {"create", "update", "delete"} /\ Fails
                    /\ \/ UNCHANGED addon
                       \/ /\ AddonCall(kind, a) # NoAddon
                          /\ addon' = [addon EXCEPT ![a] = AddonCall(kind, a)]
    /\ UNCHANGED <<eks, role, provider, trust, idp, entry, spec, obj, history, edits>>

\* getInstalledState describes the add-ons listed before the plan: one that was
\* deleted since is an error, one that was created since is missing.
StoreAddonStatus ==
    /\ w.pc = "addonStatus"
    /\ \/ /\ \E a \in w.names : addon[a].v = 0
          /\ NoFault /\ Goto("close") /\ UNCHANGED <<obj, lost>>
       \/ /\ \A a \in w.names : addon[a].v # 0
          /\ PatchObject([w.loc EXCEPT !.addons = [a \in Addons |-> IF a \in w.names
                                                                    THEN addon[a].v ELSE 0]],
                         "idp")
    /\ UNCHANGED <<awsVars, spec, unanswered, edits>>

-----------------------------------------------------------------------------
(* The identity provider *)

\* identityprovider.plan.Create, for a configuration that is wanted.
IdpStep(want, cur) ==
    CASE cur.cfg = 0 -> "associate"
      [] cur.cfg = want /\ cur.st = "CREATING" -> "wait"
      [] cur.cfg # 0 /\ cur.cfg # want -> "disassociate"
      [] OTHER -> "nothing"

\* reconcileIdentityProvider: nothing without a configuration in the spec; else
\* one procedure.  Another configuration takes a reconcile to disassociate the
\* old one and a later reconcile to associate the new one.
ReconcileIdentityProvider ==
    /\ w.pc = "idp"
    /\ LET step == IF w.spec.idp = 0 THEN "nothing" ELSE IdpStep(w.spec.idp, idp)
       IN  \/ /\ NoFault \/ Fault("aws")
              /\ Goto("close")
              /\ \/ step = "associate" /\ idp' = [cfg |-> w.spec.idp, st |-> "CREATING"]
                 \/ step = "disassociate" /\ idp.st = "ACTIVE" /\ idp' = [idp EXCEPT !.st = "DELETING"]
           \/ /\ NoFault /\ Goto("close")
              /\ \/ step = "disassociate" /\ idp.st # "ACTIVE" /\ UNCHANGED idp
                 \/ step = "wait" /\ idp.st = "ACTIVE" /\ UNCHANGED idp
                 \/ step = "nothing" /\ UNCHANGED idp
           \/ step # "nothing" /\ Fails /\ UNCHANGED idp
           \/ step = "wait" /\ Fault("timeout") /\ Goto("close") /\ UNCHANGED idp
    /\ UNCHANGED <<eks, role, provider, trust, addon, entry, spec, obj, history, edits>>

-----------------------------------------------------------------------------
(* Deletion *)

\* EKS refuses to delete a cluster that is being created, updated or deleted.
Deletable(c) == c.st \in {"ACTIVE", "FAILED"} /\ c.upd = None

\* deleteCluster and the request of deleteClusterAndWait.
DeleteCluster ==
    /\ w.pc = "delCluster"
    /\ \/ NoFault /\ Absent(eks) /\ Goto("delRole") /\ UNCHANGED eks
       \/ /\ ~Absent(eks) /\ Deletable(eks) /\ eks' = [eks EXCEPT !.st = "DELETING"]
          /\ (NoFault /\ Goto("waitDeleted")) \/ Fails
       \/ NoFault /\ ~Absent(eks) /\ ~Deletable(eks) /\ Goto("close") /\ UNCHANGED eks
       \/ Fails /\ UNCHANGED eks
    /\ UNCHANGED <<role, provider, trust, addon, idp, entry, spec, obj, history, edits>>

WaitUntilClusterDeleted ==
    /\ w.pc = "waitDeleted"
    /\ \/ NoFault /\ eks.st = None /\ Goto("delRole")
       \/ Fault("timeout") /\ Goto("close")
    /\ UNCHANGED <<awsVars, spec, obj, history, edits>>

\* deleteControlPlaneIAMRole: only under the name that was stored.
DeleteRole ==
    /\ w.pc = "delRole"
    /\ \/ NoFault /\ role' = (role /\ ~w.loc.role) /\ Goto("delOIDC")
       \/ w.loc.role /\ Fails /\ role' \in {role, FALSE}
    /\ UNCHANGED <<eks, provider, trust, addon, idp, entry, spec, obj, history, edits>>

DeleteOIDCProvider ==
    /\ w.pc = "delOIDC"
    /\ \/ NoFault /\ ~(w.spec.oidc /\ w.loc.arn) /\ Goto("finish") /\ UNCHANGED provider
       \/ /\ w.spec.oidc /\ w.loc.arn
          /\ \/ NoFault /\ provider' = FALSE /\ Goto("delOIDCPatch")
             \/ Fails /\ provider' \in {provider, FALSE}
    /\ UNCHANGED <<eks, role, trust, addon, idp, entry, spec, obj, history, edits>>

ForgetOIDCProvider ==
    /\ w.pc = "delOIDCPatch" /\ PatchObject([w.loc EXCEPT !.arn = FALSE], "finish")
    /\ UNCHANGED <<awsVars, spec, unanswered, edits>>

\* The bastion, the security groups, the external resources and the network are
\* deleted, or one of them cannot be; then the finalizer is removed.
FinishDeletion ==
    /\ w.pc = "finish"
    /\ \/ NoFault /\ w' = [w EXCEPT !.loc.fin = FALSE, !.pc = "close"]
       \/ Fails
    /\ UNCHANGED <<awsVars, spec, obj, history, edits>>

\* The deferred Close.
Close ==
    /\ w.pc = "close" /\ w' = NoWork
    /\ \/ NoFault /\ obj.st = "gone" /\ UNCHANGED <<obj, lost>>
       \/ /\ NoFault /\ obj.st # "gone" /\ UNCHANGED lost
          /\ obj' = [st |-> IF obj.st = "deleting" /\ ~w.loc.fin THEN "gone" ELSE obj.st,
                     loc |-> w.loc]
       \/ Fault("patch") /\ obj.st # "gone" /\ lost' = TRUE /\ UNCHANGED obj
    /\ UNCHANGED <<awsVars, spec, unanswered, edits>>

-----------------------------------------------------------------------------
(* EKS, external: requests that were accepted take effect later *)

\* An update may fail; the cluster is active again, without its effect.
Applied(c) ==
    IF c.upd = "version" THEN [c EXCEPT !.st = "ACTIVE", !.version = @ + 1, !.upd = None]
    ELSE [c EXCEPT !.st = "ACTIVE", !.upd = None,
                   !.on = IF c.upd \in @ THEN @ \ {c.upd} ELSE @ \cup {c.upd}]
EKSProgress ==
    /\ \/ /\ eks.st = "CREATING"
          /\ \/ NoFault /\ eks' = [eks EXCEPT !.st = "ACTIVE"]
             \/ Fault("update") /\ eks' = [eks EXCEPT !.st = "FAILED"]
          /\ UNCHANGED <<trust, addon, idp, entry>>
       \/ /\ eks.st = "ACTIVE" /\ eks.upd # None /\ NoFault
          /\ eks' = [eks EXCEPT !.st = "UPDATING"] /\ UNCHANGED <<trust, addon, idp, entry>>
       \/ /\ eks.st = "UPDATING"
          /\ \/ NoFault /\ eks' = Applied(eks)
             \/ Fault("update") /\ eks' = [eks EXCEPT !.st = "ACTIVE", !.upd = None]
          /\ UNCHANGED <<trust, addon, idp, entry>>
       \/ /\ eks.st = "DELETING" /\ NoFault /\ eks' = NoCluster
          /\ trust' = FALSE /\ addon' = [a \in Addons |-> NoAddon] /\ idp' = NoIdp
          /\ entry' = [p \in Principals |-> NoEntry]
    /\ UNCHANGED <<role, provider, spec, obj, w, history, edits>>

AddonProgress(a) ==
    /\ \/ /\ NoFault /\ addon[a].st \in {"CREATING", "UPDATING"}
          /\ addon' = [addon EXCEPT ![a].st = "ACTIVE"]
       \/ /\ Fault("update") /\ addon[a].st \in {"CREATING", "UPDATING"}
          /\ addon' = [addon EXCEPT ![a].st = "DEGRADED"]
       \/ NoFault /\ addon[a].st = "DELETING" /\ addon' = [addon EXCEPT ![a] = NoAddon]
       \/ NoFault /\ addon[a].st = "DEGRADED" /\ addon' = [addon EXCEPT ![a].st = "ACTIVE"]
    /\ UNCHANGED <<eks, role, provider, trust, idp, entry, spec, obj, w, history, edits>>

IdpProgress ==
    /\ \/ idp.st = "CREATING" /\ idp' = [idp EXCEPT !.st = "ACTIVE"]
       \/ idp.st = "DELETING" /\ idp' = NoIdp
    /\ UNCHANGED <<eks, role, provider, trust, addon, entry, spec, obj, w, history, edits, faults>>

-----------------------------------------------------------------------------
(* The user *)

Edit(kind, next) ==
    /\ kind \in EditKinds /\ edits < MaxEdits /\ edits' = edits + 1
    /\ obj.st = "live" /\ spec' = next
    /\ UNCHANGED <<awsVars, obj, w, history, faults>>

\* The webhooks allow no lower version, access mode or encryption, and access
\* entries only with an access mode.
EditSpec ==
    \/ spec.version < MaxVersion /\ Edit("version", [spec EXCEPT !.version = @ + 1])
    \/ \E a \in Attrs \ spec.on : Edit(a, [spec EXCEPT !.on = @ \cup {a}])
    \/ \E a \in spec.on \cap {"vpc", "logging"} : Edit(a, [spec EXCEPT !.on = @ \ {a}])
    \/ \E a \in Addons, v \in 0 .. 2 :
          v # spec.addons[a] /\ Edit("addons", [spec EXCEPT !.addons[a] = v])
    \/ Edit("oidc", [spec EXCEPT !.oidc = ~@])
    \/ \E c \in 0 .. 2 : c # spec.idp /\ Edit("idp", [spec EXCEPT !.idp = c])
    \/ \E p \in Principals, t \in 0 .. 2 :
          /\ t # spec.entries[p] /\ "auth" \in spec.on
          /\ Edit("entries", [spec EXCEPT !.entries[p] = t])

\* Someone else makes an access entry.
MakeForeignEntry(p) ==
    /\ "foreign" \in EditKinds /\ edits < MaxEdits /\ edits' = edits + 1
    /\ ReadyIn(eks.st) /\ "auth" \in eks.on /\ entry[p] = NoEntry
    /\ SetEntry(p, [type |-> 1, ours |-> FALSE])
    /\ UNCHANGED <<eks, role, provider, trust, addon, idp, spec, obj, w, history, faults>>

\* The object is deleted; without the finalizer it is gone at once.
DeleteObject ==
    /\ obj.st = "live"
    /\ obj' = [obj EXCEPT !.st = IF obj.loc.fin THEN "deleting" ELSE "gone"]
    /\ UNCHANGED <<awsVars, spec, w, history, edits, faults>>

Crash ==
    /\ w.pc # "idle" /\ Fault("crash") /\ w' = NoWork /\ lost' = TRUE
    /\ UNCHANGED <<awsVars, spec, obj, unanswered, edits>>

Worker ==
    \/ Start \/ AddFinalizer \/ ReconcileRole \/ DescribeCluster \/ CreateCluster
    \/ SetStatus \/ WaitForClusterActive
    \/ \E a \in DOMAIN NextStep : ReconcileUpdate(a)
    \/ WaitUntilClusterUpdating \/ ReconcileAccessEntries
    \/ ReconcileOIDCProvider \/ StoreOIDCProvider \/ ReconcileTrustPolicy
    \/ PlanAddons \/ DoProcedure \/ StoreAddonStatus \/ ReconcileIdentityProvider
    \/ DeleteCluster \/ WaitUntilClusterDeleted \/ DeleteRole
    \/ DeleteOIDCProvider \/ ForgetOIDCProvider \/ FinishDeletion \/ Close

Next ==
    \/ Worker \/ EKSProgress \/ (\E a \in Addons : AddonProgress(a)) \/ IdpProgress
    \/ EditSpec \/ (\E p \in Principals : MakeForeignEntry(p)) \/ DeleteObject \/ Crash

\* The work queue hands the object out again and again, and EKS finishes what it
\* accepted.
Fairness ==
    /\ WF_vars(Worker) /\ WF_vars(EKSProgress) /\ WF_vars(IdpProgress)
    /\ \A a \in Addons : WF_vars(AddonProgress(a))

Spec == Init /\ [][Next]_vars
FairSpec == Spec /\ Fairness

-----------------------------------------------------------------------------
(* Properties *)

\* An object that is gone leaves no EKS cluster behind.  Its IAM role goes with
\* it unless a reconcile was cut short or could not store what it did, whichever
\* answers were lost; and so does its OIDC provider if the spec still asks for one
\* at the end, unless it was created by a call whose answer was lost and no later
\* reconcile found it: deleteOIDCProvider looks at the stored ARN only.
NoOrphanEKS ==
    obj.st = "gone" =>
        /\ eks.st = None
        /\ ~lost => ~role /\ (spec.oidc /\ ~unanswered => ~provider)

\* What a reconcile can never get past: a cluster that could not be created, and
\* an access entry wanted for a principal who has one of somebody else's.
Stuck == eks.st = "FAILED" \/ \E p \in Principals : spec.entries[p] # 0 /\ Foreign(entry[p])

Entries == {p \in Principals : spec.entries[p] # 0}

\* The version, reached one minor version at a time, the configuration and the
\* access entries asked for; the entries of others are left alone.
ConfigApplied ==
    /\ eks.version = spec.version /\ eks.on = spec.on
    /\ Entries # {} => \A p \in Principals : IF p \in Entries
                                            THEN entry[p].type = spec.entries[p]
                                            ELSE ~Managed(entry[p])

\* The add-ons asked for, and no others, and the status says so as long as one is
\* asked for.
AddonsApplied ==
    /\ \A a \in Addons : addon[a].v = spec.addons[a]
    /\ spec.addons # [a \in Addons |-> 0] => obj.loc.addons = spec.addons

\* An identity provider configuration asked for is associated, also when it
\* replaces another.
IdentityProviderApplied == spec.idp # 0 => idp = [cfg |-> spec.idp, st |-> "ACTIVE"]

\* Whatever EKS refuses while it updates the cluster, and whichever step fails on
\* the way, the cluster, its add-ons and its identity provider reach what is
\* asked for: a step that was skipped is taken up by a later reconcile.
EKSConverges ==
    <>[](obj.st = "live" /\ ~Stuck => ConfigApplied /\ AddonsApplied /\ IdentityProviderApplied)

\* The trust policy template of an OIDC provider asked for ends up in the workload
\* cluster (docs/proposal/20230317-irsa-support-for-awscluster.md).  The code does
\* not ensure it: reconcileOIDCProvider returns early once the provider is stored.
TrustPolicyWritten == <>[](obj.st = "live" /\ ~Stuck /\ spec.oidc => trust)

\* A deleted control plane is gone in the end, whatever EKS was doing at the time.
DeletionCompletes == obj.st = "deleting" ~> obj.st = "gone"

=============================================================================

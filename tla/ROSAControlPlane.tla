-------------------------- MODULE ROSAControlPlane --------------------------
(***************************************************************************)
(* The ROSAControlPlane controller                                         *)
(* (controlplane/rosa/controllers/rosacontrolplane_controller.go): one     *)
(* hosted cluster in OCM.  A reconcile reads the object and the cluster    *)
(* once and works on these copies; the deferred patch writes what it       *)
(* changed.  The cluster uses the kubeconfig of an admin user (external    *)
(* authentication is not enabled).  A component of ROSA.                   *)
(***************************************************************************)
EXTENDS Naturals

CONSTANTS MaxVersion, FaultKinds, MaxFaults

VARIABLES
    ocm,    \* the cluster in OCM: st, ver, upg (the version it upgrades to, or 0),
            \* acked (gates agreed to), cfg, fwd (a log forwarder), adm (admin user)
    spec,   \* the spec: version, gate, cfg, fwd
    cp,     \* the stored object: st, and loc: fin, ready, id
    access, \* the secrets: pw and kube
    cw,     \* the reconcile: pc, the copies of the object and of the cluster
    faults

Versions == 1 .. MaxVersion
Gates == {"WaitForAcknowledge", "Acknowledge", "AlwaysAcknowledge"}
Specs == [version: Versions, gate: Gates, cfg: BOOLEAN, fwd: BOOLEAN]
Locals == [fin: BOOLEAN, ready: BOOLEAN, id: BOOLEAN]

\* The admin user: the member of the admin group, and with the identity provider as
\* well; or the provider only, whose user is no member.
Admins == {"none", "user", "idp", "idp only"}
ClusterStates == {"none", "installing", "ready", "error", "uninstalling"}
NoCluster == [st |-> "none", ver |-> 1, upg |-> 0, acked |-> {}, cfg |-> FALSE,
              fwd |-> FALSE, adm |-> "none"]
NoSpec == [version |-> 1, gate |-> "WaitForAcknowledge", cfg |-> FALSE, fwd |-> FALSE]
NoLocal == [fin |-> FALSE, ready |-> FALSE, id |-> FALSE]
NoWork == [pc |-> "idle", loc |-> NoLocal, sp |-> NoSpec, seen |-> [ver |-> 1, cfg |-> FALSE],
           reset |-> FALSE]

TypeOK ==
    /\ ocm \in [st: ClusterStates, ver: Versions, upg: 0 .. MaxVersion, acked: SUBSET Versions,
                cfg: BOOLEAN, fwd: BOOLEAN, adm: Admins]
    /\ spec \in Specs /\ cw.sp \in Specs /\ cw.loc \in Locals
    /\ cp \in [st: {"absent", "live", "deleting", "gone"}, loc: Locals]
    /\ access \in [pw: BOOLEAN, kube: BOOLEAN]

Init(exists, version) ==
    /\ ocm = NoCluster /\ cw = NoWork /\ access = [pw |-> FALSE, kube |-> FALSE]
    /\ spec = [NoSpec EXCEPT !.version = version]
    /\ cp = [st |-> IF exists THEN "live" ELSE "absent", loc |-> NoLocal]

Fault(kind) == kind \in FaultKinds /\ faults < MaxFaults /\ faults' = faults + 1
NoFault == faults' = faults
Goto(pc) == cw' = [cw EXCEPT !.pc = pc]
Sets(loc) == cw' = [cw EXCEPT !.loc = loc, !.pc = "close"]

-----------------------------------------------------------------------------
(* Reconcile and reconcileNormal *)

Reconcile ==
    /\ cw.pc = "idle" /\ cp.st \in {"live", "deleting"} /\ NoFault
    /\ cw' = [NoWork EXCEPT
                !.pc = IF cp.st = "deleting" THEN "machinePools"
                       ELSE IF cp.loc.fin THEN "get" ELSE "finalizer",
                !.loc = cp.loc, !.sp = spec]
    /\ UNCHANGED <<ocm, spec, cp, access>>

AddFinalizer ==
    /\ cw.pc = "finalizer"
    /\ \/ /\ NoFault /\ cp.st # "gone" /\ cp' = [cp EXCEPT !.loc.fin = TRUE]
          /\ cw' = [cw EXCEPT !.loc.fin = TRUE, !.pc = "get"]
       \/ /\ IF cp.st = "gone" THEN NoFault ELSE Fault("patch")
          /\ Sets([cw.loc EXCEPT !.fin = TRUE]) /\ UNCHANGED cp
    /\ UNCHANGED <<ocm, spec, access>>

\* reconcileRosaRoleConfig: referenced roles have to be ready.  GetCluster, and the
\* status it is reflected in.
GetCluster(rolesReady) ==
    /\ cw.pc = "get"
    /\ \/ NoFault /\ ~rolesReady /\ Goto("close")
       \/ /\ NoFault /\ rolesReady
          /\ cw' = IF ocm.st = "none" THEN [cw EXCEPT !.pc = "create"]
                   ELSE [cw EXCEPT !.loc.id = TRUE, !.loc.ready = ocm.st = "ready",
                                   !.seen = [ver |-> ocm.ver, cfg |-> ocm.cfg],
                                   !.pc = IF ocm.st = "ready" THEN "forwarders" ELSE "close"]
       \/ Fault("ocm") /\ Goto("close")
    /\ UNCHANGED <<ocm, spec, cp, access>>

\* buildOCMClusterSpec: the version, the configuration and the log forwarders.
NewCluster == [NoCluster EXCEPT !.st = "installing", !.ver = cw.sp.version,
                                !.cfg = cw.sp.cfg, !.fwd = cw.sp.fwd]

\* The referenced ROSANetwork has to be ready.  Here and below a call that fails may
\* have taken effect.
CreateCluster(networkReady) ==
    /\ cw.pc = "create"
    /\ \/ NoFault /\ ~networkReady /\ Goto("close") /\ UNCHANGED ocm
       \/ /\ NoFault /\ networkReady /\ Sets([cw.loc EXCEPT !.id = TRUE])
          /\ ocm' = NewCluster
       \/ Fault("ocm") /\ networkReady /\ Goto("close") /\ ocm' \in {ocm, NewCluster}
    /\ UNCHANGED <<spec, cp, access>>

Gone == ocm.st = "none"

ReconcileLogForwarders ==
    /\ cw.pc = "forwarders"
    /\ \/ /\ ~Gone /\ ocm' = [ocm EXCEPT !.fwd = cw.sp.fwd]
          /\ (NoFault /\ Goto("update")) \/ (Fault("ocm") /\ Goto("close"))
       \/ (IF Gone THEN NoFault ELSE Fault("ocm")) /\ Goto("close") /\ UNCHANGED ocm
    /\ UNCHANGED <<spec, cp, access>>

\* updateOCMClusterSpec compares the spec with the cluster as it was read.
Updated == cw.sp.cfg # cw.seen.cfg

UpdateOCMCluster ==
    /\ cw.pc = "update"
    /\ \/ NoFault /\ ~Updated /\ Goto("version") /\ UNCHANGED ocm
       \/ /\ Updated /\ ~Gone /\ ocm' = [ocm EXCEPT !.cfg = cw.sp.cfg]
          /\ (NoFault /\ Goto("version")) \/ (Fault("ocm") /\ Goto("close"))
       \/ /\ IF Gone THEN NoFault ELSE Fault("ocm")
          /\ Updated /\ Goto("close") /\ UNCHANGED ocm
    /\ UNCHANGED <<spec, cp, access>>

\* The user agrees to the gates of the version asked for.
Ack == cw.sp.gate \in {"Acknowledge", "AlwaysAcknowledge"}

\* ScheduleControlPlaneUpgrade: the gates are agreed to, and OCM takes the upgrade.
Schedulable ==
    /\ cw.sp.version \in ocm.acked \/ Ack
    /\ ocm.st = "ready" /\ cw.sp.version > ocm.ver

Scheduled == [ocm EXCEPT !.acked = @ \cup {cw.sp.version}, !.upg = cw.sp.version]

\* reconcileClusterVersion: the gate is reset once the version is reached;
\* otherwise the missing gates are agreed to and the upgrade is scheduled, unless
\* one is scheduled already.
ReconcileClusterVersion ==
    /\ cw.pc = "version"
    /\ \/ /\ NoFault /\ cw.sp.version = cw.seen.ver
          /\ cw' = [cw EXCEPT !.pc = "password", !.reset = cw.sp.gate = "Acknowledge"]
          /\ UNCHANGED ocm
       \/ /\ NoFault /\ cw.sp.version # cw.seen.ver /\ ocm.upg # 0
          /\ Goto(IF ocm.upg = cw.sp.version THEN "password" ELSE "close") /\ UNCHANGED ocm
       \/ /\ NoFault /\ cw.sp.version # cw.seen.ver /\ ocm.upg = 0
          /\ IF Schedulable THEN ocm' = Scheduled /\ Goto("password")
             ELSE Goto("close") /\ UNCHANGED ocm
       \/ /\ Fault("ocm") /\ cw.sp.version # cw.seen.ver /\ Goto("close")
          /\ \/ UNCHANGED ocm
             \/ Ack /\ ocm.upg = 0 /\ ~Gone /\ ocm' = [ocm EXCEPT !.acked = @ \cup {cw.sp.version}]
             \/ Schedulable /\ ocm.upg = 0 /\ ocm' = Scheduled
    /\ UNCHANGED <<spec, cp, access>>

-----------------------------------------------------------------------------
(* reconcileKubeconfig *)

\* reconcileClusterAdminPassword stores the password, then the user is created.
ClusterAdminPassword ==
    /\ cw.pc = "password"
    /\ \/ NoFault /\ access' = [access EXCEPT !.pw = TRUE] /\ Goto("user")
       \/ Fault("kube") /\ ~access.pw /\ Goto("close") /\ UNCHANGED access
    /\ UNCHANGED <<ocm, spec, cp>>

\* CreateAdminUserIfNotExist: the member of the admin group, unless the identity
\* provider exists with its user already.
CreateUser ==
    /\ cw.pc = "user"
    /\ \/ /\ ~Gone /\ ocm' = [ocm EXCEPT !.adm = IF @ = "none" THEN "user" ELSE @]
          /\ \/ NoFault /\ Goto(IF ocm.adm \in {"idp", "idp only"} THEN "token" ELSE "idp")
             \/ Fault("ocm") /\ Goto("close")
       \/ (IF Gone THEN NoFault ELSE Fault("ocm")) /\ Goto("close") /\ UNCHANGED ocm
    /\ UNCHANGED <<spec, cp, access>>

\* When the creation of the identity provider fails the user is removed again, if
\* that succeeds; the provider may exist all the same.
Reverted == Admins

CreateIdentityProvider ==
    /\ cw.pc = "idp"
    /\ \/ NoFault /\ ~Gone /\ ocm' = [ocm EXCEPT !.adm = "idp"] /\ Goto("token")
       \/ /\ Fault("ocm") /\ ~Gone /\ Goto("close")
          /\ \E adm \in Reverted : ocm' = [ocm EXCEPT !.adm = adm]
       \/ NoFault /\ Gone /\ Goto("close") /\ UNCHANGED ocm
    /\ UNCHANGED <<spec, cp, access>>

\* The token is requested with the stored password and written to the secret.
WriteKubeconfig ==
    /\ cw.pc = "token" /\ Goto("close")
    /\ \/ NoFault /\ ~Gone /\ access' = [access EXCEPT !.kube = TRUE]
       \/ (IF Gone THEN NoFault ELSE Fault("kube")) /\ UNCHANGED access
    /\ UNCHANGED <<ocm, spec, cp>>

-----------------------------------------------------------------------------
(* reconcileDelete and the deferred patch *)

\* Mutation: a cluster that is being uninstalled no longer keeps the object.
ClusterGone_Uninstalling(st) == st \in {"none", "uninstalling"}

\* "cluster and machinepools are deleted": GetCluster finds no cluster.
ClusterGone(st) == st = "none"

\* Mutation: DeleteCluster is never called for a cluster that was not ready.
ToUninstall_Ready(st) == st = "ready"

\* DeleteCluster is called in every state but uninstalling.
ToUninstall(st) == st # "uninstalling"

Uninstalling == IF ToUninstall(ocm.st) THEN [ocm EXCEPT !.st = "uninstalling", !.upg = 0] ELSE ocm

\* What follows deleteMachinePools when no MachinePool was left to delete.
DeleteCluster ==
    /\ cw.pc = "delete"
    /\ \/ /\ NoFault /\ ClusterGone(ocm.st) /\ Sets([cw.loc EXCEPT !.fin = FALSE])
          /\ UNCHANGED ocm
       \/ /\ NoFault /\ ~ClusterGone(ocm.st) /\ Sets([cw.loc EXCEPT !.ready = FALSE])
          /\ ocm' = Uninstalling
       \/ /\ Fault("ocm") /\ Goto("close")
          /\ UNCHANGED ocm \/ (~ClusterGone(ocm.st) /\ ocm' = Uninstalling)
    /\ UNCHANGED <<spec, cp, access>>

\* Close: the patch holds what this reconcile changed, the gate it reset included,
\* whatever the gate has become since.
Close ==
    /\ cw.pc = "close" /\ cw' = NoWork
    /\ \/ NoFault /\ cp.st = "gone" /\ UNCHANGED <<cp, spec>>
       \/ /\ NoFault /\ cp.st # "gone"
          /\ cp' = [st |-> IF cp.st = "deleting" /\ ~cw.loc.fin THEN "gone" ELSE cp.st,
                    loc |-> cw.loc]
          /\ spec' = IF cw.reset THEN [spec EXCEPT !.gate = "WaitForAcknowledge"] ELSE spec
       \/ Fault("patch") /\ cp.st # "gone" /\ UNCHANGED <<cp, spec>>
    /\ UNCHANGED <<ocm, access>>

\* deleteMachinePools is the composition's: it deletes the MachinePools.
MachinePoolsDeleted(all) ==
    /\ cw.pc = "machinePools"
    /\ Goto(IF all THEN "delete" ELSE "close")
    /\ UNCHANGED <<ocm, spec, cp, access>>

Worker ==
    \/ Reconcile \/ AddFinalizer \/ ReconcileLogForwarders
    \/ UpdateOCMCluster \/ ReconcileClusterVersion \/ ClusterAdminPassword \/ CreateUser
    \/ CreateIdentityProvider \/ WriteKubeconfig \/ DeleteCluster \/ Close

-----------------------------------------------------------------------------
(* OCM and the user, external *)

\* OCM installs, upgrades and uninstalls a cluster.
Progress ==
    /\ \/ /\ ocm.st = "installing"
          /\ \/ NoFault /\ ocm' = [ocm EXCEPT !.st = "ready"]
             \/ Fault("install") /\ ocm' = [ocm EXCEPT !.st = "error"]
       \/ NoFault /\ ocm.upg # 0 /\ ocm' = [ocm EXCEPT !.ver = ocm.upg, !.upg = 0]
       \/ NoFault /\ ocm.st = "uninstalling" /\ ocm' = NoCluster
    /\ UNCHANGED <<spec, cp, access, cw>>

\* The user asks for the next version, agreeing to its gates or not, or changes
\* the configuration; and agrees later.
EditSpec ==
    /\ cp.st = "live"
    /\ \/ /\ spec.version < MaxVersion
          /\ \E gate \in Gates : spec' = [spec EXCEPT !.version = @ + 1, !.gate = gate]
       \/ spec' = [spec EXCEPT !.cfg = ~@, !.fwd = ~@]
       \/ spec.gate = "WaitForAcknowledge" /\ spec' = [spec EXCEPT !.gate = "Acknowledge"]
    /\ UNCHANGED <<ocm, cp, access, cw>>

DeleteControlPlane ==
    /\ cp.st = "live" /\ cp' = [cp EXCEPT !.st = IF cp.loc.fin THEN "deleting" ELSE "gone"]
    /\ UNCHANGED <<ocm, spec, access, cw>>

=============================================================================

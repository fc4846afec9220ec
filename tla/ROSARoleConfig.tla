--------------------------- MODULE ROSARoleConfig ---------------------------
(***************************************************************************)
(* The ROSARoleConfig controller                                           *)
(* (exp/controllers/rosaroleconfig_controller.go): the account roles, the  *)
(* OIDC configuration with its provider, and the operator roles of a ROSA  *)
(* cluster.  Roles are found by their names, the configuration only by the *)
(* id in the status.  The OIDC provider type is Managed; all roles of a    *)
(* kind are one.  A component of ROSA.                                     *)
(***************************************************************************)
EXTENDS Naturals, FiniteSets

CONSTANTS FaultKinds, MaxFaults

VARIABLES
    iam,    \* in AWS: acct (the account roles exist), prov (the configurations that
            \* have a provider), op (the configuration the operator roles trust, or 0)
    oidc,   \* the OIDC configurations in OCM
    rc,     \* the stored object: st, and loc: fin, acct, id, prov, op, ready
    rw,     \* the reconcile: pc and its copy
    faults

\* A configuration is lost only with a fault.
Ids == 1 .. MaxFaults + 1
Locals == [fin: BOOLEAN, acct: BOOLEAN, id: {0} \cup Ids, prov: BOOLEAN, op: BOOLEAN, ready: BOOLEAN]
NoLocal == [fin |-> FALSE, acct |-> FALSE, id |-> 0, prov |-> FALSE, op |-> FALSE, ready |-> FALSE]
NoWork == [pc |-> "idle", loc |-> NoLocal]

TypeOK ==
    /\ iam \in [acct: BOOLEAN, prov: SUBSET Ids, op: {0} \cup Ids] /\ oidc \subseteq Ids
    /\ rc \in [st: {"absent", "live", "deleting", "gone"}, loc: Locals] /\ rw.loc \in Locals

Init(exists) ==
    /\ iam = [acct |-> FALSE, prov |-> {}, op |-> 0] /\ oidc = {} /\ rw = NoWork
    /\ rc = [st |-> IF exists THEN "live" ELSE "absent", loc |-> NoLocal]

Fault(kind) == kind \in FaultKinds /\ faults < MaxFaults /\ faults' = faults + 1
NoFault == faults' = faults
Goto(pc, loc) == rw' = [pc |-> pc, loc |-> loc]

\* An error marks the object not ready and ends the reconcile.
Fails == Goto("close", [rw.loc EXCEPT !.ready = FALSE])

-----------------------------------------------------------------------------
(* Reconcile *)

\* The finalizer is stored by the deferred patch; the roles follow in the next
\* reconcile.  setUpRuntime may fail.
Reconcile ==
    /\ rw.pc = "idle" /\ rc.st \in {"live", "deleting"}
    /\ \/ NoFault /\ rc.st = "deleting" /\ Goto("delOperator", [rc.loc EXCEPT !.ready = FALSE])
       \/ NoFault /\ rc.st = "live" /\ ~rc.loc.fin /\ Goto("close", [rc.loc EXCEPT !.fin = TRUE])
       \/ NoFault /\ rc.st = "live" /\ rc.loc.fin /\ Goto("account", rc.loc)
       \/ Fault("ocm") /\ Goto("close", rc.loc)
    /\ UNCHANGED <<iam, oidc, rc>>

\* reconcileAccountRoles: roles it creates are recorded by the next reconcile.
AccountRoles ==
    /\ rw.pc = "account"
    /\ \/ /\ NoFault /\ iam' = [iam EXCEPT !.acct = TRUE]
          /\ Goto("config", [rw.loc EXCEPT !.acct = @ \/ iam.acct])
       \/ Fault("aws") /\ Fails /\ \E acct \in {iam.acct, TRUE} : iam' = [iam EXCEPT !.acct = acct]
    /\ UNCHANGED <<oidc, rc>>

NewId == Cardinality(oidc) + 1

\* reconcileOIDC: a configuration is created when the status has no id; the answer may
\* be lost, or the read of the new configuration fail with its id in the status.
OIDCConfig ==
    /\ rw.pc = "config"
    /\ \/ NoFault /\ rw.loc.id # 0 /\ Goto("provider", rw.loc) /\ UNCHANGED oidc
       \/ /\ NoFault /\ rw.loc.id = 0 /\ oidc' = oidc \cup {NewId}
          /\ Goto("provider", [rw.loc EXCEPT !.id = NewId])
       \/ Fault("ocm") /\ Fails /\ UNCHANGED oidc
       \/ /\ Fault("ocm") /\ rw.loc.id = 0 /\ oidc' = oidc \cup {NewId}
          /\ \E id \in {0, NewId} : Goto("close", [rw.loc EXCEPT !.id = id, !.ready = FALSE])
    /\ UNCHANGED <<iam, rc>>

\* The provider of the configuration, found or created.
OIDCProvider ==
    LET created == [iam EXCEPT !.prov = @ \cup {rw.loc.id}]
    IN  /\ rw.pc = "provider"
        /\ \/ NoFault /\ iam' = created /\ Goto("operator", [rw.loc EXCEPT !.prov = TRUE])
           \/ Fault("aws") /\ Fails /\ iam' \in {iam, created}
        /\ UNCHANGED <<oidc, rc>>

\* reconcileOperatorRoles: roles with the prefix are taken whatever they trust;
\* none are created before the installer role is recorded.
OperatorRoles ==
    LET created == IF rw.loc.acct /\ iam.op = 0 THEN [iam EXCEPT !.op = rw.loc.id] ELSE iam
    IN  /\ rw.pc = "operator"
        /\ \/ NoFault /\ iam' = created /\ Goto("ready", [rw.loc EXCEPT !.op = @ \/ iam.op # 0])
           \/ Fault("aws") /\ Fails /\ iam' \in {iam, created}
        /\ UNCHANGED <<oidc, rc>>

\* rosaRolesConfigReady.
RolesReady == rw.loc.id # 0 /\ rw.loc.op /\ rw.loc.acct

SetReady ==
    /\ rw.pc = "ready" /\ NoFault /\ Goto("close", [rw.loc EXCEPT !.ready = RolesReady])
    /\ UNCHANGED <<iam, oidc, rc>>

-----------------------------------------------------------------------------
(* reconcileDelete and the deferred patch *)

\* deleteOperatorRoles, refused while a cluster uses them; missing ones are no error.
DeleteOperatorRoles(used) ==
    /\ rw.pc = "delOperator"
    /\ \/ NoFault /\ ~used /\ iam' = [iam EXCEPT !.op = 0] /\ Goto("delConfig", rw.loc)
       \/ NoFault /\ used /\ Fails /\ UNCHANGED iam
       \/ Fault("aws") /\ Fails /\ ~used /\ \E op \in {0, iam.op} : iam' = [iam EXCEPT !.op = op]
    /\ UNCHANGED <<oidc, rc>>

\* deleteOIDC: the provider of the recorded ARN, then the configuration.  A
\* configuration that is already gone cannot be read, which is an error; and so is
\* the deletion of a provider without an ARN, which IAM refuses.
DeleteOIDC(used) ==
    LET without == [iam EXCEPT !.prov = @ \ {rw.loc.id}]
        allowed == rw.loc.id \in oidc /\ ~used /\ rw.loc.prov
    IN  /\ rw.pc = "delConfig"
        /\ \/ NoFault /\ rw.loc.id = 0 /\ Goto("delAccount", rw.loc) /\ UNCHANGED <<iam, oidc>>
           \/ /\ NoFault /\ allowed /\ Goto("delAccount", rw.loc)
              /\ iam' = without /\ oidc' = oidc \ {rw.loc.id}
           \/ NoFault /\ rw.loc.id # 0 /\ ~allowed /\ Fails /\ UNCHANGED <<iam, oidc>>
           \/ /\ Fault("ocm") /\ allowed /\ Fails
              /\ iam' \in {iam, without} /\ (oidc' = oidc \/ (iam' = without /\ oidc' = oidc \ {rw.loc.id}))
        /\ UNCHANGED rc

\* deleteAccountRoles: here a role that does not exist is an error.
DeleteAccountRoles ==
    /\ rw.pc = "delAccount"
    /\ \/ /\ NoFault /\ iam.acct /\ iam' = [iam EXCEPT !.acct = FALSE]
          /\ Goto("close", [rw.loc EXCEPT !.fin = FALSE])
       \/ NoFault /\ ~iam.acct /\ Fails /\ UNCHANGED iam
       \/ Fault("aws") /\ Fails /\ \E acct \in {iam.acct, FALSE} : iam' = [iam EXCEPT !.acct = acct]
    /\ UNCHANGED <<oidc, rc>>

\* What the deletion asks for is not there any more or never was, or the provider's
\* ARN was not recorded with the id: every further reconcile fails.
CannotBeDeleted ==
    (rc.loc.id # 0 /\ (rc.loc.id \notin oidc \/ ~rc.loc.prov)) \/ ~iam.acct

Close ==
    /\ rw.pc = "close" /\ rw' = NoWork
    /\ \/ NoFault /\ rc.st = "gone" /\ UNCHANGED rc
       \/ /\ NoFault /\ rc.st # "gone"
          /\ rc' = [st |-> IF rc.st = "deleting" /\ ~rw.loc.fin THEN "gone" ELSE rc.st, loc |-> rw.loc]
       \/ Fault("patch") /\ rc.st # "gone" /\ UNCHANGED rc
    /\ UNCHANGED <<iam, oidc>>

Worker(used) ==
    \/ Reconcile \/ AccountRoles \/ OIDCConfig \/ OIDCProvider \/ OperatorRoles \/ SetReady
    \/ DeleteOperatorRoles(used) \/ DeleteOIDC(used) \/ DeleteAccountRoles \/ Close

-----------------------------------------------------------------------------
(* The user, external *)

DeleteRoleConfig ==
    /\ rc.st = "live" /\ rc' = [rc EXCEPT !.st = IF rc.loc.fin THEN "deleting" ELSE "gone"]
    /\ UNCHANGED <<iam, oidc, rw>>

=============================================================================

---------------------------- MODULE ROSANetwork ----------------------------
(***************************************************************************)
(* The ROSANetwork controller (exp/controllers/rosanetwork_controller.go): *)
(* a CloudFormation stack per ROSANetwork.  Several networks are           *)
(* reconciled at the same time by one ROSANetworkReconciler, which keeps   *)
(* the stack it looked up last in its field cfStack: a reconcile may read  *)
(* what the reconcile of another network has put there.  All networks use  *)
(* one region and identity (the AWS client is kept as well).  A component  *)
(* of ROSA.                                                                *)
(***************************************************************************)
EXTENDS Naturals

CONSTANTS Networks, FaultKinds, MaxFaults

VARIABLES
    stack,    \* state of the CloudFormation stack of every network
    net,      \* the stored ROSANetworks: st, fin, ready (the condition)
    nw,       \* the reconcile of every network: pc and the local copy
    cfStack,  \* the field: state of a stack (None: nil), and for whom it was read
    raced,    \* networks that acted on the stack of another one
    faults

None == "none"
NoLocal == [fin |-> FALSE, ready |-> FALSE]
NoWork == [pc |-> "idle", loc |-> NoLocal]
Locals == [fin: BOOLEAN, ready: BOOLEAN]
StackStates == {None, "CREATE_IN_PROGRESS", "CREATE_COMPLETE", "CREATE_FAILED",
                "ROLLBACK_COMPLETE", "DELETE_IN_PROGRESS", "DELETE_FAILED"}
TypeOK ==
    /\ stack \in [Networks -> StackStates]
    /\ net \in [Networks -> [st: {"absent", "live", "deleting", "gone"}, loc: Locals]]
    /\ \A n \in Networks : nw[n].loc \in Locals
    /\ cfStack \in [st: StackStates, by: Networks] /\ raced \subseteq Networks

Init(existing) ==
    /\ stack = [n \in Networks |-> None] /\ nw = [n \in Networks |-> NoWork]
    /\ net = [n \in Networks |-> [st |-> IF n \in existing THEN "live" ELSE "absent", loc |-> NoLocal]]
    /\ cfStack = [st |-> None, by |-> CHOOSE n \in Networks : TRUE] /\ raced = {}

Fault(kind) == kind \in FaultKinds /\ faults < MaxFaults /\ faults' = faults + 1
NoFault == faults' = faults
Goto(n, pc) == nw' = [nw EXCEPT ![n].pc = pc]
Ends(n, ready) == nw' = [nw EXCEPT ![n].pc = "close", ![n].loc.ready = ready]

\* Reading the field: what is there may be another network's.
UsesField(n) == raced' = IF cfStack.by = n THEN raced ELSE raced \cup {n}

-----------------------------------------------------------------------------
(* Reconcile *)

\* Reconcile reads the object and looks the stack up; when that fails the field is nil
\* and Reconcile returns before the patch is deferred.
GetCFStack(n) ==
    /\ nw[n].pc = "idle" /\ net[n].st \in {"live", "deleting"}
    /\ \/ /\ NoFault /\ cfStack' = [st |-> stack[n], by |-> n]
          /\ nw' = [nw EXCEPT ![n] =
                      [pc |-> IF net[n].st = "deleting" THEN "deleting"
                              ELSE IF net[n].loc.fin THEN "normal" ELSE "finalizer",
                       loc |-> net[n].loc]]
       \/ Fault("aws") /\ cfStack' = [st |-> None, by |-> n] /\ UNCHANGED nw
    /\ UNCHANGED <<stack, net, raced>>

AddFinalizer(n) ==
    /\ nw[n].pc = "finalizer"
    /\ \/ /\ NoFault /\ net[n].st # "gone" /\ net' = [net EXCEPT ![n].loc.fin = TRUE]
          /\ nw' = [nw EXCEPT ![n].loc.fin = TRUE, ![n].pc = "normal"]
       \/ /\ IF net[n].st = "gone" THEN NoFault ELSE Fault("patch")
          /\ nw' = [nw EXCEPT ![n].loc.fin = TRUE, ![n].pc = "close"] /\ UNCHANGED net
    /\ UNCHANGED <<stack, cfStack, raced>>

\* "The CF stack does not exist yet", or its resources are read.
ReconcileNormal(n) ==
    /\ nw[n].pc = "normal" /\ NoFault /\ UsesField(n)
    /\ Goto(n, IF cfStack.st = None THEN "create" ELSE "resources")
    /\ UNCHANGED <<stack, net, cfStack>>

CreateStack(n) ==
    /\ nw[n].pc = "create" /\ Ends(n, FALSE)
    /\ \/ /\ NoFault \/ Fault("aws")
          /\ stack' = [stack EXCEPT ![n] = IF @ = None THEN "CREATE_IN_PROGRESS" ELSE @]
       \/ Fault("aws") /\ UNCHANGED stack
    /\ UNCHANGED <<net, cfStack, raced>>

\* updateROSANetworkResources, of the network's own stack: an error, for a stack
\* that is not there as well, ends the reconcile.
UpdateResources(n) ==
    /\ nw[n].pc \in {"resources", "delResources"}
    /\ \/ /\ NoFault
          /\ Goto(n, IF stack[n] = None THEN "close"
                     ELSE IF nw[n].pc = "resources" THEN "status" ELSE "delStatus")
       \/ Fault("aws") /\ Goto(n, "close")
    /\ UNCHANGED <<stack, net, cfStack, raced>>

\* The switch on the state of the stack; the states that have no case, and the
\* nil pointer whose panic is recovered, leave the condition alone, and so does
\* parseSubnets when it cannot read the zone of a subnet.
StackStatus(n) ==
    /\ nw[n].pc = "status" /\ UsesField(n)
    /\ \/ /\ NoFault
          /\ Ends(n, IF cfStack.st = "CREATE_COMPLETE" THEN TRUE
                     ELSE IF cfStack.st \in {"CREATE_IN_PROGRESS", "CREATE_FAILED"} THEN FALSE
                     ELSE nw[n].loc.ready)
       \/ Fault("aws") /\ cfStack.st = "CREATE_COMPLETE" /\ Ends(n, nw[n].loc.ready)
    /\ UNCHANGED <<stack, net, cfStack>>

\* "The CF stack still exists".
StillExists(st) == st # None

ReconcileDelete(n) ==
    /\ nw[n].pc = "deleting" /\ NoFault /\ UsesField(n)
    /\ IF StillExists(cfStack.st) THEN Goto(n, "delResources")
       ELSE nw' = [nw EXCEPT ![n].loc.fin = FALSE, ![n].pc = "close"]
    /\ UNCHANGED <<stack, net, cfStack>>

DeleteStatus(n) ==
    /\ nw[n].pc = "delStatus" /\ NoFault /\ UsesField(n)
    /\ IF cfStack.st \in {None, "DELETE_IN_PROGRESS"} THEN Goto(n, "close")
       ELSE IF cfStack.st = "DELETE_FAILED" THEN Ends(n, FALSE)
       ELSE Goto(n, "delStack")
    /\ UNCHANGED <<stack, net, cfStack>>

DeleteCFStack(n) ==
    /\ nw[n].pc = "delStack" /\ Ends(n, FALSE)
    /\ \/ /\ NoFault \/ Fault("aws")
          /\ stack' = [stack EXCEPT ![n] = IF @ = None THEN None ELSE "DELETE_IN_PROGRESS"]
       \/ Fault("aws") /\ UNCHANGED stack
    /\ UNCHANGED <<net, cfStack, raced>>

\* The deferred PatchObject.
Close(n) ==
    /\ nw[n].pc = "close" /\ nw' = [nw EXCEPT ![n] = NoWork]
    /\ \/ NoFault /\ net[n].st = "gone" /\ UNCHANGED net
       \/ /\ NoFault /\ net[n].st # "gone"
          /\ net' = [net EXCEPT ![n] =
                       [st |-> IF @.st = "deleting" /\ ~nw[n].loc.fin THEN "gone" ELSE @.st,
                        loc |-> nw[n].loc]]
       \/ Fault("patch") /\ net[n].st # "gone" /\ UNCHANGED net
    /\ UNCHANGED <<stack, cfStack, raced>>

Worker(n) ==
    \/ GetCFStack(n) \/ AddFinalizer(n) \/ ReconcileNormal(n) \/ CreateStack(n)
    \/ UpdateResources(n) \/ StackStatus(n) \/ ReconcileDelete(n) \/ DeleteStatus(n)
    \/ DeleteCFStack(n) \/ Close(n)

-----------------------------------------------------------------------------
(* CloudFormation and the user, external *)

Progress(n) ==
    /\ \/ /\ stack[n] = "CREATE_IN_PROGRESS"
          /\ \/ NoFault /\ stack' = [stack EXCEPT ![n] = "CREATE_COMPLETE"]
             \/ /\ Fault("update")
                /\ \E st \in {"CREATE_FAILED", "ROLLBACK_COMPLETE"} : stack' = [stack EXCEPT ![n] = st]
       \/ /\ stack[n] = "DELETE_IN_PROGRESS"
          /\ \/ NoFault /\ stack' = [stack EXCEPT ![n] = None]
             \/ Fault("update") /\ stack' = [stack EXCEPT ![n] = "DELETE_FAILED"]
    /\ UNCHANGED <<net, nw, cfStack, raced>>

DeleteNetwork(n) ==
    /\ net[n].st = "live"
    /\ net' = [net EXCEPT ![n].st = IF net[n].loc.fin THEN "deleting" ELSE "gone"]
    /\ UNCHANGED <<stack, nw, cfStack, raced>>

=============================================================================

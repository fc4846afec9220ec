------------------------- MODULE ResourceLifecycle -------------------------
(***************************************************************************)
(* What every controller of the provider promises about the cloud          *)
(* resources of an object: a resource is created only while the stored     *)
(* object carries the finalizer, never beside another one of its kind, and *)
(* the finalizer leaves the object only when nothing is owned any more.    *)
(* AWSMachine implements it for its EC2 instance, MachinePool for its      *)
(* launch template and Auto Scaling group.                                 *)
(***************************************************************************)

CONSTANT Kinds  \* disjoint sets of resources, one owned resource of each at most

VARIABLES
    object,     \* "live", "deleting" (with a deletion timestamp) or "gone"
    finalizer,  \* the stored object carries it
    owned       \* the resources that exist

lifecycleVars == <<object, finalizer, owned>>

Init == object = "live" /\ finalizer = FALSE /\ owned = {}

Protect ==
    /\ object # "gone" /\ ~finalizer /\ finalizer' = TRUE
    /\ UNCHANGED <<object, owned>>

Create(r) ==
    /\ finalizer /\ \E kind \in Kinds : r \in kind /\ owned \cap kind = {}
    /\ owned' = owned \cup {r} /\ UNCHANGED <<object, finalizer>>

\* Deleted by the controller, or lost.
Release(R) == owned' = owned \ R /\ UNCHANGED <<object, finalizer>>

RequestDeletion ==
    /\ object = "live" /\ object' = IF finalizer THEN "deleting" ELSE "gone"
    /\ UNCHANGED <<finalizer, owned>>

Finish ==
    /\ object = "deleting" /\ owned = {} /\ object' = "gone" /\ finalizer' = FALSE
    /\ UNCHANGED owned

Next ==
    \/ Protect \/ RequestDeletion \/ Finish
    \/ \E kind \in Kinds : \E r \in kind : Create(r)
    \/ \E R \in SUBSET owned : Release(R)

Spec == Init /\ [][Next]_lifecycleVars

=============================================================================

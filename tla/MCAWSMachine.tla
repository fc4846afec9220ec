---------------------------- MODULE MCAWSMachine ----------------------------
(* AWSMachine on small instances.                                          *)
EXTENDS AWSMachine, TLC

\* Load balancer lists for a worker, and for a control plane machine.
NoLBs == <<>>
ClassicLB == <<"classic">>
TwoLBs == <<"v2", "v2">>
MixedLBs == <<"classic", "v2">>

\* Ids of one kind are interchangeable.
Ids == Permutations(Instances) \cup Permutations(Hosts)
         \cup Permutations(Eips) \cup Permutations(Prefixes)
=============================================================================

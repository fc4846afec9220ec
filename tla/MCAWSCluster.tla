---------------------------- MODULE MCAWSCluster ----------------------------
(* AWSCluster on small instances.                                          *)
EXTENDS AWSCluster, TLC

\* The default choices: a managed VPC with default subnets, a classic load
\* balancer, no extras.
Plain ==
    [vpc |-> "managed", listed |-> FALSE, wavelength |-> FALSE, ipv6 |-> FALSE,
     bastion |-> FALSE, bucket |-> FALSE, lb |-> "classic",
     services |-> "none", gc |-> FALSE]

Byo == [Plain EXCEPT !.vpc = "byo", !.listed = TRUE, !.bastion = TRUE, !.lb = "nlb"]
ByoServices(type) == [Byo EXCEPT !.services = type, !.gc = TRUE]
Listed == [Plain EXCEPT !.listed = TRUE, !.bastion = TRUE, !.bucket = TRUE]
IPv6 == [Plain EXCEPT !.ipv6 = TRUE]
Wavelength == [Plain EXCEPT !.listed = TRUE, !.wavelength = TRUE]

Full == [IPv6 EXCEPT !.bastion = TRUE, !.bucket = TRUE, !.lb = "nlb"]

AllKinds == {Plain, Byo, Listed, IPv6, Wavelength}
Deletable == {ByoServices("classic"), ByoServices("nlb"), Full}
OnlyIPv6 == {IPv6}
OnlyWavelength == {Wavelength}

\* Ids of one kind are interchangeable.
Ids == Permutations(Vpcs) \cup Permutations(Igws) \cup Permutations(Eips)
         \cup Permutations(Lbs) \cup Permutations(Zones)
=============================================================================

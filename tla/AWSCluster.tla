----------------------------- MODULE AWSCluster -----------------------------
(***************************************************************************)
(* The life of one AWSCluster: the reconciler of                           *)
(* controllers/awscluster_controller.go with the network, security group,  *)
(* bastion, load balancer, S3 and garbage collection services it drives,   *)
(* against the API server that stores the object and the AWS account.      *)
(*                                                                         *)
(* One reconcile is in flight at a time; it is cut at the calls that       *)
(* create, delete or store something, and every such call may fail with or *)
(* without its effect.  A call that only describes is part of the step     *)
(* that uses its answer.  Besides the reconcile there are the goroutines   *)
(* createNatGateways starts, which outlive an early error return.          *)
(*                                                                         *)
(* AWS refuses to delete what something else still uses, which is what     *)
(* reconcileDelete has to work its way through.  The reconcile that finds  *)
(* AWSMachines left (dependencyCount) changes nothing and is left out, as  *)
(* are tags, secondary CIDR blocks, the secondary load balancer and the    *)
(* conditions the control flow does not read.                              *)
(***************************************************************************)
EXTENDS Naturals, FiniteSets

CONSTANTS
    Vpcs,        \* VPC ids the account can hand out
    ByoVpc,      \* the VPC of a user who brings one
    Igws,        \* internet gateway ids
    Eips,        \* Elastic IP allocation ids
    Lbs,         \* load balancers (DNS names) the account can hand out
    Zones,       \* availability zones of the cluster
    Roles,       \* security group roles, out of AllRoles
    None,        \* an unset pointer or empty string
    Specs,       \* the user's choices considered, out of AllSpecs
    FaultKinds,  \* the faults considered, out of AllFaults
    MaxFaults    \* bound on the number of faults in a behaviour

AllFaults == {"aws", "patch", "crash", "stale", "codeless", "lblost"}
AllRoles == {"bastion", "controlplane", "node", "apiserver-lb", "lb"}

\* vpc: "managed" or "byo"; listed: the user lists the subnets; wavelength:
\* one of them is public in a Wavelength Zone; ipv6: Amazon provides an IPv6
\* block; bastion, bucket: enabled; lb: the type of ControlPlaneLoadBalancer;
\* services: the workload cluster has a Service with a load balancer of this type;
\* gc: the cluster has not opted out of garbage collection.
AllSpecs ==
    [vpc: {"managed", "byo"}, listed: BOOLEAN, wavelength: BOOLEAN,
     ipv6: BOOLEAN, bastion: BOOLEAN, bucket: BOOLEAN, lb: {"classic", "nlb"},
     services: {"none", "classic", "nlb"}, gc: BOOLEAN]

ASSUME ConstantsAssumption ==
    /\ None \notin Vpcs \cup Igws \cup Eips \cup Lbs \cup Zones \cup {ByoVpc}
    /\ ByoVpc \notin Vpcs
    /\ Zones # {} /\ Zones \cap {"free", "idle"} = {}
    /\ Roles \subseteq AllRoles
    /\ Specs \subseteq AllSpecs
    /\ \A s \in Specs : /\ s.vpc = "byo" => s.listed /\ ~s.ipv6 /\ ~s.wavelength
                        /\ s.wavelength => s.listed
    /\ FaultKinds \subseteq AllFaults
    /\ MaxFaults \in Nat

VARIABLES
    spec,   \* the part of AWSCluster.Spec the controller never writes
    aws,    \* the resources of the cluster in the account
    obj,    \* the AWSCluster as stored
    cache,  \* the AWSCluster as the controller's informer cache has it
    pc,     \* the step the reconcile makes next, "idle" when there is none
    mem,    \* clusterScope.AWSCluster
    base,   \* what the patch helper compares mem with
    loc,    \* the local variables
    tasks,  \* goroutines about to create the NAT gateway of a zone
    faults  \* faults so far

vars == <<spec, aws, obj, cache, pc, mem, base, loc, tasks, faults>>

-----------------------------------------------------------------------------
(* Data *)

Subnets == Zones \X {"public", "private"}
PublicSubnet(z) == <<z, "public">>

\* ipv6: the IPv6 block of the VPC; igws: an internet gateway is created and
\* attached by two calls; gateways: the singletons of the VPC; eips: an address
\* is allocated, then carries the NAT gateway of a zone; routed: subnets with a
\* route table, looseTables: tables without a subnet; ruled: groups whose rules
\* are authorised; a "draining" load balancer is no longer described and still
\* has network interfaces; served: its listener and target group exist,
\* looseTGs: target groups without a load balancer; services: what the cloud
\* provider in the workload cluster made for a Service.
Accounts ==
    [vpcs: SUBSET Vpcs, ipv6: {"none", "associating", "associated"},
     subnets: SUBSET Subnets,
     igws: [Igws -> {"none", "detached", "attached"}],
     gateways: SUBSET {"carrier", "egress", "endpoint"},
     eips: [Eips -> {"free", "idle"} \cup Zones],
     routed: SUBSET Subnets, looseTables: 0 .. MaxFaults,
     sgs: SUBSET Roles, ruled: SUBSET Roles,
     bastion: {"none", "up", "terminating"},
     lb: {"none", "up", "draining"}, lbName: Lbs \cup {None},
     served: BOOLEAN, looseTGs: 0 .. MaxFaults,
     bucket: BOOLEAN, services: SUBSET {"elb", "lb", "tg", "sg", "interfaces"}]

\* A user who brings a VPC brings its subnets, gateway and route tables.
EmptyAccount(s) ==
    LET byo == s.vpc = "byo"
    IN  [vpcs |-> {}, ipv6 |-> "none", subnets |-> IF byo THEN Subnets ELSE {},
         igws |-> [g \in Igws |-> "none"], gateways |-> {},
         eips |-> [e \in Eips |-> "free"],
         routed |-> IF byo THEN Subnets ELSE {}, looseTables |-> 0,
         sgs |-> {}, ruled |-> {}, bastion |-> "none",
         lb |-> "none", lbName |-> None, served |-> FALSE, looseTGs |-> 0,
         bucket |-> FALSE, services |-> {}]

\* The fields of an AWSCluster that the control flow reads or writes.  Metadata
\* and spec: finalizer, vpc (NetworkSpec.VPC.ID), listed (Subnets is not
\* empty), subnets (those with a ResourceID), cagw (VPC.CarrierGatewayID is
\* set), ipv6 (VPC.IPv6 is set) and endpoint.  Status: ready, and whether the
\* conditions VpcReady, NatGatewaysReady and BastionHostReady were ever set.
AWSClusters ==
    [exists: BOOLEAN, deleting: BOOLEAN, finalizer: BOOLEAN,
     vpc: Vpcs \cup {ByoVpc, None}, listed: BOOLEAN, subnets: SUBSET Subnets,
     cagw: BOOLEAN, ipv6: BOOLEAN, endpoint: Lbs \cup {None},
     ready: BOOLEAN, vpcCond: BOOLEAN, natCond: BOOLEAN, bastionCond: BOOLEAN]

NewAWSCluster(s) ==
    [exists |-> TRUE, deleting |-> FALSE, finalizer |-> FALSE,
     vpc |-> IF s.vpc = "byo" THEN ByoVpc ELSE None,
     listed |-> s.listed, subnets |-> {}, cagw |-> FALSE, ipv6 |-> s.ipv6,
     endpoint |-> None, ready |-> FALSE,
     vpcCond |-> FALSE, natCond |-> FALSE, bastionCond |-> FALSE]

\* err: an error was collected by reconcileDelete; vpc: the VPC just created;
\* nats: zones whose public subnet has a NatGatewayID; missing, ips, mine: the
\* zones, addresses and goroutines of createNatGateways; groups: the security
\* groups still to delete; lb: the load balancer described.
Locals ==
    [err: BOOLEAN, vpc: Vpcs \cup {None}, nats: SUBSET Zones,
     missing: SUBSET Zones, ips: SUBSET Eips, mine: SUBSET (Zones \X Eips),
     groups: SUBSET Roles, lb: Lbs \cup {None}]

NoLocals ==
    [err |-> FALSE, vpc |-> None, nats |-> {}, missing |-> {}, ips |-> {},
     mine |-> {}, groups |-> {}, lb |-> None]

Labels ==
    {"idle", "finalizer", "vpc", "vpcIPv6", "vpcPatch", "subnets",
     "describeSubnets", "createSubnets", "igw", "carrier", "egress", "nat",
     "addresses", "allocate", "natWait", "routes", "endpoints", "sgs", "rules",
     "bastion", "runBastion", "lb", "lbServe", "bucket",
     "delBucket", "delLB", "delBastion", "waitBastion", "delSGs", "delSG",
     "gc", "gcTargetGroups", "gcSecurityGroups", "delNetwork", "delEndpoints", "delRoutes", "delNats", "delAddresses",
     "delIgw", "delGateways", "delSubnets", "delVpc", "deleted", "close"}

\* The state is well typed; rules belong to groups, and route tables to subnets,
\* that exist, and a load balancer that is up has a name.
TypeOK ==
    /\ spec \in Specs /\ aws \in Accounts
    /\ aws.ruled \subseteq aws.sgs /\ aws.routed \subseteq aws.subnets
    /\ aws.lb = "up" => aws.lbName \in Lbs
    /\ obj \in AWSClusters /\ cache \in AWSClusters
    /\ pc \in Labels /\ mem \in AWSClusters /\ base \in AWSClusters
    /\ loc \in Locals /\ tasks \subseteq Zones \X Eips
    /\ faults \in 0 .. MaxFaults

Init ==
    /\ spec \in Specs
    /\ aws = EmptyAccount(spec)
    /\ obj = NewAWSCluster(spec) /\ cache = NewAWSCluster(spec)
    /\ pc = "idle" /\ mem = NewAWSCluster(spec) /\ base = NewAWSCluster(spec)
    /\ loc = NoLocals /\ tasks = {} /\ faults = 0

-----------------------------------------------------------------------------
(* Faults, the patch helper and the shape of a step *)

Fault(kind) == kind \in FaultKinds /\ faults < MaxFaults /\ faults' = faults + 1

NoFault == faults' = faults

Goto(label) == pc' = label

\* An error: reconcileNormal returns it, reconcileDelete collects it.
Fail(label) == Goto(label) /\ loc' = [loc EXCEPT !.err = TRUE]

Proceed(label) == Goto(label) /\ UNCHANGED loc /\ NoFault

\* A call that brings the account to a: it succeeds, or fails and leaves the
\* account in one of the states of partial (a among them: the answer is lost).
Call(a, label, partial, onError) ==
    \/ aws' = a /\ Proceed(label)
    \/ Fault("aws") /\ aws' \in partial \cup {aws, a} /\ Fail(onError)

\* A step of reconcileNormal, one of reconcileDelete, which touch the account
\* and perhaps the object in memory.
Step == UNCHANGED <<spec, obj, cache, base, tasks>>

\* A Kubernetes object with a deletion timestamp and no finalizer is removed.
Collected(o) == [o EXCEPT !.exists = @ /\ ~(o.deleting /\ ~o.finalizer)]

\* patchHelper.Patch(m): the fields in which m differs from base are written,
\* metadata and spec by one call, the status by another.
Patched(m, doSpec, doStatus) ==
    LET written(new, old, cur, done) == IF done /\ new # old THEN new ELSE cur
    IN  Collected(
          [exists |-> obj.exists, deleting |-> obj.deleting,
           finalizer |-> written(m.finalizer, base.finalizer, obj.finalizer, doSpec),
           vpc |-> written(m.vpc, base.vpc, obj.vpc, doSpec),
           listed |-> written(m.listed, base.listed, obj.listed, doSpec),
           subnets |-> written(m.subnets, base.subnets, obj.subnets, doSpec),
           cagw |-> written(m.cagw, base.cagw, obj.cagw, doSpec),
           ipv6 |-> written(m.ipv6, base.ipv6, obj.ipv6, doSpec),
           endpoint |-> written(m.endpoint, base.endpoint, obj.endpoint, doSpec),
           ready |-> written(m.ready, base.ready, obj.ready, doStatus),
           vpcCond |-> written(m.vpcCond, base.vpcCond, obj.vpcCond, doStatus),
           natCond |-> written(m.natCond, base.natCond, obj.natCond, doStatus),
           bastionCond |->
             written(m.bastionCond, base.bastionCond, obj.bastionCond, doStatus)])

\* ValidateUpdate: the VPC id and the endpoint are immutable once set.
ValidateUpdate(o) ==
    /\ obj.vpc # None => o.vpc = obj.vpc
    /\ obj.endpoint # None => o.endpoint = obj.endpoint

PatchSucceeds(m) ==
    /\ obj.exists /\ ValidateUpdate(Patched(m, TRUE, TRUE))
    /\ obj' = Patched(m, TRUE, TRUE) /\ NoFault

\* The object is gone, the webhook refuses, or one of the two calls or both fail.
PatchFails(m) ==
    \/ ~obj.exists /\ UNCHANGED obj /\ NoFault
    \/ /\ obj.exists /\ ~ValidateUpdate(Patched(m, TRUE, TRUE))
       /\ obj' = Patched(m, FALSE, TRUE) /\ NoFault
    \/ /\ obj.exists /\ Fault("patch")
       /\ \E doSpec, doStatus \in BOOLEAN :
            /\ ~(doSpec /\ doStatus)
            /\ doSpec => ValidateUpdate(Patched(m, TRUE, doStatus))
            /\ obj' = Patched(m, doSpec, doStatus)

\* clusterScope.PatchObject of the object m as it is in memory.
PatchObject(m, label, onError) ==
    /\ \/ PatchSucceeds(m) /\ Goto(label) /\ UNCHANGED loc
       \/ PatchFails(m) /\ Fail(onError)
    /\ UNCHANGED <<spec, aws, cache, base, tasks>>

-----------------------------------------------------------------------------
(* Reconcile and reconcileNormal *)

\* VPCSpec.IsUnmanaged: an id without the tag of the cluster.
IsUnmanaged(m) == m.vpc = ByoVpc

Reconcile ==
    /\ pc = "idle" /\ cache.exists
    /\ "stale" \in FaultKinds \/ cache = obj
    /\ mem' = cache /\ base' = cache /\ loc' = NoLocals
    /\ Goto(IF cache.deleting THEN "delBucket" ELSE "finalizer")
    /\ UNCHANGED <<spec, aws, obj, cache, tasks, faults>>

addFinalizer ==
    /\ pc = "finalizer"
    /\ mem' = [mem EXCEPT !.finalizer = TRUE]
    /\ \/ mem.finalizer /\ Step /\ UNCHANGED aws /\ Proceed("vpc")
       \/ ~mem.finalizer /\ PatchObject(mem', "vpc", "close")

\* The VPC v is described and taken into the object.  An IPv6 block that is
\* not associated is not reported, and the object loses its IPv6 section.
WithVPC(v) ==
    [mem EXCEPT !.vpc = v, !.ipv6 = @ /\ aws.ipv6 = "associated"]

\* reconcileVPC returns an error and VpcReadyCondition is marked false.
VPCFailed == Fail("close") /\ mem' = [mem EXCEPT !.vpcCond = TRUE] /\ UNCHANGED aws

\* reconcileVPC with an id: the VPC has to be there.  The fields of an unmanaged
\* one are stored at once.
describeVPCByID ==
    /\ pc = "vpc" /\ mem.vpc # None
    /\ \/ /\ IsUnmanaged(mem) /\ mem' = WithVPC(mem.vpc)
          /\ PatchObject(mem', "subnets", "close")
       \/ /\ mem.vpc \in aws.vpcs
          /\ mem' = [WithVPC(mem.vpc) EXCEPT !.vpcCond = TRUE]
          /\ Step /\ UNCHANGED aws /\ Proceed("subnets")
       \/ mem.vpc \in Vpcs \ aws.vpcs /\ VPCFailed /\ Step /\ NoFault
       \/ \* describing fails, or setting tags and attributes afterwards
          /\ Fault("aws") /\ Step /\ UNCHANGED aws /\ Fail("close")
          /\ \E m \in {mem, WithVPC(mem.vpc)} : mem' = [m EXCEPT !.vpcCond = TRUE]

\* Mutation: without an id there is no VPC.
describeVPCByName_NotAsked == {}

\* The managed VPCs with the name of the cluster.
describeVPCByName == aws.vpcs

\* reconcileVPC without an id: the VPC is found by its name or created.  The
\* answer to CreateVpc does not tell the IPv6 block, so it is asked for.
createVPC ==
    /\ pc = "vpc" /\ mem.vpc = None /\ Step
    /\ \/ \E v \in describeVPCByName :
            /\ describeVPCByName = {v} /\ mem' = WithVPC(v)
            /\ UNCHANGED aws /\ Goto("vpcPatch") /\ NoFault
            /\ loc' = [loc EXCEPT !.vpc = v]
       \/ Cardinality(describeVPCByName) > 1 /\ VPCFailed /\ NoFault
       \/ \E v \in Vpcs \ aws.vpcs :
            /\ describeVPCByName = {}
            /\ aws' = [aws EXCEPT !.vpcs = @ \cup {v},
                                  !.ipv6 = IF mem.ipv6 THEN "associating" ELSE @]
            /\ \/ /\ NoFault /\ loc' = [loc EXCEPT !.vpc = v]
                  /\ Goto(IF mem.ipv6 THEN "vpcIPv6" ELSE "vpcPatch")
                  /\ mem' = IF mem.ipv6 THEN mem ELSE [mem EXCEPT !.vpc = v]
               \/ /\ Fault("aws") /\ Fail("close")
                  /\ mem' = [mem EXCEPT !.vpcCond = TRUE]
       \/ Fault("aws") /\ VPCFailed

\* createVPC, continued: "no IPv6 associated CIDR block sets found" is an error.
describeNewIPv6VPC ==
    /\ pc = "vpcIPv6" /\ Step
    /\ \/ /\ aws.ipv6 = "associated"
          /\ mem' = [mem EXCEPT !.vpc = loc.vpc]
          /\ UNCHANGED aws /\ Proceed("vpcPatch")
       \/ aws.ipv6 = "associating" /\ VPCFailed /\ NoFault
       \/ Fault("aws") /\ VPCFailed

\* The id is stored at once only if the object never had a VpcReadyCondition.
\* (ensureManagedVPCAttributes changes nothing modelled and can fail like the
\* call after it.)
patchVPC ==
    /\ pc = "vpcPatch"
    /\ mem' = [mem EXCEPT !.vpcCond = TRUE]
    /\ \/ mem.vpcCond /\ Step /\ UNCHANGED aws /\ Proceed("subnets")
       \/ ~mem.vpcCond /\ PatchObject(mem', "subnets", "close")

\* reconcileSubnets: an empty list is replaced by the defaults.  PatchObject is
\* called before the deferred SetSubnets has put them into the object.
defaultSubnets ==
    /\ pc = "subnets"
    /\ \/ /\ mem.listed /\ Step /\ UNCHANGED <<aws, mem>>
          /\ Proceed("describeSubnets")
       \/ /\ ~mem.listed /\ mem' = [mem EXCEPT !.listed = TRUE]
          /\ PatchObject(mem, "describeSubnets", "close")
       \/ ~mem.listed /\ Step /\ Fault("aws") /\ Fail("close") /\ UNCHANGED <<aws, mem>>

HasNat(z) == \E e \in Eips : aws.eips[e] = z

\* Mutation: a NAT gateway of an earlier reconcile is not seen.
NatZones_Unseen == {}

\* describeNatGatewaysBySubnet: the zones whose public subnet has a NAT gateway.
NatZones == {z \in Zones : HasNat(z)}

\* What AWS knows of the subnets of the VPC is taken over; nothing else is done
\* with those of an unmanaged VPC.
describeVpcSubnets ==
    /\ pc = "describeSubnets" /\ Step /\ UNCHANGED aws
    /\ \/ /\ mem' = [mem EXCEPT !.subnets = aws.subnets]
          /\ loc' = [loc EXCEPT !.nats = NatZones]
          /\ Goto(IF IsUnmanaged(mem) THEN "sgs" ELSE "createSubnets") /\ NoFault
       \/ Fault("aws") /\ Fail("close") /\ UNCHANGED mem

\* One subnet after the other; one whose creation was not answered is found by
\* describeVpcSubnets the next time.
createSubnet ==
    /\ pc = "createSubnets" /\ Step
    /\ \/ mem.subnets = Subnets /\ UNCHANGED <<aws, mem>> /\ Proceed("igw")
       \/ \E s \in Subnets \ mem.subnets :
            LET a == [aws EXCEPT !.subnets = @ \cup {s}]
            IN  \/ /\ aws' = a /\ Proceed("createSubnets")
                   /\ mem' = [mem EXCEPT !.subnets = @ \cup {s}]
                \/ /\ Fault("aws") /\ aws' \in {aws, a} /\ Fail("close")
                   /\ UNCHANGED mem

Attached == {g \in Igws : aws.igws[g] = "attached"}
WithIgw(g, state) == [aws EXCEPT !.igws[g] = state]

\* reconcileInternetGateways: only an attached gateway is found; creating and
\* attaching one are two calls.
reconcileInternetGateways ==
    /\ pc = "igw" /\ Step /\ UNCHANGED mem
    /\ \/ Attached # {} /\ UNCHANGED aws /\ Proceed("carrier")
       \/ \E g \in Igws :
            /\ Attached = {} /\ aws.igws[g] = "none"
            /\ Call(WithIgw(g, "attached"), "carrier", {WithIgw(g, "detached")}, "close")

reconcileCarrierGateway ==
    /\ pc = "carrier" /\ Step
    /\ \/ ~spec.wavelength /\ UNCHANGED <<aws, mem>> /\ Proceed("egress")
       \/ /\ spec.wavelength
          /\ Call([aws EXCEPT !.gateways = @ \cup {"carrier"}], "egress", {}, "close")
          /\ mem' = [mem EXCEPT !.cagw = @ \/ pc' = "egress"]

reconcileEgressOnlyInternetGateways ==
    /\ pc = "egress" /\ Step /\ UNCHANGED mem
    /\ \/ ~mem.ipv6 /\ UNCHANGED aws /\ Proceed("nat")
       \/ /\ mem.ipv6
          /\ Call([aws EXCEPT !.gateways = @ \cup {"egress"}], "nat", {}, "close")

-----------------------------------------------------------------------------
(* NAT gateways and route tables *)

\* reconcileNatGateways: the zones without a NAT gateway.  The object is stored
\* before anything is created, if NatGatewaysReadyCondition was never set.
reconcileNatGateways ==
    /\ pc = "nat"
    /\ mem' = [mem EXCEPT !.natCond = TRUE]
    /\ LET missing == {z \in Zones : ~HasNat(z)}
       IN  \/ /\ missing = {} /\ Step /\ UNCHANGED aws /\ Proceed("routes")
           \/ /\ missing # {} /\ mem.natCond /\ Step /\ UNCHANGED aws
              /\ Goto("addresses") /\ NoFault
              /\ loc' = [loc EXCEPT !.missing = missing]
           \/ /\ missing # {} /\ ~mem.natCond
              /\ UNCHANGED <<spec, aws, cache, base, tasks>>
              /\ \/ /\ PatchSucceeds(mem') /\ Goto("addresses")
                    /\ loc' = [loc EXCEPT !.missing = missing]
                 \/ PatchFails(mem') /\ Fail("close")
           \/ Step /\ UNCHANGED aws /\ Fault("aws") /\ Fail("close")

\* getOrAllocateAddresses: addresses of the cluster without an association are
\* used first.
describeAddresses ==
    /\ pc = "addresses" /\ Step /\ UNCHANGED <<aws, mem>>
    /\ \/ /\ loc' = [loc EXCEPT !.ips = {e \in Eips : aws.eips[e] = "idle"}]
          /\ Goto("allocate") /\ NoFault
       \/ Fault("aws") /\ Fail("close")

allocateAddress ==
    /\ pc = "allocate" /\ Step /\ UNCHANGED mem
    /\ Cardinality(loc.ips) < Cardinality(loc.missing)
    /\ \E e \in Eips :
         LET a == [aws EXCEPT !.eips[e] = "idle"]
         IN  /\ aws.eips[e] = "free"
             /\ \/ /\ aws' = a /\ Goto("allocate") /\ NoFault
                   /\ loc' = [loc EXCEPT !.ips = @ \cup {e}]
                \/ Fault("aws") /\ aws' \in {aws, a} /\ Fail("close")

\* createNatGateways: one goroutine for every zone, each with its address.
createNatGateways ==
    /\ pc = "allocate"
    /\ Cardinality(loc.ips) >= Cardinality(loc.missing)
    /\ \E ip \in [loc.missing -> loc.ips] :
         /\ \A y, z \in loc.missing : y # z => ip[y] # ip[z]
         /\ loc' = [loc EXCEPT !.mine = {<<z, ip[z]>> : z \in loc.missing}]
         /\ tasks' = tasks \cup loc'.mine
    /\ Goto("natWait") /\ NoFault
    /\ UNCHANGED <<spec, aws, obj, cache, mem, base>>

\* AWS takes an address that is not in use and a subnet that exists.
NatPossible(z, e) ==
    aws.eips[e] = "idle" /\ PublicSubnet(z) \in aws.subnets /\ Attached # {}

\* Mutation: createNatGateways goes on with the NAT gateways that were created.
NatAnswer_ErrorsIgnored(t, ok) ==
    /\ loc' = [loc EXCEPT !.mine = @ \ {t}, !.nats = @ \cup {t[1]}]
    /\ Goto(IF loc'.mine = {} THEN "routes" ELSE pc)

\* createNatGateways takes the answer of a goroutine from the channel: it
\* returns with the first error, and nobody waits for the other goroutines.
NatAnswer(t, ok) ==
    IF ok
    THEN /\ loc' = [loc EXCEPT !.mine = @ \ {t}, !.nats = @ \cup {t[1]}]
         /\ Goto(IF loc'.mine = {} THEN "routes" ELSE pc)
    ELSE loc' = [loc EXCEPT !.mine = {}, !.err = TRUE] /\ Goto("close")

\* createNatGateway: one of the goroutines makes its call and waits until the
\* gateway is available.
createNatGateway(t) ==
    /\ t \in tasks /\ tasks' = tasks \ {t}
    /\ LET a == [aws EXCEPT !.eips[t[2]] = t[1]]
           possible == NatPossible(t[1], t[2])
       IN  \E ok \in BOOLEAN :
             /\ \/ ok /\ possible /\ aws' = a /\ NoFault
                \/ ~ok /\ ~possible /\ UNCHANGED aws /\ NoFault
                \/ ~ok /\ possible /\ aws' \in {aws, a} /\ Fault("aws")
             /\ IF t \in loc.mine THEN NatAnswer(t, ok) ELSE UNCHANGED <<pc, loc>>
    /\ UNCHANGED <<spec, obj, cache, mem, base>>

\* reconcileRouteTables: a table is created with its routes and associated with
\* its subnet.  A private subnet needs the NAT gateway of its zone.
reconcileRouteTables ==
    /\ pc = "routes" /\ Step /\ UNCHANGED mem
    /\ \/ /\ aws.routed = Subnets /\ loc.nats = Zones
          /\ UNCHANGED aws /\ Proceed("endpoints")
       \/ \E s \in Subnets \ aws.routed :
            /\ s[2] = "private" => s[1] \in loc.nats
            /\ \/ aws' = [aws EXCEPT !.routed = @ \cup {s}] /\ Proceed("routes")
               \/ /\ Fault("aws") /\ Fail("close")
                  /\ aws' \in {aws, [aws EXCEPT !.routed = @ \cup {s}],
                               [aws EXCEPT !.looseTables = @ + 1]}
       \/ \* "no nat gateways available"
          loc.nats # Zones /\ UNCHANGED aws /\ NoFault /\ Fail("close")

reconcileVPCEndpoints ==
    /\ pc = "endpoints" /\ Step /\ UNCHANGED mem
    /\ \/ ~spec.bucket /\ UNCHANGED aws /\ Proceed("sgs")
       \/ /\ spec.bucket
          /\ Call([aws EXCEPT !.gateways = @ \cup {"endpoint"}], "sgs", {}, "close")

-----------------------------------------------------------------------------
(* Security groups, bastion, load balancer, bucket *)

\* getSecurityGroupIngressRules: the groups that the rules of a group name.
Sources(r) ==
    Roles \cap
      CASE r = "controlplane" -> {"apiserver-lb", "controlplane", "node"}
                                   \cup (IF spec.bastion THEN {"bastion"} ELSE {})
        [] r = "node" -> {"controlplane", "node"}
                           \cup (IF spec.bastion THEN {"bastion"} ELSE {})
        [] OTHER -> {}

\* ReconcileSecurityGroups, first iteration: the groups are found by name.
createSecurityGroup ==
    /\ pc = "sgs" /\ Step /\ UNCHANGED mem
    /\ \/ aws.sgs = Roles /\ UNCHANGED aws /\ Proceed("rules")
       \/ \E r \in Roles \ aws.sgs :
            Call([aws EXCEPT !.sgs = @ \cup {r}], "sgs", {}, "close")

\* Second iteration: the rules, which name other groups.
authorizeSecurityGroupIngressRules ==
    /\ pc = "rules" /\ Step /\ UNCHANGED mem
    /\ \/ aws.ruled = Roles /\ UNCHANGED aws /\ Proceed("bastion")
       \/ \E r \in Roles \ aws.ruled :
            Call([aws EXCEPT !.ruled = @ \cup {r}], "rules", {}, "close")

\* ReconcileBastion up to the start of the instance.  reconcileNormal marks
\* BastionHostReadyCondition false when it fails.
ReconcileBastion ==
    /\ pc = "bastion"
    /\ \/ /\ mem' = [mem EXCEPT !.bastionCond = @ \/ spec.bastion]
          /\ \/ /\ spec.bastion => aws.bastion = "up"
                /\ Step /\ UNCHANGED aws /\ Proceed("lb")
             \/ /\ spec.bastion /\ aws.bastion # "up" /\ mem.bastionCond
                /\ Step /\ UNCHANGED aws /\ Proceed("runBastion")
             \/ /\ spec.bastion /\ aws.bastion # "up" /\ ~mem.bastionCond
                /\ PatchObject(mem', "runBastion", "close")
       \/ /\ Fault("aws") /\ Fail("close") /\ Step /\ UNCHANGED aws
          /\ mem' = [mem EXCEPT !.bastionCond = TRUE]

runBastion ==
    /\ pc = "runBastion" /\ Step /\ UNCHANGED mem
    /\ Call([aws EXCEPT !.bastion = "up"], "lb", {}, "close")

\* "if elb is not found and owner cluster ControlPlaneEndpoint is already
\* populated, then we should not recreate the elb."
MayCreateLB == mem.endpoint = None

\* getOrCreateClassicLoadBalancer and getOrCreateV2LB.
getOrCreateLB ==
    /\ pc = "lb" /\ Step /\ UNCHANGED mem
    /\ \/ /\ aws.lb = "up" /\ UNCHANGED aws /\ Goto("lbServe") /\ NoFault
          /\ loc' = [loc EXCEPT !.lb = aws.lbName]
       \/ \E l \in Lbs \ {obj.endpoint, mem.endpoint} :
            LET a == [aws EXCEPT !.lb = "up", !.lbName = l, !.served = FALSE]
            IN  /\ aws.lb # "up" /\ MayCreateLB
                /\ \/ /\ aws' = a /\ Goto("lbServe") /\ NoFault
                      /\ loc' = [loc EXCEPT !.lb = l]
                   \/ Fault("aws") /\ aws' \in {aws, a} /\ Fail("close")
       \/ aws.lb # "up" /\ ~MayCreateLB /\ UNCHANGED aws /\ NoFault /\ Fail("close")

\* reconcileV2LB (target group, then its listener), reconcileClassicLoadBalancer,
\* and the endpoint, which reconcileLoadBalancer takes from the DNS name.
reconcileLB ==
    /\ pc = "lbServe" /\ Step
    /\ \/ /\ aws.lb = "up" /\ aws' = [aws EXCEPT !.served = TRUE]
          /\ mem' = [mem EXCEPT !.endpoint = loc.lb] /\ Proceed("bucket")
       \/ /\ aws.lb = "up" /\ Fault("aws") /\ Fail("close") /\ UNCHANGED mem
          /\ aws' \in {aws, [aws EXCEPT !.served = TRUE]} \cup
               IF spec.lb = "nlb" /\ ~aws.served
               THEN {[aws EXCEPT !.looseTGs = @ + 1]} ELSE {}
       \/ aws.lb # "up" /\ UNCHANGED <<aws, mem>> /\ NoFault /\ Fail("close")

\* ReconcileBucket, and the end of reconcileNormal.
ReconcileBucket ==
    /\ pc = "bucket" /\ Step
    /\ \/ ~spec.bucket /\ UNCHANGED aws /\ Proceed("close")
       \/ spec.bucket /\ Call([aws EXCEPT !.bucket = TRUE], "close", {}, "close")
    /\ mem' = [mem EXCEPT !.ready = @ \/ ~loc'.err]

-----------------------------------------------------------------------------
(* reconcileDelete: every service is tried, the errors are collected *)

\* S3 DeleteBucket; a bucket that is not empty is left without an error.
DeleteBucket ==
    /\ pc = "delBucket" /\ Step /\ UNCHANGED mem
    /\ \/ spec.bucket /\ Call([aws EXCEPT !.bucket = FALSE], "delLB", {}, "delLB")
       \/ (spec.bucket => aws.bucket) /\ UNCHANGED aws /\ Proceed("delLB")

\* The load balancer goes: its interfaces follow later.
Draining(a) == [a EXCEPT !.lb = "draining", !.served = FALSE]

\* deleteLB deletes the listeners, the target groups and the load balancer; when
\* the listeners are gone nothing leads to the target groups any more.
HalfDeletedLBs ==
    IF spec.lb = "classic" \/ ~aws.served THEN {}
    ELSE {[aws EXCEPT !.served = FALSE, !.looseTGs = @ + 1],
          [aws EXCEPT !.served = FALSE]}

\* deleteAWSCloudProviderELBs: classic ones only.
WithoutServiceELBs(a) == [a EXCEPT !.services = @ \ {"elb"}]

\* DeleteLoadbalancers: deleteAPIServerELB stores the object first.
DeleteLoadbalancers ==
    /\ pc = "delLB" /\ UNCHANGED <<spec, cache, mem, base, tasks>>
    /\ \/ PatchFails(mem) /\ Fail("delBastion") /\ UNCHANGED aws
       \/ /\ obj.exists /\ UNCHANGED obj
          /\ LET without == IF aws.lb = "up" THEN Draining(aws) ELSE aws
             IN  Call(WithoutServiceELBs(without), "delBastion",
                      HalfDeletedLBs \cup {without}, "delBastion")

\* DeleteBastion: an instance that is already terminating is not found.
DeleteBastion ==
    /\ pc = "delBastion" /\ UNCHANGED <<spec, cache, mem, base, tasks>>
    /\ \/ aws.bastion # "up" /\ UNCHANGED <<aws, obj>> /\ Proceed("delSGs")
       \/ Fault("aws") /\ UNCHANGED <<aws, obj>> /\ Fail("delSGs")
       \/ aws.bastion = "up" /\ PatchFails(mem) /\ Fail("delSGs") /\ UNCHANGED aws
       \/ /\ aws.bastion = "up" /\ obj.exists /\ UNCHANGED obj
          /\ Call([aws EXCEPT !.bastion = "terminating"], "waitBastion", {}, "delSGs")

\* TerminateInstanceAndWait.
waitBastion ==
    /\ pc = "waitBastion" /\ Step /\ UNCHANGED <<aws, mem>>
    /\ \/ aws.bastion = "none" /\ Proceed("delSGs")
       \/ aws.bastion # "none" /\ Fault("aws") /\ Fail("delSGs")

\* DeleteSecurityGroups up to its loop.  Without a VPC id nothing is done.
describeClusterOwnedSecurityGroups ==
    /\ pc = "delSGs" /\ UNCHANGED <<spec, aws, cache, mem, base, tasks>>
    /\ \/ /\ mem.vpc = None \/ aws.sgs = {}
          /\ UNCHANGED obj /\ Proceed("gc")
       \/ /\ mem.vpc # None /\ aws.sgs # {} /\ obj.exists /\ UNCHANGED obj
          /\ Goto("delSG") /\ NoFault /\ loc' = [loc EXCEPT !.groups = aws.sgs]
       \/ /\ mem.vpc # None /\ aws.sgs # {}
          /\ PatchFails(mem) /\ Fail("gc")
       \/ mem.vpc # None /\ Fault("aws") /\ UNCHANGED obj /\ Fail("gc")

\* AWS refuses to delete a group that an interface or a rule of another uses.
SGInUse(r) ==
    \/ r = "bastion" /\ aws.bastion # "none"
    \/ r = "apiserver-lb" /\ aws.lb # "none"
    \/ \E q \in aws.ruled \ {r} : r \in Sources(q)

\* Mutation: the rules are left in place.
Revoked_Not(r) == aws

\* revokeAllSecurityGroupIngressRules.
Revoked(r) == [aws EXCEPT !.ruled = @ \ {r}]

\* The loop of DeleteSecurityGroups.  A failing revocation ends it, a failing
\* deletion does not.  IsIgnorableSecurityGroupError takes an error without an
\* API code for none.
deleteSecurityGroup ==
    /\ pc = "delSG" /\ Step /\ UNCHANGED mem
    /\ \/ loc.groups = {} /\ UNCHANGED aws /\ Proceed("gc")
       \/ \E r \in loc.groups :
            LET rest == [loc EXCEPT !.groups = @ \ {r}]
                gone == [Revoked(r) EXCEPT !.sgs = @ \ {r}]
            IN  \/ /\ ~SGInUse(r) /\ aws' = gone /\ loc' = rest
                   /\ Goto("delSG") /\ NoFault
                \/ /\ SGInUse(r) /\ aws' = Revoked(r)
                   /\ loc' = [rest EXCEPT !.err = TRUE] /\ Goto("delSG") /\ NoFault
                \/ /\ Fault("aws") /\ aws' \in {aws, Revoked(r)} /\ Fail("gc")
                \/ /\ Fault("aws") /\ aws' \in {Revoked(r), gone} /\ ~SGInUse(r)
                   /\ loc' = [rest EXCEPT !.err = TRUE] /\ Goto("delSG")
                \/ /\ Fault("codeless") /\ aws' \in {aws, Revoked(r)}
                   /\ loc' = rest /\ Goto("delSG")

-----------------------------------------------------------------------------
(* Garbage collection of what the workload cluster made, collected by tag *)

\* One of the cleanup functions; an error ends the garbage collection.
Cleanup(label, parts, next) ==
    /\ pc = label /\ Step /\ UNCHANGED mem
    /\ Call([aws EXCEPT !.services = @ \ parts], next, {}, "delNetwork")

\* ReconcileDelete of the gc service, and deleteLoadBalancers.
gcReconcileDelete ==
    \/ pc = "gc" /\ ~spec.gc /\ Step /\ UNCHANGED <<aws, mem>> /\ Proceed("delNetwork")
    \/ spec.gc /\ Cleanup("gc", {"elb", "lb"}, "gcTargetGroups")

gcDeleteTargetGroups == Cleanup("gcTargetGroups", {"tg"}, "gcSecurityGroups")

\* AWS refuses to delete the group of a load balancer whose interfaces are left, or
\* that a rule of the nodes' group names.
ServiceSGInUse ==
    "sg" \in aws.services /\ ("interfaces" \in aws.services \/ "node" \in aws.ruled)

gcDeleteSecurityGroups ==
    \/ ~ServiceSGInUse /\ Cleanup("gcSecurityGroups", {"sg"}, "delNetwork")
    \/ /\ pc = "gcSecurityGroups" /\ ServiceSGInUse /\ NoFault
       /\ Step /\ UNCHANGED <<aws, mem>> /\ Fail("delNetwork")

-----------------------------------------------------------------------------
(* DeleteNetwork *)

\* DeleteNetwork: the described VPC is copied over the one of the object, which
\* clears CarrierGatewayID and everything else AWS does not report.
describeNetwork ==
    /\ pc = "delNetwork"
    /\ \/ /\ mem.vpc \in aws.vpcs \cup {ByoVpc, None}
          /\ mem' = [mem EXCEPT !.cagw = FALSE,
                       !.ipv6 = mem.vpc # None /\ aws.ipv6 = "associated"]
          /\ PatchObject(mem', "delEndpoints", "deleted")
       \/ /\ mem.vpc \in Vpcs \ aws.vpcs
          /\ Step /\ UNCHANGED <<aws, mem>> /\ Proceed("deleted")
       \/ /\ mem.vpc # None /\ Fault("aws")
          /\ Step /\ UNCHANGED <<aws, mem>> /\ Fail("deleted")

\* A step of DeleteNetwork.  It changes nothing when skip holds.  Most are
\* preceded by a PatchObject that has nothing new to write, and all but the
\* release of the addresses return at once when the VPC is unmanaged.
NetworkStep(label, skip, a, partial, next) ==
    /\ pc = label /\ Step /\ UNCHANGED mem
    /\ \/ skip /\ UNCHANGED aws /\ Proceed(next)
       \/ ~skip /\ Call(a, next, partial, "deleted")
       \/ /\ UNCHANGED aws /\ Fail("deleted")
          /\ \/ Fault("patch")
             \/ Fault("aws") /\ (IsUnmanaged(mem) => label = "delAddresses")

\* AWS refuses after the deletions that led to one of the states of partial.
Refused(label, partial) ==
    /\ pc = label /\ Step /\ UNCHANGED mem
    /\ aws' \in partial /\ NoFault /\ Fail("deleted")

NoVPC == mem.vpc = None \/ IsUnmanaged(mem)

deleteVPCEndpoints ==
    NetworkStep("delEndpoints", NoVPC,
                [aws EXCEPT !.gateways = @ \ {"endpoint"}], {}, "delRoutes")

deleteRouteTables ==
    NetworkStep("delRoutes", NoVPC,
                [aws EXCEPT !.routed = {}, !.looseTables = 0],
                {[aws EXCEPT !.routed = R] : R \in SUBSET aws.routed}, "delNats")

\* One NAT gateway of every public subnet the object knows the id of.
deleteNatGateways ==
    LET zones == {z \in Zones : PublicSubnet(z) \in mem.subnets /\ HasNat(z)}
        without(gone) == [aws EXCEPT !.eips =
                            [e \in Eips |-> IF e \in gone THEN "idle" ELSE @[e]]]
    IN  \E nat \in [zones -> Eips] :
          /\ \A z \in zones : aws.eips[nat[z]] = z
          /\ NetworkStep("delNats", NoVPC \/ zones = {},
                         without({nat[z] : z \in zones}),
                         {without({nat[z] : z \in Z}) : Z \in SUBSET zones},
                         "delAddresses")

Idle == {e \in Eips : aws.eips[e] = "idle"}
InNat == {e \in Eips : aws.eips[e] \in Zones}
Without(gone) == [aws EXCEPT !.eips =
                    [e \in Eips |-> IF e \in gone THEN "free" ELSE @[e]]]

\* releaseAddresses: the addresses of the cluster, found by tag whatever the VPC
\* is, one by one.  The address of a NAT gateway cannot be disassociated.
releaseAddresses ==
    \/ InNat = {} /\ NetworkStep("delAddresses", Idle = {}, Without(Idle),
                                 {Without(E) : E \in SUBSET Idle}, "delIgw")
    \/ InNat # {} /\ Refused("delAddresses", {Without(E) : E \in SUBSET Idle})

\* What has a public address or an interface in a public subnet.
InterfaceLeft == aws.lb # "none" \/ aws.bastion # "none" \/ "interfaces" \in aws.services

\* deleteInternetGateways: detached, then deleted.
deleteInternetGateways ==
    LET skip == NoVPC \/ Attached = {}
    IN  \/ /\ skip \/ ~(InNat # {} \/ InterfaceLeft)
           /\ NetworkStep("delIgw", skip,
                [aws EXCEPT !.igws = [g \in Igws |-> IF g \in Attached THEN "none" ELSE @[g]]],
                {[aws EXCEPT !.igws = [g \in Igws |-> IF g \in Attached THEN "detached" ELSE @[g]]]},
                "delGateways")
        \/ ~skip /\ (InNat # {} \/ InterfaceLeft) /\ Refused("delIgw", {aws})

\* The carrier gateway, if the object has its id, and the egress-only gateway, if
\* the VPC has an IPv6 block.
deleteGateways ==
    NetworkStep("delGateways", NoVPC,
                [aws EXCEPT !.gateways = @ \ {g \in {"carrier", "egress"} :
                                IF g = "carrier" THEN mem.cagw ELSE mem.ipv6}],
                {}, "delSubnets")

\* AWS refuses to delete a subnet with interfaces.  None is left in a public one:
\* deleteInternetGateways or releaseAddresses has failed before.
SubnetInUse(s) == s[2] = "public" /\ (HasNat(s[1]) \/ InterfaceLeft)

\* Mutation: the subnets of a VPC the user brought are deleted as well.
SkipSubnets_Never == FALSE

SkipSubnets == IsUnmanaged(mem)

\* deleteSubnets: the subnets of the VPC, or without an id those with the tag of
\* the cluster, one by one.
deleteSubnets ==
    LET without(S) == [aws EXCEPT !.subnets = @ \ S, !.routed = @ \ S]
    IN  /\ SkipSubnets \/ ~\E s \in aws.subnets : SubnetInUse(s)
        /\ NetworkStep("delSubnets", SkipSubnets, without(aws.subnets),
                       {without(S) : S \in SUBSET aws.subnets}, "delVpc")

\* What AWS does not delete a VPC with.
VPCInUse ==
    \/ aws.subnets # {} \/ aws.routed # {} \/ aws.looseTables > 0
    \/ Attached # {} \/ aws.gateways # {} \/ aws.sgs # {}
    \/ aws.services # {}

\* deleteVPC: the MissingParameter that an empty id leads to is no error.
deleteVPC ==
    \/ NoVPC /\ NetworkStep("delVpc", TRUE, aws, {}, "deleted")
    \/ /\ ~NoVPC /\ ~VPCInUse
       /\ NetworkStep("delVpc", FALSE, [aws EXCEPT !.vpcs = @ \ {mem.vpc}], {}, "deleted")
    \/ ~NoVPC /\ VPCInUse /\ Refused("delVpc", {aws})

\* Mutation: the errors of the services are forgotten.
AllDeleted_ErrorsForgotten == TRUE

AllDeleted == ~loc.err

\* The end of reconcileDelete.
removeFinalizer ==
    /\ pc = "deleted" /\ Step /\ UNCHANGED aws /\ Proceed("close")
    /\ mem' = [mem EXCEPT !.finalizer = @ /\ ~AllDeleted]

-----------------------------------------------------------------------------
(* The end of a reconcile, and what surrounds it *)

\* What the reconcile held in memory is gone.
Done ==
    /\ Goto("idle") /\ loc' = NoLocals
    /\ mem' = NewAWSCluster(spec) /\ base' = NewAWSCluster(spec)

\* The deferred clusterScope.Close of Reconcile.
Close ==
    /\ pc = "close" /\ Done
    /\ PatchSucceeds(mem) \/ PatchFails(mem)
    /\ UNCHANGED <<spec, aws, cache, tasks>>

\* The controller stops, and with it every goroutine; a new one starts.
Crash ==
    /\ Fault("crash") /\ (pc # "idle" \/ tasks # {})
    /\ Done /\ tasks' = {} /\ cache' = obj
    /\ UNCHANGED <<spec, aws, obj>>

\* The watch brings the cache up to date.
CacheSync ==
    /\ cache # obj /\ cache' = obj
    /\ UNCHANGED <<spec, aws, obj, pc, mem, base, loc, tasks, faults>>

\* The user, or the owning Cluster, deletes the object.
DeleteAWSCluster ==
    /\ obj.exists /\ ~obj.deleting
    /\ obj' = Collected([obj EXCEPT !.deleting = TRUE])
    /\ UNCHANGED <<spec, aws, cache, pc, mem, base, loc, tasks, faults>>

\* What AWS does by itself.
Environment(a) ==
    aws' = a /\ UNCHANGED <<spec, obj, cache, pc, mem, base, loc, tasks>>

IPv6Associates ==
    /\ aws.ipv6 = "associating" /\ NoFault
    /\ Environment([aws EXCEPT !.ipv6 = "associated"])

\* Only a load balancer that was deleted drains.
LBDrains ==
    /\ aws.lb = "draining" /\ NoFault
    /\ Environment([aws EXCEPT !.lb = "none"])

BastionTerminates ==
    /\ aws.bastion = "terminating" /\ NoFault
    /\ Environment([aws EXCEPT !.bastion = "none"])

\* A Service of type LoadBalancer: the load balancer of a Service, with its security
\* group or target group.
ServiceCreated ==
    /\ spec.services # "none" /\ aws.services = {} /\ obj.ready /\ ~obj.deleting /\ NoFault
    /\ Environment([aws EXCEPT !.services =
                      IF spec.services = "classic" THEN {"elb", "sg", "interfaces"}
                      ELSE {"lb", "tg", "sg", "interfaces"}])

\* The interfaces of a deleted load balancer go later.
ServiceDrains ==
    /\ aws.services \cap {"elb", "lb"} = {} /\ "interfaces" \in aws.services /\ NoFault
    /\ Environment([aws EXCEPT !.services = @ \ {"interfaces"}])

\* Somebody deletes the load balancer.
LBLost ==
    /\ aws.lb = "up" /\ Fault("lblost")
    /\ Environment([aws EXCEPT !.lb = "none", !.served = FALSE,
                      !.looseTGs = IF spec.lb = "nlb" /\ aws.served THEN @ + 1 ELSE @])

ReconcileNormalStep ==
    \/ addFinalizer
    \/ describeVPCByID \/ createVPC \/ describeNewIPv6VPC \/ patchVPC
    \/ defaultSubnets \/ describeVpcSubnets \/ createSubnet
    \/ reconcileInternetGateways \/ reconcileCarrierGateway
    \/ reconcileEgressOnlyInternetGateways
    \/ reconcileNatGateways \/ describeAddresses \/ allocateAddress
    \/ createNatGateways
    \/ reconcileRouteTables \/ reconcileVPCEndpoints
    \/ createSecurityGroup \/ authorizeSecurityGroupIngressRules
    \/ ReconcileBastion \/ runBastion
    \/ getOrCreateLB \/ reconcileLB \/ ReconcileBucket

ReconcileDeleteStep ==
    \/ DeleteBucket \/ DeleteLoadbalancers \/ DeleteBastion \/ waitBastion
    \/ describeClusterOwnedSecurityGroups \/ deleteSecurityGroup
    \/ gcReconcileDelete \/ gcDeleteTargetGroups \/ gcDeleteSecurityGroups
    \/ describeNetwork \/ deleteVPCEndpoints \/ deleteRouteTables
    \/ deleteNatGateways \/ releaseAddresses \/ deleteInternetGateways
    \/ deleteGateways \/ deleteSubnets \/ deleteVPC
    \/ removeFinalizer

Worker == Reconcile \/ ReconcileNormalStep \/ ReconcileDeleteStep \/ Close

Next ==
    \/ Worker
    \/ \E t \in tasks : createNatGateway(t)
    \/ Crash \/ CacheSync \/ DeleteAWSCluster
    \/ IPv6Associates \/ LBDrains \/ BastionTerminates \/ LBLost
    \/ ServiceCreated \/ ServiceDrains

Spec == Init /\ [][Next]_vars

\* The work queue hands the object out again after an error, after an event of
\* the watch and at the latest after the sync period; goroutines run, watches
\* deliver, and AWS finishes what it started.  Nobody has to delete the object.
FairSpec ==
    /\ Spec
    /\ WF_vars(Worker) /\ WF_vars(CacheSync)
    /\ \A t \in Zones \X Eips : WF_vars(createNatGateway(t))
    /\ WF_vars(IPv6Associates) /\ WF_vars(LBDrains) /\ WF_vars(BastionTerminates)
    /\ WF_vars(ServiceDrains)

-----------------------------------------------------------------------------
(* Properties *)

\* describeVPCByName: "either we don't have a VPC yet or we failed to save its
\* ID before".  A cluster never has two VPCs, whatever answer or patch is lost.
OneVPC == Cardinality(aws.vpcs) <= 1

\* reconcileDelete removes the finalizer only when every service has deleted
\* what it found: once the object is gone, a cluster whose VPC id was known
\* leaves nothing that costs money or blocks the user's VPC, and nothing of its
\* Services unless it opted out of garbage collection.
NoOrphanResources ==
    ~obj.exists /\ obj.vpc # None =>
      /\ aws.lb # "up" /\ aws.bastion # "up" /\ aws.sgs = {}
      /\ aws.vpcs = {} /\ Attached = {} /\ aws.gateways = {}
      /\ \A e \in Eips : aws.eips[e] = "free"
      /\ spec.vpc = "managed" => aws.subnets = {} /\ aws.routed = {}
      /\ spec.gc => aws.services \subseteq {"interfaces"}

\* DeleteNetwork and ReconcileNetwork leave the subnets and route tables of a
\* VPC the user brought alone (IsUnmanaged).
UnmanagedNetworkKept ==
    spec.vpc = "byo" =>
      aws.subnets = Subnets /\ aws.routed = Subnets /\ aws.eips = [e \in Eips |-> "free"]

\* Status.Ready is set at the end of a reconcile in which every service
\* succeeded: the network and the groups are there, and a load balancer that is
\* up has the published name (getOrCreateLB does not replace a lost one).
ReadyMeansProvisioned ==
    obj.ready /\ ~obj.deleting =>
      /\ obj.vpc # None /\ obj.endpoint # None /\ obj.finalizer
      /\ aws.subnets = Subnets /\ obj.subnets = Subnets /\ aws.routed = Subnets
      /\ spec.vpc = "managed" => /\ obj.vpc \in aws.vpcs /\ Attached # {}
                                 /\ \A z \in Zones : HasNat(z)
      /\ aws.sgs = Roles /\ aws.ruled = Roles
      /\ aws.lb = "up" => aws.lbName = obj.endpoint
      /\ spec.bastion => aws.bastion = "up"

\* Reconciles repeated after errors bring a cluster that is not deleted to ready,
\* unless somebody deletes the load balancer behind the published endpoint.
ClusterBecomesReady ==
    <>(obj.ready \/ obj.deleting \/ (obj.endpoint # None /\ aws.lb = "none"))

\* Reconciles repeated after errors get through what AWS refuses at first, and
\* the object goes away.
ClusterDeletionCompletes == obj.exists /\ obj.deleting ~> ~obj.exists

\* "Register the finalizer immediately to avoid orphaning AWS resources on
\* delete": with the object the VPC is gone, even if its id was never stored.
NoOrphanVPC == ~obj.exists => aws.vpcs = {}

=============================================================================

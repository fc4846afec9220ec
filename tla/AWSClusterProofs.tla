-------------------------- MODULE AWSClusterProofs --------------------------
(***************************************************************************)
(* Safety of the AWSCluster controller for every set of zones, roles and   *)
(* ids and any number of faults: type correctness, at most one VPC, the    *)
(* network of a user left alone, nothing left behind by a deletion, and    *)
(* what a ready cluster has.                                               *)
(*                                                                         *)
(* The proofs have three layers.  The frame formulas (NormalAccount,       *)
(* NormalObject, DeleteAccount, ...) say of every kind of step which part  *)
(* of the account and of the object it can change.  The invariants TypeInv,*)
(* VpcInv, KindInv, SyncInv and IdInv, each inductive with the ones before *)
(* it, say what holds between account, object and reconcile.  DeletedInv   *)
(* and ReadyInv follow a deleting and a normal reconcile along its steps.  *)
(***************************************************************************)
EXTENDS AWSCluster, FiniteSetTheorems, TLAPS

USE DEF Goto, Proceed, Fail, Step

\* The steps between the subnets and the VPC endpoints.
NetworkLabels ==
    {"igw", "carrier", "egress", "nat", "addresses", "allocate", "natWait", "routes"}

\* What TypeOK rests on: the order of the services.  Route tables are made for subnets that
\* are there, rules for groups that are there, and the reconcile waits for goroutines only
\* where it started them.
OrderKept ==
    /\ pc = "createSubnets" => mem.subnets \subseteq aws.subnets
    /\ pc \in NetworkLabels => aws.subnets = Subnets
    /\ pc = "rules" => aws.sgs = Roles
    /\ loc.mine # {} => pc = "natWait"

\* An account that is well typed after n faults.
Good(a, n) ==
    /\ a \in Accounts
    /\ a.ruled \subseteq a.sgs /\ a.routed \subseteq a.subnets
    /\ a.lb = "up" => a.lbName \in Lbs
    /\ a.looseTables <= n /\ a.looseTGs <= n

\* The inductive invariant behind TypeOK.
TypeInv ==
    /\ spec \in Specs /\ obj \in AWSClusters /\ cache \in AWSClusters
    /\ mem \in AWSClusters /\ base \in AWSClusters
    /\ loc \in Locals /\ tasks \subseteq Zones \X Eips /\ faults \in 0 .. MaxFaults
    /\ pc \in Labels /\ Good(aws, faults) /\ OrderKept

\* The faults stay within their bound.
LEMMA FaultType ==
    ASSUME faults \in 0 .. MaxFaults, NEW k, Fault(k) \/ NoFault
    PROVE  /\ faults' \in 0 .. MaxFaults /\ faults' >= faults
           /\ Fault(k) => faults' = faults + 1 /\ faults + 1 <= MaxFaults
           /\ NoFault => faults' = faults
BY ConstantsAssumption DEF Fault, NoFault

\* The updates to the account keep its shape.
LEMMA GoodMore ==
    ASSUME NEW n \in Nat, NEW a, Good(a, n), NEW k \in 0 .. MaxFaults, k >= n
    PROVE  Good(a, k)
BY ConstantsAssumption DEF Good, Accounts

\* VPCs come and go,
LEMMA GoodVpcs ==
    ASSUME NEW n \in Nat, NEW a, Good(a, n), NEW V \in SUBSET Vpcs,
           NEW x \in {"none", "associating", "associated"}
    PROVE  /\ Good([a EXCEPT !.vpcs = V], n) /\ Good([a EXCEPT !.ipv6 = x], n)
           /\ Good([a EXCEPT !.vpcs = V, !.ipv6 = x], n)
<1> USE DEF Good, Accounts
<1>1. Good([a EXCEPT !.vpcs = V], n)
  OBVIOUS
<1>2. Good([a EXCEPT !.ipv6 = x], n)
  OBVIOUS
<1>3. Good([a EXCEPT !.vpcs = V, !.ipv6 = x], n)
  OBVIOUS
<1> QED BY <1>1, <1>2, <1>3

\* subnets,
LEMMA GoodSubnets ==
    ASSUME NEW n \in Nat, NEW a, Good(a, n), NEW S \in SUBSET Subnets
    PROVE  /\ a.routed \subseteq S => Good([a EXCEPT !.subnets = S], n)
           /\ S \subseteq a.subnets => Good([a EXCEPT !.routed = S], n)
           /\ Good([a EXCEPT !.subnets = @ \ S, !.routed = @ \ S], n)
<1> USE DEF Good, Accounts
<1>1. a.routed \subseteq S => Good([a EXCEPT !.subnets = S], n)
  OBVIOUS
<1>2. S \subseteq a.subnets => Good([a EXCEPT !.routed = S], n)
  OBVIOUS
<1>3. Good([a EXCEPT !.subnets = @ \ S, !.routed = @ \ S], n)
  OBVIOUS
<1> QED BY <1>1, <1>2, <1>3

\* route tables,
LEMMA GoodTables ==
    ASSUME NEW n \in Nat, NEW a, Good(a, n)
    PROVE  Good([a EXCEPT !.routed = {}, !.looseTables = 0], n)
<1> USE DEF Good, Accounts
<1>1. \A R \in SUBSET a.subnets, k \in 0 .. MaxFaults :
        k <= n => Good([a EXCEPT !.routed = R, !.looseTables = k], n)
  OBVIOUS
<1>2. 0 \in 0 .. MaxFaults /\ 0 <= n /\ {} \in SUBSET a.subnets
  BY ConstantsAssumption
<1> HIDE DEF Good, Accounts
<1> QED BY <1>1, <1>2

\* gateways,
LEMMA GoodGateways ==
    ASSUME NEW n \in Nat, NEW a, Good(a, n)
    PROVE  /\ \A f \in [Igws -> {"none", "detached", "attached"}] : Good([a EXCEPT !.igws = f], n)
           /\ \A G \in SUBSET {"carrier", "egress", "endpoint"} : Good([a EXCEPT !.gateways = G], n)
BY DEF Good, Accounts

\* addresses,
LEMMA GoodEips ==
    ASSUME NEW n \in Nat, NEW a, Good(a, n), NEW f \in [Eips -> {"free", "idle"} \cup Zones]
    PROVE  Good([a EXCEPT !.eips = f], n)
BY DEF Good, Accounts

\* security groups and their rules,
LEMMA GoodGroups ==
    ASSUME NEW n \in Nat, NEW a, Good(a, n), NEW R \in SUBSET Roles
    PROVE  /\ a.ruled \subseteq R => Good([a EXCEPT !.sgs = R], n)
           /\ R \subseteq a.sgs => Good([a EXCEPT !.ruled = R], n)
BY DEF Good, Accounts

\* a group whose rules are revoked before it is deleted,
LEMMA GoodRevoked ==
    ASSUME NEW n \in Nat, NEW a, Good(a, n), NEW r
    PROVE  /\ Good([a EXCEPT !.ruled = @ \ {r}], n)
           /\ Good([[a EXCEPT !.ruled = @ \ {r}] EXCEPT !.sgs = @ \ {r}], n)
<1> USE DEF Good, Accounts
<1>1. Good([a EXCEPT !.ruled = @ \ {r}], n)
  OBVIOUS
<1>2. Good([[a EXCEPT !.ruled = @ \ {r}] EXCEPT !.sgs = @ \ {r}], n)
  OBVIOUS
<1> QED BY <1>1, <1>2

\* the load balancer,
LEMMA GoodLB ==
    ASSUME NEW n \in Nat, NEW a, Good(a, n)
    PROVE  /\ \A l \in Lbs : Good([a EXCEPT !.lb = "up", !.lbName = l, !.served = FALSE], n)
           /\ Good([a EXCEPT !.lb = "none"], n)
           /\ Good([a EXCEPT !.lb = "draining", !.served = FALSE], n)
<1> USE DEF Good, Accounts
<1>1. \A l \in Lbs : Good([a EXCEPT !.lb = "up", !.lbName = l, !.served = FALSE], n)
  OBVIOUS
<1>2. Good([a EXCEPT !.lb = "none"], n)
  OBVIOUS
<1>3. Good([a EXCEPT !.lb = "draining", !.served = FALSE], n)
  OBVIOUS
<1> QED BY <1>1, <1>2, <1>3

\* and the parts that are on their own.
LEMMA GoodRest ==
    ASSUME NEW n \in Nat, NEW a, Good(a, n)
    PROVE  /\ \A x \in {"none", "up", "terminating"} : Good([a EXCEPT !.bastion = x], n)
           /\ \A b \in BOOLEAN : /\ Good([a EXCEPT !.served = b], n)
                                 /\ Good([a EXCEPT !.bucket = b], n)
           /\ \A S \in SUBSET {"elb", "lb", "tg", "sg", "interfaces"} :
                Good([a EXCEPT !.services = S], n)
<1> USE DEF Good, Accounts
<1>1. \A x \in {"none", "up", "terminating"} : Good([a EXCEPT !.bastion = x], n)
  OBVIOUS
<1>2. \A b \in BOOLEAN : Good([a EXCEPT !.served = b], n) /\ Good([a EXCEPT !.bucket = b], n)
  OBVIOUS
<1>3. \A S \in SUBSET {"elb", "lb", "tg", "sg", "interfaces"} : Good([a EXCEPT !.services = S], n)
  OBVIOUS
<1> QED BY <1>1, <1>2, <1>3

\* A route table or a target group that belongs to nothing is counted with the fault
\* that left it.
LEMMA LooseUpdates ==
    ASSUME NEW n \in Nat, n + 1 <= MaxFaults, NEW a, Good(a, n)
    PROVE  /\ Good([a EXCEPT !.looseTables = @ + 1], n + 1)
           /\ Good([a EXCEPT !.looseTGs = @ + 1], n + 1)
           /\ Good([a EXCEPT !.served = FALSE, !.looseTGs = @ + 1], n + 1)
           /\ Good([a EXCEPT !.lb = "none", !.served = FALSE, !.looseTGs = @ + 1], n + 1)
           /\ Good([a EXCEPT !.lb = "none", !.served = FALSE, !.looseTGs = @], n + 1)
<1> USE DEF Good, Accounts
<1>0. MaxFaults \in Nat /\ a.looseTables \in Nat /\ a.looseTGs \in Nat
      /\ a.looseTables <= n /\ a.looseTGs <= n
  BY ConstantsAssumption
<1>1. Good([a EXCEPT !.looseTables = @ + 1], n + 1)
  BY <1>0
<1>2. Good([a EXCEPT !.looseTGs = @ + 1], n + 1)
  BY <1>0
<1>3. ASSUME NEW k \in 0 .. MaxFaults, k <= n + 1
      PROVE  /\ Good([a EXCEPT !.served = FALSE, !.looseTGs = k], n + 1)
             /\ Good([a EXCEPT !.lb = "none", !.served = FALSE, !.looseTGs = k], n + 1)
  <2>1. a.looseTables <= n + 1
    BY <1>0
  <2>2. Good([a EXCEPT !.served = FALSE, !.looseTGs = k], n + 1)
    BY <1>3, <2>1
  <2>3. Good([a EXCEPT !.lb = "none", !.served = FALSE, !.looseTGs = k], n + 1)
    BY <1>3, <2>1
  <2> QED BY <2>2, <2>3
<1>4. /\ a.looseTGs + 1 \in 0 .. MaxFaults /\ a.looseTGs + 1 <= n + 1
      /\ a.looseTGs \in 0 .. MaxFaults /\ a.looseTGs <= n + 1
  BY <1>0
<1> HIDE DEF Good, Accounts
<1> QED BY <1>1, <1>2, <1>3, <1>4

\* The updates to the object.
LEMMA ClusterFlags ==
    ASSUME NEW m \in AWSClusters, NEW b \in BOOLEAN
    PROVE  /\ [m EXCEPT !.finalizer = b] \in AWSClusters
           /\ [m EXCEPT !.vpcCond = b] \in AWSClusters
           /\ [m EXCEPT !.natCond = b] \in AWSClusters
           /\ [m EXCEPT !.bastionCond = b] \in AWSClusters
           /\ [m EXCEPT !.listed = b] \in AWSClusters
           /\ [m EXCEPT !.cagw = b] \in AWSClusters
           /\ [m EXCEPT !.ready = b] \in AWSClusters
           /\ [m EXCEPT !.cagw = FALSE, !.ipv6 = b] \in AWSClusters
BY DEF AWSClusters

\* the VPC,
LEMMA ClusterVPC ==
    ASSUME NEW m \in AWSClusters, NEW v \in Vpcs \cup {ByoVpc, None}
    PROVE  /\ [m EXCEPT !.vpc = v] \in AWSClusters
           /\ \A b \in BOOLEAN : [m EXCEPT !.vpc = v, !.ipv6 = b] \in AWSClusters
BY DEF AWSClusters

\* the subnets,
LEMMA ClusterSubnets ==
    ASSUME NEW m \in AWSClusters, NEW S \in SUBSET Subnets
    PROVE  [m EXCEPT !.subnets = S] \in AWSClusters /\ [m EXCEPT !.subnets = S].subnets = S
BY DEF AWSClusters

\* and the endpoint.
LEMMA ClusterEndpoint ==
    ASSUME NEW m \in AWSClusters, NEW l \in Lbs \cup {None}
    PROVE  [m EXCEPT !.endpoint = l] \in AWSClusters
BY DEF AWSClusters

\* The updates to the local variables.
LEMMA LocErr ==
    ASSUME NEW r \in Locals
    PROVE  [r EXCEPT !.err = TRUE] \in Locals /\ [r EXCEPT !.err = TRUE].mine = r.mine
BY DEF Locals

\* the VPC just created,
LEMMA LocVPC ==
    ASSUME NEW r \in Locals, NEW v \in Vpcs
    PROVE  [r EXCEPT !.vpc = v] \in Locals /\ [r EXCEPT !.vpc = v].mine = r.mine
BY DEF Locals

\* the zones,
LEMMA LocZones ==
    ASSUME NEW r \in Locals, NEW Z \in SUBSET Zones
    PROVE  /\ [r EXCEPT !.nats = Z] \in Locals /\ [r EXCEPT !.nats = Z].mine = r.mine
           /\ [r EXCEPT !.missing = Z] \in Locals /\ [r EXCEPT !.missing = Z].mine = r.mine
BY DEF Locals

\* the addresses,
LEMMA LocIps ==
    ASSUME NEW r \in Locals, NEW E \in SUBSET Eips
    PROVE  [r EXCEPT !.ips = E] \in Locals /\ [r EXCEPT !.ips = E].mine = r.mine
BY DEF Locals

\* the goroutines,
LEMMA LocMine ==
    ASSUME NEW r \in Locals, NEW T \in SUBSET (Zones \X Eips), NEW Z \in SUBSET Zones
    PROVE  /\ [r EXCEPT !.mine = T] \in Locals /\ [r EXCEPT !.mine = T].mine = T
           /\ [r EXCEPT !.mine = T, !.nats = Z] \in Locals
           /\ [r EXCEPT !.mine = T, !.nats = Z].mine = T
           /\ [r EXCEPT !.mine = {}, !.err = TRUE] \in Locals
           /\ [r EXCEPT !.mine = {}, !.err = TRUE].mine = {}
BY DEF Locals

\* the security groups to delete,
LEMMA LocGroups ==
    ASSUME NEW r \in Locals, NEW G \in SUBSET Roles
    PROVE  /\ [r EXCEPT !.groups = G] \in Locals /\ [r EXCEPT !.groups = G].mine = r.mine
           /\ [[r EXCEPT !.groups = G] EXCEPT !.err = TRUE] \in Locals
           /\ [[r EXCEPT !.groups = G] EXCEPT !.err = TRUE].mine = r.mine
BY DEF Locals

\* and the load balancer described.
LEMMA LocLB ==
    ASSUME NEW r \in Locals, NEW l \in Lbs \cup {None}
    PROVE  [r EXCEPT !.lb = l] \in Locals /\ [r EXCEPT !.lb = l].mine = r.mine
BY DEF Locals

\* The local variables and the object a reconcile starts with.
LEMMA StartTypes == /\ NoLocals \in Locals /\ NoLocals.mine = {}
                    /\ spec \in Specs => NewAWSCluster(spec) \in AWSClusters
<1>1. NoLocals \in Locals /\ NoLocals.mine = {}
  BY DEF NoLocals, Locals
<1>2. ASSUME spec \in Specs PROVE NewAWSCluster(spec) \in AWSClusters
  <2>1. spec.listed \in BOOLEAN /\ spec.ipv6 \in BOOLEAN
    BY <1>2, ConstantsAssumption DEF AllSpecs
  <2> QED BY <2>1 DEF NewAWSCluster, AWSClusters
<1> QED BY <1>1, <1>2

\* What TypeInv says of the fields.
LEMMA TypeFacts ==
    ASSUME TypeInv
    PROVE  /\ spec \in Specs /\ obj \in AWSClusters /\ cache \in AWSClusters
           /\ mem \in AWSClusters /\ base \in AWSClusters /\ loc \in Locals
           /\ tasks \subseteq Zones \X Eips /\ faults \in 0 .. MaxFaults /\ faults \in Nat
           /\ faults <= MaxFaults /\ Good(aws, faults) /\ OrderKept
           /\ mem.vpc \in Vpcs \cup {ByoVpc, None} /\ mem.subnets \subseteq Subnets
           /\ {mem.ipv6, mem.finalizer, mem.cagw, mem.ready, mem.bastionCond} \subseteq BOOLEAN
           /\ loc.vpc \in Vpcs \cup {None} /\ loc.lb \in Lbs \cup {None}
           /\ loc.nats \subseteq Zones /\ loc.missing \subseteq Zones /\ loc.ips \subseteq Eips
           /\ loc.mine \subseteq Zones \X Eips /\ loc.groups \subseteq Roles
           /\ loc.err \in BOOLEAN
           /\ aws.vpcs \subseteq Vpcs /\ aws.subnets \subseteq Subnets /\ aws.routed \subseteq aws.subnets
           /\ aws.ipv6 \in {"none", "associating", "associated"}
           /\ aws.igws \in [Igws -> {"none", "detached", "attached"}]
           /\ aws.gateways \subseteq {"carrier", "egress", "endpoint"}
           /\ aws.eips \in [Eips -> {"free", "idle"} \cup Zones]
           /\ aws.sgs \subseteq Roles /\ aws.ruled \subseteq aws.sgs
           /\ aws.lbName \in Lbs \cup {None} /\ (aws.lb = "up" => aws.lbName \in Lbs)
           /\ aws.services \subseteq {"elb", "lb", "tg", "sg", "interfaces"}
<1>1. aws \in Accounts /\ loc \in Locals /\ mem \in AWSClusters /\ faults \in 0 .. MaxFaults
      /\ aws.routed \subseteq aws.subnets /\ aws.ruled \subseteq aws.sgs
      /\ (aws.lb = "up" => aws.lbName \in Lbs)
  BY DEF TypeInv, Good
<1>2. /\ aws.vpcs \subseteq Vpcs /\ aws.subnets \subseteq Subnets
      /\ aws.ipv6 \in {"none", "associating", "associated"}
      /\ aws.igws \in [Igws -> {"none", "detached", "attached"}]
      /\ aws.gateways \subseteq {"carrier", "egress", "endpoint"}
      /\ aws.eips \in [Eips -> {"free", "idle"} \cup Zones]
      /\ aws.sgs \subseteq Roles /\ aws.lbName \in Lbs \cup {None}
      /\ aws.services \subseteq {"elb", "lb", "tg", "sg", "interfaces"}
  BY <1>1 DEF Accounts
<1>3. /\ loc.vpc \in Vpcs \cup {None} /\ loc.lb \in Lbs \cup {None}
      /\ loc.nats \subseteq Zones /\ loc.missing \subseteq Zones /\ loc.ips \subseteq Eips
      /\ loc.mine \subseteq Zones \X Eips /\ loc.groups \subseteq Roles /\ loc.err \in BOOLEAN
  BY <1>1 DEF Locals
<1>4. /\ mem.vpc \in Vpcs \cup {ByoVpc, None} /\ mem.subnets \subseteq Subnets
      /\ {mem.ipv6, mem.finalizer, mem.cagw, mem.ready, mem.bastionCond} \subseteq BOOLEAN
  BY <1>1 DEF AWSClusters
<1>5. faults \in Nat /\ faults <= MaxFaults
  BY <1>1, ConstantsAssumption
<1> QED BY <1>1, <1>2, <1>3, <1>4, <1>5 DEF TypeInv

\* A call to AWS.
LEMMA CallType ==
    ASSUME TypeInv, NEW a, NEW l, NEW P, NEW o, Call(a, l, P, o), Good(a, faults),
           \A b \in P : \/ Good(b, faults)
                        \/ faults + 1 <= MaxFaults => Good(b, faults + 1)
    PROVE  /\ Good(aws', faults') /\ faults' \in 0 .. MaxFaults
           /\ loc' \in Locals /\ loc'.mine = loc.mine /\ pc' \in {l, o}
<1>1. Good(aws, faults) /\ faults \in Nat /\ faults <= MaxFaults /\ faults \in 0 .. MaxFaults
      /\ loc \in Locals
  BY TypeFacts
<1>2. CASE aws' = a /\ Proceed(l)
  BY <1>1, <1>2 DEF NoFault
<1>3. CASE Fault("aws") /\ aws' \in P \cup {aws, a} /\ Fail(o)
  <2>1. /\ faults' = faults + 1 /\ faults' \in 0 .. MaxFaults /\ faults' <= MaxFaults
        /\ faults' >= faults
    BY <1>1, <1>3, FaultType
  <2>2. Good(aws, faults') /\ Good(a, faults')
    BY <1>1, <2>1, GoodMore
  <2>3. \A b \in P : Good(b, faults')
    BY <1>1, <2>1, GoodMore
  <2> QED BY <1>1, <1>3, <2>1, <2>2, <2>3, LocErr
<1> QED BY <1>2, <1>3 DEF Call

\* A collected object differs in nothing else.
LEMMA CollectedType ==
    ASSUME NEW o \in AWSClusters
    PROVE  /\ Collected(o) \in AWSClusters /\ Collected(o).deleting = o.deleting
           /\ Collected(o).exists = (o.exists /\ ~(o.deleting /\ ~o.finalizer))
           /\ Collected(o).finalizer = o.finalizer /\ Collected(o).vpc = o.vpc
           /\ Collected(o).endpoint = o.endpoint /\ Collected(o).subnets = o.subnets
           /\ Collected(o).ready = o.ready
BY DEF Collected, AWSClusters

\* What the patch helper leaves in the API server.
LEMMA PatchType ==
    ASSUME TypeInv, NEW m \in AWSClusters, NEW doSpec \in BOOLEAN, NEW doStatus \in BOOLEAN
    PROVE  LET o == Patched(m, doSpec, doStatus)
           IN  /\ o \in AWSClusters /\ o.deleting = obj.deleting
               /\ o.exists = (obj.exists /\ ~(obj.deleting /\ ~o.finalizer))
               /\ o.finalizer = IF doSpec /\ m.finalizer # base.finalizer
                                THEN m.finalizer ELSE obj.finalizer
               /\ o.vpc = IF doSpec /\ m.vpc # base.vpc THEN m.vpc ELSE obj.vpc
               /\ o.endpoint = IF doSpec /\ m.endpoint # base.endpoint
                               THEN m.endpoint ELSE obj.endpoint
               /\ o.subnets = IF doSpec /\ m.subnets # base.subnets
                              THEN m.subnets ELSE obj.subnets
               /\ o.ready = IF doStatus /\ m.ready # base.ready THEN m.ready ELSE obj.ready
<1>1. obj \in AWSClusters /\ base \in AWSClusters
  BY TypeFacts
<1> DEFINE w(new, old, cur, done) == IF done /\ new # old THEN new ELSE cur
           p == [exists |-> obj.exists, deleting |-> obj.deleting,
                 finalizer |-> w(m.finalizer, base.finalizer, obj.finalizer, doSpec),
                 vpc |-> w(m.vpc, base.vpc, obj.vpc, doSpec),
                 listed |-> w(m.listed, base.listed, obj.listed, doSpec),
                 subnets |-> w(m.subnets, base.subnets, obj.subnets, doSpec),
                 cagw |-> w(m.cagw, base.cagw, obj.cagw, doSpec),
                 ipv6 |-> w(m.ipv6, base.ipv6, obj.ipv6, doSpec),
                 endpoint |-> w(m.endpoint, base.endpoint, obj.endpoint, doSpec),
                 ready |-> w(m.ready, base.ready, obj.ready, doStatus),
                 vpcCond |-> w(m.vpcCond, base.vpcCond, obj.vpcCond, doStatus),
                 natCond |-> w(m.natCond, base.natCond, obj.natCond, doStatus),
                 bastionCond |-> w(m.bastionCond, base.bastionCond, obj.bastionCond, doStatus)]
<1>2. Patched(m, doSpec, doStatus) = Collected(p)
  BY DEF Patched
<1>3. p \in AWSClusters
  BY <1>1 DEF AWSClusters
<1>4. /\ p.exists = obj.exists /\ p.deleting = obj.deleting
      /\ p.finalizer = w(m.finalizer, base.finalizer, obj.finalizer, doSpec)
      /\ p.vpc = w(m.vpc, base.vpc, obj.vpc, doSpec)
      /\ p.endpoint = w(m.endpoint, base.endpoint, obj.endpoint, doSpec)
      /\ p.subnets = w(m.subnets, base.subnets, obj.subnets, doSpec)
      /\ p.ready = w(m.ready, base.ready, obj.ready, doStatus)
  OBVIOUS
<1> HIDE DEF p
<1> QED BY <1>2, <1>3, <1>4, CollectedType

\* A patch that succeeds or fails.
LEMMA StoredType ==
    ASSUME TypeInv, NEW m \in AWSClusters, PatchSucceeds(m) \/ PatchFails(m)
    PROVE  obj' \in AWSClusters /\ faults' \in 0 .. MaxFaults /\ faults' >= faults
<1>1. \A b, c \in BOOLEAN : Patched(m, b, c) \in AWSClusters
  BY PatchType
<1>2. faults' \in 0 .. MaxFaults /\ faults' >= faults
  BY TypeFacts, FaultType DEF PatchSucceeds, PatchFails
<1> QED BY <1>1, <1>2, TypeFacts DEF PatchSucceeds, PatchFails

\* A step that leaves the account in one of the states a.
LEMMA GoodLater ==
    ASSUME TypeInv, NEW k, Fault(k) \/ NoFault, Good(aws', faults)
    PROVE  Good(aws', faults') /\ faults' \in 0 .. MaxFaults
<1>1. /\ faults \in 0 .. MaxFaults /\ faults \in Nat /\ faults <= MaxFaults
      /\ faults' \in 0 .. MaxFaults /\ faults' >= faults
  BY TypeFacts, FaultType
<1> QED BY <1>1, GoodMore

\* PatchObject, which does not touch the account.
LEMMA PatchObjectType ==
    ASSUME TypeInv, NEW m \in AWSClusters, NEW l, NEW o, PatchObject(m, l, o)
    PROVE  /\ obj' \in AWSClusters /\ Good(aws', faults') /\ faults' \in 0 .. MaxFaults
           /\ loc' \in Locals /\ loc'.mine = loc.mine /\ pc' \in {l, o}
           /\ UNCHANGED <<spec, aws, cache, base, tasks>>
<1>1. PatchSucceeds(m) \/ PatchFails(m)
  BY DEF PatchObject
<1>2. obj' \in AWSClusters /\ faults' \in 0 .. MaxFaults /\ faults' >= faults
  BY <1>1, StoredType
<1>3. loc' \in Locals /\ loc'.mine = loc.mine /\ pc' \in {l, o}
  BY TypeFacts, LocErr DEF PatchObject
<1>4. Good(aws', faults')
  BY <1>2, TypeFacts, GoodMore DEF PatchObject
<1> QED BY <1>2, <1>3, <1>4 DEF PatchObject

\* The order of the steps matters at few labels.
LEMMA OrderPlain ==
    ASSUME OrderKept, pc' \notin NetworkLabels \cup {"createSubnets", "rules"},
           loc'.mine = {} \/ (loc'.mine = loc.mine /\ pc # "natWait")
    PROVE  OrderKept'
BY DEF OrderKept

\* The steps of reconcileNormal up to the subnets keep the types.
LEMMA TypeStepVPC ==
    ASSUME TypeInv,
           \/ addFinalizer \/ describeVPCByID \/ createVPC \/ describeNewIPv6VPC
           \/ patchVPC \/ defaultSubnets \/ describeVpcSubnets \/ createSubnet
    PROVE  TypeInv'
<1>a. /\ spec \in Specs /\ obj \in AWSClusters /\ cache \in AWSClusters
      /\ mem \in AWSClusters /\ base \in AWSClusters /\ loc \in Locals
      /\ tasks \subseteq Zones \X Eips /\ faults \in Nat /\ faults <= MaxFaults
      /\ Good(aws, faults) /\ OrderKept
  BY TypeFacts
<1>b. \A v \in Vpcs \cup {ByoVpc, None} :
        /\ WithVPC(v) \in AWSClusters
        /\ [WithVPC(v) EXCEPT !.vpcCond = TRUE] \in AWSClusters
        /\ [mem EXCEPT !.vpcCond = TRUE] \in AWSClusters
        /\ [mem EXCEPT !.vpc = v] \in AWSClusters
  <2>1. \A v \in Vpcs \cup {ByoVpc, None} :
          WithVPC(v) \in AWSClusters /\ [mem EXCEPT !.vpc = v] \in AWSClusters
    BY TypeFacts, ClusterVPC DEF WithVPC
  <2> QED BY <1>a, <2>1, ClusterFlags
<1>c. [loc EXCEPT !.err = TRUE] \in Locals /\ [loc EXCEPT !.err = TRUE].mine = loc.mine
  BY <1>a, LocErr
<1>d. pc # "natWait" => loc.mine = {}
  BY <1>a DEF OrderKept
<1>1. CASE addFinalizer
  <2>1. mem' \in AWSClusters /\ pc = "finalizer"
    BY <1>1, <1>a, ClusterFlags DEF addFinalizer
  <2>2. CASE mem.finalizer /\ Step /\ UNCHANGED aws /\ Proceed("vpc")
    BY <1>a, <1>d, <2>1, <2>2, OrderPlain DEF TypeInv, Labels, NetworkLabels, NoFault
  <2>3. CASE PatchObject(mem', "vpc", "close")
    <3>1. /\ obj' \in AWSClusters /\ Good(aws', faults') /\ faults' \in 0 .. MaxFaults
          /\ loc' \in Locals /\ loc'.mine = loc.mine /\ pc' \in {"vpc", "close"}
          /\ UNCHANGED <<spec, aws, cache, base, tasks>>
      BY <2>1, <2>3, PatchObjectType
    <3> QED BY <1>a, <1>d, <2>1, <3>1, OrderPlain DEF TypeInv, Labels, NetworkLabels
  <2> QED BY <1>1, <2>2, <2>3 DEF addFinalizer
<1>2. CASE describeVPCByID
  <2>0. pc = "vpc" /\ mem.vpc \in Vpcs \cup {ByoVpc, None}
    BY <1>2, TypeFacts DEF describeVPCByID
  <2>1. CASE mem' = WithVPC(mem.vpc) /\ PatchObject(mem', "subnets", "close")
    <3>1. mem' \in AWSClusters
      BY <1>b, <2>0, <2>1
    <3>2. /\ obj' \in AWSClusters /\ Good(aws', faults') /\ faults' \in 0 .. MaxFaults
          /\ loc' \in Locals /\ loc'.mine = loc.mine /\ pc' \in {"subnets", "close"}
          /\ UNCHANGED <<spec, aws, cache, base, tasks>>
      BY <2>1, <3>1, PatchObjectType
    <3> QED BY <1>a, <1>d, <2>0, <3>1, <3>2, OrderPlain DEF TypeInv, Labels, NetworkLabels
  <2>2. CASE ~(mem' = WithVPC(mem.vpc) /\ PatchObject(mem', "subnets", "close"))
    <3>1. mem' \in AWSClusters
      BY <1>2, <1>b, <2>0, <2>2 DEF describeVPCByID, VPCFailed
    <3>2. Step /\ UNCHANGED aws /\ (Fault("aws") \/ NoFault) /\ pc' \in {"subnets", "close"}
          /\ loc' \in {loc, [loc EXCEPT !.err = TRUE]}
      BY <1>2, <2>2 DEF describeVPCByID, VPCFailed
    <3>3. Good(aws', faults') /\ faults' \in 0 .. MaxFaults
      BY <1>a, <3>2, GoodLater
    <3> QED BY <1>a, <1>c, <1>d, <2>0, <3>1, <3>2, <3>3, OrderPlain
        DEF TypeInv, Labels, NetworkLabels
  <2> QED BY <2>1, <2>2
<1>3. CASE createVPC
  <2>0. pc = "vpc" /\ Step /\ (Fault("aws") \/ NoFault)
        /\ pc' \in {"vpcPatch", "vpcIPv6", "close"}
    BY <1>3 DEF createVPC, VPCFailed
  <2>1. loc' \in Locals /\ loc'.mine = loc.mine
    <3>1. \/ loc' = [loc EXCEPT !.err = TRUE]
          \/ \E v \in Vpcs : loc' = [loc EXCEPT !.vpc = v]
      BY <1>3, TypeFacts DEF createVPC, VPCFailed, describeVPCByName
    <3> QED BY <1>a, <3>1, LocErr, LocVPC
  <2>2. mem' \in AWSClusters
    <3>1. \/ mem' = mem \/ mem' = [mem EXCEPT !.vpcCond = TRUE]
          \/ \E v \in Vpcs : mem' = WithVPC(v) \/ mem' = [mem EXCEPT !.vpc = v]
      BY <1>3, TypeFacts DEF createVPC, VPCFailed, describeVPCByName
    <3> QED BY <1>a, <1>b, <3>1
  <2>3. Good(aws', faults)
    <3>1. \/ aws' = aws
          \/ \E v \in Vpcs : aws' = [aws EXCEPT !.vpcs = @ \cup {v},
                                 !.ipv6 = IF mem.ipv6 THEN "associating" ELSE @]
      BY <1>3 DEF createVPC, VPCFailed
    <3>2. ASSUME NEW v \in Vpcs,
                 aws' = [aws EXCEPT !.vpcs = @ \cup {v},
                                    !.ipv6 = IF mem.ipv6 THEN "associating" ELSE @]
          PROVE  Good(aws', faults)
      <4>1. aws.vpcs \cup {v} \in SUBSET Vpcs
            /\ (IF mem.ipv6 THEN "associating" ELSE aws.ipv6) \in {"none", "associating", "associated"}
        BY <3>2, TypeFacts
      <4> QED BY <1>a, <3>2, <4>1, GoodVpcs
    <3> QED BY <1>a, <3>1, <3>2
  <2>4. Good(aws', faults') /\ faults' \in 0 .. MaxFaults
    BY <2>0, <2>3, GoodLater
  <2> QED BY <1>a, <1>d, <2>0, <2>1, <2>2, <2>4, OrderPlain DEF TypeInv, Labels, NetworkLabels
<1>4. CASE describeNewIPv6VPC
  <2>0. pc = "vpcIPv6" /\ Step /\ (Fault("aws") \/ NoFault) /\ UNCHANGED aws
        /\ pc' \in {"vpcPatch", "close"} /\ loc' \in {loc, [loc EXCEPT !.err = TRUE]}
    BY <1>4 DEF describeNewIPv6VPC, VPCFailed
  <2>1. mem' \in AWSClusters
    <3>1. mem' = [mem EXCEPT !.vpc = loc.vpc] \/ mem' = [mem EXCEPT !.vpcCond = TRUE]
      BY <1>4 DEF describeNewIPv6VPC, VPCFailed
    <3>2. loc.vpc \in Vpcs \cup {ByoVpc, None}
      BY TypeFacts
    <3> QED BY <1>b, <3>1, <3>2
  <2>2. Good(aws', faults') /\ faults' \in 0 .. MaxFaults
    BY <1>a, <2>0, GoodLater
  <2> QED BY <1>a, <1>c, <1>d, <2>0, <2>1, <2>2, OrderPlain DEF TypeInv, Labels, NetworkLabels
<1>5. CASE patchVPC
  <2>1. mem' \in AWSClusters /\ pc = "vpcPatch"
    BY <1>5, <1>a, ClusterFlags DEF patchVPC
  <2>2. CASE Step /\ UNCHANGED aws /\ Proceed("subnets")
    BY <1>a, <1>d, <2>1, <2>2, TypeFacts, OrderPlain DEF TypeInv, Labels, NetworkLabels, NoFault
  <2>3. CASE PatchObject(mem', "subnets", "close")
    <3>1. /\ obj' \in AWSClusters /\ Good(aws', faults') /\ faults' \in 0 .. MaxFaults
          /\ loc' \in Locals /\ loc'.mine = loc.mine /\ pc' \in {"subnets", "close"}
          /\ UNCHANGED <<spec, aws, cache, base, tasks>>
      BY <2>1, <2>3, PatchObjectType
    <3> QED BY <1>a, <1>d, <2>1, <3>1, OrderPlain DEF TypeInv, Labels, NetworkLabels
  <2> QED BY <1>5, <2>2, <2>3 DEF patchVPC
<1>6. CASE defaultSubnets
  <2>0. pc = "subnets"
    BY <1>6 DEF defaultSubnets
  <2>1. CASE Step /\ UNCHANGED <<aws, mem>> /\ (Fault("aws") \/ NoFault)
             /\ pc' \in {"describeSubnets", "close"}
             /\ loc' \in {loc, [loc EXCEPT !.err = TRUE]}
    <3>1. Good(aws', faults') /\ faults' \in 0 .. MaxFaults
      BY <1>a, <2>1, GoodLater
    <3> QED BY <1>a, <1>c, <1>d, <2>0, <2>1, <3>1, OrderPlain DEF TypeInv, Labels, NetworkLabels
  <2>2. CASE mem' = [mem EXCEPT !.listed = TRUE] /\ PatchObject(mem, "describeSubnets", "close")
    <3>1. /\ obj' \in AWSClusters /\ Good(aws', faults') /\ faults' \in 0 .. MaxFaults
          /\ loc' \in Locals /\ loc'.mine = loc.mine /\ pc' \in {"describeSubnets", "close"}
          /\ UNCHANGED <<spec, aws, cache, base, tasks>>
      BY <1>a, <2>2, PatchObjectType
    <3>2. mem' \in AWSClusters
      BY <1>a, <2>2, ClusterFlags
    <3> QED BY <1>a, <1>d, <2>0, <3>1, <3>2, OrderPlain DEF TypeInv, Labels, NetworkLabels
  <2> QED BY <1>6, <2>1, <2>2 DEF defaultSubnets
<1>7. CASE describeVpcSubnets
  <2>0. pc = "describeSubnets" /\ Step /\ UNCHANGED aws /\ (Fault("aws") \/ NoFault)
    BY <1>7 DEF describeVpcSubnets
  <2>1. Good(aws', faults') /\ faults' \in 0 .. MaxFaults
    BY <1>a, <2>0, GoodLater
  <2>2. CASE /\ mem' = [mem EXCEPT !.subnets = aws.subnets]
             /\ loc' = [loc EXCEPT !.nats = NatZones]
             /\ pc' = (IF IsUnmanaged(mem) THEN "sgs" ELSE "createSubnets")
    <3>1. mem' \in AWSClusters /\ mem'.subnets = aws.subnets
      <4>1. aws.subnets \in SUBSET Subnets
        BY TypeFacts
      <4>2. mem' \in AWSClusters
        BY <1>a, <2>2, <4>1, ClusterSubnets
      <4>3. mem'.subnets = aws.subnets
        BY <1>a, <2>2 DEF AWSClusters
      <4> QED BY <4>2, <4>3
    <3>2. loc' \in Locals /\ loc'.mine = {}
      <4>1. NatZones \in SUBSET Zones
        BY DEF NatZones
      <4> QED BY <1>a, <1>d, <2>0, <2>2, <4>1, LocZones
    <3>3. OrderKept' /\ pc' \in Labels
      BY <2>0, <2>2, <3>1, <3>2 DEF OrderKept, Labels, NetworkLabels
    <3> QED BY <1>a, <2>0, <2>1, <3>1, <3>2, <3>3 DEF TypeInv
  <2>3. CASE Fail("close") /\ UNCHANGED mem
    BY <1>a, <1>c, <1>d, <2>0, <2>1, <2>3, OrderPlain DEF TypeInv, Labels, NetworkLabels
  <2> QED BY <1>7, <2>2, <2>3 DEF describeVpcSubnets
<1>8. CASE createSubnet
  <2>0. pc = "createSubnets" /\ Step /\ (Fault("aws") \/ NoFault) /\ mem.subnets \subseteq aws.subnets
    BY <1>8, <1>a DEF createSubnet, OrderKept
  <2>1. CASE mem.subnets = Subnets /\ UNCHANGED <<aws, mem>> /\ Proceed("igw")
    <3>1. aws.subnets = Subnets
      BY <2>0, <2>1, TypeFacts
    <3>2. OrderKept' /\ pc' \in Labels
      BY <1>d, <2>0, <2>1, <3>1 DEF OrderKept, Labels, NetworkLabels
    <3> QED BY <1>a, <2>0, <2>1, <3>2, TypeFacts DEF TypeInv, NoFault
  <2>2. ASSUME NEW s \in Subnets \ mem.subnets,
               \/ /\ aws' = [aws EXCEPT !.subnets = @ \cup {s}] /\ Proceed("createSubnets")
                  /\ mem' = [mem EXCEPT !.subnets = @ \cup {s}]
               \/ /\ Fault("aws") /\ aws' \in {aws, [aws EXCEPT !.subnets = @ \cup {s}]}
                  /\ Fail("close") /\ UNCHANGED mem
        PROVE  TypeInv'
    <3>1. /\ aws.subnets \cup {s} \in SUBSET Subnets /\ aws.routed \subseteq aws.subnets \cup {s}
          /\ mem.subnets \cup {s} \in SUBSET Subnets
      BY <2>2, TypeFacts
    <3>2. Good(aws', faults)
      <4>1. Good([aws EXCEPT !.subnets = @ \cup {s}], faults)
        BY <1>a, <3>1, GoodSubnets
      <4> QED BY <1>a, <2>2, <4>1
    <3>3. Good(aws', faults') /\ faults' \in 0 .. MaxFaults
      BY <2>0, <3>2, GoodLater
    <3>4. mem' \in AWSClusters
      BY <1>a, <2>2, <3>1, ClusterSubnets
    <3>5. loc' \in Locals /\ loc'.mine = {} /\ pc' \in Labels
      BY <1>a, <1>c, <1>d, <2>0, <2>2 DEF Labels
    <3>6. pc' = "createSubnets" => mem'.subnets \subseteq aws'.subnets
      <4>1. ASSUME pc' = "createSubnets" PROVE mem'.subnets \subseteq aws'.subnets
        <5>1. /\ mem' = [mem EXCEPT !.subnets = @ \cup {s}]
              /\ aws' = [aws EXCEPT !.subnets = @ \cup {s}]
          BY <2>2, <4>1
        <5>2. mem'.subnets = mem.subnets \cup {s}
          BY <1>a, <5>1 DEF AWSClusters
        <5>3. aws'.subnets = aws.subnets \cup {s}
          BY <1>a, <5>1 DEF Good, Accounts
        <5> QED BY <2>0, <5>2, <5>3
      <4> QED BY <4>1
    <3>7. OrderKept'
      BY <2>2, <3>5, <3>6 DEF OrderKept, NetworkLabels
    <3> QED BY <1>a, <2>0, <3>3, <3>4, <3>5, <3>7 DEF TypeInv
  <2> QED BY <1>8, <2>1, <2>2 DEF createSubnet
<1> QED BY <1>1, <1>2, <1>3, <1>4, <1>5, <1>6, <1>7, <1>8

\* The steps of reconcileNormal from the gateways to the VPC endpoints keep the types.
LEMMA TypeStepNetwork ==
    ASSUME TypeInv,
           \/ reconcileInternetGateways \/ reconcileCarrierGateway
           \/ reconcileEgressOnlyInternetGateways \/ reconcileNatGateways
           \/ describeAddresses \/ allocateAddress \/ createNatGateways
           \/ reconcileRouteTables \/ reconcileVPCEndpoints
    PROVE  TypeInv'
<1>a. /\ spec \in Specs /\ obj \in AWSClusters /\ cache \in AWSClusters
      /\ mem \in AWSClusters /\ base \in AWSClusters /\ loc \in Locals
      /\ tasks \subseteq Zones \X Eips /\ faults \in Nat /\ faults <= MaxFaults
      /\ Good(aws, faults) /\ OrderKept /\ faults \in 0 .. MaxFaults
  BY TypeFacts
<1>c. [loc EXCEPT !.err = TRUE] \in Locals /\ [loc EXCEPT !.err = TRUE].mine = loc.mine
  BY <1>a, LocErr
<1>d. pc # "natWait" => loc.mine = {}
  BY <1>a DEF OrderKept
<1>e. pc \in NetworkLabels => aws.subnets = Subnets
  BY <1>a DEF OrderKept
<1>f. ASSUME NEW l, l \notin {"createSubnets", "rules"}, pc # "natWait",
             pc' \in {l, "close"}, l \in NetworkLabels => aws'.subnets = Subnets,
             loc'.mine = loc.mine
      PROVE  OrderKept'
  BY <1>d, <1>f DEF OrderKept, NetworkLabels
<1>1. CASE reconcileInternetGateways
  <2>0. pc = "igw" /\ Step /\ UNCHANGED mem
    BY <1>1 DEF reconcileInternetGateways
  <2>1. CASE UNCHANGED aws /\ Proceed("carrier")
    BY <1>a, <1>d, <1>e, <1>f, <2>0, <2>1 DEF TypeInv, Labels, NetworkLabels, NoFault
  <2>2. ASSUME NEW g \in Igws,
               Call(WithIgw(g, "attached"), "carrier", {WithIgw(g, "detached")}, "close")
        PROVE  TypeInv'
    <3>1. ASSUME NEW x \in {"detached", "attached"}
          PROVE  Good(WithIgw(g, x), faults) /\ WithIgw(g, x).subnets = aws.subnets
      <4>1. [aws.igws EXCEPT ![g] = x] \in [Igws -> {"none", "detached", "attached"}]
        BY TypeFacts
      <4>2. WithIgw(g, x) = [aws EXCEPT !.igws = [aws.igws EXCEPT ![g] = x]]
        BY <1>a DEF WithIgw, Good, Accounts
      <4>3. WithIgw(g, x).subnets = aws.subnets
        BY <1>a, <4>2 DEF Good, Accounts
      <4>4. Good([aws EXCEPT !.igws = [aws.igws EXCEPT ![g] = x]], faults)
        BY <1>a, <4>1, GoodGateways
      <4> QED BY <4>2, <4>3, <4>4
    <3>2. /\ Good(aws', faults') /\ faults' \in 0 .. MaxFaults
          /\ loc' \in Locals /\ loc'.mine = loc.mine /\ pc' \in {"carrier", "close"}
      BY <2>2, <3>1, CallType
    <3>3. aws' \in {WithIgw(g, "detached"), WithIgw(g, "attached"), aws}
      BY <2>2 DEF Call
    <3>4. aws'.subnets = Subnets
      BY <1>e, <2>0, <3>1, <3>3 DEF NetworkLabels
    <3> QED BY <1>a, <1>f, <2>0, <3>2, <3>4 DEF TypeInv, Labels
  <2> QED BY <1>1, <2>1, <2>2 DEF reconcileInternetGateways
<1>g. \A x \in {"carrier", "egress", "endpoint"} :
        LET a == [aws EXCEPT !.gateways = @ \cup {x}]
        IN  Good(a, faults) /\ a.subnets = aws.subnets
  <2> SUFFICES ASSUME NEW x \in {"carrier", "egress", "endpoint"}
               PROVE  /\ Good([aws EXCEPT !.gateways = @ \cup {x}], faults)
                      /\ [aws EXCEPT !.gateways = @ \cup {x}].subnets = aws.subnets
    OBVIOUS
  <2>1. aws.gateways \cup {x} \in SUBSET {"carrier", "egress", "endpoint"}
    BY TypeFacts
  <2>2. [aws EXCEPT !.gateways = @ \cup {x}].subnets = aws.subnets
    BY <1>a DEF Good, Accounts
  <2> QED BY <1>a, <2>1, <2>2, GoodGateways
<1>h. ASSUME NEW x \in {"carrier", "egress", "endpoint"}, NEW l \in Labels,
             pc \in NetworkLabels \cup {"endpoints"}, pc # "natWait", Step, mem' \in AWSClusters,
             l \notin {"createSubnets", "rules"}, l \in NetworkLabels => pc \in NetworkLabels,
             Call([aws EXCEPT !.gateways = @ \cup {x}], l, {}, "close")
      PROVE  TypeInv'
  <2> DEFINE a == [aws EXCEPT !.gateways = @ \cup {x}]
  <2>0. Good(a, faults) /\ a.subnets = aws.subnets /\ Call(a, l, {}, "close")
    BY <1>g, <1>h
  <2> HIDE DEF a
  <2>1. /\ Good(aws', faults') /\ faults' \in 0 .. MaxFaults
        /\ loc' \in Locals /\ loc'.mine = loc.mine /\ pc' \in {l, "close"}
    BY <2>0, CallType
  <2>2. aws'.subnets = aws.subnets
    BY <2>0 DEF Call
  <2>3. OrderKept'
    BY <1>e, <1>f, <1>h, <2>1, <2>2
  <2> QED BY <1>a, <1>h, <2>1, <2>3 DEF TypeInv, Labels
<1>2. CASE reconcileCarrierGateway
  <2>0. pc = "carrier" /\ Step
    BY <1>2 DEF reconcileCarrierGateway
  <2>1. CASE UNCHANGED <<aws, mem>> /\ Proceed("egress")
    BY <1>a, <1>d, <1>e, <1>f, <2>0, <2>1 DEF TypeInv, Labels, NetworkLabels, NoFault
  <2>2. CASE /\ Call([aws EXCEPT !.gateways = @ \cup {"carrier"}], "egress", {}, "close")
             /\ mem' = [mem EXCEPT !.cagw = @ \/ pc' = "egress"]
    <3>1. mem' \in AWSClusters
      BY <1>a, <2>2, ClusterFlags, TypeFacts
    <3> QED BY <1>h, <2>0, <2>2, <3>1 DEF Labels, NetworkLabels
  <2> QED BY <1>2, <2>1, <2>2 DEF reconcileCarrierGateway
<1>3. CASE reconcileEgressOnlyInternetGateways
  <2>0. pc = "egress" /\ Step /\ UNCHANGED mem
    BY <1>3 DEF reconcileEgressOnlyInternetGateways
  <2>1. CASE UNCHANGED aws /\ Proceed("nat")
    BY <1>a, <1>d, <1>e, <1>f, <2>0, <2>1 DEF TypeInv, Labels, NetworkLabels, NoFault
  <2>2. CASE Call([aws EXCEPT !.gateways = @ \cup {"egress"}], "nat", {}, "close")
    BY <1>a, <1>h, <2>0, <2>2 DEF Labels, NetworkLabels
  <2> QED BY <1>3, <2>1, <2>2 DEF reconcileEgressOnlyInternetGateways
<1>4. CASE reconcileNatGateways
  <2> DEFINE missing == {z \in Zones : ~HasNat(z)}
  <2>0. pc = "nat" /\ mem' = [mem EXCEPT !.natCond = TRUE] /\ mem' \in AWSClusters
    BY <1>4, <1>a, ClusterFlags DEF reconcileNatGateways
  <2>1. [loc EXCEPT !.missing = missing] \in Locals /\ [loc EXCEPT !.missing = missing].mine = loc.mine
    <3>1. missing \in SUBSET Zones
      OBVIOUS
    <3> QED BY <1>a, <3>1, LocZones
  <2> HIDE DEF missing
  <2>2. /\ UNCHANGED <<spec, aws, cache, base, tasks>>
        /\ \/ UNCHANGED obj /\ (Fault("aws") \/ NoFault)
           \/ PatchSucceeds(mem') \/ PatchFails(mem')
        /\ loc' \in {loc, [loc EXCEPT !.missing = missing], [loc EXCEPT !.err = TRUE]}
        /\ pc' \in {"routes", "addresses", "close"}
    BY <1>4 DEF reconcileNatGateways, missing
  <2>3. obj' \in AWSClusters /\ faults' \in 0 .. MaxFaults /\ faults' >= faults
    BY <1>a, <2>0, <2>2, StoredType, FaultType
  <2>4. Good(aws', faults')
    BY <1>a, <2>2, <2>3, GoodMore
  <2>5. loc' \in Locals /\ loc'.mine = loc.mine
    BY <1>a, <1>c, <2>1, <2>2
  <2>6. OrderKept' /\ pc' \in Labels
    BY <1>d, <1>e, <2>0, <2>2, <2>5 DEF OrderKept, NetworkLabels, Labels
  <2> QED BY <1>a, <2>0, <2>2, <2>3, <2>4, <2>5, <2>6 DEF TypeInv
<1>5. CASE describeAddresses
  <2>0. /\ pc = "addresses" /\ Step /\ UNCHANGED <<aws, mem>> /\ (Fault("aws") \/ NoFault)
        /\ pc' \in {"allocate", "close"}
    BY <1>5 DEF describeAddresses
  <2>1. loc' \in Locals /\ loc'.mine = loc.mine
    <3>1. {e \in Eips : aws.eips[e] = "idle"} \in SUBSET Eips
      OBVIOUS
    <3>2. \/ loc' = [loc EXCEPT !.err = TRUE]
          \/ loc' = [loc EXCEPT !.ips = {e \in Eips : aws.eips[e] = "idle"}]
      BY <1>5 DEF describeAddresses
    <3> QED BY <1>a, <1>c, <3>1, <3>2, LocIps
  <2>2. Good(aws', faults') /\ faults' \in 0 .. MaxFaults
    BY <1>a, <2>0, GoodLater
  <2> QED BY <1>a, <1>e, <1>f, <2>0, <2>1, <2>2 DEF TypeInv, Labels, NetworkLabels
<1>6. CASE allocateAddress
  <2>0. pc = "allocate" /\ Step /\ UNCHANGED mem
    BY <1>6 DEF allocateAddress
  <2>1. PICK e \in Eips :
          LET a == [aws EXCEPT !.eips[e] = "idle"]
          IN  \/ /\ aws' = a /\ Goto("allocate") /\ NoFault
                 /\ loc' = [loc EXCEPT !.ips = @ \cup {e}]
              \/ Fault("aws") /\ aws' \in {aws, a} /\ Fail("close")
    BY <1>6 DEF allocateAddress
  <2>2. Good([aws EXCEPT !.eips[e] = "idle"], faults)
    <3>1. [aws.eips EXCEPT ![e] = "idle"] \in [Eips -> {"free", "idle"} \cup Zones]
      BY TypeFacts
    <3>2. [aws EXCEPT !.eips[e] = "idle"] = [aws EXCEPT !.eips = [aws.eips EXCEPT ![e] = "idle"]]
      BY <1>a DEF Good, Accounts
    <3> QED BY <1>a, <3>1, <3>2, GoodEips
  <2>3. Good(aws', faults') /\ faults' \in 0 .. MaxFaults
    BY <1>a, <2>1, <2>2, GoodLater
  <2>4. loc' \in Locals /\ loc'.mine = loc.mine
    <3>1. loc.ips \cup {e} \in SUBSET Eips
      BY TypeFacts
    <3> QED BY <1>a, <1>c, <2>1, <3>1, LocIps
  <2>5. aws'.subnets = aws.subnets /\ pc' \in {"allocate", "close"}
    BY <1>a, <2>1 DEF Good, Accounts
  <2> QED BY <1>a, <1>e, <1>f, <2>0, <2>3, <2>4, <2>5 DEF TypeInv, Labels, NetworkLabels
<1>7. CASE createNatGateways
  <2>0. /\ pc = "allocate" /\ pc' = "natWait" /\ NoFault
        /\ UNCHANGED <<spec, aws, obj, cache, mem, base>>
    BY <1>7 DEF createNatGateways
  <2>1. PICK ip \in [loc.missing -> loc.ips] :
          /\ loc' = [loc EXCEPT !.mine = {<<z, ip[z]>> : z \in loc.missing}]
          /\ tasks' = tasks \cup loc'.mine
    BY <1>7 DEF createNatGateways
  <2>2. {<<z, ip[z]>> : z \in loc.missing} \in SUBSET (Zones \X Eips)
    BY TypeFacts
  <2>3. loc' \in Locals /\ loc'.mine = {<<z, ip[z]>> : z \in loc.missing}
    BY <1>a, <2>1, <2>2, LocMine
  <2>4. tasks' \subseteq Zones \X Eips
    BY <1>a, <2>1, <2>2, <2>3
  <2>5. OrderKept' /\ pc' \in Labels
    BY <1>e, <2>0 DEF OrderKept, NetworkLabels, Labels
  <2> QED BY <1>a, <2>0, <2>3, <2>4, <2>5 DEF TypeInv, NoFault
<1>8. CASE reconcileRouteTables
  <2>0. /\ pc = "routes" /\ Step /\ UNCHANGED mem
        /\ pc' \in {"endpoints", "routes", "close"} /\ (Fault("aws") \/ NoFault)
        /\ loc' \in {loc, [loc EXCEPT !.err = TRUE]}
    BY <1>8 DEF reconcileRouteTables
  <2>1. \/ aws' = aws
        \/ \E s \in Subnets : aws' = [aws EXCEPT !.routed = @ \cup {s}]
        \/ aws' = [aws EXCEPT !.looseTables = @ + 1] /\ Fault("aws")
    BY <1>8 DEF reconcileRouteTables
  <2>2. aws.subnets = Subnets
    BY <1>e, <2>0 DEF NetworkLabels
  <2>3. Good(aws', faults') /\ faults' \in 0 .. MaxFaults /\ aws'.subnets = Subnets
    <3>1. CASE aws' = aws
      BY <1>a, <2>0, <2>2, <3>1, GoodLater
    <3>2. ASSUME NEW s \in Subnets, aws' = [aws EXCEPT !.routed = @ \cup {s}]
          PROVE  Good(aws', faults') /\ faults' \in 0 .. MaxFaults /\ aws'.subnets = Subnets
      <4>1. aws.routed \cup {s} \in SUBSET Subnets /\ aws.routed \cup {s} \subseteq aws.subnets
        BY <2>2, TypeFacts
      <4>2. Good(aws', faults)
        BY <1>a, <3>2, <4>1, GoodSubnets
      <4>3. aws'.subnets = Subnets
        BY <1>a, <2>2, <3>2 DEF Good, Accounts
      <4> QED BY <2>0, <4>2, <4>3, GoodLater
    <3>3. CASE aws' = [aws EXCEPT !.looseTables = @ + 1] /\ Fault("aws")
      <4>1. faults' = faults + 1 /\ faults + 1 <= MaxFaults /\ faults' \in 0 .. MaxFaults
        BY <1>a, <3>3, FaultType
      <4>2. Good(aws', faults')
        BY <1>a, <3>3, <4>1, LooseUpdates
      <4>3. aws'.subnets = Subnets
        BY <1>a, <2>2, <3>3 DEF Good, Accounts
      <4> QED BY <4>1, <4>2, <4>3
    <3> QED BY <2>1, <3>1, <3>2, <3>3
  <2>4. OrderKept' /\ pc' \in Labels
    BY <1>c, <1>d, <2>0, <2>3 DEF OrderKept, NetworkLabels, Labels
  <2> QED BY <1>a, <1>c, <2>0, <2>3, <2>4 DEF TypeInv
<1>9. CASE reconcileVPCEndpoints
  <2>0. pc = "endpoints" /\ Step /\ UNCHANGED mem
    BY <1>9 DEF reconcileVPCEndpoints
  <2>1. CASE UNCHANGED aws /\ Proceed("sgs")
    BY <1>a, <1>d, <1>f, <2>0, <2>1 DEF TypeInv, Labels, NetworkLabels, NoFault
  <2>2. CASE Call([aws EXCEPT !.gateways = @ \cup {"endpoint"}], "sgs", {}, "close")
    BY <1>a, <1>h, <2>0, <2>2 DEF Labels, NetworkLabels
  <2> QED BY <1>9, <2>1, <2>2 DEF reconcileVPCEndpoints
<1> QED BY <1>1, <1>2, <1>3, <1>4, <1>5, <1>6, <1>7, <1>8, <1>9

\* The steps OrderKept says nothing about.
PlainLabels == Labels \ (NetworkLabels \cup {"createSubnets", "rules"})

\* A call between labels whose order does not matter.
LEMMA CallStep ==
    ASSUME TypeInv, NEW a, NEW l \in PlainLabels, NEW o \in PlainLabels, NEW P,
           Call(a, l, P, o), Good(a, faults),
           \A b \in P : \/ Good(b, faults)
                        \/ faults + 1 <= MaxFaults => Good(b, faults + 1),
           pc # "natWait", UNCHANGED <<spec, obj, cache, base, tasks>>, mem' \in AWSClusters
    PROVE  TypeInv'
<1>1. /\ Good(aws', faults') /\ faults' \in 0 .. MaxFaults
      /\ loc' \in Locals /\ loc'.mine = loc.mine /\ pc' \in {l, o}
  BY CallType
<1>2. pc' \in Labels /\ OrderKept'
  BY <1>1, TypeFacts, OrderPlain DEF PlainLabels
<1> QED BY <1>1, <1>2, TypeFacts DEF TypeInv

\* A step without a call, between such labels.
LEMMA QuietStep ==
    ASSUME TypeInv, NEW k, Fault(k) \/ NoFault, Good(aws', faults), pc # "natWait",
           pc' \in PlainLabels, UNCHANGED <<spec, cache, base, tasks>>,
           obj' \in AWSClusters, mem' \in AWSClusters, loc' \in Locals, loc'.mine = loc.mine
    PROVE  TypeInv'
<1>1. Good(aws', faults') /\ faults' \in 0 .. MaxFaults
  BY GoodLater
<1>2. pc' \in Labels /\ OrderKept'
  BY TypeFacts, OrderPlain DEF PlainLabels
<1> QED BY <1>1, <1>2, TypeFacts DEF TypeInv

\* The other steps of reconcileNormal keep the types.
LEMMA TypeStepServices ==
    ASSUME TypeInv,
           \/ createSecurityGroup \/ authorizeSecurityGroupIngressRules
           \/ ReconcileBastion \/ runBastion \/ getOrCreateLB \/ reconcileLB
           \/ ReconcileBucket
    PROVE  TypeInv'
<1>a. /\ spec \in Specs /\ obj \in AWSClusters /\ mem \in AWSClusters /\ loc \in Locals
      /\ faults \in Nat /\ Good(aws, faults) /\ OrderKept
      /\ faults <= MaxFaults /\ faults \in 0 .. MaxFaults
  BY TypeFacts
<1>c. [loc EXCEPT !.err = TRUE] \in Locals /\ [loc EXCEPT !.err = TRUE].mine = loc.mine
  BY <1>a, LocErr
<1>l. {"sgs", "bastion", "runBastion", "lb", "lbServe", "bucket", "close"} \subseteq PlainLabels
  BY DEF PlainLabels, Labels, NetworkLabels
<1>s. spec.bastion \in BOOLEAN
  BY <1>a, ConstantsAssumption DEF AllSpecs
<1>1. CASE createSecurityGroup
  <2>0. pc = "sgs" /\ Step /\ UNCHANGED mem
    BY <1>1 DEF createSecurityGroup
  <2>1. CASE aws.sgs = Roles /\ UNCHANGED aws /\ Proceed("rules")
    <3>1. OrderKept' /\ pc' \in Labels
      BY <1>a, <2>0, <2>1 DEF OrderKept, NetworkLabels, Labels
    <3> QED BY <1>a, <2>0, <2>1, <3>1, TypeFacts DEF TypeInv, NoFault
  <2>2. ASSUME NEW r \in Roles, Call([aws EXCEPT !.sgs = @ \cup {r}], "sgs", {}, "close")
        PROVE  TypeInv'
    <3> DEFINE a == [aws EXCEPT !.sgs = @ \cup {r}]
    <3>1. aws.sgs \cup {r} \in SUBSET Roles /\ aws.ruled \subseteq aws.sgs \cup {r}
      BY <2>2, TypeFacts
    <3>2. Good(a, faults)
      BY <1>a, <3>1, GoodGroups
    <3>3. Call(a, "sgs", {}, "close")
      BY <2>2
    <3> HIDE DEF a
    <3> QED BY <1>a, <1>l, <2>0, <3>2, <3>3, CallStep
  <2> QED BY <1>1, <2>1, <2>2 DEF createSecurityGroup
<1>2. CASE authorizeSecurityGroupIngressRules
  <2>0. pc = "rules" /\ Step /\ UNCHANGED mem /\ aws.sgs = Roles
    BY <1>2, <1>a DEF authorizeSecurityGroupIngressRules, OrderKept
  <2>1. CASE UNCHANGED aws /\ Proceed("bastion")
    BY <1>a, <1>l, <2>0, <2>1, QuietStep
  <2>2. ASSUME NEW r \in Roles, Call([aws EXCEPT !.ruled = @ \cup {r}], "rules", {}, "close")
        PROVE  TypeInv'
    <3> DEFINE a == [aws EXCEPT !.ruled = @ \cup {r}]
    <3>1. aws.ruled \cup {r} \in SUBSET Roles /\ aws.ruled \cup {r} \subseteq aws.sgs
      BY <2>0, <2>2, TypeFacts
    <3>2. Good(a, faults) /\ a.sgs = aws.sgs
      <4>1. a.sgs = aws.sgs
        BY <1>a DEF Good, Accounts
      <4> QED BY <1>a, <3>1, <4>1, GoodGroups
    <3>3. Call(a, "rules", {}, "close")
      BY <2>2
    <3> HIDE DEF a
    <3>4. /\ Good(aws', faults') /\ faults' \in 0 .. MaxFaults
          /\ loc' \in Locals /\ loc'.mine = loc.mine /\ pc' \in {"rules", "close"}
      BY <3>2, <3>3, CallType
    <3>5. aws'.sgs = Roles
      BY <2>0, <3>2, <3>3 DEF Call
    <3>6. OrderKept' /\ pc' \in Labels
      BY <1>a, <2>0, <3>4, <3>5 DEF OrderKept, NetworkLabels, Labels
    <3> QED BY <1>a, <2>0, <3>4, <3>6, TypeFacts DEF TypeInv
  <2> QED BY <1>2, <2>1, <2>2 DEF authorizeSecurityGroupIngressRules
<1>3. CASE ReconcileBastion
  <2>0. pc = "bastion"
    BY <1>3 DEF ReconcileBastion
  <2>1. mem' \in AWSClusters
    <3>1. mem.bastionCond \in BOOLEAN
      BY TypeFacts
    <3>2. \/ mem' = [mem EXCEPT !.bastionCond = @ \/ spec.bastion]
          \/ mem' = [mem EXCEPT !.bastionCond = TRUE]
      BY <1>3 DEF ReconcileBastion
    <3>3. (mem.bastionCond \/ spec.bastion) \in BOOLEAN
      BY <1>s, <3>1
    <3> QED BY <1>a, <3>2, <3>3, ClusterFlags
  <2>2. CASE Step /\ UNCHANGED aws /\ (Fault("aws") \/ NoFault)
             /\ loc' \in {loc, [loc EXCEPT !.err = TRUE]} /\ pc' \in {"lb", "runBastion", "close"}
    BY <1>a, <1>c, <1>l, <2>0, <2>1, <2>2, QuietStep
  <2>3. CASE PatchObject(mem', "runBastion", "close")
    <3>1. /\ obj' \in AWSClusters /\ Good(aws', faults') /\ faults' \in 0 .. MaxFaults
          /\ loc' \in Locals /\ loc'.mine = loc.mine /\ pc' \in {"runBastion", "close"}
          /\ UNCHANGED <<spec, aws, cache, base, tasks>>
      BY <2>1, <2>3, PatchObjectType
    <3>2. pc' \in PlainLabels
      BY <1>l, <3>1
    <3>3. OrderKept' /\ pc' \in Labels
      BY <1>a, <2>0, <3>1, <3>2, OrderPlain DEF PlainLabels
    <3> QED BY <2>1, <3>1, <3>3, TypeFacts DEF TypeInv
  <2> QED BY <1>3, <2>2, <2>3 DEF ReconcileBastion
<1>4. CASE runBastion
  <2> DEFINE a == [aws EXCEPT !.bastion = "up"]
  <2>0. pc = "runBastion" /\ Step /\ UNCHANGED mem /\ Call(a, "lb", {}, "close")
    BY <1>4 DEF runBastion
  <2>1. Good(a, faults)
    BY <1>a, GoodRest
  <2> HIDE DEF a
  <2> QED BY <1>a, <1>l, <2>0, <2>1, CallStep
<1>5. CASE getOrCreateLB
  <2>0. /\ pc = "lb" /\ Step /\ UNCHANGED mem /\ (Fault("aws") \/ NoFault)
        /\ pc' \in {"lbServe", "close"}
    BY <1>5 DEF getOrCreateLB
  <2>1. Good(aws', faults)
    <3>1. \/ aws' = aws
          \/ \E l \in Lbs : aws' = [aws EXCEPT !.lb = "up", !.lbName = l, !.served = FALSE]
      BY <1>5 DEF getOrCreateLB
    <3>2. \A l \in Lbs : Good([aws EXCEPT !.lb = "up", !.lbName = l, !.served = FALSE], faults)
      BY <1>a, GoodLB
    <3> QED BY <1>a, <3>1, <3>2
  <2>2. loc' \in Locals /\ loc'.mine = loc.mine
    <3>1. \/ loc' = [loc EXCEPT !.err = TRUE]
          \/ \E l \in Lbs \cup {None} : loc' = [loc EXCEPT !.lb = l]
      BY <1>5, TypeFacts DEF getOrCreateLB
    <3> QED BY <1>a, <1>c, <3>1, LocLB
  <2> QED BY <1>a, <1>l, <2>0, <2>1, <2>2, QuietStep
<1>6. CASE reconcileLB
  <2>0. /\ pc = "lbServe" /\ Step /\ (Fault("aws") \/ NoFault)
        /\ pc' \in {"bucket", "close"} /\ loc' \in {loc, [loc EXCEPT !.err = TRUE]}
    BY <1>6 DEF reconcileLB
  <2>1. mem' \in AWSClusters
    <3>1. loc.lb \in Lbs \cup {None} /\ (mem' = mem \/ mem' = [mem EXCEPT !.endpoint = loc.lb])
      BY <1>6, TypeFacts DEF reconcileLB
    <3> QED BY <1>a, <3>1, ClusterEndpoint
  <2>2. \/ aws' = aws \/ aws' = [aws EXCEPT !.served = TRUE]
        \/ aws' = [aws EXCEPT !.looseTGs = @ + 1] /\ Fault("aws")
    BY <1>6 DEF reconcileLB
  <2>3. CASE aws' = aws \/ aws' = [aws EXCEPT !.served = TRUE]
    <3>1. Good(aws', faults)
      BY <1>a, <2>3, GoodRest
    <3> QED BY <1>a, <1>c, <1>l, <2>0, <2>1, <3>1, QuietStep
  <2>4. CASE aws' = [aws EXCEPT !.looseTGs = @ + 1] /\ Fault("aws")
    <3>1. faults' = faults + 1 /\ faults + 1 <= MaxFaults /\ faults' \in 0 .. MaxFaults
      BY <1>a, <2>4, FaultType
    <3>2. Good(aws', faults')
      BY <1>a, <2>4, <3>1, LooseUpdates
    <3>3. pc' \in PlainLabels /\ loc' \in Locals /\ loc'.mine = loc.mine
      BY <1>a, <1>c, <1>l, <2>0
    <3>4. OrderKept' /\ pc' \in Labels
      BY <1>a, <2>0, <3>3, OrderPlain DEF PlainLabels
    <3> QED BY <2>0, <2>1, <3>1, <3>2, <3>3, <3>4, TypeFacts DEF TypeInv
  <2> QED BY <2>2, <2>3, <2>4
<1>7. CASE ReconcileBucket
  <2>0. /\ pc = "bucket" /\ Step /\ (Fault("aws") \/ NoFault) /\ pc' = "close"
        /\ loc' \in {loc, [loc EXCEPT !.err = TRUE]}
        /\ mem' = [mem EXCEPT !.ready = @ \/ ~loc'.err]
        /\ aws' = aws \/ aws' = [aws EXCEPT !.bucket = TRUE]
    BY <1>7 DEF ReconcileBucket, Call
  <2>1. Good(aws', faults)
    BY <1>a, <2>0, GoodRest
  <2>2. mem' \in AWSClusters
    <3>1. (mem.ready \/ ~loc'.err) \in BOOLEAN
      OBVIOUS
    <3> QED BY <1>a, <2>0, <3>1, ClusterFlags
  <2> QED BY <1>a, <1>c, <1>l, <2>0, <2>1, <2>2, QuietStep
<1> QED BY <1>1, <1>2, <1>3, <1>4, <1>5, <1>6, <1>7

\* The goroutines keep the types.
LEMMA TypeStepTask ==
    ASSUME TypeInv, NEW t \in tasks, createNatGateway(t)
    PROVE  TypeInv'
<1>a. /\ spec \in Specs /\ obj \in AWSClusters /\ mem \in AWSClusters /\ loc \in Locals
      /\ faults \in Nat /\ Good(aws, faults) /\ OrderKept /\ loc.mine \subseteq Zones \X Eips
      /\ loc.nats \subseteq Zones
  BY TypeFacts
<1>b. t \in Zones \X Eips /\ t[1] \in Zones /\ t[2] \in Eips
  BY TypeFacts
<1> DEFINE a == [aws EXCEPT !.eips[t[2]] = t[1]]
<1>1. /\ aws' \in {aws, a} /\ (Fault("aws") \/ NoFault) /\ tasks' = tasks \ {t}
      /\ UNCHANGED <<spec, obj, cache, mem, base>>
      /\ \/ UNCHANGED <<pc, loc>>
         \/ t \in loc.mine /\ \E ok \in BOOLEAN : NatAnswer(t, ok)
  BY DEF createNatGateway
<1>2. Good(a, faults) /\ a.subnets = aws.subnets /\ a.sgs = aws.sgs
  <2>1. [aws.eips EXCEPT ![t[2]] = t[1]] \in [Eips -> {"free", "idle"} \cup Zones]
    BY <1>b, TypeFacts
  <2>2. a = [aws EXCEPT !.eips = [aws.eips EXCEPT ![t[2]] = t[1]]]
    BY <1>a DEF Good, Accounts
  <2>3. a.subnets = aws.subnets /\ a.sgs = aws.sgs
    BY <1>a DEF Good, Accounts
  <2>4. Good([aws EXCEPT !.eips = [aws.eips EXCEPT ![t[2]] = t[1]]], faults)
    BY <1>a, <2>1, GoodEips
  <2> QED BY <2>2, <2>3, <2>4
<1> HIDE DEF a
<1>3. Good(aws', faults') /\ faults' \in 0 .. MaxFaults
  BY <1>a, <1>1, <1>2, GoodLater
<1>4. aws'.subnets = aws.subnets /\ aws'.sgs = aws.sgs
  BY <1>1, <1>2
<1>5. loc' \in Locals /\ pc' \in Labels /\ OrderKept'
  <2>1. CASE UNCHANGED <<pc, loc>>
    BY <1>a, <1>1, <1>4, <2>1 DEF OrderKept, TypeInv
  <2>2. ASSUME t \in loc.mine, NEW ok \in BOOLEAN, NatAnswer(t, ok)
        PROVE  loc' \in Locals /\ pc' \in Labels /\ OrderKept'
    <3>0. pc = "natWait" /\ aws.subnets = Subnets
      BY <1>a, <2>2 DEF OrderKept, NetworkLabels
    <3>1. loc.mine \ {t} \in SUBSET (Zones \X Eips) /\ loc.nats \cup {t[1]} \in SUBSET Zones
      BY <1>a, <1>b
    <3>2. \/ /\ loc' = [loc EXCEPT !.mine = @ \ {t}, !.nats = @ \cup {t[1]}]
             /\ pc' = IF loc'.mine = {} THEN "routes" ELSE pc
          \/ loc' = [loc EXCEPT !.mine = {}, !.err = TRUE] /\ pc' = "close"
      BY <2>2 DEF NatAnswer
    <3>3. CASE /\ loc' = [loc EXCEPT !.mine = @ \ {t}, !.nats = @ \cup {t[1]}]
               /\ pc' = IF loc'.mine = {} THEN "routes" ELSE pc
      <4>1. loc' \in Locals
        BY <1>a, <3>1, <3>3, LocMine
      <4> QED BY <1>4, <3>0, <3>3, <4>1 DEF OrderKept, NetworkLabels, Labels
    <3>4. CASE loc' = [loc EXCEPT !.mine = {}, !.err = TRUE] /\ pc' = "close"
      <4>1. loc' \in Locals /\ loc'.mine = {}
        BY <1>a, <3>1, <3>4, LocMine
      <4> QED BY <3>4, <4>1 DEF OrderKept, NetworkLabels, Labels
    <3> QED BY <3>2, <3>3, <3>4
  <2> QED BY <1>1, <2>1, <2>2
<1> QED BY <1>a, <1>1, <1>3, <1>5, TypeFacts DEF TypeInv

\* A step of DeleteNetwork.
LEMMA NetworkStepType ==
    ASSUME TypeInv, NEW l, NEW skip, NEW a, NEW P, NEW n \in PlainLabels,
           NetworkStep(l, skip, a, P, n), l # "natWait", skip \/ Good(a, faults),
           \A b \in P : \/ Good(b, faults)
                        \/ faults + 1 <= MaxFaults => Good(b, faults + 1)
    PROVE  TypeInv'
<1>a. obj \in AWSClusters /\ mem \in AWSClusters /\ loc \in Locals /\ Good(aws, faults)
  BY TypeFacts
<1>0. pc = l /\ Step /\ UNCHANGED mem
  BY DEF NetworkStep
<1>1. CASE ~skip /\ Call(a, n, P, "deleted")
  BY <1>a, <1>0, <1>1, CallStep DEF PlainLabels, Labels, NetworkLabels
<1>2. CASE UNCHANGED aws /\ Proceed(n)
  BY <1>a, <1>0, <1>2, QuietStep
<1>3. CASE UNCHANGED aws /\ Fail("deleted") /\ (Fault("patch") \/ Fault("aws"))
  BY <1>a, <1>0, <1>3, LocErr, QuietStep DEF PlainLabels, Labels, NetworkLabels
<1> QED BY <1>1, <1>2, <1>3 DEF NetworkStep

\* A step of DeleteNetwork that AWS refuses.
LEMMA RefusedType ==
    ASSUME TypeInv, NEW l, NEW P, Refused(l, P), l # "natWait", \A b \in P : Good(b, faults)
    PROVE  TypeInv'
<1>a. obj \in AWSClusters /\ mem \in AWSClusters /\ loc \in Locals
  BY TypeFacts
<1>0. pc = l /\ Step /\ UNCHANGED mem /\ Good(aws', faults) /\ NoFault /\ Fail("deleted")
  BY DEF Refused
<1> QED BY <1>a, <1>0, LocErr, QuietStep DEF PlainLabels, Labels, NetworkLabels

\* The steps of reconcileDelete before the network keep the types.
LEMMA TypeStepDelete ==
    ASSUME TypeInv,
           \/ DeleteBucket \/ DeleteLoadbalancers \/ DeleteBastion \/ waitBastion
           \/ describeClusterOwnedSecurityGroups \/ deleteSecurityGroup
           \/ gcReconcileDelete \/ gcDeleteTargetGroups \/ gcDeleteSecurityGroups
           \/ describeNetwork \/ removeFinalizer
    PROVE  TypeInv'
<1>a. /\ spec \in Specs /\ obj \in AWSClusters /\ mem \in AWSClusters /\ loc \in Locals
      /\ faults \in Nat /\ Good(aws, faults) /\ OrderKept
      /\ faults <= MaxFaults /\ faults \in 0 .. MaxFaults
  BY TypeFacts
<1>c. [loc EXCEPT !.err = TRUE] \in Locals /\ [loc EXCEPT !.err = TRUE].mine = loc.mine
  BY <1>a, LocErr
<1>l. {"delBucket", "delLB", "delBastion", "waitBastion", "delSGs", "delSG", "gc",
       "gcTargetGroups", "gcSecurityGroups", "delNetwork", "delEndpoints", "deleted",
       "close"} \subseteq PlainLabels
  BY DEF PlainLabels, Labels, NetworkLabels
<1>p. ASSUME NEW l \in PlainLabels, NEW m \in AWSClusters, PatchFails(m), Fail(l), UNCHANGED aws,
             UNCHANGED <<spec, cache, mem, base, tasks>>, pc # "natWait"
      PROVE  TypeInv'
  <2>1. obj' \in AWSClusters /\ faults' \in 0 .. MaxFaults /\ faults' >= faults
    BY <1>p, StoredType
  <2>2. Good(aws', faults')
    BY <1>a, <1>p, <2>1, GoodMore
  <2>3. OrderKept' /\ pc' \in Labels
    BY <1>a, <1>c, <1>p, OrderPlain DEF PlainLabels
  <2> QED BY <1>c, <1>p, <2>1, <2>2, <2>3, TypeFacts DEF TypeInv
<1>1. CASE DeleteBucket
  <2> DEFINE a == [aws EXCEPT !.bucket = FALSE]
  <2>0. /\ pc = "delBucket" /\ Step /\ UNCHANGED mem
        /\ Call(a, "delLB", {}, "delLB") \/ (UNCHANGED aws /\ Proceed("delLB"))
    BY <1>1 DEF DeleteBucket
  <2>1. Good(a, faults)
    BY <1>a, GoodRest
  <2> HIDE DEF a
  <2>2. CASE Call(a, "delLB", {}, "delLB")
    BY <1>a, <1>l, <2>0, <2>1, <2>2, CallStep
  <2>3. CASE UNCHANGED aws /\ Proceed("delLB")
    BY <1>a, <1>l, <2>0, <2>3, QuietStep
  <2> QED BY <2>0, <2>2, <2>3
<1>2. CASE DeleteLoadbalancers
  <2> DEFINE w == IF aws.lb = "up" THEN Draining(aws) ELSE aws
             a == WithoutServiceELBs(w)
             P == HalfDeletedLBs \cup {w}
  <2>0. pc = "delLB" /\ UNCHANGED <<spec, cache, mem, base, tasks>>
    BY <1>2 DEF DeleteLoadbalancers
  <2>1. Good(w, faults)
    BY <1>a, GoodLB DEF Draining
  <2>2. Good(a, faults)
    <3>1. w.services \ {"elb"} \in SUBSET {"elb", "lb", "tg", "sg", "interfaces"}
      BY <2>1 DEF Good, Accounts
    <3> HIDE DEF w
    <3> QED BY <1>a, <2>1, <3>1, GoodRest DEF WithoutServiceELBs
  <2>3. \A b \in P : \/ Good(b, faults)
                     \/ faults + 1 <= MaxFaults => Good(b, faults + 1)
    <3>1. Good([aws EXCEPT !.served = FALSE], faults)
      BY <1>a, GoodRest
    <3>2. faults + 1 <= MaxFaults => Good([aws EXCEPT !.served = FALSE, !.looseTGs = @ + 1], faults + 1)
      BY <1>a, LooseUpdates
    <3> HIDE DEF w
    <3> QED BY <2>1, <3>1, <3>2 DEF HalfDeletedLBs
  <2>4. CASE UNCHANGED obj /\ Call(a, "delBastion", P, "delBastion")
    <3> HIDE DEF a, P
    <3> QED BY <1>a, <1>l, <2>0, <2>2, <2>3, <2>4, CallStep
  <2>5. CASE PatchFails(mem) /\ Fail("delBastion") /\ UNCHANGED aws
    BY <1>a, <1>l, <1>p, <2>0, <2>5
  <2> QED BY <1>2, <2>4, <2>5 DEF DeleteLoadbalancers
<1>3. CASE DeleteBastion
  <2> DEFINE a == [aws EXCEPT !.bastion = "terminating"]
  <2>0. pc = "delBastion" /\ UNCHANGED <<spec, cache, mem, base, tasks>>
    BY <1>3 DEF DeleteBastion
  <2>1. Good(a, faults)
    BY <1>a, GoodRest
  <2>2. CASE /\ UNCHANGED <<aws, obj>> /\ (Fault("aws") \/ NoFault) /\ pc' = "delSGs"
             /\ loc' \in {loc, [loc EXCEPT !.err = TRUE]}
    BY <1>a, <1>c, <1>l, <2>0, <2>2, QuietStep
  <2>3. CASE PatchFails(mem) /\ Fail("delSGs") /\ UNCHANGED aws
    BY <1>a, <1>l, <1>p, <2>0, <2>3
  <2>4. CASE UNCHANGED obj /\ Call(a, "waitBastion", {}, "delSGs")
    <3> HIDE DEF a
    <3> QED BY <1>a, <1>l, <2>0, <2>1, <2>4, CallStep
  <2> QED BY <1>3, <2>2, <2>3, <2>4 DEF DeleteBastion
<1>4. CASE waitBastion
  <2>0. /\ pc = "waitBastion" /\ Step /\ UNCHANGED <<aws, mem>> /\ (Fault("aws") \/ NoFault)
        /\ pc' = "delSGs" /\ loc' \in {loc, [loc EXCEPT !.err = TRUE]}
    BY <1>4 DEF waitBastion
  <2> QED BY <1>a, <1>c, <1>l, <2>0, QuietStep
<1>5. CASE describeClusterOwnedSecurityGroups
  <2>0. pc = "delSGs" /\ UNCHANGED <<spec, aws, cache, mem, base, tasks>>
    BY <1>5 DEF describeClusterOwnedSecurityGroups
  <2>1. CASE /\ UNCHANGED obj /\ (Fault("aws") \/ NoFault) /\ pc' \in {"gc", "delSG"}
             /\ loc' \in {loc, [loc EXCEPT !.err = TRUE], [loc EXCEPT !.groups = aws.sgs]}
    <3>1. aws.sgs \in SUBSET Roles
      BY TypeFacts
    <3>2. [loc EXCEPT !.groups = aws.sgs] \in Locals /\ [loc EXCEPT !.groups = aws.sgs].mine = loc.mine
      BY <1>a, <3>1, LocGroups
    <3> QED BY <1>a, <1>c, <1>l, <2>0, <2>1, <3>2, QuietStep
  <2>2. CASE PatchFails(mem) /\ Fail("gc")
    BY <1>a, <1>l, <1>p, <2>0, <2>2
  <2> QED BY <1>5, <2>1, <2>2 DEF describeClusterOwnedSecurityGroups
<1>6. CASE deleteSecurityGroup
  <2>0. pc = "delSG" /\ Step /\ UNCHANGED mem
    BY <1>6 DEF deleteSecurityGroup
  <2>1. CASE UNCHANGED aws /\ Proceed("gc")
    BY <1>a, <1>l, <2>0, <2>1, QuietStep
  <2>2. ASSUME NEW r \in Roles,
               /\ aws' \in {aws, Revoked(r), [Revoked(r) EXCEPT !.sgs = @ \ {r}]}
               /\ Fault("aws") \/ Fault("codeless") \/ NoFault
               /\ pc' \in {"delSG", "gc"}
               /\ loc' \in {[loc EXCEPT !.err = TRUE], [loc EXCEPT !.groups = @ \ {r}],
                            [[loc EXCEPT !.groups = @ \ {r}] EXCEPT !.err = TRUE]}
        PROVE  TypeInv'
    <3>1. Good(aws', faults)
      <4>1. /\ Good(Revoked(r), faults)
            /\ Good([Revoked(r) EXCEPT !.sgs = @ \ {r}], faults)
        BY <1>a, GoodRevoked DEF Revoked
      <4> QED BY <1>a, <2>2, <4>1
    <3>2. loc' \in Locals /\ loc'.mine = loc.mine
      <4>1. loc.groups \ {r} \in SUBSET Roles
        BY TypeFacts
      <4>2. /\ [loc EXCEPT !.groups = @ \ {r}] \in Locals
            /\ [loc EXCEPT !.groups = @ \ {r}].mine = loc.mine
            /\ [[loc EXCEPT !.groups = @ \ {r}] EXCEPT !.err = TRUE] \in Locals
            /\ [[loc EXCEPT !.groups = @ \ {r}] EXCEPT !.err = TRUE].mine = loc.mine
        BY <1>a, <4>1, LocGroups
      <4> QED BY <1>c, <2>2, <4>2
    <3> QED BY <1>a, <1>l, <2>0, <2>2, <3>1, <3>2, QuietStep
  <2>3. \A r \in loc.groups : r \in Roles
    BY TypeFacts
  <2> QED BY <1>6, <2>1, <2>2, <2>3 DEF deleteSecurityGroup
<1>g. ASSUME NEW l, NEW parts, NEW n \in PlainLabels, l # "natWait", Cleanup(l, parts, n)
      PROVE  TypeInv'
  <2> DEFINE a == [aws EXCEPT !.services = @ \ parts]
  <2>0. pc = l /\ Step /\ UNCHANGED mem /\ Call(a, n, {}, "delNetwork")
    BY <1>g DEF Cleanup
  <2>1. aws.services \ parts \in SUBSET {"elb", "lb", "tg", "sg", "interfaces"}
    BY TypeFacts
  <2>2. Good(a, faults)
    BY <1>a, <2>1, GoodRest
  <2> HIDE DEF a
  <2> QED BY <1>a, <1>g, <1>l, <2>0, <2>2, CallStep
<1>7. CASE gcReconcileDelete
  <2>1. CASE pc = "gc" /\ Step /\ UNCHANGED <<aws, mem>> /\ Proceed("delNetwork")
    BY <1>a, <1>l, <2>1, QuietStep
  <2>2. CASE Cleanup("gc", {"elb", "lb"}, "gcTargetGroups")
    BY <1>g, <1>l, <2>2
  <2> QED BY <1>7, <2>1, <2>2 DEF gcReconcileDelete
<1>8. CASE gcDeleteTargetGroups
  BY <1>8, <1>g, <1>l DEF gcDeleteTargetGroups
<1>9. CASE gcDeleteSecurityGroups
  <2>1. CASE pc = "gcSecurityGroups" /\ NoFault /\ Step /\ UNCHANGED <<aws, mem>> /\ Fail("delNetwork")
    BY <1>a, <1>c, <1>l, <2>1, QuietStep
  <2>2. CASE Cleanup("gcSecurityGroups", {"sg"}, "delNetwork")
    BY <1>g, <1>l, <2>2
  <2> QED BY <1>9, <2>1, <2>2 DEF gcDeleteSecurityGroups
<1>10. CASE describeNetwork
  <2>0. pc = "delNetwork"
    BY <1>10 DEF describeNetwork
  <2>1. CASE /\ mem' = [mem EXCEPT !.cagw = FALSE,
                          !.ipv6 = mem.vpc # None /\ aws.ipv6 = "associated"]
             /\ PatchObject(mem', "delEndpoints", "deleted")
    <3>1. mem' \in AWSClusters
      <4>1. (mem.vpc # None /\ aws.ipv6 = "associated") \in BOOLEAN
        OBVIOUS
      <4> QED BY <1>a, <2>1, <4>1, ClusterFlags
    <3>2. /\ obj' \in AWSClusters /\ Good(aws', faults') /\ faults' \in 0 .. MaxFaults
          /\ loc' \in Locals /\ loc'.mine = loc.mine /\ pc' \in {"delEndpoints", "deleted"}
          /\ UNCHANGED <<spec, aws, cache, base, tasks>>
      BY <2>1, <3>1, PatchObjectType
    <3>3. pc' \in PlainLabels
      BY <1>l, <3>2
    <3>4. OrderKept' /\ pc' \in Labels
      BY <1>a, <2>0, <3>2, <3>3, OrderPlain DEF PlainLabels
    <3> QED BY <3>1, <3>2, <3>4, TypeFacts DEF TypeInv
  <2>2. CASE /\ Step /\ UNCHANGED <<aws, mem>> /\ (Fault("aws") \/ NoFault) /\ pc' = "deleted"
             /\ loc' \in {loc, [loc EXCEPT !.err = TRUE]}
    BY <1>a, <1>c, <1>l, <2>0, <2>2, QuietStep
  <2> QED BY <1>10, <2>1, <2>2 DEF describeNetwork
<1>11. CASE removeFinalizer
  <2>0. /\ pc = "deleted" /\ Step /\ UNCHANGED aws /\ Proceed("close")
        /\ mem' = [mem EXCEPT !.finalizer = @ /\ ~AllDeleted]
    BY <1>11 DEF removeFinalizer
  <2>1. mem' \in AWSClusters
    <3>1. (mem.finalizer /\ ~AllDeleted) \in BOOLEAN
      OBVIOUS
    <3> QED BY <1>a, <2>0, <3>1, ClusterFlags
  <2> QED BY <1>a, <1>l, <2>0, <2>1, QuietStep
<1> QED BY <1>1, <1>2, <1>3, <1>4, <1>5, <1>6, <1>7, <1>8, <1>9, <1>10, <1>11

\* The steps of DeleteNetwork keep the types.
LEMMA TypeStepDeleteNetwork ==
    ASSUME TypeInv,
           \/ deleteVPCEndpoints \/ deleteRouteTables \/ deleteNatGateways
           \/ releaseAddresses \/ deleteInternetGateways \/ deleteGateways
           \/ deleteSubnets \/ deleteVPC
    PROVE  TypeInv'
<1>a. faults \in Nat /\ Good(aws, faults) /\ faults <= MaxFaults
  BY TypeFacts
<1>l. {"delRoutes", "delNats", "delAddresses", "delIgw", "delGateways", "delSubnets",
       "delVpc", "deleted"} \subseteq PlainLabels
  BY DEF PlainLabels, Labels, NetworkLabels
<1>1. CASE deleteVPCEndpoints
  <2> DEFINE a == [aws EXCEPT !.gateways = @ \ {"endpoint"}]
  <2>1. aws.gateways \ {"endpoint"} \in SUBSET {"carrier", "egress", "endpoint"}
    BY TypeFacts
  <2>2. Good(a, faults)
    BY <1>a, <2>1, GoodGateways
  <2>3. NetworkStep("delEndpoints", NoVPC, a, {}, "delRoutes")
    BY <1>1 DEF deleteVPCEndpoints
  <2> HIDE DEF a
  <2> QED BY <1>l, <2>2, <2>3, NetworkStepType
<1>2. CASE deleteRouteTables
  <2> DEFINE a == [aws EXCEPT !.routed = {}, !.looseTables = 0]
             P == {[aws EXCEPT !.routed = R] : R \in SUBSET aws.routed}
  <2>1. Good(a, faults)
    BY <1>a, GoodTables
  <2>2. \A b \in P : Good(b, faults)
    <3>1. ASSUME NEW R \in SUBSET aws.routed PROVE Good([aws EXCEPT !.routed = R], faults)
      <4>1. R \in SUBSET Subnets /\ R \subseteq aws.subnets
        BY TypeFacts
      <4> QED BY <1>a, <4>1, GoodSubnets
    <3> QED BY <3>1
  <2>3. NetworkStep("delRoutes", NoVPC, a, P, "delNats")
    BY <1>2 DEF deleteRouteTables
  <2> HIDE DEF a, P
  <2> QED BY <1>l, <2>1, <2>2, <2>3, NetworkStepType
<1>3. CASE deleteNatGateways
  <2> DEFINE zones == {z \in Zones : PublicSubnet(z) \in mem.subnets /\ HasNat(z)}
             without(gone) == [aws EXCEPT !.eips =
                                 [e \in Eips |-> IF e \in gone THEN "idle" ELSE @[e]]]
  <2>1. PICK nat \in [zones -> Eips] :
          NetworkStep("delNats", NoVPC \/ zones = {}, without({nat[z] : z \in zones}),
                      {without({nat[z] : z \in Z}) : Z \in SUBSET zones}, "delAddresses")
    BY <1>3 DEF deleteNatGateways
  <2>2. ASSUME NEW gone PROVE Good(without(gone), faults)
    <3>1. [e \in Eips |-> IF e \in gone THEN "idle" ELSE aws.eips[e]]
            \in [Eips -> {"free", "idle"} \cup Zones]
      BY TypeFacts
    <3> QED BY <1>a, <3>1, GoodEips
  <2> DEFINE a == without({nat[z] : z \in zones})
             P == {without({nat[z] : z \in Z}) : Z \in SUBSET zones}
  <2>3. Good(a, faults) /\ \A b \in P : Good(b, faults)
    BY <2>2
  <2>4. NetworkStep("delNats", NoVPC \/ zones = {}, a, P, "delAddresses")
    BY <2>1
  <2> HIDE DEF a, P, zones
  <2> QED BY <1>l, <2>3, <2>4, NetworkStepType
<1>w. ASSUME NEW gone PROVE Good(Without(gone), faults)
  <2>1. [e \in Eips |-> IF e \in gone THEN "free" ELSE aws.eips[e]]
          \in [Eips -> {"free", "idle"} \cup Zones]
    BY TypeFacts
  <2> QED BY <1>a, <2>1, GoodEips DEF Without
<1>4. CASE releaseAddresses
  <2> DEFINE P == {Without(E) : E \in SUBSET Idle}
  <2>1. \A b \in P : Good(b, faults)
    BY <1>w
  <2>2. CASE NetworkStep("delAddresses", Idle = {}, Without(Idle), P, "delIgw")
    <3> HIDE DEF P
    <3> QED BY <1>l, <1>w, <2>1, <2>2, NetworkStepType
  <2>3. CASE Refused("delAddresses", P)
    <3> HIDE DEF P
    <3> QED BY <2>1, <2>3, RefusedType
  <2> QED BY <1>4, <2>2, <2>3 DEF releaseAddresses
<1>5. CASE deleteInternetGateways
  <2> DEFINE skip == NoVPC \/ Attached = {}
             w(x) == [aws EXCEPT !.igws = [g \in Igws |-> IF g \in Attached THEN x ELSE @[g]]]
  <2>1. ASSUME NEW x \in {"none", "detached"} PROVE Good(w(x), faults)
    <3>1. [g \in Igws |-> IF g \in Attached THEN x ELSE aws.igws[g]]
            \in [Igws -> {"none", "detached", "attached"}]
      BY TypeFacts
    <3> QED BY <1>a, <3>1, GoodGateways
  <2>2. \/ NetworkStep("delIgw", skip, w("none"), {w("detached")}, "delGateways")
        \/ Refused("delIgw", {aws})
    BY <1>5 DEF deleteInternetGateways
  <2>3. Good(w("none"), faults) /\ \A b \in {w("detached")} : Good(b, faults)
    BY <2>1
  <2> DEFINE a == w("none")
             P == {w("detached")}
  <2>4. Good(a, faults) /\ \A b \in P : Good(b, faults)
    BY <2>3
  <2>5. CASE NetworkStep("delIgw", skip, a, P, "delGateways")
    <3> HIDE DEF a, P, skip
    <3> QED BY <1>l, <2>4, <2>5, NetworkStepType
  <2>6. CASE Refused("delIgw", {aws})
    BY <1>a, <2>6, RefusedType
  <2> QED BY <2>2, <2>5, <2>6
<1>6. CASE deleteGateways
  <2> DEFINE G == {g \in {"carrier", "egress"} : IF g = "carrier" THEN mem.cagw ELSE mem.ipv6}
             a == [aws EXCEPT !.gateways = @ \ G]
  <2>1. aws.gateways \ G \in SUBSET {"carrier", "egress", "endpoint"}
    BY TypeFacts
  <2>2. NetworkStep("delGateways", NoVPC, a, {}, "delSubnets")
    BY <1>6 DEF deleteGateways
  <2> HIDE DEF G
  <2>3. Good(a, faults)
    BY <1>a, <2>1, GoodGateways
  <2> HIDE DEF a
  <2> QED BY <1>l, <2>2, <2>3, NetworkStepType
<1>7. CASE deleteSubnets
  <2> DEFINE without(S) == [aws EXCEPT !.subnets = @ \ S, !.routed = @ \ S]
             a == without(aws.subnets)
             P == {without(S) : S \in SUBSET aws.subnets}
  <2>1. ASSUME NEW S \in SUBSET aws.subnets PROVE Good(without(S), faults)
    <3>1. S \in SUBSET Subnets
      BY TypeFacts
    <3> QED BY <1>a, <3>1, GoodSubnets
  <2>2. NetworkStep("delSubnets", SkipSubnets, a, P, "delVpc")
    BY <1>7 DEF deleteSubnets
  <2>3. Good(a, faults) /\ \A b \in P : Good(b, faults)
    BY <2>1
  <2> HIDE DEF a, P
  <2> QED BY <1>l, <2>2, <2>3, NetworkStepType
<1>8. CASE deleteVPC
  <2> DEFINE a == [aws EXCEPT !.vpcs = @ \ {mem.vpc}]
  <2>1. Good(a, faults)
    <3>1. aws.vpcs \ {mem.vpc} \in SUBSET Vpcs
      BY TypeFacts
    <3> QED BY <1>a, <3>1, GoodVpcs
  <2> DEFINE always == TRUE
             never == FALSE
  <2>2. CASE NetworkStep("delVpc", always, aws, {}, "deleted")
    <3> HIDE DEF always
    <3> QED BY <1>a, <1>l, <2>2, NetworkStepType
  <2>3. CASE NetworkStep("delVpc", never, a, {}, "deleted")
    <3> HIDE DEF a, never
    <3> QED BY <1>l, <2>1, <2>3, NetworkStepType
  <2>4. CASE Refused("delVpc", {aws})
    BY <1>a, <2>4, RefusedType
  <2> QED BY <1>8, <2>2, <2>3, <2>4 DEF deleteVPC
<1> QED BY <1>1, <1>2, <1>3, <1>4, <1>5, <1>6, <1>7, <1>8

\* What happens besides the reconcile keeps the types.
LEMMA TypeStepAround ==
    ASSUME TypeInv,
           \/ Reconcile \/ Close \/ Crash \/ CacheSync \/ DeleteAWSCluster
           \/ IPv6Associates \/ LBDrains \/ BastionTerminates \/ LBLost
           \/ ServiceCreated \/ ServiceDrains
    PROVE  TypeInv'
<1>a. /\ spec \in Specs /\ obj \in AWSClusters /\ cache \in AWSClusters
      /\ mem \in AWSClusters /\ base \in AWSClusters /\ loc \in Locals
      /\ tasks \subseteq Zones \X Eips /\ faults \in Nat /\ faults <= MaxFaults
      /\ Good(aws, faults) /\ OrderKept /\ faults \in 0 .. MaxFaults
  BY TypeFacts
<1>1. CASE Reconcile
  <2>1. /\ mem' = cache /\ base' = cache /\ loc' = NoLocals /\ pc' \in {"delBucket", "finalizer"}
        /\ UNCHANGED <<spec, aws, obj, cache, tasks, faults>>
    BY <1>1 DEF Reconcile
  <2>2. OrderKept' /\ pc' \in Labels
    BY <2>1, StartTypes DEF OrderKept, NetworkLabels, Labels
  <2> QED BY <1>a, <2>1, <2>2, StartTypes DEF TypeInv
<1>d. ASSUME Done PROVE /\ mem' \in AWSClusters /\ base' \in AWSClusters /\ loc' \in Locals
                        /\ pc' \in Labels /\ OrderKept'
  <2>1. /\ mem' = NewAWSCluster(spec) /\ base' = NewAWSCluster(spec) /\ loc' = NoLocals
        /\ pc' = "idle"
    BY <1>d DEF Done
  <2> QED BY <1>a, <2>1, StartTypes DEF OrderKept, NetworkLabels, Labels
<1>2. CASE Close
  <2>1. Done /\ (PatchSucceeds(mem) \/ PatchFails(mem)) /\ UNCHANGED <<spec, aws, cache, tasks>>
    BY <1>2 DEF Close
  <2>2. obj' \in AWSClusters /\ faults' \in 0 .. MaxFaults /\ faults' >= faults
    BY <1>a, <2>1, StoredType
  <2>3. Good(aws', faults')
    BY <1>a, <2>1, <2>2, GoodMore
  <2> QED BY <1>a, <1>d, <2>1, <2>2, <2>3 DEF TypeInv
<1>3. CASE Crash
  <2>1. /\ Done /\ Fault("crash") /\ tasks' = {} /\ cache' = obj /\ UNCHANGED <<spec, aws, obj>>
    BY <1>3 DEF Crash
  <2>2. Good(aws', faults') /\ faults' \in 0 .. MaxFaults
    BY <1>a, <2>1, GoodLater
  <2> QED BY <1>a, <1>d, <2>1, <2>2 DEF TypeInv
<1>4. CASE CacheSync
  BY <1>4, <1>a DEF CacheSync, TypeInv, OrderKept
<1>5. CASE DeleteAWSCluster
  <2>1. /\ obj' = Collected([obj EXCEPT !.deleting = TRUE])
        /\ UNCHANGED <<spec, aws, cache, pc, mem, base, loc, tasks, faults>>
    BY <1>5 DEF DeleteAWSCluster
  <2>2. obj' \in AWSClusters
    <3>1. [obj EXCEPT !.deleting = TRUE] \in AWSClusters
      BY <1>a DEF AWSClusters
    <3> QED BY <2>1, <3>1, CollectedType
  <2> QED BY <1>a, <2>1, <2>2 DEF TypeInv, OrderKept
<1>e. ASSUME Good(aws', faults'), faults' \in 0 .. MaxFaults,
             aws'.subnets = aws.subnets, aws'.sgs = aws.sgs,
             UNCHANGED <<spec, obj, cache, pc, mem, base, loc, tasks>>
      PROVE  TypeInv'
  BY <1>a, <1>e DEF TypeInv, OrderKept
<1>6. CASE IPv6Associates
  <2>1. /\ aws' = [aws EXCEPT !.ipv6 = "associated"] /\ NoFault
        /\ UNCHANGED <<spec, obj, cache, pc, mem, base, loc, tasks>>
    BY <1>6 DEF IPv6Associates, Environment
  <2>2. aws'.subnets = aws.subnets /\ aws'.sgs = aws.sgs
    BY <1>a, <2>1 DEF Good, Accounts
  <2>3. Good(aws', faults)
    BY <1>a, <2>1, GoodVpcs
  <2> QED BY <1>a, <1>e, <2>1, <2>2, <2>3 DEF NoFault
<1>7. CASE LBDrains
  <2>1. /\ aws' = [aws EXCEPT !.lb = "none"] /\ NoFault
        /\ UNCHANGED <<spec, obj, cache, pc, mem, base, loc, tasks>>
    BY <1>7 DEF LBDrains, Environment
  <2>2. aws'.subnets = aws.subnets /\ aws'.sgs = aws.sgs
    BY <1>a, <2>1 DEF Good, Accounts
  <2>3. Good(aws', faults)
    BY <1>a, <2>1, GoodLB
  <2> QED BY <1>a, <1>e, <2>1, <2>2, <2>3 DEF NoFault
<1>8. CASE BastionTerminates
  <2>1. /\ aws' = [aws EXCEPT !.bastion = "none"] /\ NoFault
        /\ UNCHANGED <<spec, obj, cache, pc, mem, base, loc, tasks>>
    BY <1>8 DEF BastionTerminates, Environment
  <2>2. aws'.subnets = aws.subnets /\ aws'.sgs = aws.sgs
    BY <1>a, <2>1 DEF Good, Accounts
  <2>3. Good(aws', faults)
    BY <1>a, <2>1, GoodRest
  <2> QED BY <1>a, <1>e, <2>1, <2>2, <2>3 DEF NoFault
<1>9. CASE LBLost
  <2>1. /\ aws' = [aws EXCEPT !.lb = "none", !.served = FALSE,
                      !.looseTGs = IF spec.lb = "nlb" /\ aws.served THEN @ + 1 ELSE @]
        /\ Fault("lblost") /\ UNCHANGED <<spec, obj, cache, pc, mem, base, loc, tasks>>
    BY <1>9 DEF LBLost, Environment
  <2>2. aws'.subnets = aws.subnets /\ aws'.sgs = aws.sgs
    BY <1>a, <2>1 DEF Good, Accounts
  <2>3. faults' = faults + 1 /\ faults + 1 <= MaxFaults /\ faults' \in 0 .. MaxFaults
    BY <1>a, <2>1, FaultType
  <2>4. Good(aws', faults')
    <3>1. /\ Good([aws EXCEPT !.lb = "none", !.served = FALSE, !.looseTGs = @ + 1], faults + 1)
          /\ Good([aws EXCEPT !.lb = "none", !.served = FALSE, !.looseTGs = @], faults + 1)
      BY <1>a, <2>3, LooseUpdates
    <3>2. CASE spec.lb = "nlb" /\ aws.served
      BY <2>1, <2>3, <3>1, <3>2
    <3>3. CASE ~(spec.lb = "nlb" /\ aws.served)
      BY <2>1, <2>3, <3>1, <3>3
    <3> QED BY <3>2, <3>3
  <2> QED BY <1>e, <2>1, <2>2, <2>3, <2>4
<1>10. CASE ServiceCreated \/ ServiceDrains
  <2>1. PICK S : /\ aws' = [aws EXCEPT !.services = S]
                 /\ S \in SUBSET {"elb", "lb", "tg", "sg", "interfaces"} /\ NoFault
                 /\ UNCHANGED <<spec, obj, cache, pc, mem, base, loc, tasks>>
    <3>1. CASE ServiceCreated
      <4> DEFINE S == IF spec.services = "classic" THEN {"elb", "sg", "interfaces"}
                      ELSE {"lb", "tg", "sg", "interfaces"}
      <4>1. /\ aws' = [aws EXCEPT !.services = S] /\ NoFault
            /\ UNCHANGED <<spec, obj, cache, pc, mem, base, loc, tasks>>
        BY <3>1 DEF ServiceCreated, Environment
      <4>2. S \in SUBSET {"elb", "lb", "tg", "sg", "interfaces"}
        OBVIOUS
      <4> HIDE DEF S
      <4> QED BY <4>1, <4>2
    <3>2. CASE ServiceDrains
      <4> DEFINE S == aws.services \ {"interfaces"}
      <4>1. /\ aws' = [aws EXCEPT !.services = S] /\ NoFault
            /\ UNCHANGED <<spec, obj, cache, pc, mem, base, loc, tasks>>
        BY <3>2 DEF ServiceDrains, Environment
      <4>2. S \in SUBSET {"elb", "lb", "tg", "sg", "interfaces"}
        BY TypeFacts
      <4> HIDE DEF S
      <4> QED BY <4>1, <4>2
    <3> QED BY <1>10, <3>1, <3>2
  <2>2. aws'.subnets = aws.subnets /\ aws'.sgs = aws.sgs
    BY <1>a, <2>1 DEF Good, Accounts
  <2>3. Good(aws', faults)
    BY <1>a, <2>1, GoodRest
  <2> QED BY <1>a, <1>e, <2>1, <2>2, <2>3 DEF NoFault
<1> QED BY <1>1, <1>2, <1>3, <1>4, <1>5, <1>6, <1>7, <1>8, <1>9, <1>10

\* The initial states have their types.
LEMMA TypeInit == Init => TypeInv
<1> SUFFICES ASSUME Init PROVE TypeInv
  OBVIOUS
<1>1. spec \in Specs /\ NewAWSCluster(spec) \in AWSClusters
  BY StartTypes DEF Init
<1>2. Good(EmptyAccount(spec), 0)
  BY ConstantsAssumption DEF EmptyAccount, Good, Accounts
<1>3. pc \in Labels /\ OrderKept /\ faults = 0 /\ faults \in 0 .. MaxFaults
  BY StartTypes, ConstantsAssumption DEF Init, OrderKept, Labels, NetworkLabels
<1> QED BY <1>1, <1>2, <1>3, StartTypes DEF Init, TypeInv

\* Every step keeps the types.
LEMMA TypeStep == TypeInv /\ [Next]_vars => TypeInv'
<1> SUFFICES ASSUME TypeInv, [Next]_vars PROVE TypeInv'
  OBVIOUS
<1>1. CASE UNCHANGED vars
  BY <1>1 DEF vars, TypeInv, OrderKept
<1>2. CASE Next
  BY <1>2, TypeStepVPC, TypeStepNetwork, TypeStepServices, TypeStepTask, TypeStepDelete,
     TypeStepDeleteNetwork, TypeStepAround
  DEF Next, Worker, ReconcileNormalStep, ReconcileDeleteStep
<1> QED BY <1>1, <1>2

\* The state of an AWSCluster stays well typed: rules and route tables belong to groups
\* and subnets that exist, and nothing is left over that no fault accounts for.
THEOREM TypeCorrect == Spec => []TypeOK
<1>1. TypeInv => TypeOK
  BY DEF TypeInv, TypeOK, Good
<1> QED BY <1>1, TypeInit, TypeStep, PTL DEF Spec

-----------------------------------------------------------------------------
(* What the steps of a reconcile do to the account and to the object *)

\* The steps after the network.
GroupLabels == {"sgs", "rules", "bastion", "runBastion", "lb", "lbServe", "bucket"}

\* The steps of reconcileNormal,
NormalLabels ==
    {"finalizer", "vpc", "vpcIPv6", "vpcPatch", "subnets", "describeSubnets",
     "createSubnets", "endpoints"} \cup NetworkLabels \cup GroupLabels

\* and those of reconcileDelete.
DeleteLabels ==
    {"delBucket", "delLB", "delBastion", "waitBastion", "delSGs", "delSG", "gc",
     "gcTargetGroups", "gcSecurityGroups", "delNetwork", "delEndpoints", "delRoutes",
     "delNats", "delAddresses", "delIgw", "delGateways", "delSubnets", "delVpc", "deleted"}

\* A step of reconcileNormal adds to one part of the account at most.
NormalAccount ==
    /\ pc \in NormalLabels \ {"natWait"} /\ pc' \in NormalLabels \cup {"close"}
    /\ UNCHANGED <<spec, cache, base>>
    /\ IF pc = "vpc" /\ mem.vpc = None
       THEN aws'.vpcs = aws.vpcs
            \/ (aws.vpcs = {} /\ \E v \in Vpcs : aws'.vpcs = {v})
       ELSE aws'.vpcs = aws.vpcs
    /\ aws.subnets \subseteq aws'.subnets
    /\ pc # "createSubnets" => aws'.subnets = aws.subnets
    /\ aws.routed \subseteq aws'.routed /\ (pc # "routes" => aws'.routed = aws.routed)
    /\ \A g \in Igws : /\ aws.igws[g] = "attached" => aws'.igws[g] = "attached"
                       /\ pc # "igw" => aws'.igws[g] = aws.igws[g]
    /\ pc \notin {"carrier", "egress", "endpoints"} => aws'.gateways = aws.gateways
    /\ \A e \in Eips : /\ aws.eips[e] \in Zones => aws'.eips[e] = aws.eips[e]
                       /\ pc # "allocate" => aws'.eips[e] = aws.eips[e]
    /\ aws.sgs \subseteq aws'.sgs /\ aws.ruled \subseteq aws'.ruled
    /\ aws.bastion = "up" => aws'.bastion = "up"
    /\ pc # "lb" => aws'.lb = aws.lb /\ aws'.lbName = aws.lbName
    /\ aws'.services = aws.services

\* The account in terms of its fields.
LEMMA AccountFields ==
    ASSUME TypeInv
    PROVE  /\ aws \in Accounts
           /\ aws.igws \in [Igws -> {"none", "detached", "attached"}]
           /\ aws.eips \in [Eips -> {"free", "idle"} \cup Zones]
           /\ Zones \cap {"free", "idle"} = {}
BY TypeFacts, ConstantsAssumption DEF Good

\* Every step of reconcileNormal is such a step.
LEMMA NormalAccountStep ==
    ASSUME TypeInv, ReconcileNormalStep
    PROVE  NormalAccount
<1>a. aws \in Accounts /\ Zones \cap {"free", "idle"} = {}
      /\ aws.igws \in [Igws -> {"none", "detached", "attached"}]
      /\ aws.eips \in [Eips -> {"free", "idle"} \cup Zones]
  BY AccountFields
<1> USE DEF NormalLabels, NetworkLabels, GroupLabels
<1>0. ASSUME aws' = aws, UNCHANGED <<spec, cache, base>>,
             pc \in NormalLabels \ {"natWait"}, pc' \in NormalLabels \cup {"close"}
      PROVE  NormalAccount
  BY <1>0 DEF NormalAccount
<1>1. CASE addFinalizer \/ describeVPCByID \/ describeNewIPv6VPC \/ patchVPC
  BY <1>0, <1>1 DEF addFinalizer, describeVPCByID, describeNewIPv6VPC, patchVPC, VPCFailed, PatchObject
<1>2. CASE defaultSubnets \/ describeVpcSubnets \/ reconcileNatGateways \/ describeAddresses
           \/ createNatGateways \/ ReconcileBastion
  BY <1>0, <1>2 DEF defaultSubnets, describeVpcSubnets, reconcileNatGateways, describeAddresses,
     createNatGateways, ReconcileBastion, PatchObject
<1>3. CASE createVPC
  <2>1. /\ pc = "vpc" /\ mem.vpc = None /\ UNCHANGED <<spec, cache, base>>
        /\ pc' \in {"vpcPatch", "vpcIPv6", "close"}
        /\ \/ aws' = aws
           \/ aws.vpcs = {} /\ \E v \in Vpcs : aws' = [aws EXCEPT !.vpcs = @ \cup {v},
                                   !.ipv6 = IF mem.ipv6 THEN "associating" ELSE @]
    BY <1>3 DEF createVPC, VPCFailed, describeVPCByName
  <2>2. CASE aws' = aws
    BY <1>0, <2>1, <2>2
  <2>3. ASSUME NEW v \in Vpcs, NEW x, aws.vpcs = {},
               aws' = [aws EXCEPT !.vpcs = @ \cup {v}, !.ipv6 = x]
        PROVE  NormalAccount
    <3>1. aws'.vpcs = {v}
      BY <1>a, <2>3 DEF Accounts
    <3> QED BY <1>a, <2>1, <2>3, <3>1 DEF NormalAccount, Accounts
  <2> QED BY <2>1, <2>2, <2>3
<1>4. CASE createSubnet
  <2>1. /\ pc = "createSubnets" /\ UNCHANGED <<spec, cache, base>>
        /\ pc' \in {"createSubnets", "igw", "close"}
        /\ aws' = aws \/ \E s \in Subnets : aws' = [aws EXCEPT !.subnets = @ \cup {s}]
    BY <1>4 DEF createSubnet
  <2> QED BY <1>a, <2>1 DEF NormalAccount, Accounts
<1>5. CASE reconcileInternetGateways
  <2>1. /\ pc = "igw" /\ UNCHANGED <<spec, cache, base>> /\ pc' \in {"carrier", "close"}
        /\ \/ aws' = aws
           \/ \E g \in Igws, x \in {"detached", "attached"} :
                aws.igws[g] = "none" /\ aws' = [aws EXCEPT !.igws[g] = x]
    BY <1>5 DEF reconcileInternetGateways, Call, WithIgw
  <2> QED BY <1>a, <2>1 DEF NormalAccount, Accounts
<1>6. CASE reconcileCarrierGateway \/ reconcileEgressOnlyInternetGateways \/ reconcileVPCEndpoints
  <2>1. /\ pc \in {"carrier", "egress", "endpoints"} /\ UNCHANGED <<spec, cache, base>>
        /\ pc' \in {"egress", "nat", "sgs", "close"}
        /\ aws' = aws \/ \E x : aws' = [aws EXCEPT !.gateways = @ \cup {x}]
    BY <1>6 DEF reconcileCarrierGateway, reconcileEgressOnlyInternetGateways,
       reconcileVPCEndpoints, Call
  <2> QED BY <1>a, <2>1 DEF NormalAccount, Accounts
<1>7. CASE allocateAddress
  <2>1. /\ pc = "allocate" /\ UNCHANGED <<spec, cache, base>> /\ pc' \in {"allocate", "close"}
        /\ \/ aws' = aws
           \/ \E e \in Eips : aws.eips[e] = "free" /\ aws' = [aws EXCEPT !.eips[e] = "idle"]
    BY <1>7 DEF allocateAddress
  <2> QED BY <1>a, <2>1 DEF NormalAccount, Accounts
<1>8. CASE reconcileRouteTables
  <2>1. /\ pc = "routes" /\ UNCHANGED <<spec, cache, base>>
        /\ pc' \in {"endpoints", "routes", "close"}
        /\ \/ aws' = aws \/ aws' = [aws EXCEPT !.looseTables = @ + 1]
           \/ \E s \in Subnets : aws' = [aws EXCEPT !.routed = @ \cup {s}]
    BY <1>8 DEF reconcileRouteTables
  <2> QED BY <1>a, <2>1 DEF NormalAccount, Accounts
<1>9. CASE createSecurityGroup \/ authorizeSecurityGroupIngressRules
  <2>1. /\ pc \in {"sgs", "rules"} /\ UNCHANGED <<spec, cache, base>>
        /\ pc' \in {"sgs", "rules", "bastion", "close"}
        /\ \/ aws' = aws
           \/ \E r : \/ aws' = [aws EXCEPT !.sgs = @ \cup {r}]
                     \/ aws' = [aws EXCEPT !.ruled = @ \cup {r}]
    BY <1>9 DEF createSecurityGroup, authorizeSecurityGroupIngressRules, Call
  <2> QED BY <1>a, <2>1 DEF NormalAccount, Accounts
<1>10. CASE runBastion \/ getOrCreateLB
  <2>1. /\ UNCHANGED <<spec, cache, base>> /\ pc' \in {"lb", "lbServe", "close"}
        /\ \/ aws' = aws /\ pc \in {"runBastion", "lb"}
           \/ aws' = [aws EXCEPT !.bastion = "up"] /\ pc = "runBastion"
           \/ \E l : aws' = [aws EXCEPT !.lb = "up", !.lbName = l, !.served = FALSE] /\ pc = "lb"
    BY <1>10 DEF runBastion, getOrCreateLB, Call
  <2>2. CASE aws' = aws /\ pc \in {"runBastion", "lb"}
    BY <1>0, <2>1, <2>2
  <2>3. CASE aws' = [aws EXCEPT !.bastion = "up"] /\ pc = "runBastion"
    BY <1>a, <2>1, <2>3 DEF NormalAccount, Accounts
  <2>4. ASSUME NEW l, aws' = [aws EXCEPT !.lb = "up", !.lbName = l, !.served = FALSE], pc = "lb"
        PROVE  NormalAccount
    BY <1>a, <2>1, <2>4 DEF NormalAccount, Accounts
  <2> QED BY <2>1, <2>2, <2>3, <2>4
<1>11. CASE reconcileLB \/ ReconcileBucket
  <2>1. /\ pc \in {"lbServe", "bucket"} /\ UNCHANGED <<spec, cache, base>>
        /\ pc' \in {"bucket", "close"}
        /\ \/ aws' = aws \/ aws' = [aws EXCEPT !.served = TRUE]
           \/ aws' = [aws EXCEPT !.looseTGs = @ + 1] \/ aws' = [aws EXCEPT !.bucket = TRUE]
    BY <1>11 DEF reconcileLB, ReconcileBucket, Call
  <2> QED BY <1>a, <2>1 DEF NormalAccount, Accounts
<1> QED BY <1>1, <1>2, <1>3, <1>4, <1>5, <1>6, <1>7, <1>8, <1>9, <1>10, <1>11 DEF ReconcileNormalStep

\* The order in which reconcileNormal drives the services.
NormalPath ==
    \/ addFinalizer /\ pc = "finalizer" /\ pc' \in {"vpc", "close"}
    \/ describeVPCByID /\ pc = "vpc" /\ pc' \in {"subnets", "close"}
    \/ createVPC /\ pc = "vpc" /\ pc' \in {"vpcPatch", "vpcIPv6", "close"}
    \/ describeNewIPv6VPC /\ pc = "vpcIPv6" /\ pc' \in {"vpcPatch", "close"}
    \/ patchVPC /\ pc = "vpcPatch" /\ pc' \in {"subnets", "close"}
    \/ defaultSubnets /\ pc = "subnets" /\ pc' \in {"describeSubnets", "close"}
    \/ describeVpcSubnets /\ pc = "describeSubnets" /\ pc' \in {"sgs", "createSubnets", "close"}
    \/ createSubnet /\ pc = "createSubnets" /\ pc' \in {"createSubnets", "igw", "close"}
    \/ reconcileInternetGateways /\ pc = "igw" /\ pc' \in {"carrier", "close"}
    \/ reconcileCarrierGateway /\ pc = "carrier" /\ pc' \in {"egress", "close"}
    \/ reconcileEgressOnlyInternetGateways /\ pc = "egress" /\ pc' \in {"nat", "close"}
    \/ reconcileNatGateways /\ pc = "nat" /\ pc' \in {"routes", "addresses", "close"}
    \/ describeAddresses /\ pc = "addresses" /\ pc' \in {"allocate", "close"}
    \/ allocateAddress /\ pc = "allocate" /\ pc' \in {"allocate", "close"}
    \/ createNatGateways /\ pc = "allocate" /\ pc' = "natWait"
    \/ reconcileRouteTables /\ pc = "routes" /\ pc' \in {"routes", "endpoints", "close"}
    \/ reconcileVPCEndpoints /\ pc = "endpoints" /\ pc' \in {"sgs", "close"}
    \/ createSecurityGroup /\ pc = "sgs" /\ pc' \in {"sgs", "rules", "close"}
    \/ authorizeSecurityGroupIngressRules /\ pc = "rules" /\ pc' \in {"rules", "bastion", "close"}
    \/ ReconcileBastion /\ pc = "bastion" /\ pc' \in {"lb", "runBastion", "close"}
    \/ runBastion /\ pc = "runBastion" /\ pc' \in {"lb", "close"}
    \/ getOrCreateLB /\ pc = "lb" /\ pc' \in {"lbServe", "close"}
    \/ reconcileLB /\ pc = "lbServe" /\ pc' \in {"bucket", "close"}
    \/ ReconcileBucket /\ pc = "bucket" /\ pc' = "close"

\* The order is the one in which the code calls the services.
LEMMA NormalOrder ==
    ASSUME ReconcileNormalStep
    PROVE  NormalPath
<1>1. /\ addFinalizer => pc = "finalizer" /\ pc' \in {"vpc", "close"}
      /\ describeVPCByID => pc = "vpc" /\ pc' \in {"subnets", "close"}
      /\ createVPC => pc = "vpc" /\ pc' \in {"vpcPatch", "vpcIPv6", "close"}
      /\ describeNewIPv6VPC => pc = "vpcIPv6" /\ pc' \in {"vpcPatch", "close"}
      /\ patchVPC => pc = "vpcPatch" /\ pc' \in {"subnets", "close"}
  BY DEF addFinalizer, describeVPCByID, createVPC, describeNewIPv6VPC, patchVPC, VPCFailed,
     PatchObject
<1>2. /\ defaultSubnets => pc = "subnets" /\ pc' \in {"describeSubnets", "close"}
      /\ describeVpcSubnets => pc = "describeSubnets" /\ pc' \in {"sgs", "createSubnets", "close"}
      /\ createSubnet => pc = "createSubnets" /\ pc' \in {"createSubnets", "igw", "close"}
  BY DEF defaultSubnets, describeVpcSubnets, createSubnet, PatchObject
<1>3. /\ reconcileInternetGateways => pc = "igw" /\ pc' \in {"carrier", "close"}
      /\ reconcileCarrierGateway => pc = "carrier" /\ pc' \in {"egress", "close"}
      /\ reconcileEgressOnlyInternetGateways => pc = "egress" /\ pc' \in {"nat", "close"}
      /\ reconcileNatGateways => pc = "nat" /\ pc' \in {"routes", "addresses", "close"}
      /\ describeAddresses => pc = "addresses" /\ pc' \in {"allocate", "close"}
  BY DEF reconcileInternetGateways, reconcileCarrierGateway, reconcileEgressOnlyInternetGateways,
     reconcileNatGateways, describeAddresses, Call
<1>4. /\ allocateAddress => pc = "allocate" /\ pc' \in {"allocate", "close"}
      /\ createNatGateways => pc = "allocate" /\ pc' = "natWait"
      /\ reconcileRouteTables => pc = "routes" /\ pc' \in {"routes", "endpoints", "close"}
      /\ reconcileVPCEndpoints => pc = "endpoints" /\ pc' \in {"sgs", "close"}
  BY DEF allocateAddress, createNatGateways, reconcileRouteTables, reconcileVPCEndpoints, Call
<1>5. /\ createSecurityGroup => pc = "sgs" /\ pc' \in {"sgs", "rules", "close"}
      /\ authorizeSecurityGroupIngressRules => pc = "rules" /\ pc' \in {"rules", "bastion", "close"}
      /\ ReconcileBastion => pc = "bastion" /\ pc' \in {"lb", "runBastion", "close"}
      /\ runBastion => pc = "runBastion" /\ pc' \in {"lb", "close"}
  BY DEF createSecurityGroup, authorizeSecurityGroupIngressRules, ReconcileBastion, runBastion,
     Call, PatchObject
<1>6. /\ getOrCreateLB => pc = "lb" /\ pc' \in {"lbServe", "close"}
      /\ reconcileLB => pc = "lbServe" /\ pc' \in {"bucket", "close"}
      /\ ReconcileBucket => pc = "bucket" /\ pc' = "close"
  BY DEF getOrCreateLB, reconcileLB, ReconcileBucket, Call
<1> QED BY <1>1, <1>2, <1>3, <1>4, <1>5, <1>6 DEF ReconcileNormalStep, NormalPath

\* The object as a patch of m leaves it: not at all changed, or with the fields of m that
\* differ from base, those of the spec if s holds and those of the status if t does.
ObjectStep(m) ==
    \/ UNCHANGED obj
    \/ /\ obj.exists /\ obj'.deleting = obj.deleting
       /\ obj'.exists = ~(obj.deleting /\ ~obj'.finalizer)
       /\ obj.vpc # None => obj'.vpc = obj.vpc
       /\ obj.endpoint # None => obj'.endpoint = obj.endpoint
       /\ \E s, t \in BOOLEAN :
            /\ obj'.finalizer = IF s /\ m.finalizer # base.finalizer THEN m.finalizer ELSE obj.finalizer
            /\ obj'.vpc = IF s /\ m.vpc # base.vpc THEN m.vpc ELSE obj.vpc
            /\ obj'.endpoint = IF s /\ m.endpoint # base.endpoint THEN m.endpoint ELSE obj.endpoint
            /\ obj'.subnets = IF s /\ m.subnets # base.subnets THEN m.subnets ELSE obj.subnets
            /\ obj'.ready = IF t /\ m.ready # base.ready THEN m.ready ELSE obj.ready
            /\ \/ s /\ t
               \/ "patch" \in FaultKinds
               \/ obj.vpc # None /\ m.vpc # base.vpc /\ m.vpc # obj.vpc
               \/ obj.endpoint # None /\ m.endpoint # base.endpoint /\ m.endpoint # obj.endpoint

\* Every patch is such a step.
LEMMA PatchStep ==
    ASSUME TypeInv, NEW m \in AWSClusters, PatchSucceeds(m) \/ PatchFails(m)
    PROVE  ObjectStep(m)
<1>a. obj \in AWSClusters /\ base \in AWSClusters /\ obj.exists \in BOOLEAN
  BY TypeFacts DEF AWSClusters
<1>0. ASSUME NEW s \in BOOLEAN, NEW t \in BOOLEAN, obj.exists, obj' = Patched(m, s, t),
             s => ValidateUpdate(Patched(m, s, t)),
             \/ s /\ t
             \/ "patch" \in FaultKinds
             \/ obj.vpc # None /\ m.vpc # base.vpc /\ m.vpc # obj.vpc
             \/ obj.endpoint # None /\ m.endpoint # base.endpoint /\ m.endpoint # obj.endpoint
      PROVE  ObjectStep(m)
  <2>1. /\ obj'.deleting = obj.deleting
        /\ obj'.exists = (obj.exists /\ ~(obj.deleting /\ ~obj'.finalizer))
        /\ obj'.finalizer = IF s /\ m.finalizer # base.finalizer THEN m.finalizer ELSE obj.finalizer
        /\ obj'.vpc = IF s /\ m.vpc # base.vpc THEN m.vpc ELSE obj.vpc
        /\ obj'.endpoint = IF s /\ m.endpoint # base.endpoint THEN m.endpoint ELSE obj.endpoint
        /\ obj'.subnets = IF s /\ m.subnets # base.subnets THEN m.subnets ELSE obj.subnets
        /\ obj'.ready = IF t /\ m.ready # base.ready THEN m.ready ELSE obj.ready
    BY <1>0, PatchType
  <2>2. /\ obj.vpc # None => obj'.vpc = obj.vpc
        /\ obj.endpoint # None => obj'.endpoint = obj.endpoint
    BY <1>0, <2>1 DEF ValidateUpdate
  <2>3. obj'.exists = ~(obj.deleting /\ ~obj'.finalizer)
    BY <1>0, <1>a, <2>1
  <2> QED BY <1>0, <2>1, <2>2, <2>3 DEF ObjectStep
<1>1. CASE PatchSucceeds(m)
  BY <1>0, <1>1 DEF PatchSucceeds
<1>2. CASE PatchFails(m)
  <2>1. CASE ~obj.exists /\ UNCHANGED obj
    BY <2>1 DEF ObjectStep
  <2>2. CASE obj.exists /\ ~ValidateUpdate(Patched(m, TRUE, TRUE)) /\ obj' = Patched(m, FALSE, TRUE)
    <3>1. /\ Patched(m, TRUE, TRUE).vpc = IF m.vpc # base.vpc THEN m.vpc ELSE obj.vpc
          /\ Patched(m, TRUE, TRUE).endpoint =
               IF m.endpoint # base.endpoint THEN m.endpoint ELSE obj.endpoint
      BY PatchType
    <3>2. \/ obj.vpc # None /\ m.vpc # base.vpc /\ m.vpc # obj.vpc
          \/ obj.endpoint # None /\ m.endpoint # base.endpoint /\ m.endpoint # obj.endpoint
      BY <2>2, <3>1 DEF ValidateUpdate
    <3> QED BY <1>0, <2>2, <3>2
  <2>3. CASE /\ obj.exists /\ Fault("patch")
             /\ \E s, t \in BOOLEAN :
                  /\ s => ValidateUpdate(Patched(m, TRUE, t))
                  /\ obj' = Patched(m, s, t)
    <3>1. PICK s, t \in BOOLEAN : /\ s => ValidateUpdate(Patched(m, TRUE, t))
                                  /\ obj' = Patched(m, s, t)
      BY <2>3
    <3>2. "patch" \in FaultKinds
      BY <2>3 DEF Fault
    <3>3. CASE s
      <4>1. s = TRUE
        BY <3>1, <3>3
      <4> QED BY <1>0, <2>3, <3>1, <3>2, <4>1
    <3>4. CASE ~s
      BY <1>0, <2>3, <3>1, <3>2, <3>4
    <3> QED BY <3>3, <3>4
  <2> QED BY <1>2, <2>1, <2>2, <2>3 DEF PatchFails
<1> QED BY <1>1, <1>2

\* PatchObject of m while mem changes: only the fields a patch is about matter.
LEMMA SamePatch ==
    ASSUME NEW m, NEW o, ObjectStep(m), m.finalizer = o.finalizer, m.vpc = o.vpc,
           m.endpoint = o.endpoint, m.subnets = o.subnets, m.ready = o.ready
    PROVE  ObjectStep(o)
BY DEF ObjectStep

\* A step of reconcileNormal changes one part of the object in memory.
NormalObject ==
    /\ mem'.deleting = mem.deleting
    /\ IF pc = "finalizer" THEN mem'.finalizer = TRUE ELSE mem'.finalizer = mem.finalizer
    /\ \/ mem'.vpc = mem.vpc
       \/ pc = "vpc" /\ mem.vpc = None /\ mem'.vpc \in Vpcs /\ aws'.vpcs = {mem'.vpc}
       \/ pc = "vpcIPv6" /\ mem'.vpc = loc.vpc
    /\ pc \notin {"describeSubnets", "createSubnets"} => mem'.subnets = mem.subnets
    /\ pc # "lbServe" => mem'.endpoint = mem.endpoint
    /\ pc # "bucket" => mem'.ready = mem.ready
    /\ pc \in {"describeSubnets", "createSubnets", "lbServe", "bucket"} => UNCHANGED obj
    /\ ObjectStep(mem')

\* Every step of reconcileNormal does that to the object.
LEMMA NormalObjectStep ==
    ASSUME TypeInv, ReconcileNormalStep
    PROVE  NormalObject
<1>a. mem \in AWSClusters /\ mem' \in AWSClusters
  <2>1. TypeInv'
    BY TypeStep DEF Next, Worker
  <2> QED BY <2>1, TypeFacts DEF TypeInv
<1>b. ASSUME PatchSucceeds(mem') \/ PatchFails(mem') PROVE ObjectStep(mem')
  BY <1>a, <1>b, PatchStep
<1>c. ASSUME NEW l, NEW o, PatchObject(mem', l, o) PROVE ObjectStep(mem')
  BY <1>b, <1>c DEF PatchObject
<1>d. UNCHANGED obj => ObjectStep(mem')
  BY DEF ObjectStep
<1>1. CASE addFinalizer
  <2>1. pc = "finalizer" /\ mem' = [mem EXCEPT !.finalizer = TRUE] /\ ObjectStep(mem')
    BY <1>1, <1>c, <1>d DEF addFinalizer
  <2> QED BY <1>a, <2>1 DEF NormalObject, AWSClusters
<1>2. CASE describeVPCByID
  <2>1. /\ pc = "vpc" /\ ObjectStep(mem')
        /\ \/ mem' = WithVPC(mem.vpc) \/ mem' = [WithVPC(mem.vpc) EXCEPT !.vpcCond = TRUE]
           \/ mem' = [mem EXCEPT !.vpcCond = TRUE]
    BY <1>2, <1>c, <1>d DEF describeVPCByID, VPCFailed
  <2> QED BY <1>a, <2>1 DEF NormalObject, AWSClusters, WithVPC
<1>3. CASE createVPC
  <2>0. pc = "vpc" /\ mem.vpc = None /\ ObjectStep(mem')
    BY <1>3, <1>d DEF createVPC
  <2>1. \/ mem' = [mem EXCEPT !.vpcCond = TRUE]
        \/ mem' = mem
        \/ \E v \in Vpcs : aws'.vpcs = {v} /\ (mem' = WithVPC(v) \/ mem' = [mem EXCEPT !.vpc = v])
    <3>1. \/ mem' = [mem EXCEPT !.vpcCond = TRUE]
          \/ mem' = mem
          \/ \E v \in aws.vpcs : aws.vpcs = {v} /\ aws' = aws /\ mem' = WithVPC(v)
          \/ \E v \in Vpcs : /\ aws.vpcs = {} /\ mem' = [mem EXCEPT !.vpc = v]
                             /\ aws' = [aws EXCEPT !.vpcs = @ \cup {v},
                                          !.ipv6 = IF mem.ipv6 THEN "associating" ELSE @]
      BY <1>3 DEF createVPC, VPCFailed, describeVPCByName
    <3>2. aws.vpcs \subseteq Vpcs /\ aws \in Accounts
      BY TypeFacts, AccountFields
    <3>3. ASSUME NEW v \in Vpcs, aws.vpcs = {},
                 aws' = [aws EXCEPT !.vpcs = @ \cup {v},
                           !.ipv6 = IF mem.ipv6 THEN "associating" ELSE @]
          PROVE  aws'.vpcs = {v}
      BY <3>2, <3>3 DEF Accounts
    <3>4. CASE \E v \in aws.vpcs : aws.vpcs = {v} /\ aws' = aws /\ mem' = WithVPC(v)
      BY <3>2, <3>4
    <3>5. CASE \E v \in Vpcs : /\ aws.vpcs = {} /\ mem' = [mem EXCEPT !.vpc = v]
                             /\ aws' = [aws EXCEPT !.vpcs = @ \cup {v},
                                          !.ipv6 = IF mem.ipv6 THEN "associating" ELSE @]
      BY <3>3, <3>5
    <3> QED BY <3>1, <3>4, <3>5
  <2>2. CASE mem' = mem \/ mem' = [mem EXCEPT !.vpcCond = TRUE]
    BY <1>a, <2>0, <2>2 DEF NormalObject, AWSClusters
  <2>3. ASSUME NEW v \in Vpcs, aws'.vpcs = {v}, mem' = WithVPC(v) \/ mem' = [mem EXCEPT !.vpc = v]
        PROVE  NormalObject
    <3>1. /\ mem'.finalizer = mem.finalizer /\ mem'.vpc = v /\ mem'.endpoint = mem.endpoint
          /\ mem'.subnets = mem.subnets /\ mem'.ready = mem.ready /\ mem'.deleting = mem.deleting
      BY <1>a, <2>3 DEF AWSClusters, WithVPC
    <3> QED BY <2>0, <2>3, <3>1 DEF NormalObject
  <2> QED BY <2>1, <2>2, <2>3
<1>4. CASE describeNewIPv6VPC
  <2>1. /\ pc = "vpcIPv6" /\ ObjectStep(mem')
        /\ mem' = [mem EXCEPT !.vpc = loc.vpc] \/ mem' = [mem EXCEPT !.vpcCond = TRUE]
    BY <1>4, <1>d DEF describeNewIPv6VPC, VPCFailed
  <2> QED BY <1>a, <2>1 DEF NormalObject, AWSClusters
<1>5. CASE patchVPC
  <2>1. pc = "vpcPatch" /\ ObjectStep(mem') /\ mem' = [mem EXCEPT !.vpcCond = TRUE]
    BY <1>5, <1>c, <1>d DEF patchVPC
  <2> QED BY <1>a, <2>1 DEF NormalObject, AWSClusters
<1>6. CASE defaultSubnets
  <2>1. pc = "subnets" /\ (mem' = mem \/ mem' = [mem EXCEPT !.listed = TRUE])
    BY <1>6 DEF defaultSubnets
  <2>2. /\ mem'.finalizer = mem.finalizer /\ mem'.vpc = mem.vpc /\ mem'.endpoint = mem.endpoint
        /\ mem'.subnets = mem.subnets /\ mem'.ready = mem.ready /\ mem'.deleting = mem.deleting
    BY <1>a, <2>1 DEF AWSClusters
  <2>3. ObjectStep(mem) \/ UNCHANGED obj
    BY <1>6, <1>a, PatchStep DEF defaultSubnets, PatchObject
  <2>4. ObjectStep(mem')
    BY <1>d, <2>2, <2>3, SamePatch
  <2> QED BY <2>1, <2>2, <2>4 DEF NormalObject
<1>7. CASE describeVpcSubnets \/ createSubnet
  <2>1. /\ pc \in {"describeSubnets", "createSubnets"} /\ ObjectStep(mem') /\ UNCHANGED obj
        /\ mem' = mem \/ \E S : mem' = [mem EXCEPT !.subnets = S]
    BY <1>7, <1>d DEF describeVpcSubnets, createSubnet
  <2> QED BY <1>a, <2>1 DEF NormalObject, AWSClusters
<1>8. CASE reconcileCarrierGateway
  <2>1. /\ pc = "carrier" /\ ObjectStep(mem')
        /\ mem' = mem \/ \E b : mem' = [mem EXCEPT !.cagw = b]
    BY <1>8, <1>d DEF reconcileCarrierGateway
  <2> QED BY <1>a, <2>1 DEF NormalObject, AWSClusters
<1>9. CASE reconcileNatGateways
  <2>1. pc = "nat" /\ ObjectStep(mem') /\ mem' = [mem EXCEPT !.natCond = TRUE]
    BY <1>9, <1>b, <1>d DEF reconcileNatGateways
  <2> QED BY <1>a, <2>1 DEF NormalObject, AWSClusters
<1>10. CASE reconcileInternetGateways \/ reconcileEgressOnlyInternetGateways \/ describeAddresses
            \/ allocateAddress \/ createNatGateways \/ reconcileRouteTables
            \/ reconcileVPCEndpoints
  <2>1. pc \notin {"finalizer", "vpc", "vpcIPv6"} /\ UNCHANGED <<obj, mem>>
    BY <1>10 DEF reconcileInternetGateways, reconcileEgressOnlyInternetGateways, describeAddresses,
       allocateAddress, createNatGateways, reconcileRouteTables, reconcileVPCEndpoints
  <2> QED BY <1>d, <2>1 DEF NormalObject
<1>11. CASE createSecurityGroup \/ authorizeSecurityGroupIngressRules \/ runBastion \/ getOrCreateLB
  <2>1. pc \notin {"finalizer", "vpc", "vpcIPv6"} /\ UNCHANGED <<obj, mem>>
    BY <1>11 DEF createSecurityGroup, authorizeSecurityGroupIngressRules, runBastion, getOrCreateLB
  <2> QED BY <1>d, <2>1 DEF NormalObject
<1>12. CASE ReconcileBastion
  <2>1. /\ pc = "bastion" /\ ObjectStep(mem') /\ \E b : mem' = [mem EXCEPT !.bastionCond = b]
    BY <1>12, <1>c, <1>d DEF ReconcileBastion
  <2> QED BY <1>a, <2>1 DEF NormalObject, AWSClusters
<1>13. CASE reconcileLB
  <2>1. /\ pc = "lbServe" /\ ObjectStep(mem') /\ UNCHANGED obj
        /\ mem' = mem \/ mem' = [mem EXCEPT !.endpoint = loc.lb]
    BY <1>13, <1>d DEF reconcileLB
  <2> QED BY <1>a, <2>1 DEF NormalObject, AWSClusters
<1>14. CASE ReconcileBucket
  <2>1. pc = "bucket" /\ ObjectStep(mem') /\ UNCHANGED obj /\ \E b : mem' = [mem EXCEPT !.ready = b]
    BY <1>14, <1>d DEF ReconcileBucket
  <2> QED BY <1>a, <2>1 DEF NormalObject, AWSClusters
<1> QED BY <1>1, <1>2, <1>3, <1>4, <1>5, <1>6, <1>7, <1>8, <1>9, <1>10, <1>11, <1>12, <1>13, <1>14
    DEF ReconcileNormalStep

\* A step of reconcileDelete adds nothing to the account, and takes each part away in
\* the step of its service only.  It does not touch a VPC that the user brought.
DeleteAccount ==
    /\ pc \in DeleteLabels /\ pc' \in DeleteLabels \cup {"close"}
    /\ UNCHANGED <<spec, cache, base, tasks>>
    /\ loc.err => loc'.err
    /\ IF pc = "delVpc" THEN aws'.vpcs \in {aws.vpcs, aws.vpcs \ {mem.vpc}}
                        ELSE aws'.vpcs = aws.vpcs
    /\ aws'.subnets \subseteq aws.subnets /\ aws'.routed \subseteq aws.routed
    /\ mem.vpc = ByoVpc => aws'.subnets = aws.subnets /\ aws'.routed = aws.routed
    /\ aws'.gateways \subseteq aws.gateways
    /\ \A g \in Igws : aws'.igws[g] = "attached" => aws.igws[g] = "attached"
    /\ \A e \in Eips : aws.eips[e] = "free" => aws'.eips[e] = "free"
    /\ aws'.sgs \subseteq aws.sgs /\ aws'.services \subseteq aws.services
    /\ aws'.bastion = "up" => aws.bastion = "up"
    /\ aws'.lb = "up" => aws.lb = "up"
    /\ aws'.lbName = aws.lbName

\* A step of DeleteNetwork brings the account to one of the states it names.
LEMMA NetworkEffect ==
    ASSUME NEW label, NEW skip, NEW a, NEW P, NEW next, NetworkStep(label, skip, a, P, next),
           loc \in Locals
    PROVE  /\ pc = label /\ pc' \in {next, "deleted"} /\ UNCHANGED <<spec, obj, cache, mem, base, tasks>>
           /\ aws' = aws \/ (~skip /\ aws' \in P \cup {a})
           /\ loc' = loc \/ loc' = [loc EXCEPT !.err = TRUE]
           /\ loc.err => loc'.err
           /\ ~loc'.err => /\ pc' = next
                           /\ skip => aws' = aws
                           /\ ~skip => aws' = a
BY DEF NetworkStep, Call, Locals

\* What AWS refuses,
LEMMA RefusedEffect ==
    ASSUME NEW label, NEW P, Refused(label, P), loc \in Locals
    PROVE  /\ pc = label /\ pc' = "deleted" /\ UNCHANGED <<spec, obj, cache, mem, base, tasks>>
           /\ aws' \in P /\ loc'.err /\ loc' = [loc EXCEPT !.err = TRUE]
BY DEF Refused, Locals

\* Every step of reconcileDelete is such a step.
LEMMA DeleteAccountStep ==
    ASSUME TypeInv, ReconcileDeleteStep
    PROVE  DeleteAccount
<1>a. aws \in Accounts /\ Zones \cap {"free", "idle"} = {}
      /\ aws.igws \in [Igws -> {"none", "detached", "attached"}]
      /\ aws.eips \in [Eips -> {"free", "idle"} \cup Zones]
  BY AccountFields
<1>b. loc \in Locals
  BY TypeFacts
<1> USE DEF DeleteLabels
<1>0. ASSUME aws' = aws, UNCHANGED <<spec, cache, base, tasks>>, loc.err => loc'.err,
             pc \in DeleteLabels, pc' \in DeleteLabels \cup {"close"}
      PROVE  DeleteAccount
  BY <1>0 DEF DeleteAccount
<1>e. loc' = loc \/ loc' = [loc EXCEPT !.err = TRUE] => (loc.err => loc'.err)
  BY <1>b DEF Locals
<1>1. CASE waitBastion \/ describeNetwork \/ removeFinalizer
  BY <1>0, <1>1, <1>e DEF waitBastion, describeNetwork, removeFinalizer, PatchObject
<1>2. CASE describeClusterOwnedSecurityGroups
  <2>1. loc.err => loc'.err
    BY <1>2, <1>b DEF describeClusterOwnedSecurityGroups, Locals
  <2> QED BY <1>0, <1>2, <2>1 DEF describeClusterOwnedSecurityGroups
<1>3. CASE DeleteBucket
  <2>1. /\ pc = "delBucket" /\ UNCHANGED <<spec, cache, base, tasks>> /\ pc' = "delLB"
        /\ aws' = aws \/ aws' = [aws EXCEPT !.bucket = FALSE]
        /\ loc' = loc \/ loc' = [loc EXCEPT !.err = TRUE]
    BY <1>3 DEF DeleteBucket, Call
  <2> QED BY <1>a, <1>e, <2>1 DEF DeleteAccount, Accounts
<1>4. CASE DeleteLoadbalancers
  <2> DEFINE Lost(a, S) == [a EXCEPT !.services = S]
             w == [aws EXCEPT !.lb = "draining", !.served = FALSE]
  <2>1. /\ pc = "delLB" /\ UNCHANGED <<spec, cache, base, tasks>> /\ pc' = "delBastion"
        /\ loc' = loc \/ loc' = [loc EXCEPT !.err = TRUE]
        /\ \/ aws' = aws \/ aws' = w
           \/ aws' = [aws EXCEPT !.services = @ \ {"elb"}]
           \/ aws' = [w EXCEPT !.services = @ \ {"elb"}]
           \/ aws' = [aws EXCEPT !.served = FALSE, !.looseTGs = @ + 1]
           \/ aws' = [aws EXCEPT !.served = FALSE]
    BY <1>4 DEF DeleteLoadbalancers, Call, HalfDeletedLBs, WithoutServiceELBs, Draining
  <2>2. CASE aws' = aws
    BY <1>a, <1>e, <2>1, <2>2 DEF DeleteAccount, Accounts
  <2>7. CASE aws' = w
    BY <1>a, <1>e, <2>1, <2>7 DEF DeleteAccount, Accounts
  <2>3. CASE aws' = [aws EXCEPT !.services = @ \ {"elb"}]
    BY <1>a, <1>e, <2>1, <2>3 DEF DeleteAccount, Accounts
  <2>4. CASE aws' = [w EXCEPT !.services = @ \ {"elb"}]
    BY <1>a, <1>e, <2>1, <2>4 DEF DeleteAccount, Accounts
  <2>5. CASE aws' = [aws EXCEPT !.served = FALSE, !.looseTGs = @ + 1]
    BY <1>a, <1>e, <2>1, <2>5 DEF DeleteAccount, Accounts
  <2>6. CASE aws' = [aws EXCEPT !.served = FALSE]
    BY <1>a, <1>e, <2>1, <2>6 DEF DeleteAccount, Accounts
  <2> QED BY <2>1, <2>2, <2>3, <2>4, <2>5, <2>6, <2>7
<1>5. CASE DeleteBastion
  <2>1. /\ pc = "delBastion" /\ UNCHANGED <<spec, cache, base, tasks>>
        /\ pc' \in {"delSGs", "waitBastion"}
        /\ aws' = aws \/ aws' = [aws EXCEPT !.bastion = "terminating"]
        /\ loc' = loc \/ loc' = [loc EXCEPT !.err = TRUE]
    BY <1>5 DEF DeleteBastion, Call
  <2> QED BY <1>a, <1>e, <2>1 DEF DeleteAccount, Accounts
<1>6. CASE deleteSecurityGroup
  <2>1. /\ pc = "delSG" /\ UNCHANGED <<spec, cache, base, tasks>> /\ pc' \in {"gc", "delSG"}
        /\ \/ aws' = aws
           \/ \E r : \/ aws' = [aws EXCEPT !.ruled = @ \ {r}]
                     \/ aws' = [[aws EXCEPT !.ruled = @ \ {r}] EXCEPT !.sgs = @ \ {r}]
    BY <1>6 DEF deleteSecurityGroup, Revoked
  <2>2. loc.err => loc'.err
    BY <1>6, <1>b DEF deleteSecurityGroup, Locals
  <2>3. CASE aws' = aws
    BY <1>0, <2>1, <2>2, <2>3
  <2>4. ASSUME NEW r, aws' = [aws EXCEPT !.ruled = @ \ {r}] PROVE DeleteAccount
    BY <1>a, <2>1, <2>2, <2>4 DEF DeleteAccount, Accounts
  <2>5. ASSUME NEW r, aws' = [[aws EXCEPT !.ruled = @ \ {r}] EXCEPT !.sgs = @ \ {r}]
        PROVE  DeleteAccount
    BY <1>a, <2>1, <2>2, <2>5 DEF DeleteAccount, Accounts
  <2> QED BY <2>1, <2>3, <2>4, <2>5
<1>7. CASE gcReconcileDelete \/ gcDeleteTargetGroups \/ gcDeleteSecurityGroups
  <2>1. /\ pc \in {"gc", "gcTargetGroups", "gcSecurityGroups"}
        /\ UNCHANGED <<spec, cache, base, tasks>>
        /\ pc' \in {"gcTargetGroups", "gcSecurityGroups", "delNetwork"}
        /\ aws' = aws \/ \E S : aws' = [aws EXCEPT !.services = @ \ S]
        /\ loc' = loc \/ loc' = [loc EXCEPT !.err = TRUE]
    BY <1>7 DEF gcReconcileDelete, gcDeleteTargetGroups, gcDeleteSecurityGroups, Cleanup, Call
  <2> QED BY <1>a, <1>e, <2>1 DEF DeleteAccount, Accounts
<1>8. CASE deleteVPCEndpoints \/ deleteGateways
  <2>1. /\ pc \in {"delEndpoints", "delGateways"} /\ UNCHANGED <<spec, cache, base, tasks>>
        /\ pc' \in {"delRoutes", "delSubnets", "deleted"}
        /\ aws' = aws \/ \E S : aws' = [aws EXCEPT !.gateways = @ \ S]
        /\ loc.err => loc'.err
    <3>1. CASE deleteVPCEndpoints
      <4> DEFINE a == [aws EXCEPT !.gateways = @ \ {"endpoint"}]
      <4>1. NetworkStep("delEndpoints", NoVPC, a, {}, "delRoutes")
        BY <3>1 DEF deleteVPCEndpoints
      <4>2. aws' = aws \/ aws' = a
        BY <1>b, <4>1, NetworkEffect
      <4>3. /\ pc = "delEndpoints" /\ UNCHANGED <<spec, cache, base, tasks>>
            /\ pc' \in {"delRoutes", "deleted"} /\ (loc.err => loc'.err)
        BY <1>b, <4>1, NetworkEffect
      <4> QED BY <4>2, <4>3
    <3>2. CASE deleteGateways
      <4> DEFINE G == {g \in {"carrier", "egress"} : IF g = "carrier" THEN mem.cagw ELSE mem.ipv6}
                 a == [aws EXCEPT !.gateways = @ \ G]
      <4>1. NetworkStep("delGateways", NoVPC, a, {}, "delSubnets")
        BY <3>2 DEF deleteGateways
      <4>2. aws' = aws \/ aws' = a
        BY <1>b, <4>1, NetworkEffect
      <4>3. /\ pc = "delGateways" /\ UNCHANGED <<spec, cache, base, tasks>>
            /\ pc' \in {"delSubnets", "deleted"} /\ (loc.err => loc'.err)
        BY <1>b, <4>1, NetworkEffect
      <4> QED BY <4>2, <4>3
    <3> QED BY <1>8, <3>1, <3>2
  <2> QED BY <1>a, <2>1 DEF DeleteAccount, Accounts
<1>9. CASE deleteRouteTables
  <2> DEFINE a == [aws EXCEPT !.routed = {}, !.looseTables = 0]
             P == {[aws EXCEPT !.routed = R] : R \in SUBSET aws.routed}
  <2>1. NetworkStep("delRoutes", NoVPC, a, P, "delNats")
    BY <1>9 DEF deleteRouteTables
  <2>2. /\ pc = "delRoutes" /\ UNCHANGED <<spec, cache, base, tasks>>
        /\ pc' \in {"delNats", "deleted"} /\ (loc.err => loc'.err)
        /\ aws' = aws \/ (~NoVPC /\ aws' \in P \cup {a})
    <3> HIDE DEF a, P
    <3> QED BY <1>b, <2>1, NetworkEffect
  <2>3. CASE aws' = aws
    BY <1>0, <2>2, <2>3
  <2>4. ASSUME NEW R \in SUBSET aws.routed, aws' = [aws EXCEPT !.routed = R], ~NoVPC
        PROVE  DeleteAccount
    BY <1>a, <2>2, <2>4 DEF DeleteAccount, Accounts, NoVPC, IsUnmanaged
  <2>5. CASE aws' = a /\ ~NoVPC
    BY <1>a, <2>2, <2>5 DEF DeleteAccount, Accounts, NoVPC, IsUnmanaged
  <2> QED BY <2>2, <2>3, <2>4, <2>5
<1>10. CASE deleteNatGateways
  <2> DEFINE zones == {z \in Zones : PublicSubnet(z) \in mem.subnets /\ HasNat(z)}
             without(gone) == [aws EXCEPT !.eips =
                                 [e \in Eips |-> IF e \in gone THEN "idle" ELSE @[e]]]
  <2>1. PICK nat \in [zones -> Eips] :
          /\ \A z \in zones : aws.eips[nat[z]] = z
          /\ NetworkStep("delNats", NoVPC \/ zones = {}, without({nat[z] : z \in zones}),
                      {without({nat[z] : z \in Z}) : Z \in SUBSET zones}, "delAddresses")
    BY <1>10 DEF deleteNatGateways
  <2>2. /\ pc = "delNats" /\ UNCHANGED <<spec, cache, base, tasks>>
        /\ pc' \in {"delAddresses", "deleted"} /\ (loc.err => loc'.err)
        /\ \/ aws' = aws
           \/ aws' \in {without({nat[z] : z \in Z}) : Z \in SUBSET zones} \cup {without({nat[z] : z \in zones})}
    <3> DEFINE a == without({nat[z] : z \in zones})
               P == {without({nat[z] : z \in Z}) : Z \in SUBSET zones}
    <3>1. NetworkStep("delNats", NoVPC \/ zones = {}, a, P, "delAddresses")
      BY <2>1
    <3>2. /\ pc = "delNats" /\ UNCHANGED <<spec, cache, base, tasks>>
          /\ pc' \in {"delAddresses", "deleted"} /\ (loc.err => loc'.err)
          /\ aws' = aws \/ aws' \in P \cup {a}
      <4> HIDE DEF a, P, zones
      <4> QED BY <1>b, <3>1, NetworkEffect
    <3> QED BY <3>2
  <2>3. CASE aws' = aws
    BY <1>0, <2>2, <2>3
  <2>4. ASSUME NEW Z \in SUBSET zones, aws' = without({nat[z] : z \in Z})
        PROVE  DeleteAccount
    <3>1. \A e \in Eips : aws.eips[e] = "free" => e \notin {nat[z] : z \in Z}
      BY <1>a, <2>1, <2>4
    <3>2. aws'.eips = [e \in Eips |-> IF e \in {nat[z] : z \in Z} THEN "idle" ELSE aws.eips[e]]
      BY <1>a, <2>4 DEF Accounts
    <3>3. \A e \in Eips : aws.eips[e] = "free" => aws'.eips[e] = "free"
      BY <3>1, <3>2
    <3>4. \E f : aws' = [aws EXCEPT !.eips = f]
      BY <2>4
    <3> QED BY <1>a, <2>2, <3>3, <3>4 DEF DeleteAccount, Accounts
  <2> QED BY <2>2, <2>3, <2>4
<1>11. CASE releaseAddresses
  <2>1. /\ pc = "delAddresses" /\ UNCHANGED <<spec, cache, base, tasks>>
        /\ pc' \in {"delIgw", "deleted"} /\ (loc.err => loc'.err)
        /\ aws' = aws \/ \E E : aws' = Without(E)
    <3> DEFINE P == {Without(E) : E \in SUBSET Idle}
    <3>1. CASE NetworkStep("delAddresses", Idle = {}, Without(Idle), P, "delIgw")
      <4>1. aws' = aws \/ aws' \in P \cup {Without(Idle)}
        <5> HIDE DEF P
        <5> QED BY <1>b, <3>1, NetworkEffect
      <4>2. /\ pc = "delAddresses" /\ UNCHANGED <<spec, cache, base, tasks>>
            /\ pc' \in {"delIgw", "deleted"} /\ (loc.err => loc'.err)
        <5> HIDE DEF P
        <5> QED BY <1>b, <3>1, NetworkEffect
      <4> QED BY <4>1, <4>2
    <3>2. CASE Refused("delAddresses", P)
      BY <1>b, <3>2, RefusedEffect
    <3> QED BY <1>11, <3>1, <3>2 DEF releaseAddresses
  <2>2. CASE aws' = aws
    BY <1>0, <2>1, <2>2
  <2>3. ASSUME NEW E, aws' = Without(E) PROVE DeleteAccount
    <3>1. aws'.eips = [e \in Eips |-> IF e \in E THEN "free" ELSE aws.eips[e]]
      BY <1>a, <2>3 DEF Accounts, Without
    <3>2. \A e \in Eips : aws.eips[e] = "free" => aws'.eips[e] = "free"
      BY <3>1
    <3>3. \E f : aws' = [aws EXCEPT !.eips = f]
      BY <2>3 DEF Without
    <3> QED BY <1>a, <2>1, <3>2, <3>3 DEF DeleteAccount, Accounts
  <2> QED BY <2>1, <2>2, <2>3
<1>12. CASE deleteInternetGateways
  <2> DEFINE skip == NoVPC \/ Attached = {}
             w(x) == [aws EXCEPT !.igws = [g \in Igws |-> IF g \in Attached THEN x ELSE @[g]]]
  <2>1. \/ NetworkStep("delIgw", skip, w("none"), {w("detached")}, "delGateways")
        \/ Refused("delIgw", {aws})
    BY <1>12 DEF deleteInternetGateways
  <2>2. /\ pc = "delIgw" /\ UNCHANGED <<spec, cache, base, tasks>>
        /\ pc' \in {"delGateways", "deleted"} /\ (loc.err => loc'.err)
        /\ aws' \in {aws, w("none"), w("detached")}
    <3> DEFINE a == w("none")
               P == {w("detached")}
    <3>1. CASE NetworkStep("delIgw", skip, a, P, "delGateways")
      <4>1. /\ pc = "delIgw" /\ UNCHANGED <<spec, cache, base, tasks>>
            /\ pc' \in {"delGateways", "deleted"} /\ (loc.err => loc'.err)
            /\ aws' = aws \/ aws' \in P \cup {a}
        <5> HIDE DEF a, P, skip
        <5> QED BY <1>b, <3>1, NetworkEffect
      <4> QED BY <4>1
    <3>2. CASE Refused("delIgw", {aws})
      BY <1>b, <3>2, RefusedEffect
    <3> QED BY <2>1, <3>1, <3>2
  <2>3. CASE aws' = aws
    BY <1>0, <2>2, <2>3
  <2>4. ASSUME NEW x \in {"none", "detached"}, aws' = w(x) PROVE DeleteAccount
    <3>1. aws'.igws = [g \in Igws |-> IF g \in Attached THEN x ELSE aws.igws[g]]
      BY <1>a, <2>4 DEF Accounts
    <3>2. \A g \in Igws : aws'.igws[g] # "attached"
      BY <3>1 DEF Attached
    <3>3. \E f : aws' = [aws EXCEPT !.igws = f]
      BY <2>4
    <3> QED BY <1>a, <2>2, <3>2, <3>3 DEF DeleteAccount, Accounts
  <2> QED BY <2>2, <2>3, <2>4
<1>13. CASE deleteSubnets
  <2> DEFINE without(S) == [aws EXCEPT !.subnets = @ \ S, !.routed = @ \ S]
             P == {without(S) : S \in SUBSET aws.subnets}
             a == without(aws.subnets)
  <2>1. NetworkStep("delSubnets", SkipSubnets, a, P, "delVpc")
    BY <1>13 DEF deleteSubnets
  <2>2. /\ pc = "delSubnets" /\ UNCHANGED <<spec, cache, base, tasks>>
        /\ pc' \in {"delVpc", "deleted"} /\ (loc.err => loc'.err)
        /\ aws' = aws \/ (~SkipSubnets /\ aws' \in P \cup {a})
    <3> HIDE DEF a, P
    <3> QED BY <1>b, <2>1, NetworkEffect
  <2>3. CASE aws' = aws
    BY <1>0, <2>2, <2>3
  <2>4. ASSUME NEW S, aws' = without(S), ~SkipSubnets PROVE DeleteAccount
    BY <1>a, <2>2, <2>4 DEF DeleteAccount, Accounts, SkipSubnets, IsUnmanaged
  <2> QED BY <2>2, <2>3, <2>4
<1>14. CASE deleteVPC
  <2>1. /\ pc = "delVpc" /\ UNCHANGED <<spec, cache, base, tasks>>
        /\ pc' = "deleted" /\ (loc.err => loc'.err)
        /\ aws' = aws \/ aws' = [aws EXCEPT !.vpcs = @ \ {mem.vpc}]
    <3>1. CASE NetworkStep("delVpc", TRUE, aws, {}, "deleted")
      BY <1>b, <3>1, NetworkEffect
    <3>2. CASE NetworkStep("delVpc", FALSE, [aws EXCEPT !.vpcs = @ \ {mem.vpc}], {}, "deleted")
      <4> DEFINE a == [aws EXCEPT !.vpcs = @ \ {mem.vpc}]
                 no == FALSE
      <4>1. NetworkStep("delVpc", no, a, {}, "deleted")
        BY <3>2
      <4> HIDE DEF a, no
      <4>2. /\ pc = "delVpc" /\ UNCHANGED <<spec, cache, base, tasks>>
            /\ pc' = "deleted" /\ (loc.err => loc'.err) /\ (aws' = aws \/ aws' = a)
        BY <1>b, <4>1, NetworkEffect
      <4> QED BY <4>2 DEF a
    <3>3. CASE Refused("delVpc", {aws})
      BY <1>b, <3>3, RefusedEffect
    <3> QED BY <1>14, <3>1, <3>2, <3>3 DEF deleteVPC
  <2> QED BY <1>a, <2>1 DEF DeleteAccount, Accounts
<1> QED BY <1>1, <1>2, <1>3, <1>4, <1>5, <1>6, <1>7, <1>8, <1>9, <1>10, <1>11, <1>12, <1>13, <1>14
    DEF ReconcileDeleteStep

\* A step of reconcileDelete leaves the fields of the object alone, but for the finalizer,
\* which the last one takes away when no error was collected.
DeleteObject ==
    /\ mem'.deleting = mem.deleting /\ mem'.vpc = mem.vpc /\ mem'.subnets = mem.subnets
    /\ mem'.endpoint = mem.endpoint /\ mem'.ready = mem.ready
    /\ IF pc = "deleted"
       THEN pc' = "close" /\ mem'.finalizer = (mem.finalizer /\ loc.err) /\ UNCHANGED obj
       ELSE pc' # "close" /\ mem'.finalizer = mem.finalizer
    /\ ObjectStep(mem')

\* Every step of reconcileDelete does that to the object.
LEMMA DeleteObjectStep ==
    ASSUME TypeInv, ReconcileDeleteStep
    PROVE  DeleteObject
<1>a. mem \in AWSClusters /\ mem' \in AWSClusters
  <2>1. TypeInv'
    BY TypeStep DEF Next, Worker
  <2> QED BY <2>1, TypeFacts DEF TypeInv
<1>b. loc \in Locals
  BY TypeFacts
<1>d. UNCHANGED obj => ObjectStep(mem')
  BY DEF ObjectStep
<1>0. ASSUME UNCHANGED mem, pc # "deleted", pc' # "close",
             UNCHANGED obj \/ PatchFails(mem)
      PROVE  DeleteObject
  <2>1. PatchFails(mem) => ObjectStep(mem)
    BY <1>a, PatchStep
  <2> QED BY <1>0, <1>d, <2>1 DEF DeleteObject
<1>1. CASE DeleteBucket \/ DeleteLoadbalancers \/ DeleteBastion \/ waitBastion
           \/ describeClusterOwnedSecurityGroups
  BY <1>0, <1>1 DEF DeleteBucket, DeleteLoadbalancers, DeleteBastion, waitBastion,
     describeClusterOwnedSecurityGroups, Call
<1>2. CASE deleteSecurityGroup \/ gcReconcileDelete \/ gcDeleteTargetGroups \/ gcDeleteSecurityGroups
  BY <1>0, <1>2 DEF deleteSecurityGroup, gcReconcileDelete, gcDeleteTargetGroups,
     gcDeleteSecurityGroups, Cleanup, Call
<1>3. CASE describeNetwork
  <2>1. pc = "delNetwork" /\ pc' \in {"delEndpoints", "deleted"}
    BY <1>3 DEF describeNetwork, PatchObject
  <2>2. CASE UNCHANGED <<obj, mem>>
    BY <1>0, <2>1, <2>2
  <2>3. CASE /\ mem' = [mem EXCEPT !.cagw = FALSE, !.ipv6 = mem.vpc # None /\ aws.ipv6 = "associated"]
             /\ PatchSucceeds(mem') \/ PatchFails(mem')
    <3>1. ObjectStep(mem')
      BY <1>a, <2>3, PatchStep
    <3>2. /\ mem'.finalizer = mem.finalizer /\ mem'.vpc = mem.vpc /\ mem'.endpoint = mem.endpoint
          /\ mem'.subnets = mem.subnets /\ mem'.ready = mem.ready /\ mem'.deleting = mem.deleting
      BY <1>a, <2>3 DEF AWSClusters
    <3> QED BY <2>1, <3>1, <3>2 DEF DeleteObject
  <2> QED BY <1>3, <2>2, <2>3 DEF describeNetwork, PatchObject
<1>4. ASSUME NEW l \in DeleteLabels \ {"deleted"}, NEW s, NEW a, NEW P, NEW n \in DeleteLabels,
             NetworkStep(l, s, a, P, n)
      PROVE  DeleteObject
  <2>1. pc = l /\ pc' \in {n, "deleted"} /\ UNCHANGED <<obj, mem>>
    BY <1>4, <1>b, NetworkEffect
  <2>2. pc # "deleted" /\ pc' # "close"
    BY <2>1 DEF DeleteLabels
  <2> QED BY <1>0, <2>1, <2>2
<1>5. ASSUME NEW l \in DeleteLabels \ {"deleted"}, NEW P, Refused(l, P)
      PROVE  DeleteObject
  BY <1>0, <1>5, <1>b, RefusedEffect
<1>l. /\ {"delEndpoints", "delRoutes", "delNats", "delAddresses", "delIgw", "delGateways", "delSubnets",
          "delVpc"} \subseteq DeleteLabels \ {"deleted"}
      /\ "deleted" \in DeleteLabels
  BY DEF DeleteLabels
<1>6. CASE deleteVPCEndpoints \/ deleteRouteTables \/ deleteGateways \/ deleteSubnets
  BY <1>l, <1>4, <1>6 DEF deleteVPCEndpoints, deleteRouteTables, deleteGateways, deleteSubnets
<1>7. CASE deleteNatGateways \/ releaseAddresses \/ deleteInternetGateways
  BY <1>l, <1>4, <1>5, <1>7 DEF deleteNatGateways, releaseAddresses, deleteInternetGateways
<1>8. CASE deleteVPC
  <2> DEFINE yes == TRUE
             no == FALSE
  <2>1. \/ NetworkStep("delVpc", yes, aws, {}, "deleted")
        \/ NetworkStep("delVpc", no, [aws EXCEPT !.vpcs = @ \ {mem.vpc}], {}, "deleted")
        \/ Refused("delVpc", {aws})
    BY <1>8 DEF deleteVPC
  <2> HIDE DEF yes, no
  <2> QED BY <1>l, <1>4, <1>5, <2>1
<1>9. CASE removeFinalizer
  <2>1. /\ pc = "deleted" /\ pc' = "close" /\ UNCHANGED obj
        /\ mem' = [mem EXCEPT !.finalizer = mem.finalizer /\ loc.err]
    BY <1>9, <1>a, <1>b DEF removeFinalizer, AllDeleted, AWSClusters, Locals
  <2> QED BY <1>a, <1>d, <2>1 DEF DeleteObject, AWSClusters
<1> QED BY <1>1, <1>2, <1>3, <1>6, <1>7, <1>8, <1>9 DEF ReconcileDeleteStep

\* A goroutine of createNatGateways puts an idle address under the NAT gateway of a zone;
\* only the reconcile that waits for it moves on.
TaskAccount ==
    /\ UNCHANGED <<spec, obj, cache, mem, base>> /\ tasks' \subseteq tasks /\ tasks # {}
    /\ pc' = pc \/ (pc = "natWait" /\ pc' \in {"routes", "close"})
    /\ \A e \in Eips : \/ aws'.eips[e] = aws.eips[e]
                       \/ aws.eips[e] = "idle" /\ aws'.eips[e] \in Zones
    /\ \E f : aws' = [aws EXCEPT !.eips = f]
    /\ loc'.vpc = loc.vpc /\ loc'.groups = loc.groups /\ loc'.lb = loc.lb
    /\ loc'.err # loc.err => pc' = "close" /\ pc = "natWait"
    /\ \A z \in loc'.nats \ loc.nats : z \in Zones /\ \E e \in Eips : aws'.eips[e] = z

\* Every goroutine makes such a step.
LEMMA TaskAccountStep ==
    ASSUME TypeInv, NEW t \in tasks, createNatGateway(t)
    PROVE  TaskAccount
<1>a. /\ aws \in Accounts /\ Zones \cap {"free", "idle"} = {}
      /\ aws.eips \in [Eips -> {"free", "idle"} \cup Zones]
  BY AccountFields
<1>b. loc \in Locals /\ t[1] \in Zones /\ t[2] \in Eips
  BY TypeFacts DEF TypeInv
<1>c. loc.mine # {} => pc = "natWait"
  BY DEF TypeInv, OrderKept
<1> DEFINE a == [aws EXCEPT !.eips[t[2]] = t[1]]
<1>1. PICK ok \in BOOLEAN :
        /\ \/ ok /\ NatPossible(t[1], t[2]) /\ aws' = a
           \/ ~ok /\ (aws' = aws \/ (aws' = a /\ NatPossible(t[1], t[2])))
        /\ IF t \in loc.mine THEN NatAnswer(t, ok) ELSE UNCHANGED <<pc, loc>>
  BY DEF createNatGateway
<1>2. UNCHANGED <<spec, obj, cache, mem, base>> /\ tasks' = tasks \ {t}
  BY DEF createNatGateway
<1>3. aws' = aws \/ (aws' = a /\ aws.eips[t[2]] = "idle")
  BY <1>1 DEF NatPossible
<1>4. \A e \in Eips : \/ aws'.eips[e] = aws.eips[e]
                      \/ aws.eips[e] = "idle" /\ aws'.eips[e] \in Zones
  BY <1>a, <1>b, <1>3 DEF Accounts
<1>5. \E f : aws' = [aws EXCEPT !.eips = f]
  <2>1. aws = [aws EXCEPT !.eips = aws.eips]
    BY <1>a DEF Accounts
  <2>2. a = [aws EXCEPT !.eips = [aws.eips EXCEPT ![t[2]] = t[1]]]
    OBVIOUS
  <2> QED BY <1>3, <2>1, <2>2
<1>6. /\ pc' = pc \/ (pc = "natWait" /\ pc' \in {"routes", "close"})
      /\ loc'.vpc = loc.vpc /\ loc'.groups = loc.groups /\ loc'.lb = loc.lb
      /\ loc'.err # loc.err => pc' = "close" /\ pc = "natWait"
  BY <1>b, <1>c, <1>1 DEF NatAnswer, Locals
<1>7. \A z \in loc'.nats \ loc.nats : z \in Zones /\ \E e \in Eips : aws'.eips[e] = z
  <2>1. SUFFICES ASSUME NEW z \in loc'.nats \ loc.nats
                 PROVE  z \in Zones /\ \E e \in Eips : aws'.eips[e] = z
    OBVIOUS
  <2>2. ok /\ z = t[1]
    <3>1. \/ loc' = loc \/ loc' = [loc EXCEPT !.mine = {}, !.err = TRUE]
          \/ ok /\ loc' = [loc EXCEPT !.mine = @ \ {t}, !.nats = @ \cup {t[1]}]
      BY <1>1 DEF NatAnswer
    <3>2. CASE loc' = loc \/ loc' = [loc EXCEPT !.mine = {}, !.err = TRUE]
      BY <1>b, <2>1, <3>2 DEF Locals
    <3>3. CASE ok /\ loc' = [loc EXCEPT !.mine = @ \ {t}, !.nats = @ \cup {t[1]}]
      BY <1>b, <2>1, <3>3 DEF Locals
    <3> QED BY <3>1, <3>2, <3>3
  <2>3. aws' = a
    BY <1>1, <2>2
  <2>4. aws'.eips[t[2]] = t[1]
    BY <1>a, <1>b, <2>3 DEF Accounts
  <2> QED BY <1>b, <2>2, <2>4
<1> QED BY <1>2, <1>4, <1>5, <1>6, <1>7 DEF TaskAccount

\* What AWS does by itself takes things away only, but for the Services of a cluster that
\* is ready.
EnvironmentStep ==
    IPv6Associates \/ LBDrains \/ BastionTerminates \/ LBLost \/ ServiceCreated \/ ServiceDrains

\* Whatever AWS does, the object and the reconcile do not notice at once.
EnvironmentAccount ==
    /\ UNCHANGED <<spec, obj, cache, pc, mem, base, loc, tasks>>
    /\ aws'.vpcs = aws.vpcs /\ aws'.subnets = aws.subnets /\ aws'.routed = aws.routed
    /\ aws'.igws = aws.igws /\ aws'.gateways = aws.gateways /\ aws'.eips = aws.eips
    /\ aws'.sgs = aws.sgs /\ aws'.ruled = aws.ruled
    /\ (aws'.bastion = "up") = (aws.bastion = "up")
    /\ aws'.lb = "up" => aws.lb = "up"
    /\ aws'.lbName = aws.lbName
    /\ aws'.services \subseteq aws.services \/ (obj.ready /\ ~obj.deleting)

\* Every step of the environment is such a step.
LEMMA EnvironmentAccountStep ==
    ASSUME TypeInv, EnvironmentStep
    PROVE  EnvironmentAccount
<1>a. aws \in Accounts
  BY AccountFields
<1>1. CASE IPv6Associates
  BY <1>a, <1>1 DEF IPv6Associates, Environment, EnvironmentAccount, Accounts
<1>2. CASE LBDrains
  BY <1>a, <1>2 DEF LBDrains, Environment, EnvironmentAccount, Accounts
<1>3. CASE BastionTerminates
  BY <1>a, <1>3 DEF BastionTerminates, Environment, EnvironmentAccount, Accounts
<1>4. CASE LBLost
  <2>1. /\ \E x : aws' = [aws EXCEPT !.lb = "none", !.served = FALSE, !.looseTGs = x]
        /\ UNCHANGED <<spec, obj, cache, pc, mem, base, loc, tasks>>
    BY <1>4 DEF LBLost, Environment
  <2> QED BY <1>a, <2>1 DEF EnvironmentAccount, Accounts
<1>5. CASE ServiceCreated
  <2>1. /\ \E S : aws' = [aws EXCEPT !.services = S]
        /\ UNCHANGED <<spec, obj, cache, pc, mem, base, loc, tasks>> /\ obj.ready /\ ~obj.deleting
    BY <1>5 DEF ServiceCreated, Environment
  <2> QED BY <1>a, <2>1 DEF EnvironmentAccount, Accounts
<1>6. CASE ServiceDrains
  BY <1>a, <1>6 DEF ServiceDrains, Environment, EnvironmentAccount, Accounts
<1> QED BY <1>1, <1>2, <1>3, <1>4, <1>5, <1>6 DEF EnvironmentStep

\* The steps around a reconcile leave the account alone.
AroundStep == Reconcile \/ Close \/ Crash \/ CacheSync \/ DeleteAWSCluster

\* The kinds of steps there are.
LEMMA NextCases ==
    ASSUME [Next]_vars
    PROVE  \/ UNCHANGED vars \/ ReconcileNormalStep \/ ReconcileDeleteStep
           \/ \E t \in tasks : createNatGateway(t)
           \/ AroundStep \/ EnvironmentStep
BY DEF Next, Worker, AroundStep, EnvironmentStep

\* They do not touch the account.
LEMMA AroundAccount ==
    ASSUME AroundStep
    PROVE  UNCHANGED <<spec, aws>> /\ tasks' \subseteq tasks
BY DEF AroundStep, Reconcile, Close, Crash, CacheSync, DeleteAWSCluster

\* What any step does to the VPCs of the account.
LEMMA VpcsStep ==
    ASSUME TypeInv, [Next]_vars
    PROVE  /\ spec' = spec
           /\ \/ aws'.vpcs \subseteq aws.vpcs
              \/ aws.vpcs = {} /\ \E v \in Vpcs : aws'.vpcs = {v}
<1>1. CASE UNCHANGED vars \/ AroundStep
  BY <1>1, AroundAccount DEF vars
<1>2. CASE ReconcileNormalStep
  BY <1>2, NormalAccountStep DEF NormalAccount
<1>3. CASE ReconcileDeleteStep
  BY <1>3, DeleteAccountStep DEF DeleteAccount
<1>4. CASE \E t \in tasks : createNatGateway(t)
  <2>1. TaskAccount /\ aws \in Accounts
    BY <1>4, TaskAccountStep, AccountFields
  <2> QED BY <2>1 DEF TaskAccount, Accounts
<1>5. CASE EnvironmentStep
  BY <1>5, EnvironmentAccountStep DEF EnvironmentAccount
<1> QED BY <1>1, <1>2, <1>3, <1>4, <1>5, NextCases

\* The account has no VPC or one.
VpcInv == \E v : aws.vpcs \subseteq {v}

\* describeVPCByName is asked before CreateVpc: whatever answer or patch is lost, and
\* however stale the cache is, a cluster never has two VPCs.
THEOREM AtMostOneVPC == Spec => []OneVPC
<1>1. Init => VpcInv
  BY DEF Init, EmptyAccount, VpcInv
<1>2. TypeInv /\ VpcInv /\ [Next]_vars => VpcInv'
  BY VpcsStep DEF VpcInv
<1>3. VpcInv => OneVPC
  <2> SUFFICES ASSUME VpcInv PROVE Cardinality(aws.vpcs) <= 1
    BY DEF OneVPC
  <2>1. PICK v : aws.vpcs = {} \/ aws.vpcs = {v}
    BY DEF VpcInv
  <2>2. Cardinality({}) = 0 /\ Cardinality({v}) = 1
    BY FS_EmptySet, FS_Singleton
  <2> QED BY <2>1, <2>2
<1> QED BY <1>1, <1>2, <1>3, TypeInit, TypeStep, PTL DEF Spec

-----------------------------------------------------------------------------
(* A VPC the user brought *)

\* The steps that only the reconcile of a managed VPC reaches.
ManagedLabels == {"vpcIPv6", "vpcPatch", "createSubnets", "endpoints"} \cup NetworkLabels

\* The ids an object can have, by the kind of its VPC.
KnownIds == IF spec.vpc = "byo" THEN {ByoVpc} ELSE Vpcs \cup {None}

\* The id of a VPC that the user brought is in every copy of the object, so that
\* IsUnmanaged keeps every reconcile out of the network services.
KindInv ==
    /\ obj.vpc \in KnownIds /\ cache.vpc \in KnownIds
    /\ mem.vpc \in KnownIds /\ base.vpc \in KnownIds
    /\ spec.vpc = "byo" =>
         /\ pc \notin ManagedLabels /\ tasks = {}
         /\ aws.vpcs = {} /\ aws.gateways = {} /\ Attached = {}
         /\ aws.subnets = Subnets /\ aws.routed = Subnets
         /\ \A e \in Eips : aws.eips[e] = "free"

\* A new object has its kind.
LEMMA KindInit == Init => KindInv
<1> SUFFICES ASSUME Init PROVE KindInv
  OBVIOUS
<1>1. NewAWSCluster(spec).vpc \in KnownIds
  BY DEF NewAWSCluster, KnownIds
<1>2. spec.vpc = "byo" =>
        /\ aws.vpcs = {} /\ aws.gateways = {} /\ aws.subnets = Subnets /\ aws.routed = Subnets
        /\ \A g \in Igws : aws.igws[g] = "none"
        /\ \A e \in Eips : aws.eips[e] = "free"
  BY DEF Init, EmptyAccount
<1>3. tasks = {} /\ pc = "idle"
  BY DEF Init
<1>4. pc \notin ManagedLabels
  BY <1>3 DEF ManagedLabels, NetworkLabels
<1> QED BY <1>1, <1>2, <1>3, <1>4 DEF Init, KindInv, Attached

\* In the reconcile of an unmanaged VPC the network services are left out.
LEMMA UnmanagedPath ==
    ASSUME TypeInv, KindInv, spec.vpc = "byo", ReconcileNormalStep
    PROVE  pc' \notin ManagedLabels /\ tasks' = tasks
<1>a. mem.vpc = ByoVpc /\ ByoVpc # None /\ aws.vpcs = {} /\ pc \notin ManagedLabels
  BY ConstantsAssumption DEF KindInv, KnownIds
<1>1. pc' \notin ManagedLabels
  <2>1. ~(createVPC \/ createSubnet \/ reconcileVPCEndpoints)
    BY <1>a DEF createVPC, createSubnet, reconcileVPCEndpoints, ManagedLabels
  <2>2. describeVpcSubnets => pc' # "createSubnets"
    BY <1>a DEF describeVpcSubnets, IsUnmanaged
  <2> QED BY <1>a, <2>1, <2>2, NormalOrder DEF NormalPath, ManagedLabels, NetworkLabels
<1>2. tasks' = tasks
  <2>1. ~createNatGateways
    BY <1>a DEF createNatGateways, ManagedLabels, NetworkLabels
  <2> QED BY <2>1 DEF ReconcileNormalStep, addFinalizer, describeVPCByID, createVPC,
     describeNewIPv6VPC, patchVPC, defaultSubnets, describeVpcSubnets, createSubnet,
     reconcileInternetGateways, reconcileCarrierGateway, reconcileEgressOnlyInternetGateways,
     reconcileNatGateways, describeAddresses, allocateAddress, reconcileRouteTables,
     reconcileVPCEndpoints, createSecurityGroup, authorizeSecurityGroupIngressRules,
     ReconcileBastion, runBastion, getOrCreateLB, reconcileLB, ReconcileBucket, PatchObject
<1> QED BY <1>1, <1>2

\* Every step keeps the id of an unmanaged VPC and what the user brought with it.
LEMMA KindStep ==
    ASSUME TypeInv, KindInv, [Next]_vars
    PROVE  KindInv'
<1>a. /\ None # ByoVpc
      /\ loc.vpc \in Vpcs \cup {None}
      /\ spec' = spec
  BY ConstantsAssumption, TypeFacts, VpcsStep DEF Locals
<1>k. KnownIds' = KnownIds
  BY <1>a DEF KnownIds
<1>o. ASSUME ObjectStep(mem'), mem'.vpc \in KnownIds PROVE obj'.vpc \in KnownIds
  BY <1>o DEF ObjectStep, KindInv
<1>n. NewAWSCluster(spec).vpc \in KnownIds
  BY DEF NewAWSCluster, KnownIds
<1>1. CASE UNCHANGED vars
  BY <1>1 DEF vars, KindInv, KnownIds, Attached
<1>2. CASE ReconcileNormalStep
  <2>1. NormalAccount /\ NormalObject
    BY <1>2, NormalAccountStep, NormalObjectStep
  <2>2. mem'.vpc \in KnownIds
    <3>1. CASE mem'.vpc = mem.vpc
      BY <3>1 DEF KindInv
    <3>2. CASE pc = "vpc" /\ mem.vpc = None /\ mem'.vpc \in Vpcs
      BY <1>a, <3>2 DEF KindInv, KnownIds
    <3>3. CASE pc = "vpcIPv6" /\ mem'.vpc = loc.vpc
      BY <1>a, <3>3 DEF KindInv, KnownIds, ManagedLabels
    <3> QED BY <2>1, <3>1, <3>2, <3>3 DEF NormalObject
  <2>3. obj'.vpc \in KnownIds
    BY <1>o, <2>1, <2>2 DEF NormalObject
  <2>4. ASSUME spec.vpc = "byo"
        PROVE  /\ aws'.vpcs = {} /\ aws'.gateways = {} /\ aws'.subnets = Subnets
               /\ aws'.routed = Subnets /\ pc' \notin ManagedLabels /\ tasks' = {}
               /\ \A g \in Igws : aws'.igws[g] = aws.igws[g]
               /\ \A e \in Eips : aws'.eips[e] = aws.eips[e]
    <3>1. /\ pc \notin {"igw", "carrier", "egress", "endpoints", "allocate", "routes", "createSubnets"}
          /\ mem.vpc # None
      BY <1>a, <2>4 DEF KindInv, KnownIds, ManagedLabels, NetworkLabels
    <3>2. pc' \notin ManagedLabels /\ tasks' = tasks
      BY <1>2, <2>4, UnmanagedPath
    <3> QED BY <2>1, <2>4, <3>1, <3>2 DEF NormalAccount, KindInv
  <2> QED BY <1>a, <1>k, <2>1, <2>2, <2>3, <2>4 DEF KindInv, NormalAccount, Attached
<1>3. CASE ReconcileDeleteStep
  <2>1. DeleteAccount /\ DeleteObject
    BY <1>3, DeleteAccountStep, DeleteObjectStep
  <2>2. mem'.vpc \in KnownIds /\ obj'.vpc \in KnownIds
    BY <1>o, <2>1 DEF DeleteObject, KindInv
  <2>3. spec.vpc = "byo" =>
           /\ aws'.vpcs = {} /\ aws'.gateways = {} /\ aws'.subnets = Subnets
           /\ aws'.routed = Subnets /\ pc' \notin ManagedLabels /\ tasks' = {}
           /\ \A g \in Igws : aws'.igws[g] # "attached"
           /\ \A e \in Eips : aws'.eips[e] = "free"
    <3>1. pc' \notin ManagedLabels
      BY <2>1 DEF DeleteAccount, DeleteLabels, ManagedLabels, NetworkLabels
    <3>2. spec.vpc = "byo" => mem.vpc = ByoVpc
      BY DEF KindInv, KnownIds
    <3> QED BY <2>1, <3>1, <3>2 DEF DeleteAccount, KindInv, Attached
  <2> QED BY <1>a, <1>k, <2>1, <2>2, <2>3 DEF KindInv, DeleteAccount, Attached
<1>4. CASE \E t \in tasks : createNatGateway(t)
  <2>1. TaskAccount
    BY <1>4, TaskAccountStep
  <2>2. spec.vpc # "byo"
    BY <1>4 DEF KindInv
  <2> QED BY <1>a, <1>k, <2>1, <2>2 DEF KindInv, TaskAccount
<1>5. CASE EnvironmentStep
  <2>1. EnvironmentAccount
    BY <1>5, EnvironmentAccountStep
  <2> QED BY <1>a, <1>k, <2>1 DEF KindInv, EnvironmentAccount, Attached
<1>6. CASE AroundStep
  <2>1. UNCHANGED <<spec, aws>> /\ tasks' \subseteq tasks
    BY <1>6, AroundAccount
  <2>2. pc' \notin ManagedLabels \/ pc' = pc
    BY <1>6 DEF AroundStep, Reconcile, Close, Crash, CacheSync, DeleteAWSCluster, Done,
       ManagedLabels, NetworkLabels
  <2>3. obj'.vpc \in KnownIds
    <3>1. CASE Close
      <4>1. ObjectStep(mem)
        BY <3>1, PatchStep, TypeFacts DEF Close
      <4> QED BY <4>1 DEF ObjectStep, KindInv
    <3>2. CASE DeleteAWSCluster
      <4>1. obj'.vpc = obj.vpc
        BY <3>2, TypeFacts DEF DeleteAWSCluster, Collected, AWSClusters
      <4> QED BY <4>1 DEF KindInv
    <3>3. CASE Reconcile \/ Crash \/ CacheSync
      BY <3>3 DEF Reconcile, Crash, CacheSync, KindInv
    <3> QED BY <1>6, <3>1, <3>2, <3>3 DEF AroundStep
  <2>4. cache'.vpc \in KnownIds /\ mem'.vpc \in KnownIds /\ base'.vpc \in KnownIds
    BY <1>6, <1>n DEF AroundStep, Reconcile, Close, Crash, CacheSync, DeleteAWSCluster, Done, KindInv
  <2> QED BY <1>k, <2>1, <2>2, <2>3, <2>4 DEF KindInv, Attached
<1> QED BY <1>1, <1>2, <1>3, <1>4, <1>5, <1>6, NextCases

\* Neither ReconcileNetwork nor DeleteNetwork touches the subnets, the route tables or
\* the addresses of a user who brought the VPC, whatever fails and in whatever order.
THEOREM UnmanagedNetworkIsKept == Spec => []UnmanagedNetworkKept
<1>1. TypeInv /\ KindInv => UnmanagedNetworkKept
  <2> SUFFICES ASSUME TypeInv, KindInv, spec.vpc = "byo" PROVE aws.eips = [e \in Eips |-> "free"]
    BY DEF KindInv, UnmanagedNetworkKept
  <2> QED BY AccountFields DEF KindInv
<1>2. TypeInv /\ KindInv /\ [Next]_vars => KindInv'
  BY KindStep
<1> QED BY <1>1, <1>2, KindInit, TypeInit, TypeStep, PTL DEF Spec

-----------------------------------------------------------------------------
(* The object, what a reconcile holds of it, and the finalizer *)

\* With an informer cache that is never behind: the id of the VPC in the object is the one
\* the reconcile works with; a deleting reconcile holds the object as it is stored; the
\* finalizer is stored before anything else is done, and is there as long as the object
\* is; and a cluster without a finalizer was never ready, or is deleted.
SyncInv ==
    /\ pc # "idle" => obj.vpc = None \/ obj.vpc = mem.vpc
    /\ pc = "vpcIPv6" => mem.vpc = None
    /\ pc \in DeleteLabels => mem.deleting
    /\ pc \in NormalLabels \cup {"idle"} => ~mem.deleting
    /\ mem.deleting => /\ obj.exists /\ obj.deleting /\ obj.finalizer /\ base.finalizer
                       /\ obj.vpc = mem.vpc /\ base.vpc = mem.vpc
                       /\ mem.finalizer \/ pc = "close"
    /\ obj.exists = ~(obj.deleting /\ ~obj.finalizer)
    /\ base.finalizer => obj.finalizer
    /\ pc = "finalizer" => mem.finalizer = base.finalizer
    /\ pc \notin {"idle", "finalizer"} /\ ~mem.deleting => mem.finalizer
    /\ ~obj.finalizer => /\ pc \in {"idle", "finalizer", "close"}
                         /\ obj.deleting \/ (~obj.ready /\ ~mem.ready)
                         /\ ~base.ready

\* The three kinds of labels.
LEMMA LabelKinds ==
    /\ "idle" \notin NormalLabels /\ "close" \notin NormalLabels
    /\ "idle" \notin DeleteLabels /\ "close" \notin DeleteLabels
    /\ NormalLabels \cap DeleteLabels = {}
BY DEF NormalLabels, DeleteLabels, NetworkLabels, GroupLabels

\* Before the first reconcile nothing is held in memory.
LEMMA SyncInit == Init => SyncInv
<1> SUFFICES ASSUME Init PROVE SyncInv
  OBVIOUS
<1>1. /\ obj.exists = TRUE /\ obj.deleting = FALSE /\ obj.finalizer = FALSE /\ obj.ready = FALSE
      /\ mem.deleting = FALSE /\ mem.ready = FALSE /\ base.finalizer = FALSE /\ base.ready = FALSE
      /\ pc = "idle"
  BY DEF Init, NewAWSCluster
<1> QED BY <1>1, LabelKinds DEF SyncInv

\* A VPC that waits for its IPv6 block is not yet in the object.
LEMMA NewIPv6VPC ==
    ASSUME TypeInv, ReconcileNormalStep, pc' = "vpcIPv6"
    PROVE  mem.vpc = None /\ mem' = mem /\ loc'.vpc \in aws'.vpcs
<1>1. createVPC
  BY NormalOrder DEF NormalPath
<1>2. PICK v \in Vpcs : /\ loc' = [loc EXCEPT !.vpc = v] /\ mem.vpc = None /\ mem' = mem
                        /\ aws' = [aws EXCEPT !.vpcs = @ \cup {v},
                                     !.ipv6 = IF mem.ipv6 THEN "associating" ELSE @]
  BY <1>1 DEF createVPC, VPCFailed
<1>3. loc \in Locals /\ aws \in Accounts
  BY TypeFacts, AccountFields
<1>4. loc'.vpc = v /\ v \in aws'.vpcs
  BY <1>2, <1>3 DEF Locals, Accounts
<1> QED BY <1>2, <1>4

\* The finalizer is stored when the reconcile goes on to the VPC.
LEMMA FinalizerStored ==
    ASSUME TypeInv, SyncInv, ReconcileNormalStep, pc = "finalizer"
    PROVE  pc' \in {"vpc", "close"} /\ (pc' = "vpc" => obj'.finalizer) /\ UNCHANGED <<spec, aws>>
<1>a. mem \in AWSClusters /\ obj \in AWSClusters /\ base \in AWSClusters
  BY TypeFacts
<1>1. addFinalizer
  BY NormalOrder DEF NormalPath
<1>f. UNCHANGED <<spec, aws>>
  BY <1>1 DEF addFinalizer, PatchObject
<1>2. CASE mem.finalizer /\ UNCHANGED obj /\ pc' = "vpc"
  BY <1>2, <1>f DEF SyncInv
<1>3. CASE PatchObject(mem', "vpc", "close")
  <2>1. pc' = "close" \/ (pc' = "vpc" /\ PatchSucceeds(mem'))
    BY <1>3 DEF PatchObject
  <2>2. ASSUME PatchSucceeds(mem') PROVE obj'.finalizer
    <3>1. mem' \in AWSClusters /\ mem'.finalizer = TRUE
      BY <1>a, <1>1 DEF addFinalizer, AWSClusters
    <3>2. obj' = Patched(mem', TRUE, TRUE)
      BY <2>2 DEF PatchSucceeds
    <3>3. obj'.finalizer = IF mem'.finalizer # base.finalizer THEN mem'.finalizer ELSE obj.finalizer
      BY <3>1, <3>2, PatchType
    <3>4. CASE base.finalizer = TRUE
      BY <3>1, <3>3, <3>4 DEF SyncInv
    <3>5. CASE base.finalizer # TRUE
      BY <3>1, <3>3, <3>5
    <3> QED BY <3>4, <3>5
  <2> QED BY <1>f, <2>1, <2>2
<1> QED BY <1>1, <1>2, <1>3 DEF addFinalizer

\* A step of reconcileNormal keeps object, memory and finalizer in step.
LEMMA SyncStepNormal ==
    ASSUME TypeInv, SyncInv, ReconcileNormalStep
    PROVE  SyncInv'
<1>a. NormalAccount /\ NormalObject
  BY NormalAccountStep, NormalObjectStep
<1>b. /\ pc \in NormalLabels /\ pc' \in NormalLabels \cup {"close"} /\ base' = base
      /\ pc # "idle" /\ pc # "close" /\ pc' \notin DeleteLabels /\ pc' # "idle" /\ pc' # "finalizer"
  <2>1. pc' # "finalizer"
    BY NormalOrder DEF NormalPath
  <2> QED BY <1>a, <2>1, LabelKinds DEF NormalAccount
<1>c. ~mem.deleting /\ ~mem'.deleting
  BY <1>a, <1>b DEF SyncInv, NormalObject
<1>d. mem'.finalizer = TRUE
  <2>1. mem.finalizer \in BOOLEAN
    BY TypeFacts
  <2> QED BY <1>a, <1>b, <1>c, <2>1 DEF SyncInv, NormalObject
<1>1. obj'.vpc = None \/ obj'.vpc = mem'.vpc
  <2>1. obj.vpc = None \/ obj.vpc = mem.vpc
    BY <1>b DEF SyncInv
  <2>2. mem.vpc # None => mem'.vpc = mem.vpc
    BY <1>a DEF NormalObject, SyncInv
  <2>3. obj'.vpc = obj.vpc \/ obj'.vpc = mem'.vpc
    BY <1>a DEF NormalObject, ObjectStep
  <2> QED BY <2>1, <2>2, <2>3
<1>2. pc' = "vpcIPv6" => mem'.vpc = None
  BY NewIPv6VPC
<1>3. obj'.exists = ~(obj'.deleting /\ ~obj'.finalizer)
  BY <1>a DEF NormalObject, ObjectStep, SyncInv
<1>4. obj.finalizer => obj'.finalizer
  BY <1>a, <1>d DEF NormalObject, ObjectStep
<1>5. ~obj'.finalizer => pc' = "close"
  <2>1. CASE pc = "finalizer"
    BY <2>1, FinalizerStored
  <2>2. CASE pc # "finalizer"
    BY <1>b, <1>4, <2>2 DEF SyncInv
  <2> QED BY <2>1, <2>2
<1>6. ~obj'.finalizer => obj'.deleting \/ (~obj'.ready /\ ~mem'.ready)
  <2> SUFFICES ASSUME ~obj'.finalizer PROVE obj'.deleting \/ (~obj'.ready /\ ~mem'.ready)
    OBVIOUS
  <2>1. ~obj.finalizer /\ pc = "finalizer" /\ (obj.deleting \/ (~obj.ready /\ ~mem.ready))
    BY <1>4, <1>b DEF SyncInv
  <2>2. obj'.deleting = obj.deleting /\ mem'.ready = mem.ready
        /\ (obj'.ready = obj.ready \/ obj'.ready = mem'.ready)
    BY <1>a, <2>1 DEF NormalObject, ObjectStep
  <2> QED BY <2>1, <2>2
<1> QED BY <1>b, <1>c, <1>d, <1>1, <1>2, <1>3, <1>4, <1>5, <1>6 DEF SyncInv

\* So does a step of reconcileDelete.
LEMMA SyncStepDelete ==
    ASSUME TypeInv, SyncInv, ReconcileDeleteStep
    PROVE  SyncInv'
<1>a. DeleteAccount /\ DeleteObject
  BY DeleteAccountStep, DeleteObjectStep
<1>b. /\ pc \in DeleteLabels /\ pc' \in DeleteLabels \cup {"close"} /\ base' = base
      /\ pc # "idle" /\ pc # "close" /\ pc' \notin NormalLabels /\ pc' # "idle"
  BY <1>a, LabelKinds DEF DeleteAccount
<1>c. /\ mem.deleting /\ mem'.deleting /\ obj.exists /\ obj.deleting /\ obj.finalizer
      /\ base.finalizer /\ obj.vpc = mem.vpc /\ base.vpc = mem.vpc /\ mem.finalizer
      /\ mem'.vpc = mem.vpc
  BY <1>a, <1>b DEF SyncInv, DeleteObject
<1>f. mem.finalizer = base.finalizer /\ obj.finalizer = TRUE
  BY <1>c, TypeFacts DEF AWSClusters
<1>1. obj'.exists /\ obj'.deleting /\ obj'.finalizer /\ obj'.vpc = mem.vpc
      /\ obj'.exists = ~(obj'.deleting /\ ~obj'.finalizer)
  <2>1. CASE UNCHANGED obj
    BY <1>c, <2>1 DEF SyncInv
  <2>2. CASE obj' # obj
    <3>1. mem'.finalizer = mem.finalizer
      BY <1>a, <2>2 DEF DeleteObject
    <3>2. obj'.finalizer = obj.finalizer /\ obj'.vpc = obj.vpc
      BY <1>a, <1>c, <1>f, <2>2, <3>1 DEF DeleteObject, ObjectStep
    <3>3. obj'.deleting = obj.deleting /\ obj'.exists = ~(obj.deleting /\ ~obj'.finalizer)
      BY <1>a, <2>2 DEF DeleteObject, ObjectStep
    <3> QED BY <1>c, <1>f, <3>2, <3>3
  <2> QED BY <2>1, <2>2
<1>2. mem'.finalizer \/ pc' = "close"
  BY <1>a, <1>c DEF DeleteObject
<1>3. pc' # "finalizer" /\ pc' # "vpcIPv6"
  BY <1>b DEF DeleteLabels
<1> QED BY <1>b, <1>c, <1>1, <1>2, <1>3 DEF SyncInv

\* Every step keeps object, memory and finalizer in step.
LEMMA SyncStep ==
    ASSUME "stale" \notin FaultKinds, TypeInv, SyncInv, [Next]_vars
    PROVE  SyncInv'
<1>n. /\ NewAWSCluster(spec).deleting = FALSE /\ NewAWSCluster(spec).finalizer = FALSE
      /\ NewAWSCluster(spec).ready = FALSE
  BY DEF NewAWSCluster
<1>t. obj \in AWSClusters /\ mem \in AWSClusters /\ base \in AWSClusters
  BY TypeFacts
<1>1. CASE UNCHANGED vars
  BY <1>1 DEF vars, SyncInv
<1>2. CASE \E t \in tasks : createNatGateway(t)
  <2>1. /\ UNCHANGED <<obj, mem, base>>
        /\ pc' = pc \/ (pc = "natWait" /\ pc' \in {"routes", "close"})
    BY <1>2, TaskAccountStep DEF TaskAccount
  <2>2. "natWait" \in NormalLabels /\ "routes" \in NormalLabels
    BY DEF NormalLabels, NetworkLabels
  <2> QED BY <2>1, <2>2, LabelKinds DEF SyncInv
<1>3. CASE EnvironmentStep
  BY <1>3, EnvironmentAccountStep DEF EnvironmentAccount, SyncInv
<1>4. CASE CacheSync
  BY <1>4 DEF CacheSync, SyncInv
<1>5. CASE Crash
  <2>1. UNCHANGED obj /\ pc' = "idle" /\ mem' = NewAWSCluster(spec) /\ base' = NewAWSCluster(spec)
    BY <1>5 DEF Crash, Done
  <2> QED BY <1>n, <2>1, LabelKinds DEF SyncInv
<1>6. CASE DeleteAWSCluster
  <2>1. /\ obj'.deleting = TRUE /\ obj'.finalizer = obj.finalizer /\ obj'.vpc = obj.vpc
        /\ obj'.exists = ~(~obj.finalizer) /\ ~obj.deleting
        /\ UNCHANGED <<pc, mem, base>>
    BY <1>6, <1>t DEF DeleteAWSCluster, Collected, AWSClusters
  <2> QED BY <1>t, <2>1 DEF SyncInv, AWSClusters
<1>7. CASE Reconcile
  <2>1. /\ obj.exists /\ mem' = obj /\ base' = obj /\ UNCHANGED obj
        /\ pc' = IF obj.deleting THEN "delBucket" ELSE "finalizer"
    BY <1>7 DEF Reconcile
  <2>2. "delBucket" \in DeleteLabels /\ "finalizer" \in NormalLabels
    BY DEF DeleteLabels, NormalLabels
  <2> QED BY <1>t, <2>1, <2>2, LabelKinds DEF SyncInv, AWSClusters
<1>8. CASE Close
  <2>1. ObjectStep(mem) /\ pc = "close" /\ pc' = "idle"
        /\ mem' = NewAWSCluster(spec) /\ base' = NewAWSCluster(spec)
    BY <1>8, <1>t, PatchStep DEF Close, Done
  <2>2. obj'.exists = ~(obj'.deleting /\ ~obj'.finalizer)
    BY <2>1 DEF ObjectStep, SyncInv
  <2>3. ~obj'.finalizer => obj'.deleting \/ ~obj'.ready
    <3>1. CASE mem.deleting
      BY <2>1, <3>1 DEF ObjectStep, SyncInv
    <3>2. CASE ~mem.deleting
      <4>1. mem.finalizer
        BY <2>1, <3>2 DEF SyncInv
      <4>2. ~obj'.finalizer => ~obj.finalizer
        BY <2>1, <4>1 DEF ObjectStep
      <4>3. obj'.deleting = obj.deleting /\ (obj'.ready = obj.ready \/ obj'.ready = mem.ready)
        BY <2>1 DEF ObjectStep
      <4> QED BY <4>2, <4>3 DEF SyncInv
    <3> QED BY <3>1, <3>2
  <2> QED BY <1>n, <2>1, <2>2, <2>3, LabelKinds DEF SyncInv
<1> QED BY <1>1, <1>2, <1>3, <1>4, <1>5, <1>6, <1>7, <1>8, NextCases, SyncStepNormal, SyncStepDelete
    DEF AroundStep

-----------------------------------------------------------------------------
(* Deleting a cluster *)

\* The order in which reconcileDelete tries the services.
DeletePath ==
    \/ DeleteBucket /\ pc = "delBucket" /\ pc' = "delLB"
    \/ DeleteLoadbalancers /\ pc = "delLB" /\ pc' = "delBastion"
    \/ DeleteBastion /\ pc = "delBastion" /\ pc' \in {"delSGs", "waitBastion"}
    \/ waitBastion /\ pc = "waitBastion" /\ pc' = "delSGs"
    \/ describeClusterOwnedSecurityGroups /\ pc = "delSGs" /\ pc' \in {"gc", "delSG"}
    \/ deleteSecurityGroup /\ pc = "delSG" /\ pc' \in {"gc", "delSG"}
    \/ gcReconcileDelete /\ pc = "gc" /\ pc' \in {"gcTargetGroups", "delNetwork"}
    \/ gcDeleteTargetGroups /\ pc = "gcTargetGroups" /\ pc' \in {"gcSecurityGroups", "delNetwork"}
    \/ gcDeleteSecurityGroups /\ pc = "gcSecurityGroups" /\ pc' = "delNetwork"
    \/ describeNetwork /\ pc = "delNetwork" /\ pc' \in {"delEndpoints", "deleted"}
    \/ deleteVPCEndpoints /\ pc = "delEndpoints" /\ pc' \in {"delRoutes", "deleted"}
    \/ deleteRouteTables /\ pc = "delRoutes" /\ pc' \in {"delNats", "deleted"}
    \/ deleteNatGateways /\ pc = "delNats" /\ pc' \in {"delAddresses", "deleted"}
    \/ releaseAddresses /\ pc = "delAddresses" /\ pc' \in {"delIgw", "deleted"}
    \/ deleteInternetGateways /\ pc = "delIgw" /\ pc' \in {"delGateways", "deleted"}
    \/ deleteGateways /\ pc = "delGateways" /\ pc' \in {"delSubnets", "deleted"}
    \/ deleteSubnets /\ pc = "delSubnets" /\ pc' \in {"delVpc", "deleted"}
    \/ deleteVPC /\ pc = "delVpc" /\ pc' = "deleted"
    \/ removeFinalizer /\ pc = "deleted" /\ pc' = "close"

\* The order is the one in which the code calls the services.
LEMMA DeleteOrder ==
    ASSUME ReconcileDeleteStep
    PROVE  DeletePath
<1>1. DeleteBucket => pc = "delBucket" /\ pc' = "delLB"
  BY DEF DeleteBucket, Call
<1>2. DeleteLoadbalancers => pc = "delLB" /\ pc' = "delBastion"
  BY DEF DeleteLoadbalancers, Call
<1>3. DeleteBastion => pc = "delBastion" /\ pc' \in {"delSGs", "waitBastion"}
  BY DEF DeleteBastion, Call
<1>4. waitBastion => pc = "waitBastion" /\ pc' = "delSGs"
  BY DEF waitBastion
<1>5. describeClusterOwnedSecurityGroups => pc = "delSGs" /\ pc' \in {"gc", "delSG"}
  BY DEF describeClusterOwnedSecurityGroups
<1>6. deleteSecurityGroup => pc = "delSG" /\ pc' \in {"gc", "delSG"}
  BY DEF deleteSecurityGroup
<1>7. /\ gcReconcileDelete => pc = "gc" /\ pc' \in {"gcTargetGroups", "delNetwork"}
      /\ gcDeleteTargetGroups => pc = "gcTargetGroups" /\ pc' \in {"gcSecurityGroups", "delNetwork"}
      /\ gcDeleteSecurityGroups => pc = "gcSecurityGroups" /\ pc' = "delNetwork"
  BY DEF gcReconcileDelete, gcDeleteTargetGroups, gcDeleteSecurityGroups, Cleanup, Call
<1>8. /\ describeNetwork => pc = "delNetwork" /\ pc' \in {"delEndpoints", "deleted"}
      /\ removeFinalizer => pc = "deleted" /\ pc' = "close"
  BY DEF describeNetwork, PatchObject, removeFinalizer
<1>9. /\ deleteVPCEndpoints => pc = "delEndpoints" /\ pc' \in {"delRoutes", "deleted"}
      /\ deleteRouteTables => pc = "delRoutes" /\ pc' \in {"delNats", "deleted"}
      /\ deleteGateways => pc = "delGateways" /\ pc' \in {"delSubnets", "deleted"}
      /\ deleteSubnets => pc = "delSubnets" /\ pc' \in {"delVpc", "deleted"}
  BY DEF deleteVPCEndpoints, deleteRouteTables, deleteGateways, deleteSubnets, NetworkStep, Call
<1>10. /\ deleteNatGateways => pc = "delNats" /\ pc' \in {"delAddresses", "deleted"}
       /\ releaseAddresses => pc = "delAddresses" /\ pc' \in {"delIgw", "deleted"}
       /\ deleteInternetGateways => pc = "delIgw" /\ pc' \in {"delGateways", "deleted"}
       /\ deleteVPC => pc = "delVpc" /\ pc' = "deleted"
  BY DEF deleteNatGateways, releaseAddresses, deleteInternetGateways, deleteVPC, NetworkStep,
     Refused, Call
<1> QED BY <1>1, <1>2, <1>3, <1>4, <1>5, <1>6, <1>7, <1>8, <1>9, <1>10
    DEF ReconcileDeleteStep, DeletePath

\* Nothing is added to the account: only a reconcile that is not deleting adds something,
\* and the workload cluster while the cluster is ready.
Shrinks ==
    /\ spec' = spec /\ aws'.vpcs \subseteq aws.vpcs
    /\ aws'.subnets \subseteq aws.subnets /\ aws'.routed \subseteq aws.routed
    /\ aws'.gateways \subseteq aws.gateways /\ aws'.sgs \subseteq aws.sgs
    /\ aws'.services \subseteq aws.services
    /\ \A g \in Igws : aws'.igws[g] = "attached" => aws.igws[g] = "attached"
    /\ (\A e \in Eips : aws.eips[e] = "free") => (\A e \in Eips : aws'.eips[e] = "free")
    /\ aws'.bastion = "up" => aws.bastion = "up"
    /\ aws'.lb = "up" => aws.lb = "up"

\* Every step but those of reconcileNormal takes away only.
LEMMA ShrinksStep ==
    ASSUME TypeInv, [Next]_vars, ~ReconcileNormalStep, obj.deleting \/ ~obj.ready
    PROVE  Shrinks
<1>1. CASE UNCHANGED vars \/ AroundStep
  BY <1>1, AroundAccount DEF vars, Shrinks
<1>2. CASE ReconcileDeleteStep
  BY <1>2, DeleteAccountStep DEF DeleteAccount, Shrinks
<1>3. CASE \E t \in tasks : createNatGateway(t)
  <2>1. TaskAccount /\ aws \in Accounts
    BY <1>3, TaskAccountStep, AccountFields
  <2>2. (\A e \in Eips : aws.eips[e] = "free") => (\A e \in Eips : aws'.eips[e] = "free")
    BY <2>1 DEF TaskAccount
  <2>3. PICK f : aws' = [aws EXCEPT !.eips = f]
    BY <2>1 DEF TaskAccount
  <2>4. /\ aws'.vpcs = aws.vpcs /\ aws'.subnets = aws.subnets /\ aws'.routed = aws.routed
        /\ aws'.gateways = aws.gateways /\ aws'.sgs = aws.sgs /\ aws'.services = aws.services
        /\ aws'.igws = aws.igws /\ aws'.bastion = aws.bastion /\ aws'.lb = aws.lb
    BY <2>1, <2>3 DEF Accounts
  <2>5. spec' = spec
    BY <2>1 DEF TaskAccount
  <2> QED BY <2>2, <2>4, <2>5 DEF Shrinks
<1>4. CASE EnvironmentStep
  BY <1>4, EnvironmentAccountStep DEF EnvironmentAccount, Shrinks
<1> QED BY <1>1, <1>2, <1>3, <1>4, NextCases

\* A managed network of which nothing is left.
NetGone ==
    /\ aws.subnets = {} /\ aws.routed = {} /\ aws.gateways = {} /\ Attached = {}
    /\ aws.sgs = {} /\ aws.services = {} /\ aws.vpcs = {}
    /\ \A e \in Eips : aws.eips[e] = "free"

\* What NoOrphanResources asks of the account.
Clean ==
    /\ aws.lb # "up" /\ aws.bastion # "up" /\ aws.sgs = {}
    /\ aws.vpcs = {} /\ Attached = {} /\ aws.gateways = {}
    /\ \A e \in Eips : aws.eips[e] = "free"
    /\ spec.vpc = "managed" => aws.subnets = {} /\ aws.routed = {}
    /\ spec.gc => aws.services \subseteq {"interfaces"}

\* What is gone stays gone.
LEMMA GoneStays ==
    ASSUME Shrinks
    PROVE  (NetGone => NetGone') /\ (Clean => Clean')
<1>1. Attached = {} => Attached' = {}
  BY DEF Attached, Shrinks
<1>2. NetGone => NetGone'
  BY <1>1 DEF NetGone, Shrinks
<1>3. Clean => Clean'
  BY <1>1 DEF Clean, Shrinks
<1> QED BY <1>2, <1>3

\* The steps of DeleteNetwork after releaseAddresses.
AfterAddresses == {"delIgw", "delGateways", "delSubnets", "delVpc"}

\* The id in the object and in the memory of a reconcile is that of the VPC there is; only
\* a deleted cluster has an id whose VPC is gone, and then its network is gone as well.
IdInv ==
    /\ obj.vpc \in Vpcs => aws.vpcs \subseteq {obj.vpc}
    /\ pc # "idle" /\ mem.vpc \in Vpcs => aws.vpcs \subseteq {mem.vpc}
    /\ pc \in NormalLabels \cup {"close"} /\ ~mem.deleting /\ mem.vpc \in Vpcs => mem.vpc \in aws.vpcs
    /\ pc = "vpcIPv6" => loc.vpc \in aws.vpcs
    /\ pc \in AfterAddresses => \A e \in Eips : aws.eips[e] = "free"
    /\ obj.vpc \in Vpcs \ aws.vpcs => obj.deleting /\ NetGone

\* A new object has no VPC.
LEMMA IdInit == Init => IdInv
<1> SUFFICES ASSUME Init PROVE IdInv
  OBVIOUS
<1>1. pc = "idle" /\ aws.vpcs = {} /\ obj.vpc \notin Vpcs
  BY ConstantsAssumption DEF Init, EmptyAccount, NewAWSCluster
<1> QED BY <1>1, LabelKinds DEF IdInv, AfterAddresses

\* reconcileNormal takes over the id of the VPC it found or made.
LEMMA IdStepNormal ==
    ASSUME TypeInv, VpcInv, SyncInv, SyncInv', IdInv, ReconcileNormalStep
    PROVE  IdInv'
<1>a. NormalAccount /\ NormalObject
  BY NormalAccountStep, NormalObjectStep
<1>b. /\ pc \in NormalLabels /\ pc' \in NormalLabels \cup {"close"}
      /\ pc # "idle" /\ pc' \notin DeleteLabels /\ pc' # "idle"
  BY <1>a, LabelKinds DEF NormalAccount
<1>c. ~mem.deleting /\ None \notin Vpcs
  BY <1>b, ConstantsAssumption DEF SyncInv
<1>1. ASSUME mem'.vpc \in Vpcs PROVE aws'.vpcs \subseteq {mem'.vpc} /\ mem'.vpc \in aws'.vpcs
  <2>1. CASE mem'.vpc = mem.vpc
    <3>1. aws'.vpcs = aws.vpcs
      BY <1>a, <1>c, <1>1, <2>1 DEF NormalAccount
    <3> QED BY <1>b, <1>c, <1>1, <2>1, <3>1 DEF IdInv
  <2>2. CASE aws'.vpcs = {mem'.vpc}
    BY <2>2
  <2>3. CASE pc = "vpcIPv6" /\ mem'.vpc = loc.vpc
    <3>1. aws'.vpcs = aws.vpcs /\ loc.vpc \in aws.vpcs
      BY <1>a, <2>3 DEF NormalAccount, IdInv
    <3> QED BY <2>3, <3>1 DEF VpcInv
  <2> QED BY <1>a, <2>1, <2>2, <2>3 DEF NormalObject
<1>2. obj'.vpc = None \/ obj'.vpc = mem'.vpc
  BY <1>b DEF SyncInv
<1>3. pc' = "vpcIPv6" => loc'.vpc \in aws'.vpcs
  BY NewIPv6VPC
<1>4. pc' \notin AfterAddresses
  BY <1>b DEF AfterAddresses, DeleteLabels
<1> QED BY <1>b, <1>c, <1>1, <1>2, <1>3, <1>4 DEF IdInv

\* releaseAddresses goes on only when no address is left.
LEMMA AddressesReleased ==
    ASSUME TypeInv, releaseAddresses, pc' = "delIgw"
    PROVE  \A e \in Eips : aws'.eips[e] = "free"
<1>a. aws \in Accounts /\ aws.eips \in [Eips -> {"free", "idle"} \cup Zones] /\ loc \in Locals
  BY AccountFields, TypeFacts
<1> DEFINE P == {Without(E) : E \in SUBSET Idle}
<1>1. InNat = {} /\ NetworkStep("delAddresses", Idle = {}, Without(Idle), P, "delIgw")
  BY DEF releaseAddresses, Refused
<1>2. (Idle = {} /\ aws' = aws) \/ aws' = Without(Idle)
  <2> HIDE DEF P
  <2> QED BY <1>1 DEF NetworkStep, Call
<1>3. \A e \in Eips : aws.eips[e] = "free" \/ e \in Idle
  BY <1>a, <1>1 DEF InNat, Idle
<1>4. CASE Idle = {} /\ aws' = aws
  BY <1>3, <1>4
<1>5. CASE aws' = Without(Idle)
  <2>1. aws'.eips = [e \in Eips |-> IF e \in Idle THEN "free" ELSE aws.eips[e]]
    BY <1>a, <1>5 DEF Accounts, Without
  <2> QED BY <1>3, <2>1
<1> QED BY <1>2, <1>4, <1>5

\* AWS deletes the VPC only when its network is gone.
LEMMA VPCDeleted ==
    ASSUME TypeInv, IdInv, deleteVPC, mem.vpc \in Vpcs, mem.vpc \in aws.vpcs,
           mem.vpc \notin aws'.vpcs
    PROVE  NetGone'
<1>a. aws \in Accounts /\ loc \in Locals
  BY AccountFields, TypeFacts
<1> DEFINE no == FALSE
           yes == TRUE
           a == [aws EXCEPT !.vpcs = @ \ {mem.vpc}]
<1>1. CASE NetworkStep("delVpc", yes, aws, {}, "deleted")
  <2> HIDE DEF yes
  <2>1. aws' = aws
    BY <1>a, <1>1, NetworkEffect
  <2> QED BY <2>1
<1>2. CASE ~VPCInUse /\ NetworkStep("delVpc", no, a, {}, "deleted")
  <2>1. pc = "delVpc" /\ (aws' = aws \/ aws' = a)
    <3> HIDE DEF no, a
    <3> QED BY <1>a, <1>2, NetworkEffect
  <2>2. aws' = a
    BY <2>1
  <2>3. /\ aws.subnets = {} /\ aws.routed = {} /\ aws.gateways = {} /\ Attached = {}
        /\ aws.sgs = {} /\ aws.services = {}
    BY <1>2 DEF VPCInUse
  <2>4. aws.vpcs = {mem.vpc} /\ \A e \in Eips : aws.eips[e] = "free"
    BY <2>1 DEF IdInv, AfterAddresses
  <2>5. /\ aws'.subnets = aws.subnets /\ aws'.routed = aws.routed /\ aws'.gateways = aws.gateways
        /\ aws'.igws = aws.igws /\ aws'.sgs = aws.sgs /\ aws'.services = aws.services
        /\ aws'.eips = aws.eips /\ aws'.vpcs = aws.vpcs \ {mem.vpc}
    BY <1>a, <2>2 DEF Accounts
  <2>6. aws'.vpcs = {}
    BY <2>4, <2>5
  <2> QED BY <2>3, <2>4, <2>5, <2>6 DEF NetGone, Attached
<1>3. CASE Refused("delVpc", {aws})
  BY <1>a, <1>3, RefusedEffect
<1> QED BY <1>1, <1>2, <1>3 DEF deleteVPC

\* reconcileDelete deletes that VPC after everything in it.
LEMMA IdStepDelete ==
    ASSUME TypeInv, SyncInv, SyncInv', IdInv, ReconcileDeleteStep
    PROVE  IdInv'
<1>a. DeleteAccount /\ DeleteObject /\ DeletePath
  BY DeleteAccountStep, DeleteObjectStep, DeleteOrder
<1>b. /\ pc \in DeleteLabels /\ pc' \in DeleteLabels \cup {"close"}
      /\ pc # "idle" /\ pc' \notin NormalLabels /\ pc' # "idle"
  BY <1>a, LabelKinds DEF DeleteAccount
<1>c. /\ mem.deleting /\ mem'.deleting /\ obj.deleting /\ obj'.deleting
      /\ obj.vpc = mem.vpc /\ obj'.vpc = mem.vpc /\ mem'.vpc = mem.vpc
  BY <1>a, <1>b DEF SyncInv, DeleteObject
<1>d. aws'.vpcs \subseteq aws.vpcs
  BY <1>a DEF DeleteAccount
<1>s. Shrinks
  <2>1. ~ReconcileNormalStep
    BY <1>b, LabelKinds, NormalAccountStep DEF NormalAccount
  <2> QED BY <1>c, <2>1, ShrinksStep DEF Next, Worker
<1>1. pc' \in AfterAddresses => \A e \in Eips : aws'.eips[e] = "free"
  <2> SUFFICES ASSUME pc' \in AfterAddresses PROVE \A e \in Eips : aws'.eips[e] = "free"
    OBVIOUS
  <2>1. pc \in AfterAddresses \/ (releaseAddresses /\ pc' = "delIgw")
    BY <1>a DEF DeletePath, AfterAddresses
  <2>2. CASE pc \in AfterAddresses
    BY <1>s, <2>2 DEF Shrinks, IdInv
  <2> QED BY <2>1, <2>2, AddressesReleased
<1>2. mem.vpc \in Vpcs /\ mem.vpc \notin aws'.vpcs => NetGone'
  <2>1. CASE mem.vpc \in Vpcs /\ mem.vpc \notin aws.vpcs
    BY <1>c, <1>s, <2>1, GoneStays DEF IdInv
  <2>2. CASE mem.vpc \in Vpcs /\ mem.vpc \in aws.vpcs /\ mem.vpc \notin aws'.vpcs
    <3>1. pc = "delVpc"
      BY <1>a, <2>2 DEF DeleteAccount
    <3>2. deleteVPC
      BY <1>a, <3>1 DEF DeletePath
    <3> QED BY <2>2, <3>2, VPCDeleted
  <2> QED BY <2>1, <2>2
<1>3. pc' # "vpcIPv6"
  BY <1>b DEF DeleteLabels
<1> QED BY <1>b, <1>c, <1>d, <1>1, <1>2, <1>3 DEF IdInv

\* Every step keeps the id and the VPC together.
LEMMA IdStep ==
    ASSUME "stale" \notin FaultKinds, TypeInv, VpcInv, SyncInv, SyncInv', IdInv, [Next]_vars
    PROVE  IdInv'
<1>t. obj \in AWSClusters /\ mem \in AWSClusters
  BY TypeFacts
<1>e. ASSUME NetGone, obj.deleting, ~ReconcileNormalStep PROVE NetGone'
  BY <1>e, ShrinksStep, GoneStays
<1>l. AfterAddresses \subseteq DeleteLabels
  BY DEF AfterAddresses, DeleteLabels
<1>n. ASSUME ReconcileNormalStep PROVE pc \in NormalLabels
  BY <1>n, NormalAccountStep DEF NormalAccount
<1>1. CASE UNCHANGED vars
  BY <1>1 DEF vars, IdInv, NetGone, Attached
<1>2. CASE ReconcileNormalStep
  BY <1>2, IdStepNormal
<1>3. CASE ReconcileDeleteStep
  BY <1>3, IdStepDelete
<1>4. CASE (\E t \in tasks : createNatGateway(t)) /\ ~ReconcileNormalStep
  <2>1. TaskAccount /\ aws \in Accounts
    BY <1>4, TaskAccountStep, AccountFields
  <2>2. /\ UNCHANGED <<obj, mem>> /\ loc'.vpc = loc.vpc
        /\ pc' = pc \/ (pc = "natWait" /\ pc' \in {"routes", "close"})
    BY <2>1 DEF TaskAccount
  <2>3. aws'.vpcs = aws.vpcs
    BY <2>1 DEF TaskAccount, Accounts
  <2>4. (\A e \in Eips : aws.eips[e] = "free") => (\A e \in Eips : aws'.eips[e] = "free")
    BY <2>1 DEF TaskAccount
  <2>5. "natWait" \in NormalLabels /\ {"routes", "close"} \cap AfterAddresses = {}
    BY DEF NormalLabels, NetworkLabels, AfterAddresses
  <2> QED BY <1>4, <1>e, <2>2, <2>3, <2>4, <2>5 DEF IdInv
<1>5. CASE EnvironmentStep /\ ~ReconcileNormalStep
  <2>1. UNCHANGED <<obj, mem, pc, loc>> /\ aws'.vpcs = aws.vpcs /\ aws'.eips = aws.eips
    BY <1>5, EnvironmentAccountStep DEF EnvironmentAccount
  <2> QED BY <1>5, <1>e, <2>1 DEF IdInv
<1>6. CASE AroundStep
  <2>0. UNCHANGED <<spec, aws>>
    BY <1>6, AroundAccount
  <2>1. NetGone => NetGone'
    BY <2>0 DEF NetGone, Attached
  <2>2. CASE CacheSync
    BY <2>0, <2>1, <2>2 DEF CacheSync, IdInv
  <2>3. CASE Crash
    <3>1. UNCHANGED obj /\ pc' = "idle"
      BY <2>3 DEF Crash, Done
    <3> QED BY <1>l, <2>0, <2>1, <3>1, LabelKinds DEF IdInv
  <2>4. CASE DeleteAWSCluster
    <3>1. obj'.vpc = obj.vpc /\ obj'.deleting = TRUE /\ UNCHANGED <<pc, mem, loc>>
      BY <2>4, <1>t DEF DeleteAWSCluster, Collected, AWSClusters
    <3> QED BY <2>0, <2>1, <3>1 DEF IdInv
  <2>5. CASE Reconcile
    <3>1. UNCHANGED obj /\ mem' = obj /\ pc' = IF obj.deleting THEN "delBucket" ELSE "finalizer"
      BY <2>5 DEF Reconcile
    <3>2. "delBucket" \notin NormalLabels \cup {"close"} /\ {"delBucket", "finalizer"} \cap AfterAddresses = {}
      BY DEF NormalLabels, NetworkLabels, GroupLabels, AfterAddresses
    <3> QED BY <2>0, <2>1, <3>1, <3>2 DEF IdInv
  <2>6. CASE Close
    <3>1. ObjectStep(mem) /\ pc = "close" /\ pc' = "idle"
      BY <2>6, <1>t, PatchStep DEF Close, Done
    <3>2. obj'.vpc = obj.vpc \/ obj'.vpc = mem.vpc
      BY <3>1 DEF ObjectStep
    <3>3. obj'.deleting = obj.deleting
      BY <3>1 DEF ObjectStep
    <3>4. CASE obj'.vpc = obj.vpc
      BY <1>l, <2>0, <2>1, <3>1, <3>3, <3>4, LabelKinds DEF IdInv
    <3>5. CASE obj'.vpc = mem.vpc /\ obj.vpc # mem.vpc
      <4>1. ~mem.deleting
        BY <3>5 DEF SyncInv
      <4> QED BY <1>l, <2>0, <2>1, <3>1, <3>5, <4>1, LabelKinds DEF IdInv
    <3> QED BY <3>2, <3>4, <3>5
  <2> QED BY <1>6, <2>2, <2>3, <2>4, <2>5, <2>6 DEF AroundStep
<1> QED BY <1>1, <1>2, <1>3, <1>4, <1>5, <1>6, NextCases

\* The services that come after the load balancer, the bastion, the security groups and
\* the garbage collection.
PastLB == DeleteLabels \ {"delBucket", "delLB"}
PastBastion == PastLB \ {"delBastion"}
PastSGs == PastBastion \ {"waitBastion", "delSGs", "delSG"}
PastGC == PastSGs \ {"gc", "gcTargetGroups", "gcSecurityGroups"}

\* What a reconcileDelete without an error has deleted so far.
DeletedSoFar ==
    /\ pc \in PastLB => aws.lb # "up"
    /\ pc \in PastBastion => aws.bastion # "up"
    /\ pc = "delSG" /\ mem.vpc # None => aws.sgs \subseteq loc.groups
    /\ pc \in PastSGs /\ mem.vpc # None => aws.sgs = {}
    /\ pc = "gcTargetGroups" /\ spec.gc => aws.services \subseteq {"tg", "sg", "interfaces"}
    /\ pc = "gcSecurityGroups" /\ spec.gc => aws.services \subseteq {"sg", "interfaces"}
    /\ pc \in PastGC /\ spec.gc => aws.services \subseteq {"interfaces"}
    /\ pc = "deleted" /\ mem.vpc \in Vpcs => NetGone

\* As long as no error was collected everything behind the reconcile is deleted, so that
\* nothing is left when the finalizer is taken away in memory, and then in the object.
DeletedInv ==
    /\ pc \in DeleteLabels /\ ~loc.err => DeletedSoFar
    /\ pc = "close" /\ mem.deleting /\ ~mem.finalizer /\ mem.vpc # None => Clean
    /\ ~obj.finalizer /\ obj.vpc # None => Clean

\* At first the object exists.
LEMMA DeletedInit == Init => DeletedInv
<1> SUFFICES ASSUME Init PROVE DeletedInv
  OBVIOUS
<1>1. pc = "idle" /\ (obj.vpc # None => spec.vpc = "byo")
  BY DEF Init, NewAWSCluster
<1>2. Clean \/ spec.vpc # "byo"
  BY DEF Init, EmptyAccount, Clean, Attached
<1> QED BY <1>1, <1>2, LabelKinds DEF DeletedInv

\* What a step of reconcileDelete leaves when it collects no error.
LEMMA ServicesDeleted ==
    ASSUME "codeless" \notin FaultKinds, TypeInv, SyncInv, IdInv, DeletedInv,
           ReconcileDeleteStep, ~loc.err, ~loc'.err
    PROVE  /\ pc = "delLB" => aws'.lb # "up"
           /\ pc = "delBastion" => aws'.bastion # "up"
           /\ pc = "delSGs" /\ mem.vpc # None =>
                IF pc' = "delSG" THEN aws'.sgs \subseteq loc'.groups ELSE aws'.sgs = {}
           /\ pc = "delSG" /\ mem.vpc # None =>
                IF pc' = "delSG" THEN aws'.sgs \subseteq loc'.groups ELSE aws'.sgs = {}
           /\ pc = "gc" /\ spec.gc =>
                pc' = "gcTargetGroups" /\ aws'.services \subseteq {"tg", "sg", "interfaces"}
           /\ pc = "gcTargetGroups" /\ spec.gc =>
                pc' = "gcSecurityGroups" /\ aws'.services \subseteq {"sg", "interfaces"}
           /\ pc = "gcSecurityGroups" /\ spec.gc => aws'.services \subseteq {"interfaces"}
<1>a. /\ aws \in Accounts /\ loc \in Locals /\ DeletePath
      /\ aws.services \subseteq {"elb", "lb", "tg", "sg", "interfaces"}
  BY AccountFields, TypeFacts, DeleteOrder
<1>e. loc' # [loc EXCEPT !.err = TRUE]
  BY <1>a DEF Locals
<1>d. pc \in DeleteLabels => DeletedSoFar
  BY DEF DeletedInv
<1>1. ASSUME pc = "delLB" PROVE aws'.lb # "up"
  <2>1. DeleteLoadbalancers
    BY <1>a, <1>1 DEF DeletePath
  <2> DEFINE w == IF aws.lb = "up" THEN Draining(aws) ELSE aws
  <2>2. aws' = WithoutServiceELBs(w)
    BY <1>e, <2>1 DEF DeleteLoadbalancers, Call
  <2>3. CASE aws.lb = "up"
    BY <1>a, <2>2, <2>3 DEF WithoutServiceELBs, Draining, Accounts
  <2>4. CASE aws.lb # "up"
    BY <1>a, <2>2, <2>4 DEF WithoutServiceELBs, Accounts
  <2> QED BY <2>3, <2>4
<1>2. ASSUME pc = "delBastion" PROVE aws'.bastion # "up"
  <2>1. DeleteBastion
    BY <1>a, <1>2 DEF DeletePath
  <2>2. (aws.bastion # "up" /\ aws' = aws) \/ aws' = [aws EXCEPT !.bastion = "terminating"]
    BY <1>e, <2>1 DEF DeleteBastion, Call
  <2> QED BY <1>a, <2>2 DEF Accounts
<1>3. ASSUME pc = "delSGs", mem.vpc # None
      PROVE  IF pc' = "delSG" THEN aws'.sgs \subseteq loc'.groups ELSE aws'.sgs = {}
  <2>1. describeClusterOwnedSecurityGroups
    BY <1>a, <1>3 DEF DeletePath
  <2>2. \/ aws.sgs = {} /\ aws' = aws /\ pc' = "gc"
        \/ pc' = "delSG" /\ aws' = aws /\ loc' = [loc EXCEPT !.groups = aws.sgs]
    BY <1>3, <1>e, <2>1 DEF describeClusterOwnedSecurityGroups
  <2> QED BY <1>a, <2>2 DEF Locals
<1>4. ASSUME pc = "delSG", mem.vpc # None
      PROVE  IF pc' = "delSG" THEN aws'.sgs \subseteq loc'.groups ELSE aws'.sgs = {}
  <2>1. deleteSecurityGroup
    BY <1>a, <1>4 DEF DeletePath
  <2>2. aws.sgs \subseteq loc.groups
    BY <1>4, <1>d DEF DeletedSoFar, DeleteLabels
  <2>3. ASSUME NEW r PROVE [[loc EXCEPT !.groups = @ \ {r}] EXCEPT !.err = TRUE].err
    BY <1>a DEF Locals
  <2>4. \/ loc.groups = {} /\ aws' = aws /\ pc' = "gc"
        \/ \E r : /\ pc' = "delSG" /\ loc' = [loc EXCEPT !.groups = @ \ {r}]
                  /\ aws' = [[aws EXCEPT !.ruled = @ \ {r}] EXCEPT !.sgs = @ \ {r}]
    BY <1>e, <2>1, <2>3 DEF deleteSecurityGroup, Revoked, Fault
  <2>5. CASE loc.groups = {} /\ aws' = aws /\ pc' = "gc"
    BY <2>2, <2>5
  <2>6. ASSUME NEW r, pc' = "delSG", loc' = [loc EXCEPT !.groups = @ \ {r}],
               aws' = [[aws EXCEPT !.ruled = @ \ {r}] EXCEPT !.sgs = @ \ {r}]
        PROVE  aws'.sgs \subseteq loc'.groups
    <3>1. aws'.sgs = aws.sgs \ {r} /\ loc'.groups = loc.groups \ {r}
      BY <1>a, <2>6 DEF Accounts, Locals
    <3> QED BY <2>2, <3>1
  <2> QED BY <2>4, <2>5, <2>6
<1>5. ASSUME pc = "gc", spec.gc
      PROVE  pc' = "gcTargetGroups" /\ aws'.services \subseteq {"tg", "sg", "interfaces"}
  <2>1. gcReconcileDelete
    BY <1>a, <1>5 DEF DeletePath
  <2>2. pc' = "gcTargetGroups" /\ aws' = [aws EXCEPT !.services = @ \ {"elb", "lb"}]
    BY <1>e, <1>5, <2>1 DEF gcReconcileDelete, Cleanup, Call
  <2>3. aws'.services = aws.services \ {"elb", "lb"}
    BY <1>a, <2>2 DEF Accounts
  <2> QED BY <1>a, <2>2, <2>3
<1>6. ASSUME pc = "gcTargetGroups", spec.gc
      PROVE  pc' = "gcSecurityGroups" /\ aws'.services \subseteq {"sg", "interfaces"}
  <2>1. gcDeleteTargetGroups /\ aws.services \subseteq {"tg", "sg", "interfaces"}
    BY <1>a, <1>d, <1>6 DEF DeletePath, DeletedSoFar, DeleteLabels
  <2>2. pc' = "gcSecurityGroups" /\ aws' = [aws EXCEPT !.services = @ \ {"tg"}]
    BY <1>e, <2>1 DEF gcDeleteTargetGroups, Cleanup, Call
  <2>3. aws'.services = aws.services \ {"tg"}
    BY <1>a, <2>2 DEF Accounts
  <2> QED BY <2>1, <2>2, <2>3
<1>7. ASSUME pc = "gcSecurityGroups", spec.gc PROVE aws'.services \subseteq {"interfaces"}
  <2>1. gcDeleteSecurityGroups /\ aws.services \subseteq {"sg", "interfaces"}
    BY <1>a, <1>d, <1>7 DEF DeletePath, DeletedSoFar, DeleteLabels
  <2>2. aws' = [aws EXCEPT !.services = @ \ {"sg"}]
    BY <1>e, <2>1 DEF gcDeleteSecurityGroups, Cleanup, Call
  <2>3. aws'.services = aws.services \ {"sg"}
    BY <1>a, <2>2 DEF Accounts
  <2> QED BY <2>1, <2>3
<1> QED BY <1>1, <1>2, <1>3, <1>4, <1>5, <1>6, <1>7

\* DeleteNetwork comes to its end without an error when the VPC is gone.
LEMMA NetworkDeleted ==
    ASSUME TypeInv, SyncInv, IdInv, IdInv', ReconcileDeleteStep, ~loc.err, ~loc'.err, pc' = "deleted",
           mem.vpc \in Vpcs
    PROVE  mem.vpc \notin aws'.vpcs
<1>a. /\ aws \in Accounts /\ loc \in Locals /\ DeletePath
      /\ None \notin Vpcs /\ ByoVpc \notin Vpcs
  BY AccountFields, TypeFacts, DeleteOrder, ConstantsAssumption
<1>e. loc' # [loc EXCEPT !.err = TRUE]
  BY <1>a DEF Locals
<1>1. CASE describeNetwork
  <2>1. mem.vpc \in Vpcs \ aws.vpcs /\ aws' = aws
    BY <1>1, <1>e, <1>a DEF describeNetwork, PatchObject
  <2> QED BY <2>1
<1>2. ASSUME NEW l, NEW s, NEW a, NEW P, NEW n, n # "deleted", NetworkStep(l, s, a, P, n)
      PROVE  FALSE
  BY <1>2, <1>a, NetworkEffect
<1>3. ASSUME NEW l, NEW P, Refused(l, P) PROVE FALSE
  BY <1>3, <1>a, RefusedEffect
<1>4. CASE deleteVPCEndpoints \/ deleteRouteTables \/ deleteGateways \/ deleteSubnets
  BY <1>2, <1>4 DEF deleteVPCEndpoints, deleteRouteTables, deleteGateways, deleteSubnets
<1>5. CASE deleteNatGateways \/ releaseAddresses \/ deleteInternetGateways
  BY <1>2, <1>3, <1>5 DEF deleteNatGateways, releaseAddresses, deleteInternetGateways
<1>6. CASE deleteVPC
  <2>1. ~NoVPC
    BY <1>a DEF NoVPC, IsUnmanaged
  <2> DEFINE no == FALSE
             a == [aws EXCEPT !.vpcs = @ \ {mem.vpc}]
  <2>2. NetworkStep("delVpc", no, a, {}, "deleted")
    BY <1>3, <1>6, <2>1 DEF deleteVPC
  <2>3. ~no
    OBVIOUS
  <2>4. aws' = a
    <3> HIDE DEF no, a
    <3> QED BY <1>a, <2>2, <2>3, NetworkEffect
  <2>5. aws'.vpcs = aws.vpcs \ {mem.vpc}
    BY <1>a, <2>4 DEF Accounts
  <2> QED BY <2>5
<1> QED BY <1>a, <1>1, <1>4, <1>5, <1>6 DEF DeletePath

\* A reconcile that has met no error has deleted what its services stand for.
LEMMA DeletedStepDelete ==
    ASSUME "codeless" \notin FaultKinds, TypeInv, KindInv, SyncInv, SyncInv', IdInv, IdInv',
           DeletedInv, ReconcileDeleteStep
    PROVE  DeletedInv'
<1>a. DeleteAccount /\ DeleteObject /\ DeletePath
  BY DeleteAccountStep, DeleteObjectStep, DeleteOrder
<1>b. /\ pc \in DeleteLabels /\ pc' \in DeleteLabels \cup {"close"}
      /\ pc # "idle" /\ pc' \notin NormalLabels /\ pc' # "idle"
  BY <1>a, LabelKinds DEF DeleteAccount
<1>c. /\ mem.deleting /\ mem'.deleting /\ obj.deleting /\ mem.finalizer /\ obj'.finalizer
      /\ obj'.vpc = mem.vpc /\ mem'.vpc = mem.vpc /\ spec' = spec
  BY <1>a, <1>b DEF SyncInv, DeleteObject, DeleteAccount
<1>d. pc = "close" => FALSE
  BY <1>b, LabelKinds
<1>s. Shrinks
  <2>1. ~ReconcileNormalStep
    BY <1>b, LabelKinds, NormalAccountStep DEF NormalAccount
  <2> QED BY <1>c, <2>1, ShrinksStep DEF Next, Worker
<1>1. ASSUME ~loc'.err, pc' \in DeleteLabels PROVE DeletedSoFar'
  <2>1. ~loc.err /\ DeletedSoFar
    BY <1>1, <1>a, <1>b DEF DeleteAccount, DeletedInv
  <2> USE DEF PastLB, PastBastion, PastSGs, PastGC, DeleteLabels
  <2>2. pc' \in PastLB => aws'.lb # "up"
    <3>1. pc' \in PastLB => pc \in PastLB \/ pc = "delLB"
      BY <1>a DEF DeletePath
    <3> QED BY <1>1, <1>s, <2>1, <3>1, ServicesDeleted DEF DeletedSoFar, Shrinks
  <2>3. pc' \in PastBastion => aws'.bastion # "up"
    <3>1. pc' \in PastBastion => pc \in PastBastion \/ pc = "delBastion"
      BY <1>a DEF DeletePath
    <3> QED BY <1>1, <1>s, <2>1, <3>1, ServicesDeleted DEF DeletedSoFar, Shrinks
  <2>4. pc' = "delSG" /\ mem.vpc # None => aws'.sgs \subseteq loc'.groups
    <3>1. pc' = "delSG" => pc \in {"delSGs", "delSG"}
      BY <1>a DEF DeletePath
    <3> QED BY <1>1, <2>1, <3>1, ServicesDeleted
  <2>5. pc' \in PastSGs /\ mem.vpc # None => aws'.sgs = {}
    <3>1. pc' \in PastSGs => pc \in PastSGs \/ (pc \in {"delSGs", "delSG"} /\ pc' # "delSG")
      BY <1>a DEF DeletePath
    <3>2. CASE pc' \in PastSGs /\ pc \in PastSGs
      BY <1>s, <2>1, <3>2 DEF DeletedSoFar, Shrinks
    <3>3. CASE pc \in {"delSGs", "delSG"} /\ pc' # "delSG"
      BY <1>1, <2>1, <3>3, ServicesDeleted
    <3> QED BY <3>1, <3>2, <3>3
  <2>6. /\ pc' = "gcTargetGroups" /\ spec.gc => aws'.services \subseteq {"tg", "sg", "interfaces"}
        /\ pc' = "gcSecurityGroups" /\ spec.gc => aws'.services \subseteq {"sg", "interfaces"}
    <3>1. /\ pc' = "gcTargetGroups" => pc = "gc"
          /\ pc' = "gcSecurityGroups" => pc = "gcTargetGroups"
      BY <1>a DEF DeletePath
    <3> QED BY <1>1, <2>1, <3>1, ServicesDeleted
  <2>7. pc' \in PastGC /\ spec.gc => aws'.services \subseteq {"interfaces"}
    <3>1. pc' \in PastGC => pc \in PastGC \cup {"gc", "gcTargetGroups", "gcSecurityGroups"}
      BY <1>a DEF DeletePath
    <3>2. CASE pc' \in PastGC /\ pc \in PastGC /\ spec.gc
      BY <1>s, <2>1, <3>2 DEF DeletedSoFar, Shrinks
    <3>3. CASE pc' \in PastGC /\ pc \in {"gc", "gcTargetGroups", "gcSecurityGroups"} /\ spec.gc
      BY <1>1, <2>1, <3>3, ServicesDeleted
    <3> QED BY <3>1, <3>2, <3>3
  <2>8. pc' = "deleted" /\ mem.vpc \in Vpcs => NetGone'
    <3>1. ASSUME pc' = "deleted", mem.vpc \in Vpcs PROVE mem.vpc \notin aws'.vpcs
      BY <1>1, <2>1, <3>1, NetworkDeleted
    <3> QED BY <1>c, <3>1 DEF IdInv
  <2> QED BY <1>c, <2>2, <2>3, <2>4, <2>5, <2>6, <2>7, <2>8 DEF DeletedSoFar
<1>2. ASSUME pc' = "close", ~mem'.finalizer, mem'.vpc # None PROVE Clean'
  <2>1. pc = "deleted" /\ ~loc.err
    BY <1>a, <1>c, <1>2 DEF DeleteObject
  <2>2. DeletedSoFar
    BY <1>b, <2>1 DEF DeletedInv
  <2>3. pc \in PastLB /\ pc \in PastBastion /\ pc \in PastSGs /\ pc \in PastGC
    BY <2>1 DEF PastLB, PastBastion, PastSGs, PastGC, DeleteLabels
  <2>4. aws.lb # "up" /\ aws.bastion # "up" /\ aws.sgs = {}
        /\ (spec.gc => aws.services \subseteq {"interfaces"})
    BY <1>c, <1>2, <2>2, <2>3 DEF DeletedSoFar
  <2>5. CASE mem.vpc \in Vpcs
    <3>1. NetGone
      BY <2>1, <2>2, <2>5 DEF DeletedSoFar
    <3>2. Clean
      BY <2>4, <3>1 DEF NetGone, Clean
    <3> QED BY <1>s, <3>2, GoneStays
  <2>6. CASE mem.vpc = ByoVpc
    <3>1. spec.vpc = "byo"
      BY <2>6, ConstantsAssumption DEF KindInv, KnownIds
    <3>2. Clean
      BY <2>4, <3>1 DEF KindInv, Clean
    <3> QED BY <1>s, <3>2, GoneStays
  <2>7. mem.vpc \in Vpcs \cup {ByoVpc, None}
    BY TypeFacts
  <2> QED BY <1>2, <1>c, <2>5, <2>6, <2>7
<1> QED BY <1>b, <1>c, <1>1, <1>2, LabelKinds DEF DeletedInv

\* A patch that leaves the object without a finalizer wrote nothing of the spec.
LEMMA NothingWritten ==
    ASSUME SyncInv, NEW m, ObjectStep(m), m.finalizer = TRUE, ~obj'.finalizer
    PROVE  ~obj.finalizer /\ obj'.vpc = obj.vpc
BY DEF SyncInv, ObjectStep

\* Every step keeps it deleted.
LEMMA DeletedStep ==
    ASSUME "codeless" \notin FaultKinds, "stale" \notin FaultKinds, TypeInv, KindInv, SyncInv,
           SyncInv', IdInv, IdInv', DeletedInv, [Next]_vars
    PROVE  DeletedInv'
<1>t. obj \in AWSClusters /\ mem \in AWSClusters /\ mem.finalizer \in BOOLEAN
  BY TypeFacts
<1>1. CASE UNCHANGED vars
  BY <1>1 DEF vars, DeletedInv, DeletedSoFar, Clean, NetGone, Attached
<1>2. CASE ReconcileDeleteStep
  BY <1>2, DeletedStepDelete
<1>3. CASE ReconcileNormalStep
  <2>1. NormalAccount /\ NormalObject
    BY <1>3, NormalAccountStep, NormalObjectStep
  <2>2. /\ pc \in NormalLabels /\ pc' \in NormalLabels \cup {"close"} /\ pc' \notin DeleteLabels
        /\ ~mem.deleting /\ ~mem'.deleting
    BY <2>1, LabelKinds DEF NormalAccount, NormalObject, SyncInv
  <2>3. ASSUME ~obj'.finalizer, obj'.vpc # None PROVE Clean'
    <3>1. mem'.finalizer = TRUE
      BY <1>t, <2>1, <2>2, LabelKinds DEF SyncInv, NormalObject
    <3>2. ~obj.finalizer /\ obj'.vpc = obj.vpc
      BY <2>1, <2>3, <3>1, NothingWritten DEF NormalObject
    <3>3. pc = "finalizer"
      BY <2>2, <3>2, LabelKinds DEF SyncInv
    <3>4. UNCHANGED <<spec, aws>>
      BY <1>3, <3>3, FinalizerStored
    <3> QED BY <2>3, <3>2, <3>4 DEF DeletedInv, Clean, Attached
  <2> QED BY <2>2, <2>3 DEF DeletedInv
<1>4. CASE ((\E t \in tasks : createNatGateway(t)) \/ EnvironmentStep) /\ ~ReconcileNormalStep
  <2>1. /\ UNCHANGED <<obj, mem>>
        /\ pc' = pc \/ (pc = "natWait" /\ pc' \in {"routes", "close"})
        /\ loc'.groups = loc.groups
        /\ loc'.err = loc.err \/ pc = "natWait"
    BY <1>4, TaskAccountStep, EnvironmentAccountStep DEF TaskAccount, EnvironmentAccount
  <2>2. "natWait" \in NormalLabels /\ {"routes", "close"} \cap DeleteLabels = {}
    BY DEF NormalLabels, NetworkLabels, DeleteLabels
  <2>3. pc \in DeleteLabels \/ mem.deleting => obj.deleting
    BY DEF SyncInv
  <2>4. obj.deleting \/ ~obj.ready => Shrinks
    BY <1>4, ShrinksStep
  <2>5. ASSUME pc' \in DeleteLabels, ~loc'.err PROVE DeletedSoFar'
    <3>1. pc' = pc /\ DeletedSoFar /\ Shrinks
      BY <2>1, <2>2, <2>3, <2>4, <2>5, LabelKinds DEF DeletedInv
    <3>2. NetGone => NetGone'
      BY <3>1, GoneStays
    <3> QED BY <2>1, <3>1, <3>2 DEF DeletedSoFar, Shrinks
  <2>6. ASSUME pc' = "close", mem'.deleting, ~mem'.finalizer, mem'.vpc # None PROVE Clean'
    <3>1. pc = "close"
      BY <2>1, <2>2, <2>6 DEF SyncInv
    <3> QED BY <2>1, <2>3, <2>4, <2>6, <3>1, GoneStays DEF DeletedInv
  <2>7. ASSUME ~obj'.finalizer, obj'.vpc # None PROVE Clean'
    <3>1. obj.deleting \/ ~obj.ready
      BY <2>1, <2>7 DEF SyncInv
    <3> QED BY <2>1, <2>4, <2>7, <3>1, GoneStays DEF DeletedInv
  <2> QED BY <2>5, <2>6, <2>7 DEF DeletedInv
<1>5. CASE AroundStep
  <2>0. UNCHANGED <<spec, aws>>
    BY <1>5, AroundAccount
  <2>c. Clean' = Clean /\ NetGone' = NetGone
    BY <2>0 DEF Clean, NetGone, Attached
  <2>2. CASE CacheSync
    <3>1. UNCHANGED <<obj, pc, mem, loc>>
      BY <2>2 DEF CacheSync
    <3> QED BY <2>0, <2>c, <3>1 DEF DeletedInv, DeletedSoFar
  <2>3. CASE Crash
    <3>1. UNCHANGED obj /\ pc' = "idle"
      BY <2>3 DEF Crash, Done
    <3> QED BY <2>c, <3>1, LabelKinds DEF DeletedInv
  <2>4. CASE DeleteAWSCluster
    <3>1. obj'.vpc = obj.vpc /\ obj'.finalizer = obj.finalizer /\ UNCHANGED <<pc, mem, loc>>
      BY <2>4, <1>t DEF DeleteAWSCluster, Collected, AWSClusters
    <3> QED BY <2>0, <2>c, <3>1 DEF DeletedInv, DeletedSoFar
  <2>5. CASE Reconcile
    <3>1. UNCHANGED obj /\ pc' \in {"delBucket", "finalizer"}
      BY <2>5 DEF Reconcile
    <3>2. "finalizer" \notin DeleteLabels /\ pc' # "close"
      BY <3>1 DEF DeleteLabels
    <3>3. pc' = "delBucket" => DeletedSoFar'
      BY DEF DeletedSoFar, PastLB, PastBastion, PastSGs, PastGC
    <3> QED BY <2>c, <3>1, <3>2, <3>3 DEF DeletedInv
  <2>6. CASE Close
    <3>1. ObjectStep(mem) /\ pc = "close" /\ pc' = "idle"
      BY <2>6, <1>t, PatchStep DEF Close, Done
    <3>2. ASSUME ~obj'.finalizer, obj'.vpc # None PROVE Clean
      <4>1. CASE mem.finalizer = TRUE
        BY <3>1, <3>2, <4>1, NothingWritten DEF DeletedInv
      <4>2. CASE mem.finalizer # TRUE
        <5>1. mem.deleting /\ ~mem.finalizer
          BY <1>t, <3>1, <4>2 DEF SyncInv
        <5>2. obj'.vpc = mem.vpc
          BY <3>1, <5>1 DEF SyncInv, ObjectStep
        <5> QED BY <3>1, <3>2, <5>1, <5>2 DEF DeletedInv
      <4> QED BY <4>1, <4>2
    <3> QED BY <2>c, <3>1, <3>2, LabelKinds DEF DeletedInv
  <2> QED BY <1>5, <2>2, <2>3, <2>4, <2>5, <2>6 DEF AroundStep
<1> QED BY <1>1, <1>2, <1>3, <1>4, <1>5, NextCases

\* reconcileDelete collects the errors of the services and takes the finalizer away only
\* without one: of a cluster whose VPC id was stored nothing is left once the object is
\* gone, whichever calls and patches fail and wherever the controller stops.  An informer
\* cache that is behind, and the errors without an API code that
\* IsIgnorableSecurityGroupError takes for none, are left out: with either something can
\* be left.
THEOREM ResourcesDeleted ==
    FaultKinds \cap {"stale", "codeless"} = {} => (Spec => []NoOrphanResources)
<1> SUFFICES ASSUME FaultKinds \cap {"stale", "codeless"} = {}
             PROVE  Spec => []NoOrphanResources
  OBVIOUS
<1>0. "stale" \notin FaultKinds /\ "codeless" \notin FaultKinds
  OBVIOUS
<1> DEFINE Inv == TypeInv /\ VpcInv /\ KindInv /\ SyncInv /\ IdInv /\ DeletedInv
<1>1. Init => Inv
  <2>1. Init => VpcInv
    BY DEF Init, EmptyAccount, VpcInv
  <2> QED BY <2>1, TypeInit, KindInit, SyncInit, IdInit, DeletedInit
<1>2. Inv /\ [Next]_vars => Inv'
  <2> SUFFICES ASSUME Inv, [Next]_vars PROVE Inv'
    OBVIOUS
  <2>1. TypeInv' /\ KindInv' /\ SyncInv'
    BY <1>0, TypeStep, KindStep, SyncStep
  <2>2. VpcInv'
    BY VpcsStep DEF VpcInv
  <2>3. IdInv'
    BY <1>0, <2>1, IdStep
  <2>4. DeletedInv'
    BY <1>0, <2>1, <2>3, DeletedStep
  <2> QED BY <2>1, <2>2, <2>3, <2>4
<1>3. Inv => NoOrphanResources
  <2>1. TypeInv /\ SyncInv => (~obj.exists => ~obj.finalizer)
    BY TypeFacts DEF SyncInv, AWSClusters
  <2> QED BY <2>1 DEF DeletedInv, Clean, NoOrphanResources
<1> QED BY <1>1, <1>2, <1>3, PTL DEF Spec

-----------------------------------------------------------------------------
(* A ready cluster *)

\* The account as a ready cluster needs it.
Provisioned ==
    /\ aws.subnets = Subnets /\ aws.routed = Subnets /\ aws.sgs = Roles /\ aws.ruled = Roles
    /\ spec.vpc = "managed" => Attached # {} /\ \A z \in Zones : HasNat(z)
    /\ spec.bastion => aws.bastion = "up"

\* The object as a ready cluster has it.
Published(m) == m.vpc # None /\ m.endpoint # None /\ m.finalizer /\ m.subnets = Subnets

\* A load balancer that is up has the name that is published.
SameName(m) == m.endpoint # None /\ aws.lb = "up" => aws.lbName = m.endpoint

\* The steps up to describing the subnets, those after all subnets are there, and those
\* after the VPC is known.
EarlyLabels == {"finalizer", "vpc", "vpcIPv6", "vpcPatch", "subnets", "describeSubnets"}
SubnetLabels == NetworkLabels \cup GroupLabels \cup {"endpoints"}
VpcLabels == {"vpcPatch", "subnets", "describeSubnets", "createSubnets"} \cup SubnetLabels

\* What reconcileNormal has provided when it gets to a service.
ProvidedSoFar ==
    /\ pc \in VpcLabels => mem.vpc # None
    /\ pc \in SubnetLabels => aws.subnets = Subnets /\ mem.subnets = Subnets
    /\ pc \in (NetworkLabels \ {"igw"}) \cup {"endpoints"} => Attached # {}
    /\ pc \in GroupLabels \cup {"endpoints"} =>
         /\ aws.routed = Subnets
         /\ spec.vpc = "managed" => Attached # {} /\ \A z \in Zones : HasNat(z)
    /\ pc \in GroupLabels \ {"sgs"} => aws.sgs = Roles
    /\ pc \in GroupLabels \ {"sgs", "rules"} => aws.ruled = Roles
    /\ pc \in {"lb", "lbServe", "bucket"} /\ spec.bastion => aws.bastion = "up"
    /\ pc = "lbServe" => loc.lb # None /\ (aws.lb = "up" => aws.lbName = loc.lb)
    /\ pc = "bucket" => mem.endpoint # None

\* How the object, its copy in memory and the base of the patches go together in a
\* reconcile that is not deleting.
CopiesInv ==
    /\ obj.ready = base.ready /\ obj.endpoint = base.endpoint
    /\ base.ready => mem.ready
    /\ obj.vpc = None => base.vpc = None
    /\ obj.subnets \in {base.subnets, Subnets}
    /\ mem.endpoint = base.endpoint \/ (base.endpoint = None /\ pc \in {"bucket", "close"})
    /\ pc \in NormalLabels => mem.ready = base.ready
    /\ pc \in EarlyLabels => mem.subnets = base.subnets

\* A cluster that says it is ready is provisioned: the object that is stored, and the one
\* that a reconcile will store.
ReadyInv ==
    /\ obj.ready /\ ~obj.deleting => Provisioned /\ Published(obj)
    /\ ~obj.deleting => SameName(obj)
    /\ pc # "idle" /\ ~mem.deleting =>
         /\ CopiesInv /\ ProvidedSoFar /\ SameName(mem)
         /\ mem.ready => Provisioned /\ Published(mem)
         /\ \A z \in loc.nats : HasNat(z)

\* What a reconcile that is not deleting has provided stays.
LEMMA ProvisionedStays ==
    ASSUME TypeInv, TypeInv', ReconcileNormalStep
    PROVE  /\ Attached # {} => Attached' # {}
           /\ \A z \in Zones : HasNat(z) => HasNat(z)'
           /\ aws.subnets = Subnets => aws'.subnets = Subnets
           /\ aws.routed = Subnets => aws'.routed = Subnets
           /\ aws.sgs = Roles => aws'.sgs = Roles
           /\ aws.ruled = Roles => aws'.ruled = Roles
           /\ Provisioned => Provisioned'
<1>a. NormalAccount /\ spec' = spec
  BY NormalAccountStep DEF NormalAccount
<1>b. /\ aws'.subnets \subseteq Subnets /\ aws'.routed \subseteq Subnets
      /\ aws'.sgs \subseteq Roles /\ aws'.ruled \subseteq Roles
  BY DEF TypeInv, Good, Accounts
<1>1. Attached # {} => Attached' # {}
  BY <1>a DEF NormalAccount, Attached
<1>2. \A z \in Zones : HasNat(z) => HasNat(z)'
  BY <1>a DEF NormalAccount, HasNat
<1>3. /\ aws.subnets = Subnets => aws'.subnets = Subnets
      /\ aws.routed = Subnets => aws'.routed = Subnets
      /\ aws.sgs = Roles => aws'.sgs = Roles
      /\ aws.ruled = Roles => aws'.ruled = Roles
  BY <1>a, <1>b DEF NormalAccount
<1>4. aws.bastion = "up" => aws'.bastion = "up"
  BY <1>a DEF NormalAccount
<1>5. Provisioned => Provisioned'
  BY <1>a, <1>1, <1>2, <1>3, <1>4 DEF Provisioned
<1> QED BY <1>1, <1>2, <1>3, <1>5

\* What the steps of reconcileNormal provide on the way to the next service: the network,
LEMMA NetworkProvided ==
    ASSUME TypeInv, KindInv, IdInv, ReconcileNormalStep
    PROVE  /\ pc \in {"vpc", "vpcIPv6"} /\ pc' \in {"subnets", "vpcPatch"} => mem'.vpc # None
           /\ pc = "describeSubnets" => mem'.subnets \in {mem.subnets, aws.subnets}
           /\ pc = "describeSubnets" /\ pc' # "close" =>
                mem'.subnets = aws.subnets /\ (pc' = "sgs" => mem.vpc = ByoVpc)
           /\ pc = "createSubnets" /\ mem.subnets = Subnets => mem'.subnets = Subnets
           /\ pc = "createSubnets" /\ pc' = "igw" => mem'.subnets = Subnets /\ aws'.subnets = Subnets
           /\ pc = "igw" /\ pc' = "carrier" => Attached' # {}
           /\ pc = "routes" /\ pc' = "endpoints" => aws'.routed = Subnets /\ loc.nats = Zones
<1>a. /\ aws \in Accounts /\ mem \in AWSClusters /\ NormalPath /\ None \notin Vpcs
      /\ aws.igws \in [Igws -> {"none", "detached", "attached"}] /\ aws.vpcs \subseteq Vpcs
      /\ aws.subnets \subseteq Subnets
  BY AccountFields, TypeFacts, NormalOrder, ConstantsAssumption
<1>1. ASSUME pc = "vpc", pc' \in {"subnets", "vpcPatch"} PROVE mem'.vpc # None
  <2>1. CASE describeVPCByID
    <3>1. mem.vpc # None
      BY <2>1 DEF describeVPCByID
    <3>2. mem' = WithVPC(mem.vpc) \/ mem' = [WithVPC(mem.vpc) EXCEPT !.vpcCond = TRUE]
      BY <1>1, <2>1 DEF describeVPCByID, VPCFailed
    <3> QED BY <1>a, <3>1, <3>2 DEF WithVPC, AWSClusters
  <2>2. CASE createVPC
    <3>1. \E v \in Vpcs : mem' = WithVPC(v) \/ mem' = [mem EXCEPT !.vpc = v]
      BY <1>a, <1>1, <2>2 DEF createVPC, VPCFailed, describeVPCByName
    <3> QED BY <1>a, <3>1 DEF WithVPC, AWSClusters
  <2> QED BY <1>a, <1>1, <2>1, <2>2 DEF NormalPath
<1>2. ASSUME pc = "vpcIPv6", pc' = "vpcPatch" PROVE mem'.vpc # None
  <2>1. describeNewIPv6VPC
    BY <1>a, <1>2 DEF NormalPath
  <2>2. mem' = [mem EXCEPT !.vpc = loc.vpc]
    BY <1>2, <2>1 DEF describeNewIPv6VPC, VPCFailed
  <2>3. loc.vpc \in Vpcs
    BY <1>a, <1>2 DEF IdInv
  <2> QED BY <1>a, <2>2, <2>3 DEF AWSClusters
<1>3. ASSUME pc = "describeSubnets"
      PROVE  /\ mem'.subnets \in {mem.subnets, aws.subnets}
             /\ pc' # "close" => mem'.subnets = aws.subnets /\ (pc' = "sgs" => mem.vpc = ByoVpc)
  <2>1. describeVpcSubnets
    BY <1>a, <1>3 DEF NormalPath
  <2>2. \/ mem' = mem /\ pc' = "close"
        \/ mem' = [mem EXCEPT !.subnets = aws.subnets] /\ (pc' = "sgs" => mem.vpc = ByoVpc)
    BY <2>1 DEF describeVpcSubnets, IsUnmanaged
  <2> QED BY <1>a, <2>2 DEF AWSClusters
<1>4. ASSUME pc = "createSubnets"
      PROVE  /\ mem.subnets = Subnets => mem'.subnets = Subnets
             /\ pc' = "igw" => mem'.subnets = Subnets /\ aws'.subnets = Subnets
  <2>1. createSubnet
    BY <1>a, <1>4 DEF NormalPath
  <2>2. \/ mem.subnets = Subnets /\ UNCHANGED <<aws, mem>>
        \/ pc' # "igw" /\ mem.subnets # Subnets
    BY <1>a, <2>1 DEF createSubnet
  <2>3. mem.subnets \subseteq aws.subnets
    BY <1>4 DEF TypeInv, OrderKept
  <2>4. CASE mem.subnets = Subnets /\ UNCHANGED <<aws, mem>>
    <3>1. aws.subnets = Subnets
      BY <1>a, <2>3, <2>4
    <3> QED BY <2>4, <3>1
  <2> QED BY <2>2, <2>4
<1>5. ASSUME pc = "igw", pc' = "carrier" PROVE Attached' # {}
  <2>1. reconcileInternetGateways
    BY <1>a, <1>5 DEF NormalPath
  <2>2. \/ Attached # {} /\ aws' = aws
        \/ \E g \in Igws : aws' = [aws EXCEPT !.igws[g] = "attached"]
    BY <1>5, <2>1 DEF reconcileInternetGateways, Call, WithIgw
  <2>3. ASSUME NEW g \in Igws, aws' = [aws EXCEPT !.igws[g] = "attached"] PROVE g \in Attached'
    BY <1>a, <2>3 DEF Attached, Accounts
  <2> QED BY <2>2, <2>3 DEF Attached
<1>6. ASSUME pc = "routes", pc' = "endpoints" PROVE aws'.routed = Subnets /\ loc.nats = Zones
  <2>1. reconcileRouteTables
    BY <1>a, <1>6 DEF NormalPath
  <2> QED BY <1>6, <2>1 DEF reconcileRouteTables
<1>7. pc = "vpcIPv6" => pc' # "subnets"
  BY <1>a DEF NormalPath
<1> QED BY <1>1, <1>2, <1>3, <1>4, <1>5, <1>6, <1>7

\* the groups, the bastion, the load balancer and the endpoint,
LEMMA ServicesProvided ==
    ASSUME TypeInv, ReconcileNormalStep
    PROVE  /\ pc = "sgs" /\ pc' = "rules" => aws'.sgs = Roles
           /\ pc = "rules" /\ pc' = "bastion" => aws'.ruled = Roles
           /\ pc \in {"bastion", "runBastion"} /\ pc' = "lb" /\ spec.bastion => aws'.bastion = "up"
           /\ pc = "lb" /\ aws'.lb = "up" =>
                \/ aws.lb = "up" /\ aws'.lbName = aws.lbName
                \/ mem.endpoint = None
           /\ pc = "lb" /\ pc' = "lbServe" => loc'.lb # None /\ aws'.lbName = loc'.lb
           /\ pc = "lbServe" => \/ mem'.endpoint = mem.endpoint /\ pc' = "close"
                                \/ mem'.endpoint = loc.lb /\ aws.lb = "up"
           /\ pc = "bucket" /\ mem.ready => mem'.ready
<1>a. /\ aws \in Accounts /\ mem \in AWSClusters /\ loc \in Locals /\ NormalPath /\ None \notin Lbs
      /\ (aws.lb = "up" => aws.lbName \in Lbs)
  BY AccountFields, TypeFacts, NormalOrder, ConstantsAssumption
<1>1. ASSUME pc = "sgs", pc' = "rules" PROVE aws'.sgs = Roles
  <2>1. createSecurityGroup
    BY <1>a, <1>1 DEF NormalPath
  <2> QED BY <1>1, <2>1 DEF createSecurityGroup, Call
<1>2. ASSUME pc = "rules", pc' = "bastion" PROVE aws'.ruled = Roles
  <2>1. authorizeSecurityGroupIngressRules
    BY <1>a, <1>2 DEF NormalPath
  <2> QED BY <1>2, <2>1 DEF authorizeSecurityGroupIngressRules, Call
<1>3. ASSUME pc \in {"bastion", "runBastion"}, pc' = "lb", spec.bastion PROVE aws'.bastion = "up"
  <2>1. CASE ReconcileBastion
    BY <1>3, <2>1 DEF ReconcileBastion, PatchObject
  <2>2. CASE runBastion
    <3>1. aws' = [aws EXCEPT !.bastion = "up"]
      BY <1>3, <2>2 DEF runBastion, Call
    <3> QED BY <1>a, <3>1 DEF Accounts
  <2> QED BY <1>a, <1>3, <2>1, <2>2 DEF NormalPath
<1>4. ASSUME pc = "lb"
      PROVE  /\ aws'.lb = "up" => \/ aws.lb = "up" /\ aws'.lbName = aws.lbName
                                  \/ mem.endpoint = None
             /\ pc' = "lbServe" => loc'.lb # None /\ aws'.lbName = loc'.lb
  <2>1. getOrCreateLB
    BY <1>a, <1>4 DEF NormalPath
  <2>2. \/ aws' = aws /\ pc' # "lbServe"
        \/ aws.lb = "up" /\ aws' = aws /\ loc' = [loc EXCEPT !.lb = aws.lbName]
        \/ \E l \in Lbs : /\ mem.endpoint = None
                          /\ aws' = [aws EXCEPT !.lb = "up", !.lbName = l, !.served = FALSE]
                          /\ pc' = "lbServe" => loc' = [loc EXCEPT !.lb = l]
    BY <2>1 DEF getOrCreateLB, MayCreateLB
  <2>3. CASE aws' = aws /\ pc' # "lbServe"
    BY <2>3
  <2>4. CASE aws.lb = "up" /\ aws' = aws /\ loc' = [loc EXCEPT !.lb = aws.lbName]
    <3>1. loc'.lb = aws.lbName
      BY <1>a, <2>4 DEF Locals
    <3> QED BY <1>a, <2>4, <3>1
  <2>5. ASSUME NEW l \in Lbs, mem.endpoint = None,
               aws' = [aws EXCEPT !.lb = "up", !.lbName = l, !.served = FALSE],
               pc' = "lbServe" => loc' = [loc EXCEPT !.lb = l]
        PROVE  mem.endpoint = None /\ (pc' = "lbServe" => loc'.lb # None /\ aws'.lbName = loc'.lb)
    <3>1. aws'.lbName = l
      BY <1>a, <2>5 DEF Accounts
    <3>2. pc' = "lbServe" => loc'.lb = l
      BY <1>a, <2>5 DEF Locals
    <3> QED BY <1>a, <2>5, <3>1, <3>2
  <2> QED BY <2>2, <2>3, <2>4, <2>5
<1>5. ASSUME pc = "lbServe"
      PROVE  \/ mem'.endpoint = mem.endpoint /\ pc' = "close"
             \/ mem'.endpoint = loc.lb /\ aws.lb = "up"
  <2>1. reconcileLB
    BY <1>a, <1>5 DEF NormalPath
  <2>2. \/ mem' = mem /\ pc' = "close"
        \/ aws.lb = "up" /\ mem' = [mem EXCEPT !.endpoint = loc.lb]
    BY <2>1 DEF reconcileLB
  <2> QED BY <1>a, <2>2 DEF AWSClusters
<1>6. ASSUME pc = "bucket", mem.ready PROVE mem'.ready
  <2>1. ReconcileBucket
    BY <1>a, <1>6 DEF NormalPath
  <2>2. mem' = [mem EXCEPT !.ready = @ \/ ~loc'.err]
    BY <2>1 DEF ReconcileBucket
  <2> QED BY <1>a, <1>6, <2>2 DEF AWSClusters
<1> QED BY <1>1, <1>2, <1>3, <1>4, <1>5, <1>6

\* and the NAT gateways known to the reconcile, which are there.
LEMMA NatsKnown ==
    ASSUME TypeInv, ReconcileNormalStep
    PROVE  loc'.nats = loc.nats \/ loc'.nats = NatZones
<1>a. loc \in Locals
  BY TypeFacts
<1>0. ASSUME loc' = loc \/ loc' = [loc EXCEPT !.err = TRUE] PROVE loc'.nats = loc.nats
  BY <1>a, <1>0 DEF Locals
<1>1. CASE addFinalizer \/ describeVPCByID \/ patchVPC \/ describeNewIPv6VPC \/ defaultSubnets
           \/ createSubnet \/ ReconcileBastion
  BY <1>0, <1>1 DEF addFinalizer, describeVPCByID, patchVPC, describeNewIPv6VPC, defaultSubnets,
     createSubnet, ReconcileBastion, PatchObject, VPCFailed
<1>2. CASE reconcileInternetGateways \/ reconcileCarrierGateway
           \/ reconcileEgressOnlyInternetGateways \/ reconcileRouteTables \/ reconcileVPCEndpoints
           \/ createSecurityGroup \/ authorizeSecurityGroupIngressRules \/ runBastion
           \/ reconcileLB \/ ReconcileBucket
  BY <1>0, <1>2 DEF reconcileInternetGateways, reconcileCarrierGateway,
     reconcileEgressOnlyInternetGateways, reconcileRouteTables, reconcileVPCEndpoints,
     createSecurityGroup, authorizeSecurityGroupIngressRules, runBastion, reconcileLB,
     ReconcileBucket, Call
<1>3. CASE createVPC
  <2>1. \/ loc' = [loc EXCEPT !.err = TRUE]
        \/ \E v : loc' = [loc EXCEPT !.vpc = v]
    BY <1>3 DEF createVPC, VPCFailed
  <2> QED BY <1>a, <2>1 DEF Locals
<1>4. CASE describeVpcSubnets
  <2>1. loc' = [loc EXCEPT !.err = TRUE] \/ loc' = [loc EXCEPT !.nats = NatZones]
    BY <1>4 DEF describeVpcSubnets
  <2> QED BY <1>a, <2>1 DEF Locals
<1>5. CASE reconcileNatGateways
  <2>1. loc' = loc \/ loc' = [loc EXCEPT !.err = TRUE] \/ \E Z : loc' = [loc EXCEPT !.missing = Z]
    BY <1>5 DEF reconcileNatGateways
  <2> QED BY <1>a, <2>1 DEF Locals
<1>6. CASE describeAddresses \/ allocateAddress
  <2>1. loc' = [loc EXCEPT !.err = TRUE] \/ \E E : loc' = [loc EXCEPT !.ips = E]
    BY <1>6 DEF describeAddresses, allocateAddress
  <2> QED BY <1>a, <2>1 DEF Locals
<1>7. CASE createNatGateways
  <2>1. \E M : loc' = [loc EXCEPT !.mine = M]
    BY <1>7 DEF createNatGateways
  <2> QED BY <1>a, <2>1 DEF Locals
<1>8. CASE getOrCreateLB
  <2>1. loc' = [loc EXCEPT !.err = TRUE] \/ \E l : loc' = [loc EXCEPT !.lb = l]
    BY <1>8 DEF getOrCreateLB
  <2> QED BY <1>a, <2>1 DEF Locals
<1> QED BY <1>1, <1>2, <1>3, <1>4, <1>5, <1>6, <1>7, <1>8 DEF ReconcileNormalStep

\* A patch that the webhook accepts writes all it has to write.
LEMMA FullPatch ==
    ASSUME "patch" \notin FaultKinds, NEW m, ObjectStep(m), CopiesInv,
           obj.vpc = None \/ obj.vpc = m.vpc,
           m.endpoint = base.endpoint \/ base.endpoint = None,
           m.finalizer, base.finalizer => obj.finalizer
    PROVE  \/ UNCHANGED obj
           \/ /\ obj'.deleting = obj.deleting /\ obj'.vpc = m.vpc /\ obj'.endpoint = m.endpoint
              /\ obj'.ready = m.ready /\ obj'.finalizer
              /\ obj'.subnets = IF m.subnets # base.subnets THEN m.subnets ELSE obj.subnets
<1> SUFFICES ASSUME ~UNCHANGED obj
             PROVE  /\ obj'.deleting = obj.deleting /\ obj'.vpc = m.vpc /\ obj'.endpoint = m.endpoint
                    /\ obj'.ready = m.ready /\ obj'.finalizer
                    /\ obj'.subnets = IF m.subnets # base.subnets THEN m.subnets ELSE obj.subnets
  OBVIOUS
<1>1. obj'.deleting = obj.deleting
  BY DEF ObjectStep
<1>2. /\ obj'.finalizer = IF m.finalizer # base.finalizer THEN m.finalizer ELSE obj.finalizer
      /\ obj'.vpc = IF m.vpc # base.vpc THEN m.vpc ELSE obj.vpc
      /\ obj'.endpoint = IF m.endpoint # base.endpoint THEN m.endpoint ELSE obj.endpoint
      /\ obj'.subnets = IF m.subnets # base.subnets THEN m.subnets ELSE obj.subnets
      /\ obj'.ready = IF m.ready # base.ready THEN m.ready ELSE obj.ready
  BY DEF ObjectStep, CopiesInv
<1>3. obj'.vpc = m.vpc
  BY <1>2 DEF CopiesInv
<1>4. obj'.endpoint = m.endpoint /\ obj'.ready = m.ready
  BY <1>2 DEF CopiesInv
<1>5. obj'.finalizer
  <2>1. CASE m.finalizer = base.finalizer
    BY <1>2, <2>1
  <2>2. CASE m.finalizer # base.finalizer
    BY <1>2, <2>2
  <2> QED BY <2>1, <2>2
<1> QED BY <1>1, <1>2, <1>3, <1>4, <1>5

\* A new object is not ready.
LEMMA ReadyInit == Init => ReadyInv
<1> SUFFICES ASSUME Init PROVE ReadyInv
  OBVIOUS
<1>1. obj.ready = FALSE /\ obj.endpoint = None /\ pc = "idle"
  BY DEF Init, NewAWSCluster
<1> QED BY <1>1 DEF ReadyInv, SameName

\* Every service has provided its part when reconcileNormal gets to the next one.
LEMMA ProvidedStep ==
    ASSUME TypeInv, TypeInv', KindInv, SyncInv, IdInv, ReadyInv, ReconcileNormalStep
    PROVE  ProvidedSoFar'
<1>a. NormalAccount /\ NormalObject /\ NormalPath /\ spec' = spec
  BY NormalAccountStep, NormalObjectStep, NormalOrder DEF NormalAccount
<1>b. ProvidedSoFar /\ pc \in NormalLabels
  BY <1>a, LabelKinds DEF NormalAccount, ReadyInv, SyncInv
<1>u. ASSUME mem.vpc = ByoVpc
      PROVE  spec.vpc = "byo" /\ aws.subnets = Subnets /\ aws.routed = Subnets
  BY <1>u, ConstantsAssumption DEF KindInv, KnownIds
<1>f. None # ByoVpc
  BY ConstantsAssumption
<1>s. /\ Attached # {} => Attached' # {}
      /\ \A z \in Zones : HasNat(z) => HasNat(z)'
      /\ aws.subnets = Subnets => aws'.subnets = Subnets
      /\ aws.routed = Subnets => aws'.routed = Subnets
      /\ aws.sgs = Roles => aws'.sgs = Roles
      /\ aws.ruled = Roles => aws'.ruled = Roles
  BY ProvisionedStays
<1> USE DEF NetworkLabels, GroupLabels, SubnetLabels, VpcLabels
<1>1. pc' \in VpcLabels => mem'.vpc # None
  <2>1. CASE pc \in VpcLabels
    <3>1. mem'.vpc = mem.vpc
      BY <1>a, <2>1 DEF NormalObject
    <3> QED BY <1>b, <2>1, <3>1 DEF ProvidedSoFar
  <2>2. CASE pc \notin VpcLabels /\ pc' \in VpcLabels
    <3>1. pc \in {"vpc", "vpcIPv6"} /\ pc' \in {"subnets", "vpcPatch"}
      BY <1>a, <2>2 DEF NormalPath
    <3> QED BY <3>1, NetworkProvided
  <2> QED BY <2>1, <2>2
<1>2. pc' \in SubnetLabels => aws'.subnets = Subnets /\ mem'.subnets = Subnets
  <2>1. CASE pc \in SubnetLabels
    <3>1. mem'.subnets = mem.subnets
      BY <1>a, <2>1 DEF NormalObject
    <3> QED BY <1>b, <1>s, <2>1, <3>1 DEF ProvidedSoFar
  <2>2. CASE pc \notin SubnetLabels /\ pc' \in SubnetLabels
    <3>1. \/ pc = "describeSubnets" /\ pc' = "sgs"
          \/ pc = "createSubnets" /\ pc' = "igw"
      BY <1>a, <2>2 DEF NormalPath
    <3>2. CASE pc = "describeSubnets" /\ pc' = "sgs"
      <4>1. mem'.subnets = aws.subnets /\ mem.vpc = ByoVpc
        BY <3>2, NetworkProvided
      <4> QED BY <1>u, <1>s, <4>1
    <3> QED BY <3>1, <3>2, NetworkProvided
  <2> QED BY <2>1, <2>2
<1>3. pc' \in (NetworkLabels \ {"igw"}) \cup {"endpoints"} => Attached' # {}
  <2>1. CASE pc \in (NetworkLabels \ {"igw"}) \cup {"endpoints"}
    BY <1>b, <1>s, <2>1 DEF ProvidedSoFar
  <2>2. CASE /\ pc \notin (NetworkLabels \ {"igw"}) \cup {"endpoints"}
             /\ pc' \in (NetworkLabels \ {"igw"}) \cup {"endpoints"}
    <3>1. pc = "igw" /\ pc' = "carrier"
      BY <1>a, <2>2 DEF NormalPath
    <3> QED BY <3>1, NetworkProvided
  <2> QED BY <2>1, <2>2
<1>4. pc' \in GroupLabels \cup {"endpoints"} =>
        /\ aws'.routed = Subnets
        /\ spec.vpc = "managed" => Attached' # {} /\ \A z \in Zones : HasNat(z)'
  <2>1. CASE pc \in GroupLabels \cup {"endpoints"}
    BY <1>b, <1>s, <2>1 DEF ProvidedSoFar
  <2>2. CASE pc \notin GroupLabels \cup {"endpoints"} /\ pc' \in GroupLabels \cup {"endpoints"}
    <3>1. \/ pc = "describeSubnets" /\ pc' = "sgs"
          \/ pc = "routes" /\ pc' = "endpoints"
      BY <1>a, <2>2 DEF NormalPath
    <3>2. CASE pc = "describeSubnets" /\ pc' = "sgs"
      <4>1. mem.vpc = ByoVpc
        BY <3>2, NetworkProvided
      <4> QED BY <1>u, <1>s, <4>1
    <3>3. CASE pc = "routes" /\ pc' = "endpoints"
      <4>1. aws'.routed = Subnets /\ loc.nats = Zones
        BY <3>3, NetworkProvided
      <4>2. Attached # {} /\ \A z \in loc.nats : HasNat(z)
        BY <1>b, <3>3, LabelKinds DEF ProvidedSoFar, ReadyInv, SyncInv
      <4> QED BY <1>s, <4>1, <4>2
    <3> QED BY <3>1, <3>2, <3>3
  <2> QED BY <2>1, <2>2
<1>5. pc' \in GroupLabels \ {"sgs"} => aws'.sgs = Roles
  <2>1. CASE pc \in GroupLabels \ {"sgs"}
    BY <1>b, <1>s, <2>1 DEF ProvidedSoFar
  <2>2. CASE pc \notin GroupLabels \ {"sgs"} /\ pc' \in GroupLabels \ {"sgs"}
    <3>1. pc = "sgs" /\ pc' = "rules"
      BY <1>a, <2>2 DEF NormalPath
    <3> QED BY <3>1, ServicesProvided
  <2> QED BY <2>1, <2>2
<1>6. pc' \in GroupLabels \ {"sgs", "rules"} => aws'.ruled = Roles
  <2>1. CASE pc \in GroupLabels \ {"sgs", "rules"}
    BY <1>b, <1>s, <2>1 DEF ProvidedSoFar
  <2>2. CASE pc \notin GroupLabels \ {"sgs", "rules"} /\ pc' \in GroupLabels \ {"sgs", "rules"}
    <3>1. pc = "rules" /\ pc' = "bastion"
      BY <1>a, <2>2 DEF NormalPath
    <3> QED BY <3>1, ServicesProvided
  <2> QED BY <2>1, <2>2
<1>7. pc' \in {"lb", "lbServe", "bucket"} /\ spec.bastion => aws'.bastion = "up"
  <2>1. CASE pc \in {"lb", "lbServe", "bucket"} /\ spec.bastion
    BY <1>a, <1>b, <2>1 DEF ProvidedSoFar, NormalAccount
  <2>2. CASE pc \notin {"lb", "lbServe", "bucket"} /\ pc' \in {"lb", "lbServe", "bucket"} /\ spec.bastion
    <3>1. pc \in {"bastion", "runBastion"} /\ pc' = "lb"
      BY <1>a, <2>2 DEF NormalPath
    <3> QED BY <2>2, <3>1, ServicesProvided
  <2> QED BY <2>1, <2>2
<1>8. pc' = "lbServe" => loc'.lb # None /\ (aws'.lb = "up" => aws'.lbName = loc'.lb)
  <2>1. pc' = "lbServe" => pc = "lb"
    BY <1>a DEF NormalPath
  <2> QED BY <2>1, ServicesProvided
<1>9. pc' = "bucket" => mem'.endpoint # None
  <2>1. pc' = "bucket" => pc = "lbServe"
    BY <1>a DEF NormalPath
  <2> QED BY <1>b, <2>1, ServicesProvided DEF ProvidedSoFar
<1> QED BY <1>a, <1>1, <1>2, <1>3, <1>4, <1>5, <1>6, <1>7, <1>8, <1>9 DEF ProvidedSoFar

\* A step of reconcileNormal keeps the copies of the object together, and what it calls
\* ready is provisioned.
LEMMA ReadyStepNormal ==
    ASSUME "patch" \notin FaultKinds, TypeInv, TypeInv', KindInv, SyncInv, SyncInv', IdInv,
           ReadyInv, ReconcileNormalStep
    PROVE  ReadyInv'
<1>a. /\ NormalAccount /\ NormalObject /\ NormalPath /\ UNCHANGED <<spec, base>>
      /\ pc \in NormalLabels /\ pc' \in NormalLabels \cup {"close"} /\ pc' # "idle"
  BY NormalAccountStep, NormalObjectStep, NormalOrder, LabelKinds DEF NormalAccount
<1>b. /\ CopiesInv /\ ProvidedSoFar /\ SameName(mem) /\ ~mem.deleting
      /\ mem.ready => Provisioned /\ Published(mem)
      /\ \A z \in loc.nats : HasNat(z)
  BY <1>a, LabelKinds DEF ReadyInv, SyncInv
<1>p. ProvidedSoFar'
  BY ProvidedStep
<1>f. mem'.finalizer
  <2>1. pc' # "finalizer"
    BY <1>a DEF NormalPath
  <2>2. ~mem'.deleting
    BY <1>a, <1>b DEF NormalObject
  <2> QED BY <1>a, <2>1, <2>2 DEF SyncInv
<1>e. /\ pc # "lbServe" => mem'.endpoint = mem.endpoint
      /\ pc \notin {"bucket", "close"} => mem.endpoint = base.endpoint
      /\ pc \in {"lb", "lbServe"} => mem.endpoint = obj.endpoint
  BY <1>a, <1>b DEF NormalObject, CopiesInv
<1>1. SameName(mem)'
  <2>1. CASE pc = "lb"
    BY <1>b, <1>e, <2>1, ServicesProvided DEF SameName
  <2>2. CASE pc = "lbServe"
    <3>1. aws'.lb = aws.lb /\ aws'.lbName = aws.lbName
      BY <1>a, <2>2 DEF NormalAccount
    <3>2. mem'.endpoint = mem.endpoint \/ (mem'.endpoint = loc.lb /\ aws.lb = "up")
      BY <2>2, ServicesProvided
    <3> QED BY <1>b, <2>2, <3>1, <3>2 DEF SameName, ProvidedSoFar
  <2>3. CASE pc \notin {"lb", "lbServe"}
    BY <1>a, <1>b, <1>e, <2>3 DEF SameName, NormalAccount
  <2> QED BY <2>1, <2>2, <2>3
<1>2. /\ mem'.endpoint = base.endpoint \/ (base.endpoint = None /\ pc' \in {"bucket", "close"})
      /\ mem.endpoint # None => mem'.endpoint # None
  <2>1. CASE pc = "lbServe"
    <3>1. \/ mem'.endpoint = mem.endpoint
          \/ mem'.endpoint = loc.lb /\ aws.lb = "up"
      BY <2>1, ServicesProvided
    <3>2. pc' \in {"bucket", "close"}
      BY <1>a, <2>1 DEF NormalPath
    <3> QED BY <1>b, <1>e, <2>1, <3>1, <3>2 DEF SameName, ProvidedSoFar
  <2>2. CASE pc # "lbServe"
    <3>1. pc = "bucket" => pc' = "close"
      BY <1>a DEF NormalPath
    <3>2. pc # "close"
      BY <1>a, LabelKinds
    <3> QED BY <1>b, <1>e, <2>2, <3>1, <3>2 DEF CopiesInv
  <2> QED BY <2>1, <2>2
<1>3. /\ mem.ready => mem'.ready
      /\ pc' \in NormalLabels => mem'.ready = mem.ready
      /\ pc # "bucket" => mem'.ready = mem.ready
  <2>1. pc = "bucket" => pc' = "close"
    BY <1>a DEF NormalPath
  <2> QED BY <1>a, <2>1, ServicesProvided, LabelKinds DEF NormalObject
<1>4. mem'.ready => Provisioned' /\ Published(mem)'
  <2>1. CASE mem.ready
    <3>1. Provisioned /\ Published(mem) /\ Provisioned'
      BY <1>b, <2>1, ProvisionedStays
    <3>2. mem'.vpc = mem.vpc
      BY <1>a, <3>1 DEF NormalObject, SyncInv, Published
    <3>3. mem'.subnets = Subnets
      <4>1. CASE pc = "describeSubnets"
        BY <3>1, <4>1, NetworkProvided DEF Provisioned, Published
      <4>2. CASE pc = "createSubnets"
        BY <3>1, <4>2, NetworkProvided DEF Published
      <4>3. CASE pc \notin {"describeSubnets", "createSubnets"}
        BY <1>a, <3>1, <4>3 DEF NormalObject, Published
      <4> QED BY <4>1, <4>2, <4>3
    <3> QED BY <1>2, <1>f, <3>1, <3>2, <3>3 DEF Published
  <2>2. CASE ~mem.ready /\ pc = "bucket"
    <3>1. /\ mem.vpc # None /\ mem.endpoint # None /\ mem.subnets = Subnets
          /\ aws.subnets = Subnets
      BY <1>b, <2>2 DEF ProvidedSoFar, VpcLabels, SubnetLabels, GroupLabels
    <3>2. /\ aws.routed = Subnets /\ aws.sgs = Roles /\ aws.ruled = Roles
          /\ spec.vpc = "managed" => Attached # {} /\ \A z \in Zones : HasNat(z)
          /\ spec.bastion => aws.bastion = "up"
      BY <1>b, <2>2 DEF ProvidedSoFar, GroupLabels
    <3>3. Provisioned'
      BY <3>1, <3>2, ProvisionedStays DEF Provisioned
    <3>4. mem'.vpc = mem.vpc /\ mem'.endpoint = mem.endpoint /\ mem'.subnets = mem.subnets
      BY <1>a, <2>2 DEF NormalObject
    <3> QED BY <1>f, <3>1, <3>3, <3>4 DEF Published
  <2> QED BY <1>3, <2>1, <2>2
<1>5. \A z \in loc'.nats : HasNat(z)'
  <2>0. loc.nats \subseteq Zones
    BY TypeFacts
  <2>1. \A z \in Zones : HasNat(z) => HasNat(z)'
    BY ProvisionedStays
  <2>2. \A z \in NatZones : z \in Zones /\ HasNat(z)
    BY DEF NatZones
  <2> QED BY <1>b, <2>0, <2>1, <2>2, NatsKnown
<1>6. pc' \in EarlyLabels => mem'.subnets = base.subnets
  <2>1. pc' \in EarlyLabels => pc \in EarlyLabels \ {"describeSubnets"}
    BY <1>a DEF NormalPath, EarlyLabels
  <2>2. pc \in EarlyLabels \ {"describeSubnets"} => mem'.subnets = mem.subnets
    BY <1>a DEF NormalObject, EarlyLabels
  <2> QED BY <1>b, <2>1, <2>2 DEF CopiesInv
<1>7. /\ obj'.deleting = obj.deleting /\ obj'.endpoint = obj.endpoint /\ obj'.ready = obj.ready
      /\ obj.vpc # None => obj'.vpc # None
      /\ obj.finalizer => obj'.finalizer
      /\ obj'.subnets \in {base.subnets, Subnets}
      /\ obj'.subnets \in {obj.subnets, mem'.subnets}
  <2>1. CASE UNCHANGED obj
    BY <1>b, <2>1 DEF CopiesInv
  <2>2. CASE ~UNCHANGED obj
    <3>1. pc \notin {"describeSubnets", "createSubnets", "lbServe", "bucket"} /\ ObjectStep(mem')
      BY <1>a, <2>2 DEF NormalObject
    <3>2. mem'.endpoint = base.endpoint /\ mem'.ready = base.ready
      BY <1>a, <1>b, <1>e, <1>3, <3>1, LabelKinds DEF CopiesInv
    <3>3. mem'.finalizer /\ (obj.vpc = None \/ obj.vpc = mem'.vpc)
      <4>1. obj.vpc = None \/ obj.vpc = mem.vpc
        BY <1>a, LabelKinds DEF SyncInv
      <4>2. mem.vpc # None => mem'.vpc = mem.vpc
        BY <1>a DEF NormalObject, SyncInv
      <4> QED BY <1>f, <4>1, <4>2
    <3>4. /\ obj'.deleting = obj.deleting /\ obj'.vpc = mem'.vpc /\ obj'.endpoint = mem'.endpoint
          /\ obj'.ready = mem'.ready /\ obj'.finalizer
          /\ obj'.subnets = IF mem'.subnets # base.subnets THEN mem'.subnets ELSE obj.subnets
      BY <1>b, <2>2, <3>1, <3>2, <3>3, FullPatch DEF SyncInv
    <3>5. mem'.subnets \in {base.subnets, Subnets}
      <4>1. mem'.subnets = mem.subnets
        BY <1>a, <3>1 DEF NormalObject
      <4>2. pc \in EarlyLabels \cup SubnetLabels
        BY <1>a, <3>1 DEF NormalLabels, EarlyLabels, SubnetLabels
      <4> QED BY <1>b, <4>1, <4>2 DEF CopiesInv, ProvidedSoFar
    <3> QED BY <1>b, <3>2, <3>3, <3>4, <3>5 DEF CopiesInv
  <2> QED BY <2>1, <2>2
<1>8. CopiesInv'
  <2>1. obj'.vpc = None => base.vpc = None
    BY <1>b, <1>7 DEF CopiesInv
  <2>2. obj'.ready = base.ready /\ obj'.endpoint = base.endpoint
    BY <1>b, <1>7 DEF CopiesInv
  <2>3. base.ready => mem'.ready
    BY <1>b, <1>3 DEF CopiesInv
  <2>4. pc' \in NormalLabels => mem'.ready = base.ready
    BY <1>a, <1>b, <1>3 DEF CopiesInv
  <2> QED BY <1>a, <1>2, <1>6, <1>7, <2>1, <2>2, <2>3, <2>4 DEF CopiesInv
<1>9. obj'.ready /\ ~obj'.deleting => Provisioned' /\ Published(obj)'
  <2> SUFFICES ASSUME obj'.ready, ~obj'.deleting PROVE Provisioned' /\ Published(obj)'
    OBVIOUS
  <2>1. Published(obj) /\ mem'.ready
    BY <1>a, <1>7, <1>8 DEF ReadyInv, CopiesInv
  <2> QED BY <1>4, <1>7, <2>1 DEF Published
<1>10. ~obj'.deleting => SameName(obj)'
  <2>1. CASE pc = "lb"
    BY <1>7, <1>e, <2>1, ServicesProvided DEF SameName, ReadyInv
  <2>2. CASE pc # "lb"
    BY <1>a, <1>7, <2>2 DEF SameName, ReadyInv, NormalAccount
  <2> QED BY <2>1, <2>2
<1> QED BY <1>p, <1>1, <1>4, <1>5, <1>8, <1>9, <1>10 DEF ReadyInv

\* With an account that stays as a reconcile needs it, what it holds stays true.
LEMMA ReadyKept ==
    ASSUME ReadyInv, spec' = spec, UNCHANGED <<obj, mem, base>>,
           pc' = pc \/ (pc = "natWait" /\ pc' \in {"routes", "close"}),
           aws'.subnets = aws.subnets, aws'.routed = aws.routed, aws'.sgs = aws.sgs,
           aws'.ruled = aws.ruled, aws'.igws = aws.igws, (aws'.bastion = "up") = (aws.bastion = "up"),
           aws'.lb = "up" => aws.lb = "up", aws'.lbName = aws.lbName, loc'.lb = loc.lb,
           \A z \in Zones : HasNat(z) => HasNat(z)', loc.nats \subseteq Zones,
           \A z \in loc'.nats \ loc.nats : HasNat(z)'
    PROVE  ReadyInv'
<1>1. Attached' = Attached
  BY DEF Attached
<1>2. Provisioned => Provisioned'
  BY <1>1 DEF Provisioned
<1>3. /\ SameName(obj) => SameName(obj)'
      /\ SameName(mem) => SameName(mem)'
      /\ Published(obj) => Published(obj)'
      /\ Published(mem) => Published(mem)'
  BY DEF SameName, Published
<1>4. /\ "natWait" \in NormalLabels /\ "natWait" \in VpcLabels /\ "natWait" \in SubnetLabels
      /\ "natWait" \in NetworkLabels \ {"igw"} /\ "routes" \in NetworkLabels
      /\ {"routes", "close"} \cap (GroupLabels \cup EarlyLabels
           \cup {"endpoints", "lb", "lbServe", "bucket", "idle"}) = {}
      /\ "close" \notin NetworkLabels \cup GroupLabels \cup SubnetLabels \cup VpcLabels \cup NormalLabels
  BY DEF NormalLabels, VpcLabels, SubnetLabels, NetworkLabels, GroupLabels, EarlyLabels
<1>5. ProvidedSoFar => ProvidedSoFar'
  <2>1. CASE pc' = pc
    BY <1>1, <2>1 DEF ProvidedSoFar
  <2>2. CASE pc = "natWait" /\ pc' \in {"routes", "close"}
    BY <1>1, <1>4, <2>2 DEF ProvidedSoFar
  <2> QED BY <2>1, <2>2
<1>6. CopiesInv => CopiesInv'
  <2>1. CASE pc' = pc
    BY <2>1 DEF CopiesInv
  <2>2. CASE pc = "natWait" /\ pc' \in {"routes", "close"}
    BY <1>4, <2>2 DEF CopiesInv
  <2> QED BY <2>1, <2>2
<1>7. (\A z \in loc.nats : HasNat(z)) => \A z \in loc'.nats : HasNat(z)'
  OBVIOUS
<1>8. pc' # "idle" => pc # "idle"
  OBVIOUS
<1> QED BY <1>2, <1>3, <1>5, <1>6, <1>7, <1>8 DEF ReadyInv

\* What a reconcile that is not deleting stores at its end.
LEMMA ReadyStepClose ==
    ASSUME "patch" \notin FaultKinds, TypeInv, SyncInv, ReadyInv, Close
    PROVE  ReadyInv'
<1>a. /\ ObjectStep(mem) /\ pc = "close" /\ pc' = "idle" /\ UNCHANGED <<spec, aws>>
  <2>1. mem \in AWSClusters
    BY TypeFacts
  <2> QED BY <2>1, PatchStep DEF Close, Done
<1>d. obj'.deleting = obj.deleting
  BY <1>a DEF ObjectStep
<1>u. Provisioned' = Provisioned
  BY <1>a DEF Provisioned, Attached, HasNat
<1>1. CASE UNCHANGED obj
  BY <1>a, <1>u, <1>1 DEF ReadyInv, Published, SameName
<1>2. CASE mem.deleting
  BY <1>a, <1>d, <1>2 DEF SyncInv, ReadyInv
<1>3. CASE ~UNCHANGED obj /\ ~mem.deleting
  <2>1. /\ CopiesInv /\ SameName(mem) /\ mem.finalizer
        /\ mem.ready => Provisioned /\ Published(mem)
        /\ obj.vpc = None \/ obj.vpc = mem.vpc
    BY <1>a, <1>3 DEF ReadyInv, SyncInv
  <2>2. mem.endpoint = base.endpoint \/ base.endpoint = None
    BY <2>1 DEF CopiesInv
  <2>3. /\ obj'.vpc = mem.vpc /\ obj'.endpoint = mem.endpoint
        /\ obj'.ready = mem.ready /\ obj'.finalizer
        /\ obj'.subnets = IF mem.subnets # base.subnets THEN mem.subnets ELSE obj.subnets
    BY <1>a, <1>3, <2>1, <2>2, FullPatch DEF SyncInv
  <2>4. mem.subnets = Subnets => obj'.subnets = Subnets
    BY <2>1, <2>3 DEF CopiesInv
  <2>5. SameName(obj)'
    BY <1>a, <2>1, <2>3 DEF SameName
  <2>6. obj'.ready => Provisioned' /\ Published(obj)'
    BY <1>u, <2>1, <2>3, <2>4 DEF Published
  <2> QED BY <1>a, <2>5, <2>6 DEF ReadyInv
<1> QED BY <1>1, <1>2, <1>3

\* Every step keeps what a ready cluster needs.
LEMMA ReadyStep ==
    ASSUME "patch" \notin FaultKinds, "stale" \notin FaultKinds, TypeInv, TypeInv',
           KindInv, SyncInv, SyncInv', IdInv, ReadyInv, [Next]_vars
    PROVE  ReadyInv'
<1>t. obj \in AWSClusters /\ mem \in AWSClusters /\ base \in AWSClusters
  BY TypeFacts
<1>q. ASSUME UNCHANGED <<spec, aws, obj, mem, base, pc, loc>> PROVE ReadyInv'
  <2>1. loc.nats \subseteq Zones
    BY TypeFacts
  <2>2. \A z \in Zones : HasNat(z) => HasNat(z)'
    BY <1>q DEF HasNat
  <2> QED BY <1>q, <2>1, <2>2, ReadyKept
<1>1. CASE UNCHANGED vars
  BY <1>1, <1>q DEF vars
<1>2. CASE ReconcileNormalStep
  BY <1>2, ReadyStepNormal
<1>3. CASE ReconcileDeleteStep
  <2>1. DeleteAccount /\ DeleteObject
    BY <1>3, DeleteAccountStep, DeleteObjectStep
  <2>2. mem.deleting /\ mem'.deleting /\ obj.deleting
    BY <2>1 DEF DeleteAccount, DeleteObject, SyncInv
  <2>3. obj'.deleting = obj.deleting
    BY <2>1 DEF DeleteObject, ObjectStep
  <2> QED BY <2>2, <2>3 DEF ReadyInv
<1>4. CASE \E t \in tasks : createNatGateway(t)
  <2>1. TaskAccount /\ aws \in Accounts /\ Zones \cap {"free", "idle"} = {}
    BY <1>4, TaskAccountStep, AccountFields
  <2>2. /\ aws'.subnets = aws.subnets /\ aws'.routed = aws.routed /\ aws'.sgs = aws.sgs
        /\ aws'.ruled = aws.ruled /\ aws'.igws = aws.igws /\ aws'.bastion = aws.bastion
        /\ aws'.lb = aws.lb /\ aws'.lbName = aws.lbName
    BY <2>1 DEF TaskAccount, Accounts
  <2>3. \A z \in Zones : HasNat(z) => HasNat(z)'
    BY <2>1 DEF TaskAccount, HasNat
  <2>4. \A z \in loc'.nats \ loc.nats : HasNat(z)'
    BY <2>1 DEF TaskAccount, HasNat
  <2>5. /\ spec' = spec /\ UNCHANGED <<obj, mem, base>> /\ loc'.lb = loc.lb
        /\ pc' = pc \/ (pc = "natWait" /\ pc' \in {"routes", "close"})
    BY <2>1 DEF TaskAccount
  <2>6. loc.nats \subseteq Zones
    BY TypeFacts
  <2> QED BY <2>2, <2>3, <2>4, <2>5, <2>6, ReadyKept
<1>5. CASE EnvironmentStep
  <2>1. EnvironmentAccount
    BY <1>5, EnvironmentAccountStep
  <2>2. \A z \in Zones : HasNat(z) => HasNat(z)'
    BY <2>1 DEF EnvironmentAccount, HasNat
  <2>3. loc' = loc /\ loc.nats \subseteq Zones
    BY <2>1, TypeFacts DEF EnvironmentAccount
  <2> QED BY <2>1, <2>2, <2>3, ReadyKept DEF EnvironmentAccount
<1>6. CASE CacheSync
  BY <1>6, <1>q DEF CacheSync
<1>7. CASE Crash
  <2>1. UNCHANGED <<spec, aws, obj>> /\ pc' = "idle"
    BY <1>7 DEF Crash, Done
  <2> QED BY <2>1 DEF ReadyInv, Provisioned, Published, SameName, Attached, HasNat
<1>8. CASE DeleteAWSCluster
  <2>1. /\ UNCHANGED <<spec, aws, pc, mem, base, loc>> /\ obj'.deleting = TRUE
        /\ obj'.ready = obj.ready /\ obj'.endpoint = obj.endpoint /\ obj'.vpc = obj.vpc
        /\ obj'.subnets = obj.subnets
    BY <1>8, <1>t DEF DeleteAWSCluster, Collected, AWSClusters
  <2>2. CopiesInv => CopiesInv'
    BY <2>1 DEF CopiesInv
  <2>3. ProvidedSoFar => ProvidedSoFar'
    BY <2>1 DEF ProvidedSoFar, Attached, HasNat
  <2>4. Provisioned => Provisioned'
    BY <2>1 DEF Provisioned, Attached, HasNat
  <2> QED BY <2>1, <2>2, <2>3, <2>4 DEF ReadyInv, Published, SameName, HasNat
<1>9. CASE Reconcile
  <2>1. /\ mem' = obj /\ base' = obj /\ UNCHANGED <<spec, aws, obj>> /\ loc' = NoLocals
        /\ pc' = IF obj.deleting THEN "delBucket" ELSE "finalizer"
    BY <1>9 DEF Reconcile
  <2>2. loc'.nats = {}
    BY <2>1 DEF NoLocals
  <2>3. Provisioned => Provisioned'
    BY <2>1 DEF Provisioned, Attached, HasNat
  <2>4. CASE obj.deleting
    BY <2>1, <2>4 DEF ReadyInv
  <2>5. CASE ~obj.deleting
    <3>1. ProvidedSoFar'
      BY <2>1, <2>5 DEF ProvidedSoFar, VpcLabels, SubnetLabels, NetworkLabels, GroupLabels
    <3>2. CopiesInv'
      BY <2>1 DEF CopiesInv
    <3> QED BY <2>1, <2>2, <2>3, <2>5, <3>1, <3>2 DEF ReadyInv, Published, SameName
  <2> QED BY <2>4, <2>5
<1>10. CASE Close
  BY <1>10, ReadyStepClose
<1> QED BY <1>1, <1>2, <1>3, <1>4, <1>5, <1>6, <1>7, <1>8, <1>9, <1>10, NextCases DEF AroundStep

\* Status.Ready is set at the end of a reconcile in which every service succeeded, and
\* nothing but a deletion takes it away: when no patch is lost and the cache is not behind,
\* a cluster that is ready has its network, groups and bastion, and a load balancer that is
\* up has the published name, whatever other calls fail or answers are lost.
THEOREM ReadyIsProvisioned ==
    FaultKinds \cap {"stale", "patch"} = {} => (Spec => []ReadyMeansProvisioned)
<1> SUFFICES ASSUME FaultKinds \cap {"stale", "patch"} = {}
             PROVE  Spec => []ReadyMeansProvisioned
  OBVIOUS
<1> DEFINE Inv == TypeInv /\ VpcInv /\ KindInv /\ SyncInv /\ IdInv /\ ReadyInv
<1>1. Init => Inv
  <2>1. Init => VpcInv
    BY DEF Init, EmptyAccount, VpcInv
  <2> QED BY <2>1, TypeInit, KindInit, SyncInit, IdInit, ReadyInit
<1>2. Inv /\ [Next]_vars => Inv'
  <2> SUFFICES ASSUME Inv, [Next]_vars PROVE Inv'
    OBVIOUS
  <2>0. "stale" \notin FaultKinds /\ "patch" \notin FaultKinds
    OBVIOUS
  <2>1. TypeInv' /\ VpcInv' /\ KindInv'
    BY TypeStep, VpcsStep, KindStep DEF VpcInv
  <2>2. SyncInv'
    BY <2>0, SyncStep
  <2>3. IdInv'
    BY <2>0, <2>2, IdStep
  <2>4. ReadyInv'
    BY <2>0, <2>1, <2>2, ReadyStep
  <2> QED BY <2>1, <2>2, <2>3, <2>4
<1>3. Inv => ReadyMeansProvisioned
  <2> SUFFICES ASSUME Inv, obj.ready, ~obj.deleting PROVE ReadyMeansProvisioned
    BY DEF ReadyMeansProvisioned
  <2>1. Provisioned /\ Published(obj) /\ SameName(obj)
    BY DEF ReadyInv
  <2>2. spec.vpc = "managed" => obj.vpc \in aws.vpcs
    <3>1. spec.vpc = "managed" => obj.vpc \in Vpcs
      BY <2>1 DEF KindInv, KnownIds, Published
    <3> QED BY <3>1 DEF IdInv
  <2> QED BY <2>1, <2>2 DEF ReadyMeansProvisioned, Provisioned, Published, SameName
<1> QED BY <1>1, <1>2, <1>3, PTL DEF Spec

=============================================================================

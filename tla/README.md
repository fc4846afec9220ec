# Formal model of the Cluster API provider for AWS

TLA+ specifications of the controllers of this repository, the TLC
configurations that check them on small instances, and theorems with proofs
checked by TLAPS. Line numbers refer to the files of the repository.

## 1. The system

The provider is a set of Kubernetes controllers. Each watches one kind of custom
resource and brings an AWS account into line with it. All of them have the same
shape, and the same things can go wrong in all of them:

* the work queue hands an object to one worker at a time; the worker reads it
  from an informer **cache** that may lag behind the API server;
* a reconcile is a long sequence of calls to AWS and of **patches** of the object;
  between two calls anything else may happen, and the process may die;
* a call may fail, or take effect while its answer is lost, in which case the
  controller has no id to record; a patch is two writes (metadata and spec, then
  status), either of which may fail alone;
* what was created is found again by an id in the object or by AWS **tags**;
* a **finalizer** keeps the object until everything it owns is deleted;
* an error is returned to the queue, and the next reconcile starts again from
  the top. Nothing but the object and AWS survives from one to the next.

### Inventory

| Component | State | Operations | Correct when |
|---|---|---|---|
| AWSMachine controller (`controllers/awsmachine_controller.go`) | AWSMachine: finalizer, provider id, secret prefix and count, instance state, host | reconcileNormal, reconcileDelete | one instance per machine, none without its object, deletion ends |
| EC2 instances, hosts, addresses (`services/ec2`) | instances, dedicated hosts, Elastic IPs | find by id or tags, launch, terminate, allocate and release | retries reuse what earlier attempts made |
| Bootstrap secrets (`services/secretsmanager`, `services/ssm`) | entries under a prefix | Create by chunks, Delete | a booting instance finds its user data, none is left behind |
| Load balancer attachment | registered instances | register, deregister | an instance leaves before it is terminated |
| AWSCluster controller (`controllers/awscluster_controller.go`) | AWSCluster: VPC id, subnets, endpoint, Ready, conditions | reconcileNormal, reconcileDelete | one VPC, ready means provisioned, deletion ends and leaves nothing |
| Network service (`services/network`) | VPC, subnets, gateways, NAT gateways, addresses, route tables, endpoints | one reconcile and one delete operation each | a network the user brought is left alone |
| Security groups, bastion, control plane load balancer, bucket | as named | create, delete | deletion gets through what AWS refuses at first |
| AWSMachinePool controller (`exp/controllers`), `services/autoscaling`, `ec2/launchtemplate.go` | AWSMachinePool: finalizer, template id and version, provider ids, tags annotation; template versions, group, hooks, instance refresh, AWSMachines of the pool | reconcileNormal, reconcileDelete, ReconcileLaunchTemplate, ReconcileTags | a changed template reaches the instances, versions stay bounded, nothing is deleted that is in use |
| Instance state (`exp/instancestate`, `services/instancestate`) | EventBridge rule and its pattern, SQS queue, map of queue URLs, polling goroutines | add and remove an instance, set up and tear down, poll, process, delete | every state change is processed, nothing is left of a deleted cluster |
| EKS control plane (`controlplane/eks`, `services/eks`) with add-ons, identity provider, access entries | AWSManagedControlPlane; cluster, role, OIDC provider, add-ons, entries in AWS | reconcile step by step, wait, plan and run procedures, delete | what EKS refuses while it updates is applied later; deletion ends |
| Services in the workload cluster (`services/awsnode`, `services/kubeproxy`, `services/iamauth`) | the VPC CNI, kube-proxy, ConfigMap `aws-auth` | configure or delete, map roles and users | the workload cluster gets what the spec asks for, the workers' roles are mapped |
| EKS bootstrap provider (`bootstrap/eks/controllers`), AWSManagedCluster controller | EKSConfig, NodeadmConfig, bootstrap secret, AWSManagedCluster; work queue, cached secret | wait for the cluster, write the secret, follow a MachinePool's configuration | the secret is written although no event announces it |
| Managed node groups, Fargate profiles | AWSManagedMachinePool, AWSFargateProfile; node group, template, roles, profile | reconcile, update version and configuration, delete | the group converges; pools go before the control plane |
| ROSA (`controlplane/rosa`, `exp/controllers/rosa*`, `controllers/rosacluster_controller.go`) | ROSANetwork, ROSARoleConfig, ROSAControlPlane, ROSAMachinePool; stack, IAM roles, OIDC configuration, cluster and node pools in OCM | create, upgrade through gates, admin access, sync of node pools, delete | cluster and pools converge and go together |
| Garbage collection (`services/gc`) | load balancers, target groups and groups made by Services of the workload cluster | collect, clean up in order | the network is deleted only after them |
| Throttling, CIDR arithmetic, ROSA external authentication, credentials, webhooks, conversions, `clusterawsadm` | | | not modelled, see section 7 |

Interactions: the AWSCluster controller publishes the network, the groups and the
endpoint that the AWSMachine controller reads once `Status.Ready` is set; machines
register with the load balancer of the cluster; the Machine controller of Cluster
API sets the NodeRef that allows the bootstrap secrets to be deleted and deletes
the Machine before the AWSMachine; the patch webhook of AWSCluster refuses changes
of the VPC id and of the endpoint.

The list of what is hard to test, line by line and with the properties that
watch it, is under `hazards` in `PROJECT.json`.

## 2. The modules

| Module | What it is |
|---|---|
| `ResourceLifecycle` | the abstract promise: resources exist only while the stored object has its finalizer, one of a kind at most, and the finalizer goes last |
| `AWSMachine` | the life of one AWSMachine, its AWS resources and the API server; implements `ResourceLifecycle` for the instance |
| `AWSMachineProofs`, `AWSMachineRefinement` | theorems about `AWSMachine`: types, instances and the finalizer; then the refinement of `ResourceLifecycle`, addresses, load balancers, hosts and bootstrap data |
| `InstanceStateProofs`, `MachinePoolProofs` | theorems about `InstanceState` and `MachinePool` |
| `AWSCluster` | the life of one AWSCluster with the services it drives |
| `AWSClusterProofs`, `EKSControlPlaneProofs`, `EKSWorkersProofs`, `ROSAProofs` | theorems about `AWSCluster`, `EKSControlPlane`, `EKSWorkers` and `ROSA` |
| `MachinePool` | one AWSMachinePool: launch template, Auto Scaling group, instance refresh, AWSMachines of the pool; implements `ResourceLifecycle` for template and group |
| `InstanceState` | the workers of a cluster and of its machines on one event pattern, and the reconciler, start-up goroutine and pollers of the queue |
| `EKSControlPlane` | one AWSManagedControlPlane with add-ons, identity provider and access entries, against an EKS that works after it has answered |
| `NodeGroup`, `FargateProfile`, `EKSBootstrap`, `EKSWorkload`, composed by `EKSWorkers` | the controllers of EKS workers and of their bootstrap data, and the edits of the workload cluster, beside the control plane they wait for and that waits for them |
| `ROSANetwork`, `ROSARoleConfig`, `ROSAControlPlane`, `ROSAMachinePool`, composed by `ROSA` | the ROSA controllers, the Cluster API objects between them, CloudFormation and OCM |
| `MCAWSMachine`, `MCAWSCluster`, `MCMachinePool` | the variants and the symmetry of the runs |

All specifications are cut the same way. `pc` is the call the reconcile in
flight makes next ("idle" when there is none); an action is what the code does
from there to its next call that creates, deletes or stores something, with every
early return. Calls that only describe belong to the step that uses their answer.
`obj` is the stored object, `cache` the informer's copy, `mem` the object in the
scope, `base` the copy the patch helper compares with; `Patched` writes the fields
in which `mem` and `base` differ, spec and status separately. `loc` holds the local
variables. Where several reconciles run at once, the worker is a record (`w`, `cw`,
`pw`, `nw[n]`, `wk[m]`) with its `pc` and its copies. Action names are the names of the functions in the code; `map` in
`PROJECT.json` gives the lines.

Faults are counted by `faults` and bounded by `MaxFaults`; `FaultKinds` says which
happen: `aws` (a call fails, with or without its effect; every call that creates,
changes or deletes something in AWS or OCM has both outcomes, in `MachinePool` the
second is a crash right after the call, which leaves the same state), `patch` (either half or
both fail), `crash` (the process dies at any step), `stale` (a reconcile may start
from an old cache), `denied` (IAM refuses a deregistration), `codeless` (an error
without an API code), `lblost` (somebody deletes the load balancer), `timeout` (a
wait, or the visibility of a message, runs out), `instance` (an instance ends by
itself), `update` and `install` (the service cannot do what it accepted), `api`,
`kube`, `ocm` (a call to that service fails), `resync` (a reconcile nobody
triggered). Edits of the user are counted by `edits` and bounded by `MaxEdits`.

**AWSMachine.** One machine; the instance follows the EC2 life cycle, can be
terminated by others at any time, forgotten once terminated and, with `CanStop`,
stopped and started. Constants choose the variant: secret backend, number of
chunks, dedicated host, Elastic IP pool, list of load balancer types. Conditions
are reduced to the one the control flow reads; `Status.Ready` equals "the recorded
state is running". Two history variables say what the controller can no longer know
of: `lostEntries`, the secret entries stored by calls that were not answered, and
`lostHosts`, the hosts allocated by such a call or whose id no patch stored.

**AWSCluster.** One cluster; `spec` is what the user chose (managed or own VPC,
listed or default subnets, Wavelength zone, IPv6, bastion, bucket, load balancer
type). AWS is modelled by what it refuses: a group another group's rule names, a
gateway with mapped addresses, a subnet with interfaces, a VPC with anything in
it; load balancers and bastions keep their interfaces for a while; the IPv6 block
is associated some time after the VPC exists. `tasks` are the goroutines of
`createNatGateways`: it returns with the first error and leaves the others
running, into the next reconcile or into the deletion. `services` is what Services of
the workload cluster left: load balancers, target groups and security groups, which
garbage collection (`spec.gc`) deletes in that order between the other services and
the network, and of which the classic load balancers are deleted in any case
(`deleteAWSCloudProviderELBs`).

**ResourceLifecycle.** Four steps: the finalizer is stored, a resource is created
(only with the finalizer stored, and only when none of its kind exists), resources
go, and the object goes when nothing is owned. `Lifecycle` in `AWSMachine` maps the
living instances to `owned`; in `MachinePool` the launch template and the active
group. `ImplementsLifecycle` is the abstract specification as a property of the
detailed one, so every step of a reconcile, of AWS or of a crash must be one of
these steps or a stutter.

**MachinePool.** `lt` is the sequence of template versions, each with a
configuration and the bootstrap data it points to; `asg`, `ins` and `refresh` are
the group, the configuration of every instance, and the instance refresh. A
reconcile compares with copies it took at its start (`loc.asg`, `loc.ids`,
`loc.cur`) while the group, an autoscaler and the refresh go on. `mode` selects
the variant: bootstrap data in S3, pool machines, an autoscaler, no refresh.
`missed` records a refresh that was due and not started.

**InstanceState.** `rule.ids` is the pattern. `AddDescribe` and `AddPut`,
`RemoveDescribe` and `RemovePut` are separate steps of every machine's worker,
since the code reads the pattern, changes it and writes it back; the AWSCluster
worker creates and deletes rule and queue. `urls` says who stored the queue's URL:
the reconciler or the start-up goroutine. A message is visible, received by one of
the pollers, or deleted, and visible again after its timeout.

**EKSControlPlane.** One worker; `w.seen` is the description all steps of one
reconcile work from, `w.plan` the procedures of the add-on planner, run one by
one. EKS keeps one update in progress (`eks.upd`) and refuses others.
`Attrs` are the parts of the configuration that are updated by calls of their own.
`lost` and `unanswered` are history: a reconcile that could not store what it did, and
an OIDC provider whose ARN was never learnt.

**EKSWorkers.** The control plane is reduced to its deletion, which waits for the
pools (`dependencyCount`), and to its ready condition, which both controllers wait
for and which a version raised by EKS takes away. `EKSBootstrap` has the work queue
(`bq`) in its state: a reconcile that waits returns without an error, so who enqueues
the configuration again matters. `EKSWorkload` is the end of the control plane's
reconcile, with the two reads of `aws-auth` apart. `Shapes` lists the cases: which
objects exist and what users do; the workload cluster is followed in the cases with
"workload", and the options of a pool vary in the one where the user edits it. A node
group has a Kubernetes version, a launch template version and an AMI release; EKS takes
the latest release (`Latest`) whenever one of the other two is updated, and the release
of the spec is asked for by an update of its own (`NextVersion`).

**ROSA.** `cfStack` is the field of the network reconciler that concurrent
reconciles share; `raced` marks the networks that read another one's. OCM installs,
upgrades and uninstalls by itself, deletes the last node pool only with the
cluster, and refuses a pool version above the cluster's. OIDC configurations are
numbered; one whose id was lost with a patch stays in `oidc`. The status of a role
configuration names the configuration and the ARN of its provider in separate fields,
and the deletion needs both. `sw` is the sync that creates the objects of a node pool
that has none: with the version of the node pool and, whatever its size, one replica.
Sizes start at zero, where a pool is never ready.

## 3. The runs

| Run | States | Instance | Shows |
|---|---|---|---|
| `machine_faults` | 1 234 000 | control plane machine, two v2 load balancers, Elastic IP pool, dedicated host; three failed or unanswered calls, failed patches, crashes | never two living instances, none without a stored object and finalizer, one address, retries reuse the recorded host and more than one is held only beside hosts whose id was lost, no termination while registered, `ResourceLifecycle` |
| `machine_liveness` | 105 000 | a classic load balancer, stopped instances, two failed calls or IAM denials | deletion completes, unready instances leave the load balancer |
| `machine_provision` | 648 000 | Secrets Manager, dedicated host, two failed or unanswered calls | user data kept while needed and deleted afterwards, save entries whose creation was not answered; provisioning completes over what earlier attempts left |
| `cluster_faults` | 1 608 000 | five kinds of cluster, two faults of any kind | never two VPCs, the user's network untouched |
| `cluster_recovery` | 910 000 | two zones, an IPv6 cluster with everything, and clusters in the user's VPC with Services of either type and garbage collection, one fault | becomes ready, ready means provisioned, deletion completes and leaves nothing |
| `pool_faults` | 2 770 000 | pool machines, or an autoscaler without refresh; one edit, two faults, vanishing instances | at most three versions, a refresh never started over another, only orphans deleted, `ResourceLifecycle` |
| `pool_rollout` | 1 418 000 | two edits of anything, one fault, a refresh that goes on by itself | pool and group agree in the end, old instances are replaced, deletion completes |
| `instance_pattern` | 1 326 000 | two machine workers and the cluster worker on one pattern, one fault | the enabled rule is never empty, lost updates are made good |
| `instance_queue` | 342 000 | two pollers, start-up goroutine, reconciler; timeouts, crashes | at least one processing before deletion, every message processed, nothing left, queue forgotten |
| `eks_converge` | 1 106 000 | three edits, updates EKS refuses meanwhile, one fault | everything asked for is applied, nothing left behind, deletion completes |
| `eks_workers` | 456 000 | node group, Fargate profile, bootstrap configuration and workload cluster beside the control plane; autoscaler, forced upgrade, edits, one fault | group, bootstrap secret and workload cluster converge (`WorkersConverge`), deletions complete, nothing left behind |
| `rosa` | 672 000 | two networks; cluster with its network; cluster with its roles; cluster with a pool of no, one or two nodes; one edit, one fault | roles, cluster and pool converge, deletions complete in any order, nothing left behind |

Bounds. Two ids of a kind are enough to show a duplicate, and the third address
of `cluster_recovery` lets a leftover goroutine and its successor hold different
ones for two zones. Every repair in the code is a complete new reconcile, so what
matters is the state a fault leaves and a second fault while repairing it: two to
four faults per behaviour, one where liveness is checked over a whole controller.
A fault may use up an id, so `machine_provision` has one prefix and one host more than
faults, and in `machine_faults` two of three hosts can be lost before a third is
allocated and its launch retried.
Two template configurations and two contents of bootstrap data, with up to four
versions, let a version be pruned that another one's data belongs to; three EKS
versions let an upgrade take two steps; two machines are enough for one worker to
undo the write of another, two pollers for a message to be received twice. The
number of reconciles, of retries and of cache lags is not bounded. Ids are
symmetric; symmetry is not used where liveness is checked. `cluster_faults` uses
two roles that name each other in their rules, the smallest set in which the order
of deletion matters. `EKSWorkers` and `ROSA` consider their combinations of objects
(`Shapes`) one by one. `CHECK_DEADLOCK FALSE` is set because a behaviour ends when
the object is gone.

Each run is checked with plausible errors of the code (the operators marked
"Mutation"): for every property there is one that breaks it.

Fairness (`FairSpec`). The worker is weakly fair: controller-runtime requeues a
reconcile that returned an error, the controllers return `RequeueAfter` where they
wait, watches enqueue changed objects, and the manager resyncs every
`SyncPeriod` (`main.go:200`; ten minutes by default). The bootstrap configurations
of MachinePools depend on that resync alone (`Resync`). Watches deliver. AWS finishes the transitions it
started, and so do EKS, Auto Scaling, CloudFormation and OCM; Cluster API's
MachinePool controller and the goroutines run. Nobody has to delete an object, and no step that only
fails is fair: faults are bounded, so what is shown is recovery after the last.

## 4. What the models show beyond the runs

The properties hold as they are stated, and their statements leave out what the
code does not ensure. Each item names the statement that the code does not
satisfy, or the configuration in which a checked one fails.

Machines:

* `Create` of the secret services goes on after a failed chunk and the next success
  overwrites the error; the instance is launched with part of its user data
  (`secretsmanager/secret.go:80`; `LaunchedWithWholeUserData` fails with two chunks
  and one failed call).
* The Elastic IP is released only in the reconcile that calls TerminateInstances; an
  instance that ended otherwise keeps it (`awsmachine_controller.go:449`;
  `AddressReleased`).
* After one failed launch the SSM parameter of the first attempt blocks every later
  one (`ssm/secret.go:99`; `ProvisioningCompletes` with `SecretBackend = "ssm"`).
* Deregistration from a classic load balancer returns from within the loop, and a
  secondary network load balancer keeps the instance
  (`awsmachine_controller.go:1010`; `DrainedBeforeTermination` with
  `LoadBalancers <- MixedLBs`).
* From a cache older than the stored object a deletion may remove the finalizer of
  a machine whose instance was just launched, or leave its secrets:
  `NoOrphanInstance`, `NoOrphanSecrets` and the liveness properties fail with
  `stale`. `NoOrphanSecrets` also fails with `crash`, since the count is written by
  the patch that follows the entries, and `BootstrapKept` with `CanStop`, since a
  stopped instance that is started again has lost its user data.
* A secret retried with fewer chunks records the smaller count
  (`awsmachine_controller.go:829`); `NoOrphanSecrets` is checked for one chunk.
* An entry whose CreateSecret took effect without an answer is not counted; with no
  entry written the prefix is not recorded either (`awsmachine_controller.go:829`), the
  next attempt takes a new one (`secretsmanager/secret.go:70`), and the entry stays in
  the account. `NoOrphanSecrets` leaves out exactly these (`lostEntries`).
* AllocateHosts carries no client token and nothing looks for a host
  (`ec2/dedicatedhosts.go:83`): one whose allocation was not answered, or whose id was
  in memory only when the process died or the patch failed, stays allocated and the
  next attempt allocates another. `OneHost` leaves out exactly these (`lostHosts`).
* A dedicated host is released only when the terminated instance is still described
  (`awsmachine_controller.go:370`).
* An instance whose id was never stored and that is stopped is not found by its tags
  (`ec2/instances.go:53`); `OneLiveInstance` is checked without `CanStop`.
* With an Elastic IP pool a stopped instance makes every reconcile return before the
  load balancers are looked at (`awsmachine_controller.go:586`).

Clusters:

* `DeleteNetwork` overwrites the VPC of the object with what AWS reports, which
  clears `CarrierGatewayID`: a cluster with a public subnet in a Wavelength zone is
  never deleted (`network/network.go:120`; `ClusterDeletionCompletes` with
  `Specs <- OnlyWavelength`).
* `createVPC` fails while the IPv6 block is being associated, so the id is not
  stored; a deletion at that moment leaves the VPC (`network/vpc.go:532`;
  `NoOrphanVPC` with `Specs <- OnlyIPv6`).
* `IsIgnorableSecurityGroupError` takes an error without a code for success
  (`awserrors/errors.go:210`), which in the user's VPC leaves the groups.
* `deleteLB` deletes listeners before target groups, which cannot be found after a
  failure in between (`elb/loadbalancer.go:1397`); an internet gateway that was
  created and not attached is not found again (`network/gateways.go:124`).
* When only the status half of a patch is written, Ready may be stored without the
  VPC id; a deletion with subnets that were never stored skips their NAT gateways and
  then cannot release the addresses. A deletion from a cache older than the stored VPC
  id removes the finalizer and leaves the VPC. `NoOrphanResources` fails with `stale`,
  `ReadyMeansProvisioned` and the liveness properties fail with `patch` or `stale`, and
  their run has neither.

* Without garbage collection the load balancers of Services stay in the account, and
  in a managed VPC they are in the way of its deletion (only classic ones are deleted
  in any case); the run has `spec.gc` set wherever there are Services.

Machine pools:

* The new version is recorded before the refresh is started
  (`awsmachinepool_controller.go:339`, which says so): after a crash or an error in
  between, nobody starts it. `RolloutCompletes` excuses exactly this (`missed`).
* A pool deleted before its template id was stored is never deleted: the template is
  found by name and deleted by an empty id (`awsmachinepool_controller.go:500`;
  `DeletedPoolGoesAway`).
* The S3 object of a pruned version is deleted even when a version that is kept has
  the same bootstrap data; the next reconcile writes it again
  (`launchtemplate.go:301`; `BootstrapDataServed`).
* While the tags annotation differs, every reconcile makes a new version and cancels
  the running refresh; a later step that fails persistently turns this into an
  endless rollout. A tag removed before the annotation was first written stays on
  the group. A group in deletion is not waited for, and its name is taken.
* Listing AWSMachines from the cache while their names are generated can give one
  instance two AWSMachines. `RolloutCompletes` is checked without pool machines.

Instance state:

* A worker that read the pattern before another one's removal puts the removed id
  back, where it stays; an instance's id is in the pattern before
  `Spec.InstanceID` is stored, so its first message may find no AWSMachine.
* A message is deleted whatever `processMessage` did
  (`awsinstancestate_controller.go:158`); `AtLeastOnce` is about having tried.
* The start-up goroutine may store the URL of a queue after the reconciler removed
  it (`:131`), which is then polled until the process ends; `QueueForgotten` leaves
  it out. The map is keyed by the name of the cluster without its namespace.
* A failed `DeleteEC2Events` is not fatal and leaves rule and queue (`excused`).

EKS:

* The trust policy is written after the provider's ARN was stored, and the next
  reconcile returns early (`oidc.go:48`): a failure in between leaves the cluster
  without it (`TrustPolicyWritten`;
  `docs/proposal/20230317-irsa-support-for-awscluster.md`).
* The check that an existing cluster is owned compares pointers that are never nil
  (`cluster.go:66`). A cluster in state FAILED counts as ready.
* The identity provider and the last access entry are not removed when they leave the
  spec; an access entry of somebody else for a wanted principal stops every reconcile
  at that step (`Stuck`).
* A crash between the creation of a role and the first patch leaves the role; turning
  `AssociateOIDCProvider` off leaves the provider (`NoOrphanEKS` says both).
* A CreateOpenIDConnectProvider that took effect without an answer leaves the ARN empty.
  The next reconcile finds the provider in the listing; a deletion that comes first skips
  it (`oidc.go:144`), and it stays in the account (`unanswered`).
* `Status.Addons` keeps the last add-on that was removed.

EKS workers:

* `createNodegroup` does not pass the AMI release of the spec; the group starts with the
  latest one and is brought to the release by an update.
* A control plane that EKS upgraded past its spec is not ready; once it is being
  deleted its version cannot be corrected, and it and its pools wait for each other
  (`FixedByVersion`; the remedy is quoted from `cluster.go`).
* `ReconcilePoolDelete` looks for the role only when it found a node group; a launch
  template whose id was not stored keeps the pool (`PoolStuck`); Fargate profiles are
  not among the dependencies the control plane waits for; a profile EKS cannot delete
  is left when its object goes.
* `saveAuthConfig` reads `aws-auth` again and replaces its mappings by those read
  earlier (`iamauth/configmap.go:141`), so the API server sees no conflict: a mapping
  made in between, such as the one EKS makes for a Fargate profile, is overwritten
  (`raced`), and nobody restores it.
* The role of a pool that is being deleted may be gone while its name is still in the
  object: every `ReconcileIAMAuthenticator` then ends there, before the mappings of
  the spec.
* Cluster events enqueue the configurations of Machines and not those of MachinePools
  (`eksconfig_controller.go:367`), and only when the infrastructure becomes ready: an
  EKSConfig that waits for the initialisation waits for the next resync.
* A Machine's configuration whose secret was created while the cache did not have it
  yet keeps `DataSecretAvailable` false: the next reconcile finds the secret and
  returns before the condition is set (`BootstrapDataAsAsked`).

ROSA:

* An OIDC configuration whose id was lost with the patch is not found again and stays
  in OCM; operator roles are taken by their prefix, so after two lost patches they
  may trust a configuration that is not the recorded one.
* The deletion of a ROSARoleConfig cannot be repeated: an OIDC configuration that is
  already deleted cannot be read (`rosaroleconfig_controller.go:364`), and a missing
  account role is an error (`CannotBeDeleted`, which `ROSADeletionCompletes` leaves
  out). The provider is deleted by the ARN in the status (`:376`), which is empty when
  the step that creates or finds the provider failed after the configuration's id was
  recorded (`:291`): AWS refuses an empty ARN, and a role configuration deleted in that
  state stays (`CannotBeDeleted` as well). Roles that are not ready, as they are in
  deletion, make every reconcile of the control plane that refers to them fail.
* Adopting a node pool gives its MachinePool one replica (`rosacluster_controller.go:293`),
  so a larger pool, such as the one OCM makes in a cluster of several zones, is scaled
  down to one node. `ROSAConverges` says that the pool reaches what the objects ask for.
* A pool of no nodes is never ready (`pkg/rosa/helpers.go:20`): it is neither upgraded nor
  adopted.
* When the answer to the creation of the identity provider is lost, the admin user is
  taken out of its group again (`idps.go:63`); the next reconcile finds the provider with
  its user and does not restore the membership (`"idp only"`).
* The reconciler of ROSANetworks keeps the stack it looked up in a field
  (`rosanetwork_controller.go:104`). A network in deletion that reads "no stack" of
  another network is finalised over its own stack; one that reads another's
  CREATE_COMPLETE reports ready. `NoOrphanROSA` excuses the networks that raced.
* The sync creates a ROSAMachinePool and a MachinePool and looks for the first only
  (`rosacluster_controller.go:344`): when the second could not be created, the pool
  never gets an owner (`halved`) and is then never finalised.
* The sync may create objects for a node pool that is being deleted. With a resync
  during the deletion of a control plane the two alternate until OCM is done.
* The reset of the version gate is part of a patch computed earlier and may
  overwrite an acknowledgement given in the meantime
  (`rosacontrolplane_controller.go:640`); `ROSAConverges` asks for the version only
  where the user's agreement is stored.
* `validateMachinePoolSpec` compares with the version asked for and not the one the
  cluster has, so OCM may refuse what was found valid until the upgrade is over.

## 5. What is proved

`AWSMachineProofs`, for all sets of ids, all lists of load balancers, every
variant and every number of faults; the only assumptions are those of
`ConstantsAssumption` and the ones in the statements:

* `TypeCorrect`: `Spec => []TypeOK`. The inductive invariant is
  `TypeInv == TypeOK /\ Located`: the record updates with `loc.found` and the
  index of the next secret entry are only well typed because a reconcile that
  works on an instance has found one and has written at most as many entries as
  it has seen chunks.
* `OneInstance`: `~CanStop => (Spec => []OneLiveInstance)`, stale caches
  included. `OneLiveInstance` is not inductive: `LaunchInv` adds that from
  `findInstance` to RunInstances (`Launching`) no instance lives. `NoOtherLaunch`
  shows that only `runInstance` brings one to life and `LaunchingStarts` that the
  way there leads through an empty answer of `findInstance`.
* `NoOrphan`: the stored object of a living instance carries the finalizer, when
  reconciles start from the stored object (`"stale" \notin FaultKinds`) and nobody
  restarts instances. `FinalizerInv` adds that a recorded id is the only instance
  that can be alive, in the stored object, in memory and in the locals (`MemInv`);
  that memory drops the finalizer only on the way to `close` with nothing alive;
  and that the finalizer in memory is also stored while the reconcile may launch.
  The lemmas `PatchKeeps` and `PatchStores` say what a half-written patch can do
  to the id and to the finalizer.

`AWSMachineRefinement` goes on from there:

* `MachineImplementsLifecycle`: under the hypotheses of `NoOrphan`, `AWSMachine`
  implements `ResourceLifecycle`. `LifecycleStep` shows that a step keeps, protects,
  finishes or asks to delete the object; `RefinementStep` maps the rest to `Create`
  or `Release`. `DeletionInv` is what was missing: memory drops the finalizer only
  of an object whose deletion it has seen, and deletions are not taken back.
* `OneAddressPerInstance`: no hypotheses, and `OneAddress` is inductive.
* `Drained`: an action property. `DrainInv` counts the load balancers the loop has
  passed without an error. `NoMixedLBs` leaves out machines with a classic load
  balancer beside others and `"denied"` the error reconcileDelete tolerates: in both
  the code goes on to terminate an instance that is still attached.
* `OneDedicatedHost`: any number of failed and unanswered calls, failed patches and
  crashes; only a stale cache is excluded, from which a reconcile allocates beside a
  host that is recorded. `HostInv` says that an allocated host that is not in
  `lostHosts` is the one in memory while the reconcile is under way and the one in
  store between two.
* `SecretsDeleted`: the prefix is recorded by the patch at the end of the reconcile, so a
  lost patch, a crash or a stale cache can leave an entry, and the theorem assumes none
  of these three; failed and unanswered calls are allowed in any number, and what is left
  is in `lostEntries`. `PrefixInv` and `EntriesInv` tie the entries to the prefix in
  memory and in store. With several entries a second Create that is cut short forgets the
  last ones, hence `NChunks = 1`; TLC reports that case as the hazard it is.
* `BootstrapDataKept`: any number of entries, lost patches and crashes. `FailedInv`
  (only a machine without a living instance fails), `FoundInv` (what the reconcile
  read when it comes to the bootstrap data is not better than what is the case),
  `CreatedInv` (Create stored what it counts) and `BootstrapInv` (the recorded entries
  exist while an instance boots).

`InstanceStateProofs`, without hypotheses, for any number of machines, messages and
pollers:

* `TypeCorrect`, with `Holding`: a worker between its read and its write of the rule
  holds a pattern.
* `RuleNeverCatchAll`: the pattern a worker writes contains its own instance when it
  adds, and the rule is disabled when the last one is removed.
* `MessagesProcessed`: `Processed` adds that a poller about to delete has processed.
* `NoEventsLeft`: `EventsInv` adds what DeleteEC2Events has removed before each of its
  calls, that it runs only when no machine is left, and that a machine that is gone
  has no worker that could put the rule back.

`MachinePoolProofs`, without hypotheses, for all ids, configurations, sizes, kinds of
pool, edits and faults. `Steps` states once which action leads to which label and what
it leaves alone; the proofs below cite it instead of going through 37 actions:

* `TypeCorrect`, with `DataKnown`: past GetRawBootstrapData there is data.
* `TemplateBounded`: `VersionsInv` adds that there is room once the pruning is past.
* `RefreshStarts`: `RefreshInv` says from the check to the start that nothing is under
  way if a refresh is due, and that "refresh" is only reached when one is due.
* `OrphansOnly`: an action property. `CopyInv` says that the copy of the group names
  every running instance with an AWSMachine: an instance launched later has none yet.
  It rests on instance ids not being reused (`FreshIds`).
* `PoolImplementsLifecycle`: `LifecycleInv` says that the finalizer is in memory and in
  store past its patch, that the group is not active past DeleteASGAndWait, and that the
  final patch lacks the finalizer only when template and active group are gone.

`AWSClusterProofs`, for all zones, roles, ids, choices of the user and numbers of
faults. `NormalPath` and `DeletePath` state the order of the services; `NormalAccount`,
`NormalObject`, `DeleteAccount`, `DeleteObject`, `TaskAccount` and `EnvironmentAccount`
state what a step of each kind can do to the account and to the object, so that the 60
actions are gone through once and not once per invariant:

* `TypeCorrect`, with `OrderKept`: subnets before route tables, groups before rules, and
  goroutines are waited for only where they were started.
* `AtMostOneVPC`: no hypotheses. `VpcInv`: CreateVpc follows an empty answer of
  describeVPCByName, which finds a VPC whose id was lost.
* `UnmanagedNetworkIsKept`: no hypotheses. `KindInv`: every copy of the object has the
  user's id, so that `IsUnmanaged` keeps the reconcile out of the labels of the network
  services, and no goroutine is ever started.
* `ResourcesDeleted`: no stale caches and no errors without a code; with either TLC finds
  an orphan (section 4). `SyncInv` ties the object, memory and the finalizer together:
  a deleting reconcile holds the object as stored, since nobody else writes it. `IdInv`:
  the id in the object is that of the one VPC there is, and only a deletion leaves an id
  without a VPC, with `NetGone`. `DeletedInv` follows a deleting reconcile: as long as it
  has met no error, what the services it has passed stand for is gone and stays gone
  (`Shrinks`). The NAT gateways that goroutines of an earlier reconcile create meanwhile
  are the delicate part: they need an idle address, and after releaseAddresses there
  is none left (`AfterAddresses`).
* `ReadyIsProvisioned`: patches arrive and caches are not stale. A lost patch of a
  half-written object may publish `ready` without the subnets or the endpoint, and a
  stale reconcile may create a second load balancer. `CopiesInv` says how the object,
  memory and the base of the patches differ in the middle of a reconcile, `ProvidedSoFar`
  what has been provided when the reconcile comes to a service, and `SameName` that a
  load balancer that is up has the published name: MayCreateLB refuses to replace one.

`EKSControlPlaneProofs`, without hypotheses, for any add-ons, principals, versions, edits
and faults:

* `ControlPlaneDeleted`. `FinalizerInv`: nothing exists before the finalizer is stored,
  nor when the patch that drops it is written. `NamesInv`, which holds while no patch was
  lost: the role and the provider there are, are named in the copy the next call works
  with, in memory during a reconcile and in store between two, a provider only if its ARN
  was ever learnt (`unanswered`); reconcileDelete deletes by these names only. `DeletionInv` follows the order of the deletion, and says that
  the spec the reconcile has read is still the user's, since nobody edits an object in
  deletion.

`EKSWorkersProofs`, without hypotheses, for any number of versions, template versions,
sizes, edits and faults:

* `WorkersDeleted`: one inductive invariant for each controller. `PoolInv` and
  `ProfileInv` say that the finalizer is stored before the first creation and leaves
  memory after the last deletion, that a reconcile past its patch has it, and that the
  name of a profile's role is stored before there is a role. `RoleInv`, which holds
  only while nothing has failed: a role without a node group is one that the reconcile
  under way is about to use or to delete, since ReconcilePoolDelete passes by the role
  when it finds no node group. `OrderInv`: dependencyCount keeps the control plane until
  the pool is gone, and a pool that is gone stays gone.

`ROSAProofs`, without hypotheses, for any number of networks, versions, sizes, edits and
faults:

* `ROSADeleted`: one inductive invariant for each controller; `OthersKept` says that a
  step of one leaves those of the others alone. `ClusterInv`: the finalizer is stored
  before the cluster is created and leaves memory when OCM no longer knows it, and the
  admin password is stored before there is a user. `PoolsInv`: node pools are created in
  a cluster that is ready and OCM deletes them before the cluster, so the control plane
  need not wait for them. `NetworkInv`, of the networks outside `raced`: the controller
  that decides on a deletion by the shared field cfStack reads what it wrote itself, and
  a field that says there is no stack is right until then, since only its own worker
  creates one. `RolesInv` follows the order of the deletion: operator roles, provider
  (by its recorded ARN) and configuration, account roles, finalizer.

With these, every invariant and every action property that a run checks is also a
theorem. Only model-checked are the liveness properties: temporal reasoning under
fairness is outside what TLAPS does here. Writing the proofs changed the model in a few
places: an overlapping CASE in DeleteOrphanedAWSMachines and one in the add-on calls left
open what happens when two guards hold, and a patch of a pool that is gone had no outcome
without a fault.

## 6. Plan

The models and the theorems of the plan are done. What could be added:

1. Fewer hypotheses where the code justifies it: `SecretsDeleted` for behaviours in
   which only some patches are lost, as `OneDedicatedHost` has it.
2. The safety part of the liveness arguments as theorems, for example that a deleting
   reconcile without faults never goes back to an earlier service.

## 7. Not modelled

In the modelled components: conditions nobody reads, tags and their updates where
no control depends on them, events and logs, the boot script that deletes its own
secrets, Ignition user data of single machines, security groups of network
interfaces the user brought, external load balancers, secondary CIDR blocks and
load balancers, BYOIP pools, the content of security group rules, VPC endpoints and
launch templates, mixed instance policies, the annotation that selects the tasks of
garbage collection and its alternative strategy, the CRD backend of the IAM
authenticator (the controller does not use it), the templates of user data and the
files they include, kubeconfig secrets of EKS, unmanaged OIDC configurations,
autoscaling and channels of ROSA. EC2
descriptions are consistent; the code relies on the provider id being stored before
the next reconcile when they are not. In `AWSCluster` a cluster is deleted without
its machines; the wait for them (`dependencyCount`) is in `InstanceState`.

Other components, with the reasons, are listed under `components` in
`PROJECT.json`. Throttling is about real time: the limiter of an operation is created
on first use without a lock (`throttle.go:78`), so two goroutines may each have their
own for a moment, which changes how long calls take and nothing else. CIDR
arithmetic, webhooks and conversions are pure functions of one object. ROSA's external
authentication is driven by the API of the hosted cluster: the annotation of the last
applied providers may be stale after a failure. Credentials and the command line have
no life cycle.

Most lines of the repository outside the map are generated (deep copies and
conversions, some 19 000), API types with their webhooks and conversions, the command
line and its CloudFormation templates, and the builders of AWS requests: they have no
steps that a state machine could tell apart.

# Verification of smeltry-operator

smeltry-operator turns `ClusterClaim` objects into bare-metal Kubernetes clusters and
`ServerClaim` objects into single servers. It is a handful of controllers in one process that
drive two stores: the Kubernetes API server, where writes are checked against the version they
were read at, and Netbox, the inventory of devices and addresses, where nothing is checked. What
is hard about it is not any one handler but what happens between two calls of a handler: another
worker, a stale cache, a user's edit, a lost answer, a crash.

Paths below are relative to the repository; line numbers are those of the modelled commit.

## 1. The system

| Part | Source | State it keeps | Operations |
|---|---|---|---|
| `ClusterClaimReconciler` | `internal/controller/clusterclaim_controller.go` | none of its own; `status` and the finalizer of each claim | dispatch on phase, six steps, scale up and down, finalizer |
| `ServerClaimReconciler` | `internal/controller/serverclaim_controller.go` | `status` and finalizer of each server claim | validate, provision, finalizer |
| Netbox client | `internal/netbox/client.go` | none; devices and addresses live in Netbox | list devices, set status, allocate and release an address, list tenants and OSD disks |
| `NetboxTenantReconciler` | `internal/controller/netboxtenant_controller.go` | Namespace, ResourceQuota, Role, RoleBinding of each tenant | one poll over all tenants |
| `SiteConfigReconciler` | `internal/controller/siteconfig_controller.go` | `status.machineClasses` of each site | one poll of the site's devices |
| `ConfigReconciler`, `NetboxHolder` | `internal/config/` | the current Netbox client, under a lock | reload, get, set |
| Startup | `main.go` | URL and token of the start, worker count, leader lease | read, wire, elect |
| Cluster RBAC | `internal/rbac/setup.go` | four cluster-scoped objects | create or update at startup |
| Audit events | `internal/controller/auditevent_controller.go` | `AuditEvent` objects | emit (best effort), purge after a TTL |
| Metrics, telemetry | `internal/metrics`, `internal/telemetry` | counters | export |

How they interact:

- *Claims and Netbox.* A claim's addresses and devices are taken from Netbox first and recorded in
  the claim's status afterwards; the finalizer reads the status and gives them back.
- *ClusterClaim and the tenant poll.* Both write the Role `cluster-user` of the tenant: the poll
  sets all of its rules, the claim adds its kubeconfig secret to one of them and takes it out. That
  rule lists secrets; with an empty list it covers all of them (`MayGet`).
- *ClusterClaim and ServerClaim* meet only in Netbox: both list available devices and stage some.
- *ClusterClaim and the cluster's own controllers.* It creates a machinecfg Job, CAPI objects and
  HelmReleases and waits for them. The Job is owned and watched; the others are polled.
- *The reload* replaces the client the other controllers get from the holder on every call; the
  Jobs get the URL and token of the start.
- *Two processes* run during a rolling update: both start, ensure the same cluster RBAC, and
  compete for one lease.

What makes each part correct:

| Part | Properties |
|---|---|
| `ClusterClaimReconciler` | no device or address recorded twice; nothing taken and forgotten beyond what a fault explains; phases move forward and mean what they say; what was recorded is released before the object goes; no name of a claim stays in the Role for good; every claim settles and every deleted claim goes; addons are installed in order and asked before they are reported |
| `ServerClaimReconciler` | the same for one address and one device, and exclusive against clusters; its audit trail agrees with what happened |
| Netbox client | a released device can be allocated again |
| `NetboxTenantReconciler` | no rights without the quota that caps them; every tenant is provided, whatever hangs in another; the kubeconfigs of Ready clusters can be read and no others |
| `SiteConfigReconciler` | a written status is the exact summary of what was listed, of the right site, and follows the inventory |
| `ConfigReconciler`, Startup | the client in use is usable, never goes back, and follows the edits; nothing is served before it is set up; somebody leads |

The hazards this code is exposed to are listed with their lines in `PROJECT.json`, each with the
properties that would catch it, or the reason none does.

## 2. The modules

| Module | What it is |
|---|---|
| `Netbox` | the inventory, and the effect on it of each request of `client.go` that claims make |
| `TenantRole` | the shared Role, the informer's copy of it, and the poll that rewrites it |
| `ClusterClaim` | the controller: extends both, adds the API server, the work queue, the workers, users, faults and the outside world |
| `ClusterClaimInv` | its inductive invariants, checked by TLC and used by the proofs |
| `ServerClaim` | the controller of single servers over the same `Netbox`, with its audit events |
| `DeviceLedger` | abstract: what a controller of claims promises about the devices of a site |
| `Fleet` | composition: `ClusterClaim` extended by an instance of `ServerClaim` over one inventory |
| `Addons` | step 3 of a ClusterClaim in detail: one HelmRelease per component of a profile that is edited |
| `TenantSync` | the tenant poll in detail: four objects per tenant, four informers, namespaces that go |
| `SiteSync` | the site poll: listing, aggregation, status, and its own watch events |
| `Startup`, `ConfigReload` | a process up to its lease; the same process with the reload of its client |
| `ClusterClaimProofs`, `ClusterHeldProofs` | the theorems about `ClusterClaim`: types, phases, devices; addresses, finalizer, refinement |
| `ServerClaimProofs`, `DeviceLedgerProofs`, `TenantSyncProofs`, `AddonsProofs`, `SiteSyncProofs`, `ConfigReloadProofs` | the theorems about the module each is named after |
| `MC...` | values for the constants that a `.cfg` cannot write down |

`TenantRole` and `TenantSync` are two views of one controller. What the Role *says* matters to
claims and is shared with them; whether Role, quota and binding *are there* matters to the tenant.
No property relates the two, and neither view needs the state of the other. `Addons` refines one
action of `ClusterClaim` (`WatchAddons`) in the same way: there one state stands for all
HelmReleases of a claim, here each has its own.

### 2.1 State

| Code | Model |
|---|---|
| Netbox device: status, tenant | `device[m]` |
| Netbox ip-address record and its DNS name | `ipam[i]`; an ID is used once, the smallest unused first |
| the Role's `resourceNames`, the informer's copy | `role`, `roleSeen`, `roleCur` |
| the `ClusterClaim` in the API server | `claim[c]`: lifecycle, finalizer, phase, `machineCount`, annotation, two addresses, their IDs, devices, kubeconfig |
| the informer's copy, and whether its resourceVersion is current | `cache[c]`, `cacheCur[c]` |
| the work queue | `queued[c]` |
| the goroutine reconciling `c`: where it is, its copy, whether that is current, its loop | `pc[c]`, `mem[c]`, `memCur[c]`, `todo[c]` |
| the machinecfg Job; the CAPI objects, as far as they are made (`begun`: the unstructured ones only), and HelmReleases | `job[c]`, `infra[c]` |
| the same of a `ServerClaim` | `server[s]`, `seen[s]`, `seenCur[s]`, `due[s]`, `at[s]`, `copy[s]`, `copyCur[s]`, `chosen[s]`, `work[s]` |
| the AuditEvents of a server | `trail[s]`, the types emitted |
| AddonProfile, its informer's copy; HelmReleases | `profile`, `seen`; `release[c]` with the version it was made from |
| a pass of `stepWatchAddons` | `stage`, `version`, `left`, `allReady` |
| `k8s_max_clusters`; namespace and contents; four informers' copies | `limit[t]`; `object[t]`; `seen[t]` |
| the poll: listing, tenant, object | `plan`, `current`, `step` |
| SiteConfig: site slug, summaries, age of `LastMachineSync` | `site`, `classes`, `elapsed` |
| ConfigMap and Secret; URL and token of the start; the holder | `stored`; `boot[r]`; `client[r]` |
| a process and its Lease; the object of `EnsureClusterRBAC` it is at, and what Get returned | `stage[r]`, `lease`; `step[r]`, `got[r]` |
| bounds on the environment | `faults`, `edits` |

A resourceVersion matters only through one comparison, so it is kept as one bit per copy: is this
the current version? Every accepted write, of whoever, clears the bit of the copies it overtakes.
In `TenantSync` and `Startup` the contents are compared instead. In `Startup` they never return to
what they were. In `TenantSync` they can, when a namespace is created anew: the API server would
refuse one write there that the model accepts or finds unnecessary, and the tenant would be given
up for one poll, which `GiveUp` is.

Some variables are history, read by properties only: `installed` and `readySince` of `Addons`,
`unchecked` of `TenantSync`, `job` of `ConfigReload`, `trail` of `ServerClaim`.

### 2.2 Actions

A reconciliation is cut at its external calls, because everybody else can act between two of
them. `Begin(c)` is the first cut: a free worker takes `c` from the queue, copies it from the
informer cache and dispatches on phase, finalizer and deletion, as `Reconcile` does. A handler
with one external write that matters is one action (`AddFinalizer`, `Validate`, `WatchAddons`,
`GraceDelete`, ...). The long ones go on in `Continue(c)`:

- `stepProvision`: `BeginProvision`, then `AllocateAddress` and `SaveAddress` once per address,
  `ListMachines`, `StageMachine` once per device, `SaveMachines`, and `CreateJob`, `AwaitJob`,
  `FailOnJob` or `EnsureCluster` by the state of the Job;
- `stepExposeKubeconfig`: `Grant` (the Role), `SaveReady` (the status);
- `scaleUp`: `ScaleUp`, then `StageMachine` and `SaveMachines`; `scaleDown`: `ScaleDown`, then
  `ReleaseMachine` per device and `SaveMachines`;
- `reconcileDelete`: `ReleaseAll` (addresses, devices, Role), then `RemoveFinalizer`.

`ServerClaim` is cut likewise: `AddFinalizer`, `NothingToDo` and `Validate`; `BeginProvision`,
then `AllocateAddress`, `SaveAddress`, `ListMachines`, `StageMachine`, `SaveMachine` and, by the Job,
`CreateJob`, `AwaitJob`, `FailOnJob` or `SaveReady`; `ReleaseAll` and `RemoveFinalizer`. It stages the
one device of the listing it picks, always has one worker, and asks the Job for failures first.
Its events are steps of their own (`EmitPhaseChanged`, `EmitMachineAllocated`; that of a deletion is
part of `ReleaseAll`), because the worker can die between a save and its event.

The other modules:

- `Addons`: `Begin`, `EnsureHelmRelease` per component, `CheckRequired` per required component,
  `Decide`. Each of them may end the pass with an error.
- `TenantSync`: `Poll` (the listing), then per tenant `EnsureNamespace` and `EnsureObject` for quota,
  Role and RoleBinding; `GiveUp` is the error that ends a tenant. The order of tenants is Netbox's.
- `SiteSync`: `Reconcile` (read and listing), `UpdateStatus` (aggregation and write), with the
  request in the queue `now` (an event, a retry) or `later` (`RequeueAfter`). `Count` is one turn of the loop,
  `aggregateMachineClasses` the fold over the listing.
- `Startup`: `Boot`, `ReadConfigMap`, `ReadSecret`, then `GetObject` and `PutObject` for each of four
  objects; `ConfigReload` adds `Elect`, `Watch`, `BeginReload` (the ConfigMap), `EndReload` (the Secret)
  and `CreateJob`. `Get` and `Set` are the holder; under its lock each is one step.

Each call may fail where the code handles a failure: a Netbox request before it took effect or
after (only the answer is lost), an error document that decodes to an empty listing, an API write
refused for a stale copy or lost in either direction. `Restart`, `Crash` and `Die` are a crash at any
point: copies and queue are lost and the informers list afresh. Users and administrators are
`Scale`, `Annotate`, `Delete`, `Relabel`, `EditProfile`, `Degrade`, `DeleteNamespace`, `SetLimit`, `EditSpec`,
`ChangeDevice`, `EditObject`, `Rotate`.

### 2.3 Abstractions, and why they are sound here

- Devices of one site and machine class; claims of one class compete, others do not. (`SiteSync`
  has classes and sites, as they are its subject.)
- A recorded list of devices is a set. `scaleDown` releases the last ones; the model releases any
  subset of that size, which includes it.
- The `delete-at` time: the annotation is there or not, and may have passed at any moment.
- AddonProfile and SiteConfig of a claim exist and fit, or do not, for good (`Resolvable`), and the
  SiteConfig names an OIDC issuer or not (`WithIssuer`). Their removal under a running claim is an
  error that is retried, like other lost reads.
- The scheme of the client knows the types of cluster-api or not (`TypesKnown`). As shipped it does
  not: `init` (`main.go:40`) registers client-go's and the portal's, and the three typed calls of
  `ensureCAPIObjects` (`:662`, `:710`, `:762`) fail. The runs set `TypesKnown` to TRUE, the program with
  the missing registration, because everything after `Provisioning` would otherwise never be
  reached; §3 says what TLC shows without. The theorems hold for both.
- Conditions, DNS names in the status, OSD disks and `ClusterRef` steer no handler. A blocked
  scaling still writes the object, as the code does.
- The finalizer's releases are one step. Each is a request whose repetition changes nothing, they
  touch only what the claim records, and released devices keep their tenant, so no listing can
  pick one up half way; a crash half way is followed by the whole list again.
- Reads of Jobs and HelmReleases are fresh. HelmReleases are unstructured, which the client does not
  cache; for the Job a stale read repeats a create that is refused. The CAPI Cluster is typed and
  read from an informer (`:762`): that it is not found yet, or that an update of it or of the
  MachineDeployment is refused, is a disjunct of `EnsureCluster` under `Lag`; that its readiness is seen late
  is a later `InfraRuns`.
- `Addons` has no stale copy of the claim: such a pass ends in a conflict, which is the fault of
  `Decide` that changes nothing, and creates nothing that the next pass would not.
- `RequeueAfter` puts a request back in the queue at once: time passes at any speed.
- Classes and tags are numbers, and a listing is in the order of the devices; the summary does not
  depend on it.
- The informers of `ConfigReload` may start as early as the process is ready and be as old as that
  when it is elected; controller-runtime starts them at the election, which is one of the cases. The
  first list of an informer may in principle be older than the reads of the start (any
  resourceVersion will do for it); that is not modelled.
- Nobody deletes the four RBAC objects while two processes start (`EditObject` only changes them), and
  at most one process holds the lease: leader election is taken at its word.
- The operator has the permissions its code needs. `config/rbac/cluster_role.yaml` grants fewer, for
  instance nothing on ResourceQuotas, ClusterRoles and ClusterRoleBindings; with it, what is said of
  progress (`TenantsProvided`, `SomeoneLeads`, `Settles`) is said of nobody.
- `trail` is the set of types emitted: an event emitted twice looks like one.
- One process writes claims (leader election), so a crash ends all of its requests; a request
  delayed in the network beyond the restart is not modelled.
- A deleted claim is not created again under its name.
- Every request is answered or fails. The HTTP client has no timeout, so a Netbox that hangs
  would hold a worker forever: listed as a hazard, outside the models.
- `return result.Results, decoder.Decode(&result)` (`client.go:127`) is read in the order the Go
  compiler gives it, call first.

`Recycle` is outside the repository: an administrator clearing the tenant of a released device.
Without it the finding `NeverRecycled` ends every story early; with it the runs also cover devices
that go from claim to claim. Runs choose by `AdminRecycles`.

## 3. What TLC checks

Bounds are constants: `MaxWant` (largest `machineCount`), `MaxFaults`, `MaxEdits`, `MaxVersion`, `MaxLimit`
and the sets of claims, devices, address IDs, tenants and processes. Address IDs are never reused,
so their number bounds how many allocations a behaviour can make; when they run out,
`AllocateAddress` takes the branch of a full prefix. Checking for deadlock is off where the system
rightly stops: when all claims are gone or failed, the addons ready, the configuration at rest.

| Run | Instance | Shows |
|---|---|---|
| `Serial` | 1 worker, 2 claims, 3 devices, `machineCount` up to 2, 1 crash or lost API request, 1 edit, devices recycled | `TypeOK`, `SerialExclusive`, `RecordedIPsLive`, `IPLeakBounded`, `StrandedBounded`, `FinalizerReleases` |
| `Stale` | 1 claim, stale informer, every kind of fault once, Jobs ending in each way, rook-ceph, 1 edit, fairness | `PhaseBacked`, `PhaseMonotone`, `Settles`, `DeletionCompletes`, `NamesForgotten` |
| `StaleShared` | 2 claims, 1 worker, 2 devices, stale informers, 1 edit, devices recycled | the inductive `SerialInv` and `PhaseInv`; the refinement `LedgerKept` |
| `Servers` | 2 server claims of two tenants, 1 device, 3 addresses, stale informer for one of them, every kind of fault once, 1 edit, fairness | `ServerTypeOK`, `RecordedHeld`, `LossBounded`, `JobBacked`, `TrailTruthful`, `TrailGapsBounded`, `LedgerKept`, `FinalizerReleases`, `Settles`, `DeletionCompletes` |
| `Tenants` | 2 tenants, one whose namespace may hang, limits 0 to 2, 1 fault, 1 edit, fairness | `TenantTypeOK`, `RightsCapped`, `TenantsProvided` |
| `Sites` | 5 devices on 2 sites, 2 classes and a device without one, overlapping tags, any initial states, 2 faults, 2 edits, fairness | `SyncExact`, `SitesUnmixed`, `StatusFollows` |
| `Addons` | 3 components, 2 of equal order, an edit that reorders, 2 faults, 2 releases that fail or go, fairness | `AddonsTypeOK`, `RequiredWereReady`, `InstallOrder`, `AddonsComplete` |
| `Reload` | 2 processes, 3 versions of URL and token of which the second is empty, 1 fault, fairness | `ReloadTypeOK`, `SetUpBeforeServing`, `ClientUsable`, `ClientMonotone`, `ReloadTakesHold`, `SomeoneLeads` |

One worker is what the shipped deployment gives: `main.go:164` takes one per CPU of the container's
limit, and `config/manager/manager.yaml:71` limits it to half a CPU. A higher limit gives more, and then
the exclusion of devices is lost, see the end of this section.

Why these bounds: two claims, three devices and a largest count of two are the least for which two
claims compete for a device, one of them scales, and a released device is left over for the other.
One fault suffices to break each of the sequences "do it in Netbox, then record it"; a second one
repeats the first. In `Servers` one device is enough for two claims to compete, as
each wants one; that only one claim's cache lags lets the same run bound the losses of the other
(a stale cache loses an address on every retry, so there is no bound for it). `Tenants` needs two
tenants for one to be in the way of the other, and one edit to delete a namespace that the poll
then meets in each of its states. `Sites` starts from every mixture of active devices, so that the
aggregation meets all of its listings; two edits let the site change and come back around one
write. `Addons` needs three components for "equal" and "later" at once, and a second version of the
profile in which an optional component becomes required and moves. In `Reload` version 2 is blank,
so that a reload has something to refuse and something better to come.

The properties in words (each is stated again at its definition):

- `SerialExclusive`: with one worker, no device is recorded by two claims.
- `RecordedIPsLive`: what a live claim points at and will release exists and carries its name.
- `IPLeakBounded`: with a fresh cache, at most one address is lost per worker and fault, or edit.
- `StrandedBounded`: with a fresh cache, a fault strands at most the devices of one claim per
  worker, an edit those of one claim; nothing else leaves a device staged and unrecorded.
- `FinalizerReleases`: an object goes only after everything it records is released, provided
  Netbox answers and one worker runs; for servers, what stays behind is bounded by the faults of
  the run, which is weaker than by the failed requests of that finalizer.
- `PhaseBacked`: a Job and a phase exist only after what they build on; while the Role names any
  secret, the tenant can read a claim's only after its addons were ready. Of an empty list, which
  admits every secret, it says nothing: then the tenant can read the kubeconfig of a cluster still
  being provisioned.
- `PhaseMonotone`: phases move along the documented state machine only; `Failed` is terminal.
- `NamesForgotten`: the name of a claim that is gone does not stay in the Role, where it would expose
  the next cluster of that name. It is about the list and not about access: without a name the list
  is empty and admits all.
- `RecordedHeld`: what a live server claim records is its own, and no other claim's.
- `LossBounded`: one fault or edit loses an address or a device, never both.
- `JobBacked`: a Job runs only once address and device are saved, and the phase agrees with it.
- `TrailTruthful`, `TrailGapsBounded`: events say nothing that did not happen, and each missing one
  cost a fault.
- `LedgerKept`: the controller implements `DeviceLedger`.
- `RightsCapped`: role and binding never without the quota. The one exception is in the property: a
  quota that was found, unchanged, in a copy from before its namespace went.
- `TenantsProvided`, `AddonsComplete`, `StatusFollows`, `ReloadTakesHold`, `SomeoneLeads`,
  `Settles`, `DeletionCompletes`: what must happen in the end.
- `SyncExact`: the loop of `aggregateMachineClasses` against a definition without the loop.
- `SitesUnmixed`: a status written is about the site the SiteConfig names at that moment.
- `RequiredWereReady`: every required component was ready at some moment of the pass that saved
  `AddonsReady`; that they were ready together is not so, and not claimed.
- `InstallOrder`: created in order, across passes and versions.
- `SetUpBeforeServing`: one leader, and only over complete RBAC; never a binding before its role.
- `ClientUsable`, `ClientMonotone`: the client is never built from an empty value and never goes back.

### The refinement

`DeviceLedger` has two variables, which claim records which devices and whom the inventory says a
device belongs to, and four steps: assign, record, forget, recycle. `LedgerKept` is its specification
under the mapping `owned <- what the claims in the API server record`, `tenant <- device[m].tenant`. It says
that between any two steps of workers, informers, users and faults a controller does no more than
that: it records only devices that are its tenant's and no other claim's, and a device is made
available again only while unrecorded. Staging maps to `Assign`, the save to `Record`, scale-down and
the removal of the finalizer to `Forget`, everything else stutters. Both controllers implement the
ledger with one worker; together, in `Fleet`, they do not.

### Fairness

`Begin` is strongly fair per claim: controller-runtime's queue is first in, first out, so a claim
in it is taken although other claims occupy the workers in between; with one worker its action is
enabled again and again but not continuously. `Continue` and the steps of the other handlers are
weakly fair: a goroutine goes on. Informers deliver, Jobs, clusters and releases come up (the
properties are about the operator, not about hardware that never boots), tenants and sites are
polled, the pod is started again, the lease of a dead process expires, and a terminating
namespace that can be emptied is: all weakly fair. `Elect` is fair for the processes together, not
for each. Users, administrators and faults owe nothing.

Four waits without end are named in `Settles` of `ClusterClaim` (`WaitsForEver`), because the code has
them: a Job that failed without a completion time (`:275`), a prefix without addresses, a site
without an OIDC issuer (`:583`), and a client that does not know the type of the CAPI Cluster
(`main.go:41`). `Stale` has the first two; it gives the claim an issuer and the client the types, so
that what comes after is reached.

### What the repository says and the code does not keep

Four runs expect a violation; each quotes its text in `PROJECT.json`. They are as small as the
violation allows, and nothing fails in any of them.

| Run | The code |
|---|---|
| `Fleet` | a cluster and a server list the same last device before either stages it, and both record it; one worker each, no fault |
| `GrantLost` | the tenant poll empties the list of granted secrets; the next cluster that becomes Ready adds its own name alone, and the kubeconfig of the first can no longer be read |
| `NeverRecycled` | released devices keep their tenant and are never available again |
| `StaleToken` | after an edit of the Secret the client is new and the Jobs still get the old token |

Divergences that were met and have no run of their own. The first five are in `ClusterClaim`, and a
change of one constant in the `.cfg` named lets TLC reach them:

- With more than one worker (`NeverRecycled.cfg` with two claims and devices and `MaxWorkers = 2`) two
  ClusterClaims list the same device before either stages it and both record it: `Exclusive` is
  violated without a fault or an edit, although `AllocatedMachineIDs` "holds the Netbox device IDs
  allocated to this cluster" (`clusterclaim_types.go:73`).
- From a stale cache (`Lag = TRUE`) the steps 2a and 2b, which `clusterclaim_controller.go:180` calls
  idempotent, allocate a second address for one name, and the conflict that follows loses its ID.
- A Job that fails (`JobOutcomes = {"failed"}`) has no completion time, which is tested first: the claim
  stays in Provisioning. `TestClusterClaim_JobFailed_MovesToFailed` uses a failed Job that has one.
- Without the types of cluster-api (`TypesKnown = FALSE`, as `main.go:40` has it) no claim leaves
  Provisioning, while `README.md:66` goes on to `ClusterReady`.
- Without an OIDC issuer (`WithIssuer = {}`) the same happens, by an error that is retried for ever.
- Before any cluster is Ready, and after the last name was removed, the tenant's Role has an empty
  list and admits every secret of the namespace, although `clusterclaim_controller.go:355` grants
  "read access to this specific secret".
- A claim deleted between grant and status leaves its name in the Role until the next poll.
- An error document in place of a listing fails a claim for good (`:134`) and clears the summaries of
  a site until the next poll, although `other_types.go:261` says that an empty slice means no active machines.
- `ensureHelmRelease` "creates or updates" (`:785`); it never updates.
- The events of clusters are emitted before the save (`:234`) and can name devices that are not recorded.

## 4. What is proved

Every safety invariant and every action property of the passing runs but two (`StrandedBounded`,
`SyncExact`) is also a theorem. Each holds for every finite set of claims, devices and address IDs, every number of
workers, faults and edits, every choice of fault kinds and Job outcomes, with fresh or stale
informers, unless its own text says otherwise; and likewise for every set of tenants, sites,
components and processes. Assumed are the named `ASSUME`s of the modules and nothing else: sets are
finite where something is counted, each claim has a tenant, `NoTenant`, `NoIP` and `NoMachine` are
none of theirs, bounds are numbers, the profiles of `Addons` are a nonempty sequence and each has a
component (`MinItems=1`, `Minimum=1` in `other_types.go:115,134`), version 1 of the configuration is
not blank.

| Module | Theorem | States |
|---|---|---|
| `ClusterClaimProofs` | `TypeCorrect` | `TypeOK` |
| | `PhaseInvariant`, `PhasesMoveForward` | `PhaseInv`; from it, `PhaseMonotone` |
| | `SerialInvariant`, `OneWorkerExclusive` | `SerialInv`; from it, `SerialExclusive` |
| `ClusterHeldProofs` | `ClaimsHoldTheirOwn` | `RecordedIPsLive` |
| | `PhasesAreBacked` | `PhaseBacked` |
| | `FinalizerWaits`, `FinalizersRelease` | `ReleasedInv`, `FinalizerReleases` |
| | `LeaksAreBounded` | `IPLeakBounded` |
| | `ClustersKeepTheLedger` | `LedgerKept`, when `MaxWorkers = 1` |
| `ServerClaimProofs` | `ServerTypeCorrect` | `ServerTypeOK` |
| | `ServersHoldTheirOwn` | `RecordedHeld` |
| | `ServersKeepTheLedger` | `LedgerKept` |
| | `JobsAreBacked` | `JobBacked` |
| | `EventsAreTrue`, `MissingEventsAreFaults` | `TrailTruthful`, `TrailGapsBounded` |
| | `FinalizerGivesBack` | `FinalizerReleases` |
| | `ServersLoseLittle` | `LossBounded` |
| `DeviceLedgerProofs` | `LedgerOneOwner` | the ledger's `OneOwner` |
| `TenantSyncProofs` | `TenantTypeCorrect`, `RightsAreCapped` | `TenantTypeOK`, `RightsCapped` |
| `AddonsProofs` | `AddonsTypeCorrect` | `AddonsTypeOK` |
| | `InstalledInOrder`, `RequiredComponentsWereReady` | `InstallOrder`, `RequiredWereReady` |
| `SiteSyncProofs` | `SitesStayApart` | `SitesUnmixed` |
| `ConfigReloadProofs` | `ReloadTypeCorrect` | `ReloadTypeOK` |
| | `ClientAlwaysUsable`, `ClientNeverGoesBack` | `ClientUsable`, `ClientMonotone` |
| | `SetUpFirst` | `SetUpBeforeServing` |

Some of these properties carry a hypothesis, because the code promises no more: `SerialExclusive`
speaks of one worker, `ReleasedInv` and the `FinalizerReleases` of clusters of one worker and a
Netbox that answers, `IPLeakBounded` of informers that are fresh (`~Lag`), `LossBounded` of the claims
whose informers are. The hypotheses stand in the definitions that TLC checks too. Only
`ClustersKeepTheLedger` adds one of its own; without it the property is false, as §3 says.

### 4.1 `ClusterClaim`

*Phases.* `PhaseMonotone` says nothing about copies, and an old phase can come back only through
one. `PhaseInv` ties the copies to the object: an informer copy at the current version equals the
claim, a worker's current copy has the claim's phase (except in `saveReady`, where it is about to
move from `AddonsReady` to `Ready`), and the places inside `stepProvision` are reached with a copy
in `Provisioning`. Every action then falls in one of four classes, each with a lemma about its
effect on claims (`BeginRewrites`, `ContinueCommits`, `UserEffect`, `OutsideEffect`): a write from
the cached copy, a write from the worker's copy, a user's edit, no write.

*Exclusive devices.* `SerialExclusive` is not inductive: a worker that has staged devices and not
yet saved them is about to make it true or false. `SerialInv` adds what a single worker knows: it is
the only one (`OneBusy`), recorded devices have a tenant (`RecordedAssigned`) and so are in no
listing, the devices still to be staged have none (`StageFree`), and a current copy holds the
claim's devices plus some staged for it since (`CopyStaged`), none of them another claim's
(`CopyExclusive`). A stale copy may hold anything, and the optimistic lock is why that is harmless.
That releases keep the tenant (the defect behind `NeverRecycled`) is what makes `RecordedAssigned`
survive an interrupted scale-down: a repair of the one must look at the other.

*Addresses.* A finalizer releases what a cached copy lists, so `RecordedIPsLive` follows only from
an invariant of all copies. `AddressInv`: every copy, however old, lists exactly its two endpoints,
each an address that was made for this claim (`CopiesAddressed`); an informer's copy is an earlier
version, whose endpoints the claim still has (`CacheOlder`); a worker's current copy has the life of
the claim and at least its endpoints (`CopyKeeps`); a worker allocates only for an endpoint its copy
lacks (`EndpointPlace`); the addresses a live claim lists are not released (`LiveHeld`). The last
holds because a finalizer runs on a copy that is already deleted, and a claim that was deleted does
not live again.

*What a phase says.* Jobs, control planes and addons are made from a copy that may be old by then.
`BuiltInv` is stated of copies: what a copy's phase says was done was done (`CopiesBuilt`), a Job
runs only for a claim that recorded both endpoints (`JobEndpoints`), and neither an informer's copy
nor a Role, nor a copy of one, names a claim whose addons did not come up (`NamesExposed`). It
survives every order because what is made stays while the claim does.

*The finalizer.* `FinalInv`: while a worker is about to remove the finalizer and its copy is still
current, everything the claim records is released. With one worker nobody takes it back in between:
an address is released for good, and a device could only be staged again by another worker, which
`OneBusy` excludes.

*The refinement.* `LedgerStep` takes each action to a step of `DeviceLedger` or a stutter.
`SerialInv` gives the guards of `Record` and `Recycle`; one more invariant is needed, `CopyOneWay`:
a save either only adds devices to the claim's or only takes some away, or it would be two steps of
the ledger in one.

*Lost addresses.* `IPLeakBounded` counts, and a count is not inductive while a worker on its way may
still add to it. `LeakInv` bounds a potential instead, the addresses lost already (`Lost`: live, and
listed neither by a claim that will release them nor by a copy that will be saved) plus the workers
that will lose one (`Doomed`: about to allocate for a copy that is no longer current). An edit or a
conflict dooms at most one worker, a crash at most `MaxWorkers`, a failed release loses one. An
address that a copy is about to save is no loss yet (`Listing`), and becomes one only with a fault
or an edit of its own.

### 4.2 `ServerClaim`

`HeldInv == ServerTypeOK /\ WorkInv /\ DeviceInv /\ AddressInv` is the base. `WorkInv` relates the
three versions of a claim: the informer's and the worker's copy are earlier versions of the object,
equal to it when current except for what the worker is about to save, and there is one worker.
`DeviceInv`: a recorded device is its tenant's and nobody else's, and a device chosen and not yet
staged is free. `AddressInv`: an address belongs to the claim whose name it carries. On it rest:

- `RecordedHeld` and the refinement directly;
- `JobInv` (`Agree`), stronger than `JobBacked` in one place: a claim that failed without a Job has
  no device;
- `TrailInv`: what an event `Says` of a version holds of every later one;
- `FinalInv`: while the finalizer is being removed, what is still held cost a fault each;
- `LossInv`, a potential as above: addresses and devices gone astray, and workers whose next save
  will be refused, are together at most the faults and edits so far. `PromptInv` is why only claims
  with fresh informers are counted;
- `DebtInv`: an event is owed once what it reports happened and no worker is about to emit it; each
  cost a fault. That of a deletion is owed from the failed request on.

### 4.3 The others

- `DeviceLedger`: `OneOwner` with the type of its variables is inductive by itself. Both controllers
  inherit it through their `LedgerKept`.
- `TenantSync`: `CapInv` adds to `RightsCapped` the place of the worker: past the quota's step, the
  quota was made, or found in a copy. An absent namespace is empty, so one created anew starts with
  no rights.
- `Addons`: `OrderInv` adds what a pass has behind it: each component before those left is
  installed. `ReadyInv`: what is ready now was ready since the pass began, and so was all the pass
  has asked.
- `SiteSync`: `ListingInv`, a listing not overtaken by an edit is one of the site named.
- `ConfigReload`: along its way from the API server through informer and reading to the client a
  value only gets older, and at most one reading is under way (`FlowInv`); a process that serves has
  read usable values (`BootInv`). A process past an RBAC object has seen it, and none goes away
  (`SetUpInv`).

The invariants about several copies (`AddressInv`, `BuiltInv`, `SerialInv`, `PhaseInv`), the
potential `LeakInv` and `ReleasedInv` were checked by TLC before they were proved; `SerialInv` and
`PhaseInv` still are in `StaleShared`.

### 4.4 Only model-checked

- Liveness (`DeletionCompletes`, `Settles`, `NamesForgotten`, `TenantsProvided`, `StatusFollows`,
  `AddonsComplete`, `ReloadTakesHold`, `SomeoneLeads`): the prover knows neither fairness nor
  `ENABLED`.
- `SyncExact`: what a fold over a listing computes is an induction over data.
- `StrandedBounded`: a potential as for `LeaksAreBounded` would do, over the devices a worker has staged
  and not yet saved.
- The four violations, which are single behaviours, and so `Fleet`: what holds of each controller
  alone is proved, and what the two promise together about devices is false.

## 5. Not modelled, and the plan

Left to do:

1. State `OneOwner` of each controller as a corollary of its refinement.
2. Prove `StrandedBounded`.

Not modelled, and why:

- Conditions: nothing reads them. That blocked scalings are stamped anew and never cleared can be
  seen on one line; the self-made event they cause is in `SiteSync`.
- The content of CAPI objects. `CreateOrUpdate` writes it again on each look during `Provisioning`, from
  the same spec; afterwards nothing reads or writes it, so that a scaled claim keeps the replicas it
  was built with is visible without any sequence of steps.
- The purge of AuditEvents: one object, one clock, one request, repeated until it is gone. The events
  of clusters: as for servers, except for their order, see above.
- Claims recreated under the same name, with the Job of their predecessor: needs owner references and
  the garbage collector.
- `ListOSDDisks`, which reads and changes nothing. The limit of 1000 records in a listing.
- The queue of the tenant controller, which gets one request per Namespace and keeps it for good: the
  polls are the same, only more.
- Metrics, telemetry, flags, probes, generated code, the fake client.

## 6. Running

    tlasany MCClusterClaim.tla
    tlc -workers 2 -config Serial.cfg MCClusterClaim
    tlapm ClusterClaimProofs.tla       # and likewise the other modules ...Proofs

The largest runs, `Serial`, `Stale` and `Servers`, visit up to three million states and take between one
and three minutes, the others less than one. The longest proofs, `ServerClaimProofs` and
`ClusterHeldProofs`, take a minute or two each from nothing. A definition commented *mutant* is the
plausible mistake that the property named with it in `PROJECT.json` catches.

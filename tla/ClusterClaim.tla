----------------------------- MODULE ClusterClaim -----------------------------
(***************************************************************************)
(* The ClusterClaim controller                                             *)
(* (internal/controller/clusterclaim_controller.go): MaxWorkers workers    *)
(* take claims from one work queue and drive each through                  *)
(*     Pending -> Provisioning -> ClusterReady -> AddonsReady -> Ready     *)
(* against two stores that share no transaction: the API server, where     *)
(* every write of a claim is checked against the resourceVersion it was    *)
(* read at, and Netbox, where nothing is checked.                          *)
(*                                                                         *)
(* A reconciliation is cut at its external calls.  It starts when a worker *)
(* takes the claim and copies it from the informer cache (mem), and every  *)
(* action below is one further call; a handler whose calls commute with    *)
(* everybody else's, up to its only write of the claim, is one action.     *)
(* resourceVersions are kept as two flags: is the informer's copy current  *)
(* (cacheCur), is the worker's copy current (memCur).                      *)
(***************************************************************************)
EXTENDS TenantRole

CONSTANTS
    NoIP,           \* the empty string in status.controlPlaneIP and webhookIP
    TenantOf,       \* the tenant in whose namespace a claim lives
    Resolvable,     \* claims whose AddonProfile and SiteConfig exist and fit
    CephProfile,    \* claims whose AddonProfile has a rook-ceph component
    WithIssuer,     \* claims whose SiteConfig names an OIDC issuer
    TypesKnown,     \* does the client's scheme know the types of cluster-api?
    MaxWorkers,     \* MaxConcurrentReconciles
    MaxWant,        \* bound: the largest spec.machineCount
    FaultKinds,     \* which faults may happen: "crash", "api", "netbox"
    MaxFaults,      \* bound: how many of them
    MaxEdits,       \* bound: how often users change their claims
    JobOutcomes,    \* how a machinecfg Job may end
    AdminRecycles   \* does an administrator clear the tenant of released devices?

ASSUME ClaimAssumption ==
    /\ IsFiniteSet(Claims) /\ IsFiniteSet(Machines) /\ IsFiniteSet(IPs)
    /\ TenantOf \in [Claims -> Tenants]
    /\ NoIP \notin IPs
ASSUME BoundAssumption ==
    /\ MaxWorkers \in Nat \ {0} /\ MaxWant \in Nat \ {0}
    /\ MaxFaults \in Nat /\ MaxEdits \in Nat
ASSUME SchemeAssumption == TypesKnown \in BOOLEAN
ASSUME FaultAssumption == FaultKinds \subseteq {"crash", "api", "netbox"}
ASSUME OutcomeAssumption ==
    JobOutcomes \subseteq {"complete", "completeAfterFailure", "failed"}

VARIABLES
    claim,      \* claim[c]: the object in the API server
    cache,      \* cache[c]: the informer's copy of it
    cacheCur,   \* is that copy at the current resourceVersion?
    queued,     \* is c in the work queue (or due to be put there)?
    pc,         \* where the worker reconciling c is; "idle" when there is none
    mem,        \* the copy that worker is changing
    memCur,     \* was it taken from, and is it still, the current resourceVersion?
    todo,       \* the devices the worker's loop has still to stage or release
    job,        \* the claim's machinecfg Job
    infra,      \* its CAPI objects and HelmReleases
    faults,     \* faults so far
    edits       \* user changes so far

workerVars == <<pc, mem, memCur, todo>>
objectVars == <<claim, cache, cacheCur>>
vars == <<device, ipam, role, roleSeen, roleCur, claim, cache, cacheCur, queued,
          pc, mem, memCur, todo, job, infra, faults, edits>>

Phase == {"Pending", "Provisioning", "ClusterReady", "AddonsReady", "Ready", "Failed"}

\* Conditions, DNS names, OSDDevices and ClusterRef decide nothing here and are left out.
Claim == [life: {"live", "deleting", "gone"}, finalizer: BOOLEAN, phase: Phase,
          want: 1..MaxWant,              \* spec.machineCount
          deleteAt: BOOLEAN,             \* the delete-at annotation
          cp: IPs \cup {NoIP}, wh: IPs \cup {NoIP},
          ips: SUBSET IPs,               \* status.netboxIPAMIDs
          machines: SUBSET Machines,     \* status.allocatedMachineIDs
          kube: BOOLEAN]                 \* status.kubeconfigSecret is set

Fresh(n) == [life |-> "live", finalizer |-> FALSE, phase |-> "Pending", want |-> n,
             deleteAt |-> FALSE, cp |-> NoIP, wh |-> NoIP, ips |-> {},
             machines |-> {}, kube |-> FALSE]

Place == {"idle", "allocate", "saveAddress", "list", "stage", "saveMachines",
          "shrink", "job", "saveReady", "removeFinalizer"}

ObjectTypeOK ==
    /\ claim \in [Claims -> Claim] /\ cache \in [Claims -> Claim]
    /\ cacheCur \in [Claims -> BOOLEAN] /\ queued \in [Claims -> BOOLEAN]

WorkerTypeOK ==
    /\ pc \in [Claims -> Place]
    /\ mem \in [Claims -> Claim] /\ memCur \in [Claims -> BOOLEAN]
    /\ todo \in [Claims -> SUBSET Machines]

EnvironmentTypeOK ==
    /\ job \in [Claims -> {"none", "running", "retrying", "complete",
                           "completeAfterFailure", "failed"}]
    /\ infra \in [Claims -> {"none", "begun", "built", "cpReady", "helm", "helmReady"}]

\* The type invariant: every variable holds what its declaration says.
TypeOK ==
    /\ NetboxTypeOK /\ RoleTypeOK
    /\ ObjectTypeOK /\ WorkerTypeOK /\ EnvironmentTypeOK
    /\ faults \in 0..MaxFaults /\ edits \in 0..MaxEdits

Init ==
    /\ NetboxInit /\ RoleInit
    /\ claim \in [Claims -> {Fresh(n) : n \in 1..MaxWant}]
    /\ cache = claim
    /\ cacheCur = [c \in Claims |-> TRUE]
    /\ queued = [c \in Claims |-> TRUE]
    /\ pc = [c \in Claims |-> "idle"]
    /\ mem = [c \in Claims |-> Fresh(1)]
    /\ memCur = [c \in Claims |-> FALSE]
    /\ todo = [c \in Claims |-> {}]
    /\ job = [c \in Claims |-> "none"]
    /\ infra = [c \in Claims |-> "none"]
    /\ faults = 0 /\ edits = 0

-------------------------------------------------------------------------------
(* Faults, the work queue and the optimistic lock *)

Fault(kind, n) ==
    /\ kind \in FaultKinds /\ n > 0 /\ faults + n <= MaxFaults
    /\ faults' = faults + n

Busy == {c \in Claims : pc[c] # "idle"}

DequeueAnyway(c) == pc[c] = "idle" /\ queued[c]      \* mutant: no limit of workers

\* A worker is free and takes c, which no other worker is reconciling.
Dequeue(c) == pc[c] = "idle" /\ queued[c] /\ Cardinality(Busy) < MaxWorkers

(***************************************************************************)
(* The API server accepts a write.  The watch puts the claim back in the   *)
(* queue, at once or, with Lag, when the informer catches up.              *)
(***************************************************************************)
Store(c, new, again) ==
    /\ claim' = [claim EXCEPT ![c] = new]
    /\ queued' = [queued EXCEPT ![c] = again \/ ~Lag]
    /\ IF Lag THEN cacheCur' = [cacheCur EXCEPT ![c] = FALSE] /\ UNCHANGED cache
              ELSE cache' = [cache EXCEPT ![c] = new] /\ UNCHANGED cacheCur

\* The handler returns an error: controller-runtime queues the claim again.
Retry(c) == queued' = [queued EXCEPT ![c] = TRUE] /\ UNCHANGED objectVars

(***************************************************************************)
(* A write that returns an error: the copy is stale (409 Conflict), or the *)
(* request or its answer is lost.                                          *)
(***************************************************************************)
WriteFails(c, new, cur) ==
    \/ ~cur /\ Retry(c) /\ UNCHANGED faults
    \/ Fault("api", 1) /\ Retry(c)
    \/ Fault("api", 1) /\ cur /\ Store(c, new, TRUE)

\* The only write of a handler, and the end of it.
Write(c, new, cur, again) ==
    \/ cur /\ Store(c, new, again) /\ UNCHANGED faults
    \/ WriteFails(c, new, cur)

\* The worker is done with c and forgets its copy.
Finish(c) ==
    /\ pc' = [pc EXCEPT ![c] = "idle"]
    /\ mem' = [mem EXCEPT ![c] = Fresh(1)]
    /\ memCur' = [memCur EXCEPT ![c] = FALSE]
    /\ todo' = [todo EXCEPT ![c] = {}]

\* The worker takes c and goes on with the copy it will change.
Start(c, place, copy, work) ==
    /\ pc' = [pc EXCEPT ![c] = place]
    /\ mem' = [mem EXCEPT ![c] = copy]
    /\ memCur' = [memCur EXCEPT ![c] = cacheCur[c]]
    /\ todo' = [todo EXCEPT ![c] = work]
    /\ queued' = [queued EXCEPT ![c] = FALSE]

Return(c, again) == queued' = [queued EXCEPT ![c] = again] /\ UNCHANGED objectVars

-------------------------------------------------------------------------------
(* Reconcile: dispatch on the copy the informer cache holds *)

Takes(c, phase) ==
    Dequeue(c) /\ cache[c].life = "live" /\ cache[c].finalizer /\ cache[c].phase = phase

\* Reconcile finds no object: nothing to do.
ReconcileGone(c) ==
    /\ Dequeue(c) /\ cache[c].life = "gone"
    /\ Return(c, FALSE)
    /\ UNCHANGED <<netboxVars, roleVars, workerVars, job, infra, faults, edits>>

AddFinalizer(c) ==
    /\ Dequeue(c) /\ cache[c].life = "live" /\ ~cache[c].finalizer
    /\ Write(c, [cache[c] EXCEPT !.finalizer = TRUE], cacheCur[c], FALSE)
    /\ UNCHANGED <<netboxVars, roleVars, workerVars, job, infra, edits>>

\* "Failed" is terminal: the user must delete and recreate.
IgnoreFailed(c) ==
    /\ Takes(c, "Failed")
    /\ Return(c, FALSE)
    /\ UNCHANGED <<netboxVars, roleVars, workerVars, job, infra, faults, edits>>

(***************************************************************************)
(* stepValidate.  The listing counts devices and reserves none.  A Netbox  *)
(* fault is either a failed request, or an error document that decodes to  *)
(* an empty list (ListAvailableDevices looks at no HTTP status).           *)
(***************************************************************************)
Validate(c) ==
    LET passed == /\ c \in Resolvable
                  /\ Cardinality(ListAvailableDevices) >= cache[c].want
        verdict == IF passed THEN "Provisioning" ELSE "Failed"
    IN  /\ Takes(c, "Pending")
        /\ \/ Write(c, [cache[c] EXCEPT !.phase = verdict], cacheCur[c], passed)
           \/ Fault("netbox", 1) /\ Retry(c)
           \/ /\ Fault("netbox", 1) /\ cacheCur[c]
              /\ Store(c, [cache[c] EXCEPT !.phase = "Failed"], FALSE)
        /\ UNCHANGED <<netboxVars, roleVars, workerVars, job, infra, edits>>

-------------------------------------------------------------------------------
(* stepProvision *)

FirstCallEither(rec) ==                               \* mutant: one address is enough
    CASE rec.cp = NoIP /\ rec.wh = NoIP -> "allocate"
      [] rec.machines = {} -> "list"
      [] OTHER -> "job"

\* Steps 2a, 2b and 2c are skipped when the copy says they are done.
FirstCall(rec) ==
    CASE rec.cp = NoIP \/ rec.wh = NoIP -> "allocate"
      [] rec.cp # NoIP /\ rec.wh # NoIP /\ rec.machines = {} -> "list"
      [] OTHER -> "job"

BeginUnvalidated(c) ==                                \* mutant: Pending goes straight on
    /\ Takes(c, "Pending")
    /\ Start(c, FirstCall(cache[c]), cache[c], {})
    /\ UNCHANGED <<netboxVars, roleVars, objectVars, job, infra, faults, edits>>

BeginProvision(c) ==
    /\ Takes(c, "Provisioning")
    /\ Start(c, FirstCall(cache[c]), cache[c], {})
    /\ UNCHANGED <<netboxVars, roleVars, objectVars, job, infra, faults, edits>>

OnlyAddress(rec, i) ==                                \* mutant: the list is overwritten
    IF rec.cp = NoIP THEN [rec EXCEPT !.cp = i, !.ips = {i}]
                     ELSE [rec EXCEPT !.wh = i, !.ips = {i}]

\* The copy after step 2a (control plane) or 2b (webhook) got address record i.
WithAddress(rec, i) ==
    IF rec.cp = NoIP THEN [rec EXCEPT !.cp = i, !.ips = @ \cup {i}]
                     ELSE [rec EXCEPT !.wh = i, !.ips = @ \cup {i}]

AllocateAddress(c) ==
    LET name == <<c, IF mem[c].cp = NoIP THEN "api" ELSE "wh">>
    IN  /\ pc[c] = "allocate"
        /\ \/ /\ \E i \in IPs : /\ AllocateIP(i, name)
                                /\ mem' = [mem EXCEPT ![c] = WithAddress(mem[c], i)]
              /\ pc' = [pc EXCEPT ![c] = "saveAddress"]
              /\ UNCHANGED <<memCur, todo, queued, objectVars, faults>>
           \/ /\ \A i \in IPs : ipam[i].state # "unused"     \* the prefix is full
              /\ Retry(c) /\ Finish(c) /\ UNCHANGED <<ipam, faults>>
           \/ /\ Fault("netbox", 1)
              /\ \/ UNCHANGED ipam
                 \/ \E i \in IPs : AllocateIP(i, name)       \* only the answer is lost
              /\ Retry(c) /\ Finish(c)
        /\ UNCHANGED <<device, roleVars, job, infra, edits>>

SkipSave(c) ==                                        \* mutant: one save at the end
    /\ pc[c] = "saveAddress"
    /\ pc' = [pc EXCEPT ![c] = FirstCall(mem[c])]
    /\ UNCHANGED <<netboxVars, roleVars, objectVars, queued, mem, memCur, todo, job,
                   infra, faults, edits>>

SaveAddress(c) ==
    /\ pc[c] = "saveAddress"
    /\ \/ /\ memCur[c] /\ Store(c, mem[c], queued[c])
          /\ pc' = [pc EXCEPT ![c] = FirstCall(mem[c])]
          /\ UNCHANGED <<mem, memCur, todo, faults>>
       \/ WriteFails(c, mem[c], memCur[c]) /\ Finish(c)
    /\ UNCHANGED <<netboxVars, roleVars, job, infra, edits>>

\* The loop will stage the first devices of the listing, in an order Netbox chooses.
Choices(k) ==
    {T \in SUBSET ListAvailableDevices : Cardinality(T) = k}

\* Step 2c takes what there is when the listing is shorter than spec.machineCount.
ListMachines(c) ==
    LET n == Cardinality(ListAvailableDevices)
        wanted == IF n < mem[c].want THEN n ELSE mem[c].want
        proceed(T) == /\ todo' = [todo EXCEPT ![c] = T]
                      /\ pc' = [pc EXCEPT ![c] = IF T = {} THEN "saveMachines" ELSE "stage"]
                      /\ UNCHANGED <<mem, memCur, queued, objectVars>>
    IN  /\ pc[c] = "list"
        /\ \/ \E T \in Choices(wanted) : proceed(T) /\ UNCHANGED faults
           \/ Fault("netbox", 1) /\ proceed({})
           \/ Fault("netbox", 1) /\ Retry(c) /\ Finish(c)
        /\ UNCHANGED <<netboxVars, roleVars, job, infra, edits>>

(***************************************************************************)
(* One turn of the staging loop, of step 2c or of scaleUp.  An error, also *)
(* one of ListOSDDisks after the device was staged, abandons the copy that *)
(* records the devices staged so far.                                      *)
(***************************************************************************)
StageMachine(c) ==
    /\ pc[c] = "stage"
    /\ \E m \in todo[c] :
        \/ /\ SetDeviceStatus({m}, "staged", TenantOf[c])
           /\ mem' = [mem EXCEPT ![c].machines = @ \cup {m}]
           /\ todo' = [todo EXCEPT ![c] = @ \ {m}]
           /\ pc' = [pc EXCEPT ![c] = IF todo[c] = {m} THEN "saveMachines" ELSE "stage"]
           /\ UNCHANGED <<memCur, queued, objectVars, faults>>
        \/ /\ Fault("netbox", 1)
           /\ UNCHANGED device \/ SetDeviceStatus({m}, "staged", TenantOf[c])
           /\ Retry(c) /\ Finish(c)
    /\ UNCHANGED <<ipam, roleVars, job, infra, edits>>

SaveAndGoOn(c) ==                                     \* mutant: scaling runs on into 2d
    /\ pc[c] = "saveMachines"
    /\ \/ /\ memCur[c] /\ Store(c, mem[c], queued[c])
          /\ pc' = [pc EXCEPT ![c] = "job"]
          /\ UNCHANGED <<mem, memCur, todo, faults>>
       \/ WriteFails(c, mem[c], memCur[c]) /\ Finish(c)
    /\ UNCHANGED <<netboxVars, roleVars, job, infra, edits>>

SaveMachinesLater(c) ==                               \* mutant: left to the next write
    /\ pc[c] = "saveMachines"
    /\ \/ mem[c].phase = "Provisioning" /\ pc' = [pc EXCEPT ![c] = "job"]
          /\ UNCHANGED <<mem, memCur, todo>>
       \/ mem[c].phase = "Ready" /\ Finish(c)
    /\ UNCHANGED <<netboxVars, roleVars, objectVars, queued, job, infra, faults, edits>>

\* The Status().Update that ends step 2c, scaleUp and scaleDown.
SaveMachines(c) ==
    /\ pc[c] = "saveMachines"
    /\ \/ /\ memCur[c] /\ mem[c].phase = "Provisioning"
          /\ Store(c, mem[c], queued[c])
          /\ pc' = [pc EXCEPT ![c] = "job"]
          /\ UNCHANGED <<mem, memCur, todo, faults>>
       \/ /\ memCur[c] /\ mem[c].phase = "Ready"
          /\ Store(c, mem[c], TRUE) /\ Finish(c) /\ UNCHANGED faults
       \/ WriteFails(c, mem[c], memCur[c]) /\ Finish(c)
    /\ UNCHANGED <<netboxVars, roleVars, job, infra, edits>>

CreateJob(c) ==
    /\ pc[c] = "job" /\ job[c] = "none"
    /\ \/ job' = [job EXCEPT ![c] = "running"] /\ UNCHANGED faults
       \/ Fault("api", 1) /\ job' \in {job, [job EXCEPT ![c] = "running"]}
    /\ Return(c, TRUE) /\ Finish(c)
    /\ UNCHANGED <<netboxVars, roleVars, infra, edits>>

\* status.completionTime is nil, which Kubernetes leaves it also when a Job fails.
AwaitJob(c) ==
    /\ pc[c] = "job" /\ job[c] \in {"running", "retrying", "failed"}
    /\ Return(c, TRUE) /\ Finish(c)
    /\ UNCHANGED <<netboxVars, roleVars, job, infra, faults, edits>>

\* Completed, and status.failed counts a pod that failed on the way.
FailOnJob(c) ==
    /\ pc[c] = "job" /\ job[c] = "completeAfterFailure"
    /\ Write(c, [mem[c] EXCEPT !.phase = "Failed"], memCur[c], queued[c])
    /\ Finish(c)
    /\ UNCHANGED <<netboxVars, roleVars, job, infra, edits>>

(***************************************************************************)
(* Step 2e: create the CAPI objects, and move on once the control plane is *)
(* ready.  Nothing is created for a site without an OIDC issuer, and       *)
(* nothing after the unstructured TenantControlPlane and TinkerbellCluster *)
(* ("begun") by a client whose scheme lacks the type of the CAPI Cluster,  *)
(* as main.go sets it up; both end in an error, and the claim is retried.  *)
(* So it is when the typed reads, which the informer answers, come too     *)
(* early: a Cluster just created is not found, or found and not current.   *)
(***************************************************************************)
EnsureCluster(c) ==
    LET ready == infra[c] \in {"cpReady", "helm", "helmReady"}
        next == IF ready THEN [mem[c] EXCEPT !.phase = "ClusterReady"] ELSE mem[c]
        made(s) == infra' = IF infra[c] \in {"none", "begun"}
                            THEN [infra EXCEPT ![c] = s] ELSE infra
    IN  /\ pc[c] = "job" /\ job[c] = "complete"
        /\ \/ c \notin WithIssuer /\ UNCHANGED infra /\ Retry(c) /\ UNCHANGED faults
           \/ c \in WithIssuer /\ ~TypesKnown /\ made("begun") /\ Retry(c) /\ UNCHANGED faults
           \/ c \in WithIssuer /\ TypesKnown /\ made("built") /\ Write(c, next, memCur[c], TRUE)
           \/ /\ c \in WithIssuer /\ TypesKnown /\ Lag /\ ~ready
              /\ made("built") /\ Retry(c) /\ UNCHANGED faults
           \/ /\ c \in WithIssuer /\ Fault("api", 1) /\ Retry(c)
              /\ UNCHANGED infra \/ made("begun") \/ (TypesKnown /\ made("built"))
        /\ Finish(c)
        /\ UNCHANGED <<netboxVars, roleVars, job, edits>>

-------------------------------------------------------------------------------
(* stepWatchAddons and stepExposeKubeconfig *)

WatchOnce(c) ==                                       \* mutant: no RequeueAfter
    /\ Takes(c, "ClusterReady")
    /\ IF infra[c] = "helmReady"
       THEN /\ Write(c, [cache[c] EXCEPT !.phase = "AddonsReady"], cacheCur[c], TRUE)
            /\ UNCHANGED infra
       ELSE infra' = [infra EXCEPT ![c] = "helm"] /\ Return(c, FALSE) /\ UNCHANGED faults
    /\ UNCHANGED <<netboxVars, roleVars, workerVars, job, edits>>

WatchAddons(c) ==
    /\ Takes(c, "ClusterReady")
    /\ \/ /\ infra[c] = "helmReady"
          /\ Write(c, [cache[c] EXCEPT !.phase = "AddonsReady"], cacheCur[c], TRUE)
          /\ UNCHANGED infra
       \/ /\ infra[c] # "helmReady"
          /\ infra' = [infra EXCEPT ![c] = "helm"]
          /\ Return(c, TRUE) /\ UNCHANGED faults
       \/ Fault("api", 1) /\ Retry(c) /\ UNCHANGED infra
    /\ UNCHANGED <<netboxVars, roleVars, workerVars, job, edits>>

\* The Role's secrets rule first, the claim's status second.
Grant(c) ==
    LET t == TenantOf[c]
        granted == [roleSeen[t] EXCEPT !.names = @ \cup {c}]
        known == roleSeen[t].exists
        listed == c \in roleSeen[t].names
        goOn == /\ Start(c, "saveReady",
                         [cache[c] EXCEPT !.phase = "Ready", !.kube = TRUE], {})
                /\ UNCHANGED <<objectVars, faults>>
    IN  /\ Takes(c, "AddonsReady")
        /\ \/ ~known /\ Return(c, TRUE) /\ UNCHANGED <<roleVars, workerVars, faults>>
           \/ known /\ listed /\ goOn /\ UNCHANGED roleVars
           \/ known /\ ~listed /\ roleCur[t] /\ RoleStore(t, granted) /\ goOn
           \/ /\ known /\ ~listed /\ ~roleCur[t]
              /\ Retry(c) /\ UNCHANGED <<roleVars, workerVars, faults>>
           \/ /\ known /\ ~listed /\ Fault("api", 1)
              /\ UNCHANGED roleVars \/ (roleCur[t] /\ RoleStore(t, granted))
              /\ Retry(c) /\ UNCHANGED workerVars
        /\ UNCHANGED <<netboxVars, job, infra, edits>>

SaveReady(c) ==
    /\ pc[c] = "saveReady"
    /\ Write(c, mem[c], memCur[c], queued[c])
    /\ Finish(c)
    /\ UNCHANGED <<netboxVars, roleVars, job, infra, edits>>

-------------------------------------------------------------------------------
(* stepReconcileReady *)

(***************************************************************************)
(* The delete-at annotation of the copy has passed: r.Delete names the     *)
(* object only, so it takes whatever version the API server holds.         *)
(***************************************************************************)
GraceDelete(c) ==
    LET deleted == [claim[c] EXCEPT !.life = "deleting"]
    IN  /\ Takes(c, "Ready") /\ cache[c].deleteAt
        /\ \/ claim[c].life = "live" /\ Store(c, deleted, FALSE) /\ UNCHANGED faults
           \/ claim[c].life = "deleting" /\ Return(c, FALSE) /\ UNCHANGED faults
           \/ claim[c].life = "gone" /\ Retry(c) /\ UNCHANGED faults
           \/ Fault("api", 1) /\ Retry(c)
           \/ Fault("api", 1) /\ claim[c].life = "live" /\ Store(c, deleted, TRUE)
        /\ UNCHANGED <<netboxVars, roleVars, workerVars, job, infra, edits>>

\* Nothing to scale, or the annotation still lies ahead: look again later.
Steady(c) ==
    /\ Takes(c, "Ready")
    /\ cache[c].deleteAt \/ cache[c].want = Cardinality(cache[c].machines)
    /\ Return(c, TRUE)
    /\ UNCHANGED <<netboxVars, roleVars, workerVars, job, infra, faults, edits>>

\* The condition ScaleUpBlocked is written again on every look: a new resourceVersion.
ScaleUp(c) ==
    LET delta == cache[c].want - Cardinality(cache[c].machines)
        blocked == /\ Write(c, cache[c], cacheCur[c], TRUE)
                   /\ UNCHANGED workerVars
    IN  /\ Takes(c, "Ready") /\ ~cache[c].deleteAt
        /\ cache[c].want > Cardinality(cache[c].machines)
        /\ \/ Cardinality(ListAvailableDevices) < delta /\ blocked
           \/ \E T \in Choices(delta) :
                Start(c, "stage", cache[c], T) /\ UNCHANGED <<objectVars, faults>>
           \/ Fault("netbox", 1) /\ Retry(c) /\ UNCHANGED workerVars
           \/ /\ Fault("netbox", 1) /\ cacheCur[c]
              /\ Store(c, cache[c], TRUE) /\ UNCHANGED workerVars
        /\ UNCHANGED <<netboxVars, roleVars, job, infra, edits>>

\* Forbidden with rook-ceph; otherwise the worker drops delta devices from its copy.
ScaleDown(c) ==
    LET delta == Cardinality(cache[c].machines) - cache[c].want
    IN  /\ Takes(c, "Ready") /\ ~cache[c].deleteAt
        /\ cache[c].want < Cardinality(cache[c].machines)
        /\ \/ /\ c \in CephProfile
              /\ Write(c, cache[c], cacheCur[c], FALSE) /\ UNCHANGED workerVars
           \/ /\ c \notin CephProfile
              /\ \E T \in SUBSET cache[c].machines :
                    /\ Cardinality(T) = delta
                    /\ Start(c, "shrink", [cache[c] EXCEPT !.machines = @ \ T], T)
              /\ UNCHANGED <<objectVars, faults>>
        /\ UNCHANGED <<netboxVars, roleVars, job, infra, edits>>

\* One turn of scaleDown's loop; an error leaves the earlier ones released.
ReleaseMachine(c) ==
    /\ pc[c] = "shrink"
    /\ \E m \in todo[c] :
        \/ /\ SetDeviceStatus({m}, "active", NoTenant)
           /\ todo' = [todo EXCEPT ![c] = @ \ {m}]
           /\ pc' = [pc EXCEPT ![c] = IF todo[c] = {m} THEN "saveMachines" ELSE "shrink"]
           /\ UNCHANGED <<mem, memCur, queued, objectVars, faults>>
        \/ /\ Fault("netbox", 1)
           /\ UNCHANGED device \/ SetDeviceStatus({m}, "active", NoTenant)
           /\ Retry(c) /\ Finish(c)
    /\ UNCHANGED <<ipam, roleVars, job, infra, edits>>

-------------------------------------------------------------------------------
(* reconcileDelete *)

\* The result of the Role update is ignored: a refused or lost one changes nothing.
\* Removing the last name leaves the rule without resourceNames, open to every secret.
Revoke(c) ==
    LET t == TenantOf[c]
    IN  IF cache[c].kube /\ c \in roleSeen[t].names /\ roleCur[t]
        THEN RoleStore(t, [role[t] EXCEPT !.names = @ \ {c}])
        ELSE UNCHANGED roleVars

ReleaseEndpoint(c, keptIPs, keptMachines) ==          \* mutant: one address released
    /\ ReleaseIP({cache[c].cp} \ keptIPs)
    /\ SetDeviceStatus(cache[c].machines \ keptMachines, "active", NoTenant)

\* Every recorded address and device except those whose request fails.
Release(c, keptIPs, keptMachines) ==
    /\ ReleaseIP(cache[c].ips \ keptIPs)
    /\ SetDeviceStatus(cache[c].machines \ keptMachines, "active", NoTenant)

\* Failures are logged and the handler goes on to remove the finalizer.
ReleaseAll(c) ==
    /\ Dequeue(c) /\ cache[c].life = "deleting"
    /\ \/ Release(c, {}, {}) /\ Revoke(c) /\ UNCHANGED faults
       \/ Release(c, {}, {}) /\ UNCHANGED roleVars /\ Fault("api", 1)
       \/ \E I \in SUBSET cache[c].ips, M \in SUBSET cache[c].machines :
            /\ Release(c, I, M) /\ Revoke(c)
            /\ Fault("netbox", Cardinality(I) + Cardinality(M))
    /\ Start(c, "removeFinalizer", [cache[c] EXCEPT !.finalizer = FALSE], {})
    /\ UNCHANGED <<objectVars, job, infra, edits>>

\* With the last finalizer gone the API server deletes the object, and its record.
Erased(rec) ==
    [rec EXCEPT !.life = "gone", !.cp = NoIP, !.wh = NoIP, !.ips = {},
                !.machines = {}, !.kube = FALSE, !.deleteAt = FALSE]

RemovalUnchecked(c) ==                                \* mutant: the error is ignored
    /\ pc[c] = "removeFinalizer"
    /\ \/ memCur[c] /\ Store(c, Erased(mem[c]), queued[c]) /\ UNCHANGED faults
       \/ ~memCur[c] /\ Return(c, queued[c]) /\ UNCHANGED faults
       \/ Fault("api", 1) /\ Return(c, queued[c])
    /\ Finish(c)
    /\ UNCHANGED <<netboxVars, roleVars, job, infra, edits>>

RemoveFinalizer(c) ==
    /\ pc[c] = "removeFinalizer"
    /\ Write(c, Erased(mem[c]), memCur[c], queued[c])
    /\ Finish(c)
    /\ UNCHANGED <<netboxVars, roleVars, job, infra, edits>>

-------------------------------------------------------------------------------
(* What the controller does not decide *)

\* The informer catches up, and its event puts the claim in the queue.
CacheSync(c) ==
    /\ ~cacheCur[c]
    /\ cache' = [cache EXCEPT ![c] = claim[c]]
    /\ cacheCur' = [cacheCur EXCEPT ![c] = TRUE]
    /\ queued' = [queued EXCEPT ![c] = TRUE]
    /\ UNCHANGED <<netboxVars, roleVars, claim, workerVars, job, infra, faults, edits>>

\* The process dies and starts again: copies are lost, the informers list afresh.
Restart ==
    /\ Fault("crash", 1)
    /\ pc' = [c \in Claims |-> "idle"]
    /\ mem' = [c \in Claims |-> Fresh(1)]
    /\ memCur' = [c \in Claims |-> FALSE]
    /\ todo' = [c \in Claims |-> {}]
    /\ cache' = claim
    /\ cacheCur' = [c \in Claims |-> TRUE]
    /\ queued' = [c \in Claims |-> claim[c].life # "gone"]
    /\ roleSeen' = role
    /\ roleCur' = [t \in Tenants |-> TRUE]
    /\ UNCHANGED <<netboxVars, role, claim, job, infra, edits>>

\* A user's write: a worker's copy of the claim is stale from here on.
Edit(c, new) ==
    /\ edits < MaxEdits /\ edits' = edits + 1
    /\ Store(c, new, queued[c])
    /\ memCur' = [memCur EXCEPT ![c] = FALSE]
    /\ UNCHANGED <<netboxVars, roleVars, pc, mem, todo, job, infra, faults>>

Scale(c) ==
    /\ claim[c].life # "gone"
    /\ \E n \in 1..MaxWant \ {claim[c].want} : Edit(c, [claim[c] EXCEPT !.want = n])

Annotate(c) ==
    /\ claim[c].life # "gone"
    /\ Edit(c, [claim[c] EXCEPT !.deleteAt = ~@])

Delete(c) ==
    /\ claim[c].life = "live"
    /\ Edit(c, IF claim[c].finalizer THEN [claim[c] EXCEPT !.life = "deleting"]
                                     ELSE Erased(claim[c]))

\* The Job makes progress; the controller owns it, so its events queue the claim.
JobRuns(c) ==
    LET next == CASE job[c] = "running" -> (JobOutcomes \cap {"complete", "failed"})
                        \cup (IF "completeAfterFailure" \in JobOutcomes
                              THEN {"retrying"} ELSE {})
                  [] job[c] = "retrying" -> JobOutcomes \ {"complete"}
                  [] OTHER -> {}
    IN  /\ \E s \in next : job' = [job EXCEPT ![c] = s]
        /\ queued' = [queued EXCEPT ![c] = TRUE]
        /\ UNCHANGED <<netboxVars, roleVars, objectVars, workerVars, infra, faults, edits>>

\* Kamaji and the addon provider make progress, and the informer of Clusters has seen
\* it; the controller does not watch their objects.
InfraRuns(c) ==
    /\ \/ infra[c] = "built" /\ infra' = [infra EXCEPT ![c] = "cpReady"]
       \/ infra[c] = "helm" /\ infra' = [infra EXCEPT ![c] = "helmReady"]
    /\ UNCHANGED <<netboxVars, roleVars, objectVars, queued, workerVars, job,
                   faults, edits>>

TenantSync(t) ==
    /\ ReconcileTenantRole(t)
    /\ UNCHANGED <<netboxVars, objectVars, queued, workerVars, job, infra, faults, edits>>

RoleCacheSync(t) ==
    /\ RoleSync(t)
    /\ UNCHANGED <<netboxVars, objectVars, queued, workerVars, job, infra, faults, edits>>

\* A careful administrator recycles a device only once no claim records it.
Recycle(m) ==
    /\ AdminRecycles
    /\ \A c \in Claims : m \notin claim[c].machines
    /\ ClearTenant(m)
    /\ UNCHANGED <<roleVars, objectVars, queued, workerVars, job, infra, faults, edits>>

-------------------------------------------------------------------------------
(* The specification *)

Begin(c) ==
    \/ ReconcileGone(c) \/ AddFinalizer(c) \/ IgnoreFailed(c) \/ Validate(c)
    \/ BeginProvision(c) \/ WatchAddons(c) \/ Grant(c) \/ GraceDelete(c)
    \/ Steady(c) \/ ScaleUp(c) \/ ScaleDown(c) \/ ReleaseAll(c)

Continue(c) ==
    \/ AllocateAddress(c) \/ SaveAddress(c) \/ ListMachines(c) \/ StageMachine(c)
    \/ SaveMachines(c) \/ CreateJob(c) \/ AwaitJob(c) \/ FailOnJob(c)
    \/ EnsureCluster(c) \/ SaveReady(c) \/ ReleaseMachine(c) \/ RemoveFinalizer(c)

User(c) == Scale(c) \/ Annotate(c) \/ Delete(c)

Next ==
    \/ \E c \in Claims : \/ Begin(c) \/ Continue(c) \/ User(c)
                         \/ CacheSync(c) \/ JobRuns(c) \/ InfraRuns(c)
    \/ \E t \in Tenants : TenantSync(t) \/ RoleCacheSync(t)
    \/ \E m \in Machines : Recycle(m)
    \/ Restart

Spec == Init /\ [][Next]_vars

(***************************************************************************)
(* The work queue is first in, first out and a free worker never idles: a  *)
(* queued claim is taken although other claims occupy the workers in       *)
(* between (strong).  A started reconciliation goes on, the watches        *)
(* deliver, Jobs and clusters come up, and tenants are polled (weak).      *)
(* Nothing obliges a user, an administrator or a fault.                    *)
(***************************************************************************)
Fairness ==
    /\ \A c \in Claims : /\ SF_vars(Begin(c)) /\ WF_vars(Continue(c))
                         /\ WF_vars(CacheSync(c)) /\ WF_vars(JobRuns(c))
                         /\ WF_vars(InfraRuns(c))
    /\ \A t \in Tenants : WF_vars(RoleCacheSync(t)) /\ WF_vars(TenantSync(t))

FairSpec == Spec /\ Fairness

-------------------------------------------------------------------------------
(* What the controller promises about devices: see DeviceLedger *)

Ledger == INSTANCE DeviceLedger
    WITH owned <- [c \in Claims |-> claim[c].machines],
         tenant <- [m \in Machines |-> device[m].tenant]

\* With one worker the controller implements the ledger: a claim records a device only
\* after the worker had it assigned to the claim's tenant, while nobody else records it,
\* and it is available again only once nobody records it.
LedgerKept == Ledger!Spec

-------------------------------------------------------------------------------
(* Safety *)

\* AllocatedMachineIDs "holds the Netbox device IDs allocated to this cluster"
\* (clusterclaim_types.go:73): no device is recorded by two clusters.
Exclusive == \A c, d \in Claims : c # d => claim[c].machines \cap claim[d].machines = {}

\* Listing and staging are separate requests, and nothing but the single worker
\* keeps two claims from choosing the same device: with one worker the recorded
\* devices are exclusive, whatever faults, user edits and stale reads happen.
SerialExclusive == MaxWorkers = 1 => Exclusive

\* Every address a claim that is not being deleted points at or will release exists,
\* and carries that claim's DNS name; so the finalizer of one claim never deletes
\* an address of another, and the endpoints are always in the list to be deleted.
RecordedIPsLive ==
    \A c \in Claims : claim[c].life = "live" =>
        /\ \A i \in claim[c].ips : ipam[i].state = "live" /\ ipam[i].dns[1] = c
        /\ claim[c].ips = {claim[c].cp, claim[c].wh} \ {NoIP}

\* Address records that no claim will release and no worker is about to save.
Orphans == Live \ UNION {claim[c].ips \cup mem[c].ips : c \in Claims}

\* The status is saved after each allocation (stepProvision 2a, 2b) so that one
\* fault or one conflicting user edit costs at most one address per worker: with a
\* fresh cache the controller leaks nothing by itself, however often it reconciles.
IPLeakBounded == ~Lag => Cardinality(Orphans) <= MaxWorkers * faults + edits

\* Devices staged for a cluster that nobody records or is about to record: no listing
\* offers them again.
Stranded ==
    {m \in Machines : device[m].status = "staged"} \
        UNION {claim[c].machines \cup mem[c].machines : c \in Claims}

\* Devices are staged one by one and recorded in one write after the last (stepProvision
\* 2c, scaleUp): a fault costs every worker, and a conflicting user edit one worker, at
\* most the devices of one claim; with a fresh cache nothing else strands a device.
StrandedBounded ==
    ~Lag => Cardinality(Stranded) <= MaxWant * (MaxWorkers * faults + edits)

\* What a phase claims was done before it: a Job exists only for a claim with both
\* addresses saved, and a claim past Provisioning has a completed Job and a control
\* plane, however stale the copies that moved it there.  Of the tenant's Role it says
\* what this controller answers for: while its list names any secret, the tenant can
\* read a claim's only with the addons ready.  An empty list admits them all.
PhaseBacked ==
    \A c \in Claims : claim[c].life # "gone" =>
        /\ job[c] # "none" => claim[c].cp # NoIP /\ claim[c].wh # NoIP
        /\ claim[c].phase \in {"ClusterReady", "AddonsReady", "Ready"} =>
              job[c] = "complete" /\ infra[c] \in {"cpReady", "helm", "helmReady"}
        /\ claim[c].phase \in {"AddonsReady", "Ready"} => infra[c] = "helmReady"
        /\ role[TenantOf[c]].names # {} /\ MayGet(role[TenantOf[c]], c) =>
              claim[c].phase \in {"AddonsReady", "Ready"}
        /\ claim[c].kube <=> claim[c].phase = "Ready"

-------------------------------------------------------------------------------
(* Action properties *)

PhaseSteps == {<<"Pending", "Provisioning">>, <<"Pending", "Failed">>,
               <<"Provisioning", "ClusterReady">>, <<"Provisioning", "Failed">>,
               <<"ClusterReady", "AddonsReady">>, <<"AddonsReady", "Ready">>}

PhaseMoves ==
    \A c \in Claims : claim'[c].phase # claim[c].phase =>
        <<claim[c].phase, claim'[c].phase>> \in PhaseSteps

\* A claim's phase only moves along the state machine, and Failed is terminal
\* (Reconcile): no worker writes an old phase back from a stale copy.
PhaseMonotone == [][PhaseMoves]_vars

GoesReleased ==
    \A c \in Claims :
        (claim[c].life = "deleting" /\ claim'[c].life = "gone"
         /\ "netbox" \notin FaultKinds /\ MaxWorkers = 1) =>
            /\ \A i \in claim[c].ips : ipam[i].state = "released"
            /\ \A m \in claim[c].machines : device[m].status = "active"

\* The object goes only after its finalizer released what it records: every address
\* is deleted and every device active again, provided Netbox answers (failed
\* requests are logged and skipped) and one worker runs (a second one may stage a
\* device it listed before the release).
FinalizerReleases == [][GoesReleased]_vars

-------------------------------------------------------------------------------
(* Liveness, under FairSpec *)

\* A deleted claim goes: a failed or refused removal of the finalizer is retried.
DeletionCompletes == \A c \in Claims : claim[c].life = "deleting" ~> claim[c].life = "gone"

\* The waits nothing ends: a Job that failed without a completion time, a full prefix,
\* a site without an OIDC issuer, a client that does not know the type of the Cluster.
WaitsForEver(c) ==
    \/ job[c] = "failed"
    \/ \A i \in IPs : ipam[i].state # "unused"
    \/ job[c] = "complete" /\ (c \notin WithIssuer \/ ~TypesKnown)

\* Every claim comes to an end of provisioning: it is Ready, Failed or deleted, whatever
\* single request is lost, refused or retried, unless it comes to one of the four waits
\* above.  Nothing but the requeue of each wait brings a claim back.
Settles ==
    \A c \in Claims :
        <>(\/ claim[c].phase \in {"Ready", "Failed"} \/ claim[c].life # "live"
           \/ WaitsForEver(c))

\* A deleted claim's name does not stay in the Role, where it would expose the next
\* cluster of that name before its time: the finalizer looks only for a name that the
\* claim's status records, and ignores a refused Role update, but the next poll of the
\* tenants rewrites the list.
NamesForgotten ==
    \A c \in Claims :
        (claim[c].life = "gone" /\ c \in role[TenantOf[c]].names)
            ~> c \notin role[TenantOf[c]].names

-------------------------------------------------------------------------------
(* What the repository says and the code does not keep *)

\* README.md:68, phase Ready: "Kubeconfig secret exposed to tenant RBAC".
ReadyMeansGranted ==
    \A c \in Claims : (claim[c].life = "live" /\ claim[c].phase = "Ready") =>
        MayGet(role[TenantOf[c]], c)

\* scaleDown "releases delta machines back to Netbox" and Device availability is
\* "active, unassigned" (client.go:110): a device given back can be listed again.
ReleasedIsAvailable ==
    \A m \in Machines : (device[m].status = "active"
                         /\ \A c \in Claims : m \notin claim[c].machines) =>
        m \in ListAvailableDevices
=============================================================================

----------------------------- MODULE ServerClaim -----------------------------
(***************************************************************************)
(* The ServerClaim controller                                              *)
(* (internal/controller/serverclaim_controller.go): one worker takes       *)
(* requests for a single server from its queue and drives each through     *)
(*     Pending -> Provisioning -> Ready                                    *)
(* or to Failed, over the same two stores as ClusterClaim.  It is cut at   *)
(* its external calls in the same way: the worker copies the claim from    *)
(* the informer cache, and what it reserves in Netbox is known to nobody   *)
(* until the next accepted write of that copy.                             *)
(***************************************************************************)
EXTENDS Netbox

CONSTANTS
    NoIP,           \* ServerIP is empty
    NoMachine,      \* AllocatedMachineID is 0
    TenantOf,       \* the tenant in whose namespace a claim lives
    SiteKnown,      \* claims whose SiteConfig exists
    Late,           \* claims whose watch events may be late: their cache may be stale
    FaultKinds,     \* which faults may happen: "crash", "api", "netbox"
    MaxFaults,      \* bound: how many of them
    MaxEdits        \* bound: how often users change their claims

ASSUME ServerAssumption ==
    /\ IsFiniteSet(Claims) /\ IsFiniteSet(Machines) /\ IsFiniteSet(IPs)
    /\ TenantOf \in [Claims -> Tenants]
    /\ NoIP \notin IPs /\ NoMachine \notin Machines
    /\ MaxFaults \in Nat /\ MaxEdits \in Nat
    /\ FaultKinds \subseteq {"crash", "api", "netbox"}

VARIABLES
    server,     \* server[s]: the object in the API server
    seen,       \* seen[s]: the informer's copy of it
    seenCur,    \* is that copy at the current resourceVersion?
    due,        \* is s in the work queue (or due to be put there)?
    at,         \* where the worker is with s; "idle" when it is not
    copy,       \* the copy it is changing
    copyCur,    \* is that copy still at the current resourceVersion?
    chosen,     \* the listed device it is about to stage
    work,       \* the claim's machinecfg Job
    trail,      \* trail[s]: the types of the AuditEvents emitted for s
    faults, edits

storedVars == <<server, seen, seenCur>>
workerVars == <<at, copy, copyCur, chosen>>
vars == <<device, ipam, server, seen, seenCur, due, at, copy, copyCur, chosen, work,
          trail, faults, edits>>

\* ServerIP and NetboxIPAMID are set together; ServerDNS and the conditions decide nothing.
Server == [life: {"live", "deleting", "gone"}, finalizer: BOOLEAN,
           phase: {"Pending", "Provisioning", "Ready", "Failed"},
           ip: IPs \cup {NoIP}, machine: Machines \cup {NoMachine}]

Fresh == [life |-> "live", finalizer |-> FALSE, phase |-> "Pending",
          ip |-> NoIP, machine |-> NoMachine]

\* The type invariant: every variable holds what its declaration says.
ServerTypeOK ==
    /\ NetboxTypeOK
    /\ server \in [Claims -> Server] /\ seen \in [Claims -> Server]
    /\ copy \in [Claims -> Server]
    /\ {seenCur, due, copyCur} \subseteq [Claims -> BOOLEAN]
    /\ at \in [Claims -> {"idle", "emitPhase", "allocate", "saveAddress", "list", "stage",
                          "saveMachine", "emitMachine", "job", "removeFinalizer"}]
    /\ trail \in [Claims -> SUBSET {"PhaseChanged", "MachineAllocated", "ServerDeleted"}]
    /\ chosen \in [Claims -> Machines \cup {NoMachine}]
    /\ work \in [Claims -> {"none", "running", "retrying", "complete",
                            "completeAfterFailure", "failed"}]
    /\ faults \in 0..MaxFaults /\ edits \in 0..MaxEdits

Init ==
    /\ NetboxInit
    /\ server = [s \in Claims |-> Fresh] /\ seen = server
    /\ seenCur = [s \in Claims |-> TRUE]
    /\ due = [s \in Claims |-> TRUE]
    /\ at = [s \in Claims |-> "idle"]
    /\ copy = [s \in Claims |-> Fresh]
    /\ copyCur = [s \in Claims |-> FALSE]
    /\ chosen = [s \in Claims |-> NoMachine]
    /\ work = [s \in Claims |-> "none"]
    /\ trail = [s \in Claims |-> {}]
    /\ faults = 0 /\ edits = 0

-------------------------------------------------------------------------------
(* Faults, the work queue and the optimistic lock *)

Fault(kind, n) ==
    /\ kind \in FaultKinds /\ n > 0 /\ faults + n <= MaxFaults
    /\ faults' = faults + n

DequeueAnyway(s) == at[s] = "idle" /\ due[s]          \* mutant: one worker per claim

\* The controller is set up with no options: its one worker must be free.
Dequeue(s) == due[s] /\ \A other \in Claims : at[other] = "idle"

\* The API server accepts a write, and the watch queues the claim, now or later.
Store(s, new, again) ==
    /\ server' = [server EXCEPT ![s] = new]
    /\ \/ /\ seenCur[s]
          /\ seen' = [seen EXCEPT ![s] = new]
          /\ due' = [due EXCEPT ![s] = TRUE]
          /\ UNCHANGED seenCur
       \/ /\ s \in Late
          /\ seenCur' = [seenCur EXCEPT ![s] = FALSE]
          /\ due' = [due EXCEPT ![s] = again]
          /\ UNCHANGED seen

\* The handler returns without a write; with an error or a Requeue, again.
Return(s, again) == due' = [due EXCEPT ![s] = again] /\ UNCHANGED storedVars

\* The write is refused (409 Conflict), or the request or its answer is lost.
WriteFails(s, new, cur) ==
    \/ ~cur /\ Return(s, TRUE) /\ UNCHANGED faults
    \/ Fault("api", 1) /\ Return(s, TRUE)
    \/ Fault("api", 1) /\ cur /\ Store(s, new, TRUE)

Write(s, new, cur, again) ==
    \/ cur /\ Store(s, new, again) /\ UNCHANGED faults
    \/ WriteFails(s, new, cur)

Finish(s) ==
    /\ at' = [at EXCEPT ![s] = "idle"]
    /\ copy' = [copy EXCEPT ![s] = Fresh]
    /\ copyCur' = [copyCur EXCEPT ![s] = FALSE]
    /\ chosen' = [chosen EXCEPT ![s] = NoMachine]

Start(s, place, rec) ==
    /\ at' = [at EXCEPT ![s] = place]
    /\ copy' = [copy EXCEPT ![s] = rec]
    /\ copyCur' = [copyCur EXCEPT ![s] = seenCur[s]]
    /\ due' = [due EXCEPT ![s] = FALSE]
    /\ UNCHANGED <<chosen, storedVars>>

\* emitAuditEvent: best effort, an event that cannot be created is logged and forgotten.
Emit(s, type) ==
    \/ trail' = [trail EXCEPT ![s] = @ \cup {type}] /\ UNCHANGED faults
    \/ Fault("api", 1) /\ UNCHANGED trail

-------------------------------------------------------------------------------
(* Reconcile: dispatch on the copy the informer cache holds *)

Takes(s, phase) ==
    Dequeue(s) /\ seen[s].life = "live" /\ seen[s].finalizer /\ seen[s].phase = phase

AddFinalizer(s) ==
    /\ Dequeue(s) /\ seen[s].life = "live" /\ ~seen[s].finalizer
    /\ Write(s, [seen[s] EXCEPT !.finalizer = TRUE], seenCur[s], FALSE)
    /\ UNCHANGED <<netboxVars, workerVars, work, trail, edits>>

\* Gone, Ready or Failed: nothing to do.
NothingToDo(s) ==
    /\ \/ Dequeue(s) /\ seen[s].life = "gone"
       \/ Takes(s, "Ready") \/ Takes(s, "Failed")
    /\ Return(s, FALSE)
    /\ UNCHANGED <<netboxVars, workerVars, work, faults, trail, edits>>

\* stepValidate: some device must be available.  As in ClusterClaim, an error document
\* from Netbox decodes to an empty listing.
Validate(s) ==
    LET passed == s \in SiteKnown /\ ListAvailableDevices # {}
        verdict(p) == [seen[s] EXCEPT !.phase = p]
    IN  /\ Takes(s, "Pending")
        /\ \/ /\ passed /\ seenCur[s]
              /\ at' = [at EXCEPT ![s] = "emitPhase"]
              /\ Store(s, verdict("Provisioning"), FALSE)
              /\ UNCHANGED <<copy, copyCur, chosen, faults>>
           \/ passed /\ WriteFails(s, verdict("Provisioning"), seenCur[s])
              /\ UNCHANGED workerVars
           \/ ~passed /\ Write(s, verdict("Failed"), seenCur[s], FALSE)
              /\ UNCHANGED workerVars
           \/ s \in SiteKnown /\ Fault("netbox", 1) /\ Return(s, TRUE)
              /\ UNCHANGED workerVars
           \/ /\ s \in SiteKnown /\ Fault("netbox", 1) /\ seenCur[s]
              /\ Store(s, verdict("Failed"), FALSE) /\ UNCHANGED workerVars
        /\ UNCHANGED <<netboxVars, work, trail, edits>>

\* The accepted change of phase is reported, and the claim requeued.
EmitPhaseChanged(s) ==
    /\ at[s] = "emitPhase"
    /\ Emit(s, "PhaseChanged")
    /\ Return(s, TRUE) /\ Finish(s)
    /\ UNCHANGED <<netboxVars, work, edits>>

-------------------------------------------------------------------------------
(* stepProvision *)

\* Steps 2a and 2b are skipped when the copy says they are done.
FirstCall(rec) ==
    CASE rec.ip = NoIP -> "allocate"
      [] rec.ip # NoIP /\ rec.machine = NoMachine -> "list"
      [] OTHER -> "job"

BeginProvision(s) ==
    /\ Takes(s, "Provisioning")
    /\ Start(s, FirstCall(seen[s]), seen[s])
    /\ UNCHANGED <<netboxVars, work, faults, trail, edits>>

AllocateAddress(s) ==
    /\ at[s] = "allocate"
    /\ \/ /\ \E i \in IPs : /\ AllocateIP(i, <<s, "server">>)
                            /\ copy' = [copy EXCEPT ![s].ip = i]
          /\ at' = [at EXCEPT ![s] = "saveAddress"]
          /\ UNCHANGED <<copyCur, chosen, due, storedVars, faults>>
       \/ /\ \A i \in IPs : ipam[i].state # "unused"         \* the prefix is full
          /\ Return(s, TRUE) /\ Finish(s) /\ UNCHANGED <<ipam, faults>>
       \/ /\ Fault("netbox", 1)
          /\ UNCHANGED ipam \/ \E i \in IPs : AllocateIP(i, <<s, "server">>)
          /\ Return(s, TRUE) /\ Finish(s)
    /\ UNCHANGED <<device, work, trail, edits>>

\* A save that ends a step of stepProvision, or the reconciliation when it fails.
SaveThen(s, place) ==
    \/ /\ copyCur[s] /\ Store(s, copy[s], due[s])
       /\ at' = [at EXCEPT ![s] = place]
       /\ UNCHANGED <<copy, copyCur, chosen, faults>>
    \/ WriteFails(s, copy[s], copyCur[s]) /\ Finish(s)

SkipSave(s) ==                                        \* mutant: one save at the end
    /\ at[s] = "saveAddress"
    /\ at' = [at EXCEPT ![s] = FirstCall(copy[s])]
    /\ UNCHANGED <<netboxVars, storedVars, due, copy, copyCur, chosen, work, faults, trail, edits>>

SaveAddress(s) ==
    /\ at[s] = "saveAddress"
    /\ SaveThen(s, FirstCall(copy[s]))
    /\ UNCHANGED <<netboxVars, work, trail, edits>>

\* failSC keeps what the claim holds: only the finalizer gives it back.
Failing(s) == Write(s, [copy[s] EXCEPT !.phase = "Failed"], copyCur[s], due[s])

ListMachines(s) ==
    /\ at[s] = "list"
    /\ \/ /\ \E m \in ListAvailableDevices : chosen' = [chosen EXCEPT ![s] = m]
          /\ at' = [at EXCEPT ![s] = "stage"]
          /\ UNCHANGED <<copy, copyCur, due, storedVars, faults>>
       \/ ListAvailableDevices = {} /\ Failing(s) /\ Finish(s)
       \/ Fault("netbox", 1) /\ Return(s, TRUE) /\ Finish(s)
       \/ /\ Fault("netbox", 1) /\ copyCur[s]
          /\ Store(s, [copy[s] EXCEPT !.phase = "Failed"], due[s]) /\ Finish(s)
    /\ UNCHANGED <<netboxVars, work, trail, edits>>

StageMachine(s) ==
    /\ at[s] = "stage"
    /\ \/ /\ SetDeviceStatus({chosen[s]}, "staged", TenantOf[s])
          /\ copy' = [copy EXCEPT ![s].machine = chosen[s]]
          /\ at' = [at EXCEPT ![s] = "saveMachine"]
          /\ UNCHANGED <<copyCur, chosen, due, storedVars, faults>>
       \/ /\ Fault("netbox", 1)
          /\ UNCHANGED device \/ SetDeviceStatus({chosen[s]}, "staged", TenantOf[s])
          /\ Return(s, TRUE) /\ Finish(s)
    /\ UNCHANGED <<ipam, work, trail, edits>>

SilentSave(s) ==                                      \* mutant: no event for the device
    /\ at[s] = "saveMachine"
    /\ SaveThen(s, "job")
    /\ UNCHANGED <<netboxVars, work, trail, edits>>

AnnounceFirst(s) ==                                   \* mutant: the event before the save
    /\ at[s] = "saveMachine"
    /\ SaveThen(s, "job")
    /\ trail' = [trail EXCEPT ![s] = @ \cup {"MachineAllocated"}]
    /\ UNCHANGED <<netboxVars, work, edits>>

SaveMachine(s) ==
    /\ at[s] = "saveMachine"
    /\ SaveThen(s, "emitMachine")
    /\ UNCHANGED <<netboxVars, work, trail, edits>>

EmitMachineAllocated(s) ==
    /\ at[s] = "emitMachine"
    /\ Emit(s, "MachineAllocated")
    /\ at' = [at EXCEPT ![s] = "job"]
    /\ UNCHANGED <<netboxVars, storedVars, due, copy, copyCur, chosen, work, edits>>

CreateJob(s) ==
    /\ at[s] = "job" /\ work[s] = "none"
    /\ \/ work' = [work EXCEPT ![s] = "running"] /\ UNCHANGED faults
       \/ Fault("api", 1) /\ work' \in {work, [work EXCEPT ![s] = "running"]}
    /\ Return(s, TRUE) /\ Finish(s)
    /\ UNCHANGED <<netboxVars, trail, edits>>

FailOnCompletion(s) ==                                \* mutant: the order of ClusterClaim
    /\ at[s] = "job" /\ work[s] = "completeAfterFailure"
    /\ Failing(s) /\ Finish(s)
    /\ UNCHANGED <<netboxVars, work, trail, edits>>

\* status.failed is looked at first: one failed pod is enough, whatever comes after it.
FailOnJob(s) ==
    /\ at[s] = "job" /\ work[s] \in {"retrying", "failed", "completeAfterFailure"}
    /\ Failing(s) /\ Finish(s)
    /\ UNCHANGED <<netboxVars, work, trail, edits>>

AwaitJob(s) ==
    /\ at[s] = "job" /\ work[s] = "running"
    /\ Return(s, TRUE) /\ Finish(s)
    /\ UNCHANGED <<netboxVars, work, faults, trail, edits>>

ReadyAnyway(s) ==                                     \* mutant: Failed is not looked at
    /\ at[s] = "job" /\ work[s] \in {"complete", "completeAfterFailure"}
    /\ Write(s, [copy[s] EXCEPT !.phase = "Ready"], copyCur[s], due[s]) /\ Finish(s)
    /\ UNCHANGED <<netboxVars, work, trail, edits>>

SaveReady(s) ==
    /\ at[s] = "job" /\ work[s] = "complete"
    /\ Write(s, [copy[s] EXCEPT !.phase = "Ready"], copyCur[s], due[s]) /\ Finish(s)
    /\ UNCHANGED <<netboxVars, work, trail, edits>>
-------------------------------------------------------------------------------
(* reconcileDelete *)

ReleaseReady(s, kept) ==                              \* mutant: only a Ready server
    LET done == seen[s].phase = "Ready"
    IN  /\ ReleaseIP(IF "ip" \in kept \/ ~done THEN {} ELSE {seen[s].ip})
        /\ SetDeviceStatus(IF "machine" \in kept \/ ~done THEN {} ELSE {seen[s].machine},
                           "active", NoTenant)

\* The address and the device the claim records, except those whose request fails.
Release(s, kept) ==
    /\ ReleaseIP(IF "ip" \in kept THEN {} ELSE {seen[s].ip})
    /\ SetDeviceStatus(IF "machine" \in kept THEN {} ELSE {seen[s].machine},
                       "active", NoTenant)

\* Failures are logged and the handler goes on to remove the finalizer; the deletion is
\* reported before that.
ReleaseAll(s) ==
    /\ Dequeue(s) /\ seen[s].life = "deleting"
    /\ \E kept \in SUBSET {"ip", "machine"}, lost \in SUBSET {"event"} :
        /\ "ip" \in kept => seen[s].ip # NoIP
        /\ "machine" \in kept => seen[s].machine # NoMachine
        /\ kept # {} => "netbox" \in FaultKinds
        /\ lost # {} => "api" \in FaultKinds
        /\ faults' = faults + Cardinality(kept \cup lost) /\ faults' <= MaxFaults
        /\ Release(s, kept)
        /\ trail' = IF lost = {} THEN [trail EXCEPT ![s] = @ \cup {"ServerDeleted"}]
                                ELSE trail
    /\ Start(s, "removeFinalizer", [seen[s] EXCEPT !.finalizer = FALSE])
    /\ UNCHANGED <<work, edits>>

\* With the last finalizer gone the API server deletes the object, and its record.
Erased(rec) == [rec EXCEPT !.life = "gone", !.ip = NoIP, !.machine = NoMachine]

RemovalUnchecked(s) ==                                \* mutant: the error is ignored
    /\ at[s] = "removeFinalizer"
    /\ \/ copyCur[s] /\ Store(s, Erased(copy[s]), due[s]) /\ UNCHANGED faults
       \/ ~copyCur[s] /\ Return(s, due[s]) /\ UNCHANGED faults
       \/ Fault("api", 1) /\ Return(s, due[s])
    /\ Finish(s)
    /\ UNCHANGED <<netboxVars, work, trail, edits>>

RemoveFinalizer(s) ==
    /\ at[s] = "removeFinalizer"
    /\ Write(s, Erased(copy[s]), copyCur[s], due[s])
    /\ Finish(s)
    /\ UNCHANGED <<netboxVars, work, trail, edits>>

-------------------------------------------------------------------------------
(* What the controller does not decide *)

CacheSync(s) ==
    /\ ~seenCur[s]
    /\ seen' = [seen EXCEPT ![s] = server[s]]
    /\ seenCur' = [seenCur EXCEPT ![s] = TRUE]
    /\ due' = [due EXCEPT ![s] = TRUE]
    /\ UNCHANGED <<netboxVars, server, workerVars, work, faults, trail, edits>>

\* The process dies and starts again: copies are lost, the informers list afresh.
Restart ==
    /\ Fault("crash", 1)
    /\ at' = [s \in Claims |-> "idle"]
    /\ copy' = [s \in Claims |-> Fresh]
    /\ copyCur' = [s \in Claims |-> FALSE]
    /\ chosen' = [s \in Claims |-> NoMachine]
    /\ seen' = server
    /\ seenCur' = [s \in Claims |-> TRUE]
    /\ due' = [s \in Claims |-> server[s].life # "gone"]
    /\ UNCHANGED <<netboxVars, server, work, trail, edits>>

\* A user's write: the worker's copy of the claim is stale from here on.
Edit(s, new) ==
    /\ edits < MaxEdits /\ edits' = edits + 1
    /\ Store(s, new, due[s])
    /\ copyCur' = [copyCur EXCEPT ![s] = FALSE]
    /\ UNCHANGED <<netboxVars, at, copy, chosen, work, trail, faults>>

\* A change of what the model leaves out (spec.os, a label) is a new resourceVersion.
Relabel(s) == server[s].life # "gone" /\ Edit(s, server[s])

Delete(s) ==
    /\ server[s].life = "live"
    /\ Edit(s, IF server[s].finalizer THEN [server[s] EXCEPT !.life = "deleting"]
                                      ELSE Erased(server[s]))

\* The Job makes progress; the controller owns it, so its events queue the claim.
JobRuns(s) ==
    /\ \/ work[s] = "running" /\ work' \in {[work EXCEPT ![s] = "complete"],
                                            [work EXCEPT ![s] = "retrying"]}
       \/ work[s] = "retrying" /\ work' \in {[work EXCEPT ![s] = "completeAfterFailure"],
                                             [work EXCEPT ![s] = "failed"]}
    /\ due' = [due EXCEPT ![s] = TRUE]
    /\ UNCHANGED <<netboxVars, storedVars, workerVars, faults, trail, edits>>

\* A careful administrator recycles a device only once no claim records it.
Recycle(m) ==
    /\ \A s \in Claims : server[s].machine # m
    /\ ClearTenant(m)
    /\ UNCHANGED <<storedVars, due, workerVars, work, faults, trail, edits>>

-------------------------------------------------------------------------------
(* The specification *)

Begin(s) ==
    \/ AddFinalizer(s) \/ NothingToDo(s) \/ Validate(s) \/ BeginProvision(s) \/ ReleaseAll(s)

Continue(s) ==
    \/ AllocateAddress(s) \/ SaveAddress(s) \/ ListMachines(s) \/ StageMachine(s)
    \/ EmitPhaseChanged(s) \/ EmitMachineAllocated(s)
    \/ SaveMachine(s) \/ CreateJob(s) \/ FailOnJob(s) \/ AwaitJob(s) \/ SaveReady(s)
    \/ RemoveFinalizer(s)

Next ==
    \/ \E s \in Claims : \/ Begin(s) \/ Continue(s) \/ Relabel(s) \/ Delete(s)
                         \/ CacheSync(s) \/ JobRuns(s)
    \/ \E m \in Machines : Recycle(m)
    \/ Restart

\* The fairness of ClusterClaim, for the same reasons.
Fairness ==
    \A s \in Claims : /\ SF_vars(Begin(s)) /\ WF_vars(Continue(s))
                      /\ WF_vars(CacheSync(s)) /\ WF_vars(JobRuns(s))

Spec == Init /\ [][Next]_vars

FairSpec == Spec /\ Fairness

-------------------------------------------------------------------------------
(* What the controller promises about devices: see DeviceLedger *)

Ledger == INSTANCE DeviceLedger
    WITH owned <- [s \in Claims |-> {server[s].machine} \ {NoMachine}],
         tenant <- [m \in Machines |-> device[m].tenant]

\* The controller implements the ledger: a device is recorded by a claim only after it
\* was assigned to that claim's tenant, while nobody else records it, and it is made
\* available again only once nobody records it.
LedgerKept == Ledger!Spec

-------------------------------------------------------------------------------
(* Properties *)

\* What a live server records is its own: the address exists and carries its name, the
\* device is its tenant's, and no other server records it.  Listing and staging are two
\* requests; that the controller has one worker is what keeps two claims apart, through
\* faults, user edits and stale reads.
RecordedHeld ==
    \A s \in Claims : server[s].life = "live" =>
        /\ server[s].ip # NoIP => ipam[server[s].ip] = [state |-> "live", dns |-> <<s, "server">>]
        /\ server[s].machine # NoMachine =>
              /\ device[server[s].machine].tenant = TenantOf[s]
              /\ \A other \in Claims \ {s} : server[other].machine # server[s].machine

\* Held in Netbox for claims whose cache is fresh, and known to no claim and no worker.
LostIPs ==
    {i \in Live : ipam[i].dns[1] \notin Late
                  /\ \A s \in Claims : i \notin {server[s].ip, copy[s].ip}}
LostMachines ==
    {m \in Machines : /\ device[m].status = "staged"
                      /\ device[m].tenant \notin {TenantOf[s] : s \in Late}
                      /\ \A s \in Claims : m \notin {server[s].machine, copy[s].machine}}

\* The address is saved before a device is taken (stepProvision 2a, 2b): a fault or a
\* conflicting user edit loses one of the two, never both.
LossBounded == Cardinality(LostIPs) + Cardinality(LostMachines) <= faults + edits

\* A Job runs only for a claim that has saved its address and its device, and the phase
\* agrees with the Job: Ready after a clean success, Failed never next to one.
JobBacked ==
    \A s \in Claims : server[s].life # "gone" =>
        /\ work[s] # "none" => server[s].ip # NoIP /\ server[s].machine # NoMachine
        /\ server[s].phase = "Ready" => work[s] = "complete"
        /\ server[s].phase = "Failed" => work[s] \notin {"running", "complete"}

\* The object goes only after what it records is given back, whatever its phase, but for
\* failed requests of the finalizer, which are logged and skipped; the bound counts every
\* fault of the run, not only those.
FinalizerReleases ==
    [][\A s \in Claims : (server[s].life = "deleting" /\ server'[s].life = "gone") =>
          Cardinality({i \in IPs : i = server[s].ip /\ ipam[i].state # "released"})
          + Cardinality({m \in Machines : m = server[s].machine
                                          /\ device[m].status # "active"}) <= faults]_vars

\* The events say nothing that did not happen: a change of phase and a device are
\* reported once the API server has them, a deletion never for a claim that stays.
TrailTruthful ==
    \A s \in Claims :
        /\ "PhaseChanged" \in trail[s] => server[s].phase # "Pending"
        /\ "MachineAllocated" \in trail[s] =>
              server[s].machine # NoMachine \/ server[s].life = "gone"
        /\ "ServerDeleted" \in trail[s] => server[s].life # "live"

\* Changes of a claim that its handler has had the occasion to report.
Reportable(s) ==
    (IF server[s].ip # NoIP \/ server[s].phase \in {"Provisioning", "Ready"}
     THEN {"PhaseChanged"} ELSE {})
    \cup (IF server[s].machine # NoMachine THEN {"MachineAllocated"} ELSE {})
    \cup (IF server[s].life = "gone" /\ server[s].phase # "Pending"
          THEN {"ServerDeleted"} ELSE {})

\* Events are best effort (emitAuditEvent), but each one that is missing cost a fault: a
\* conflict, a stale cache or a retry loses none.
TrailGapsBounded ==
    LET gaps == UNION {{<<s, e>> : e \in Reportable(s) \ trail[s]} :
                         s \in {q \in Claims : at[q] \notin {"emitPhase", "emitMachine"}}}
    IN  Cardinality(gaps) <= faults

\* A claim comes to an end of provisioning, also when its Job fails, as long as the
\* prefix has addresses: a stale cache may lose one on every retry.
Settles ==
    \A s \in Claims :
        <>(\/ server[s].phase \in {"Ready", "Failed"} \/ server[s].life # "live"
           \/ \A i \in IPs : ipam[i].state # "unused")

\* A deleted claim goes: a refused or lost removal of the finalizer is tried again.
DeletionCompletes ==
    \A s \in Claims : server[s].life = "deleting" ~> server[s].life = "gone"
=============================================================================

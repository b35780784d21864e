-------------------------- MODULE ServerClaimProofs --------------------------
(***************************************************************************)
(* Theorems about ServerClaim, for every number of claims, devices,        *)
(* addresses, faults and user edits, with fresh and with late informers.   *)
(***************************************************************************)
EXTENDS ServerClaim, FiniteSetTheorems, TLAPS

Place == {"idle", "emitPhase", "allocate", "saveAddress", "list", "stage",
          "saveMachine", "emitMachine", "job", "removeFinalizer"}

Progress == {"none", "running", "retrying", "complete", "completeAfterFailure", "failed"}

Event == {"PhaseChanged", "MachineAllocated", "ServerDeleted"}

-------------------------------------------------------------------------------
(* Types *)

\* ServerTypeOK in parts: what the API server and the informer hold, the worker, the rest.
ObjectsOK ==
    /\ server \in [Claims -> Server] /\ seen \in [Claims -> Server]
    /\ seenCur \in [Claims -> BOOLEAN] /\ due \in [Claims -> BOOLEAN]
WorkerOK ==
    /\ at \in [Claims -> Place] /\ copy \in [Claims -> Server]
    /\ copyCur \in [Claims -> BOOLEAN] /\ chosen \in [Claims -> Machines \cup {NoMachine}]
TrailOK == trail \in [Claims -> SUBSET Event]
WorkOK == work \in [Claims -> Progress]
BoundsOK == faults \in 0..MaxFaults /\ edits \in 0..MaxEdits

TypesOK == NetboxTypeOK /\ ObjectsOK /\ WorkerOK /\ TrailOK /\ WorkOK /\ BoundsOK

LEMMA TypeParts == (ServerTypeOK <=> TypesOK) /\ (ServerTypeOK <=> TypesOK)'
BY DEF TypesOK, ServerTypeOK, ObjectsOK, WorkerOK, TrailOK, WorkOK, BoundsOK, Place, Progress, Event

LEMMA FreshType == Fresh \in Server
BY DEF Fresh, Server

LEMMA RecordFields ==
    ASSUME NEW rec \in Server
    PROVE  /\ rec.life \in {"live", "deleting", "gone"} /\ rec.finalizer \in BOOLEAN
           /\ rec.phase \in {"Pending", "Provisioning", "Ready", "Failed"}
           /\ rec.ip \in IPs \cup {NoIP} /\ rec.machine \in Machines \cup {NoMachine}
           /\ [rec EXCEPT !.finalizer = TRUE] \in Server
           /\ [rec EXCEPT !.finalizer = FALSE] \in Server
           /\ [rec EXCEPT !.life = "deleting"] \in Server
           /\ \A p \in {"Pending", "Provisioning", "Ready", "Failed"} :
                 [rec EXCEPT !.phase = p] \in Server
           /\ \A i \in IPs : [rec EXCEPT !.ip = i] \in Server
           /\ \A m \in Machines : [rec EXCEPT !.machine = m] \in Server
           /\ Erased(rec) \in Server
BY DEF Server, Erased

LEMMA StoreType ==
    ASSUME ObjectsOK, NEW s \in Claims, NEW new \in Server, NEW again \in BOOLEAN,
           Store(s, new, again)
    PROVE  ObjectsOK'
BY DEF ObjectsOK, Store

LEMMA ReturnType ==
    ASSUME ObjectsOK, NEW s \in Claims, NEW again \in BOOLEAN, Return(s, again)
    PROVE  ObjectsOK'
BY DEF ObjectsOK, Return, storedVars

LEMMA FaultType ==
    ASSUME BoundsOK, NEW kind, NEW n \in Nat, Fault(kind, n)
    PROVE  faults' \in 0..MaxFaults /\ faults' = faults + n
BY ServerAssumption DEF BoundsOK, Fault

LEMMA WriteFailsType ==
    ASSUME ObjectsOK, BoundsOK, NEW s \in Claims, NEW new \in Server, NEW cur \in BOOLEAN,
           WriteFails(s, new, cur)
    PROVE  ObjectsOK' /\ faults' \in 0..MaxFaults
<1>1. CASE Return(s, TRUE) /\ UNCHANGED faults
  BY <1>1, ReturnType DEF BoundsOK
<1>2. CASE Fault("api", 1) /\ Return(s, TRUE)
  BY <1>2, ReturnType, FaultType
<1>3. CASE Fault("api", 1) /\ Store(s, new, TRUE)
  BY <1>3, StoreType, FaultType
<1>4. QED
  BY <1>1, <1>2, <1>3 DEF WriteFails

LEMMA WriteType ==
    ASSUME ObjectsOK, BoundsOK, NEW s \in Claims, NEW new \in Server, NEW cur \in BOOLEAN,
           NEW again \in BOOLEAN, Write(s, new, cur, again)
    PROVE  ObjectsOK' /\ faults' \in 0..MaxFaults
<1>1. CASE Store(s, new, again) /\ UNCHANGED faults
  BY <1>1, StoreType DEF BoundsOK
<1>2. CASE WriteFails(s, new, cur)
  BY <1>2, WriteFailsType
<1>3. QED
  BY <1>1, <1>2 DEF Write

LEMMA FinishType ==
    ASSUME WorkerOK, NEW s \in Claims, Finish(s)
    PROVE  WorkerOK'
BY FreshType DEF WorkerOK, Finish, Place

LEMMA StartType ==
    ASSUME WorkerOK, ObjectsOK, NEW s \in Claims, NEW place \in Place, NEW rec \in Server,
           Start(s, place, rec)
    PROVE  WorkerOK' /\ ObjectsOK'
BY DEF WorkerOK, ObjectsOK, Start, storedVars

LEMMA EmitType ==
    ASSUME TrailOK, BoundsOK, NEW s \in Claims, NEW e \in Event, Emit(s, e)
    PROVE  TrailOK' /\ faults' \in 0..MaxFaults
<1>1. CASE trail' = [trail EXCEPT ![s] = @ \cup {e}] /\ UNCHANGED faults
  BY <1>1 DEF TrailOK, BoundsOK
<1>2. CASE Fault("api", 1) /\ UNCHANGED trail
  BY <1>2, FaultType DEF TrailOK
<1>3. QED
  BY <1>1, <1>2 DEF Emit

LEMMA AllocateIPType ==
    ASSUME NetboxTypeOK, NEW s \in Claims, NEW i \in IPs, AllocateIP(i, <<s, "server">>)
    PROVE  ipam' \in [IPs -> Address]
BY DEF NetboxTypeOK, AllocateIP, Address, DNSNames

LEMMA ReleaseIPType ==
    ASSUME NetboxTypeOK, NEW S, ReleaseIP(S)
    PROVE  ipam' \in [IPs -> Address]
BY DEF NetboxTypeOK, ReleaseIP, Address, NoName

LEMMA SetDeviceStatusType ==
    ASSUME NetboxTypeOK, NEW S, NEW status \in DeviceStatus,
           NEW t \in Tenants \cup {NoTenant}, SetDeviceStatus(S, status, t)
    PROVE  device' \in [Machines -> Device]
BY DEF NetboxTypeOK, SetDeviceStatus, Patched, Device

LEMMA Frames ==
    ASSUME ServerTypeOK
    PROVE  /\ UNCHANGED netboxVars => NetboxTypeOK'
           /\ UNCHANGED workerVars => WorkerOK'
           /\ (UNCHANGED storedVars /\ UNCHANGED due) => ObjectsOK'
           /\ UNCHANGED trail => TrailOK'
           /\ UNCHANGED work => WorkOK'
           /\ (faults' \in 0..MaxFaults /\ UNCHANGED edits) => BoundsOK'
           /\ (UNCHANGED <<faults, edits>>) => BoundsOK'
BY TypeParts DEF TypesOK, netboxVars, NetboxTypeOK, workerVars, WorkerOK, storedVars, ObjectsOK,
       TrailOK, WorkOK, BoundsOK

\* What the finalizer asks for: two requests to Netbox, one event.
LEMMA ReleaseRequests == IsFiniteSet({"ip", "machine", "event"})
<1>1. IsFiniteSet({"ip"})
  BY FS_Singleton
<1>2. IsFiniteSet({"ip"} \cup {"machine"})
  BY <1>1, FS_AddElement
<1>3. IsFiniteSet(({"ip"} \cup {"machine"}) \cup {"event"})
  BY <1>2, FS_AddElement
<1>4. {"ip", "machine", "event"} = ({"ip"} \cup {"machine"}) \cup {"event"}
  OBVIOUS
<1>5. QED
  BY <1>3, <1>4

LEMMA BeginType == ASSUME ServerTypeOK, NEW s \in Claims, Begin(s) PROVE ServerTypeOK'
<1> USE TypeParts DEF TypesOK
<1>0. seen[s] \in Server /\ server[s] \in Server /\ seenCur[s] \in BOOLEAN
  BY DEF ObjectsOK
<1>1. CASE AddFinalizer(s)
  <2>1. [seen[s] EXCEPT !.finalizer = TRUE] \in Server
    BY <1>0, RecordFields
  <2>2. ObjectsOK' /\ faults' \in 0..MaxFaults
    BY <1>0, <1>1, <2>1, WriteType DEF AddFinalizer
  <2>3. QED
    BY <1>1, <2>2, Frames DEF AddFinalizer
<1>2. CASE NothingToDo(s)
  BY <1>2, ReturnType, Frames DEF NothingToDo
<1>3. CASE Validate(s)
  <2> DEFINE verdict(p) == [seen[s] EXCEPT !.phase = p]
             passed == s \in SiteKnown /\ ListAvailableDevices # {}
  <2>1. verdict("Provisioning") \in Server /\ verdict("Failed") \in Server
    BY <1>0, RecordFields
  <2> HIDE DEF verdict
  <2>2. UNCHANGED <<netboxVars, work, trail, edits>>
    BY <1>3 DEF Validate
  <2>3. CASE /\ at' = [at EXCEPT ![s] = "emitPhase"]
             /\ Store(s, verdict("Provisioning"), FALSE)
             /\ UNCHANGED <<copy, copyCur, chosen, faults>>
    <3>1. ObjectsOK'
      BY <2>1, <2>3, StoreType
    <3>2. WorkerOK'
      BY <2>3 DEF WorkerOK, Place
    <3>3. QED
      BY <2>2, <2>3, <3>1, <3>2, Frames
  <2>4. CASE UNCHANGED workerVars /\ WriteFails(s, verdict("Provisioning"), seenCur[s])
    BY <1>0, <2>1, <2>2, <2>4, WriteFailsType, Frames
  <2>5. CASE UNCHANGED workerVars /\ Write(s, verdict("Failed"), seenCur[s], FALSE)
    BY <1>0, <2>1, <2>2, <2>5, WriteType, Frames
  <2>6. CASE UNCHANGED workerVars /\ Fault("netbox", 1) /\ Return(s, TRUE)
    BY <2>2, <2>6, ReturnType, FaultType, Frames
  <2>7. CASE UNCHANGED workerVars /\ Fault("netbox", 1) /\ Store(s, verdict("Failed"), FALSE)
    BY <2>1, <2>2, <2>7, StoreType, FaultType, Frames
  <2>8. QED
    BY <1>3, <2>3, <2>4, <2>5, <2>6, <2>7 DEF Validate, verdict
<1>4. CASE BeginProvision(s)
  <2>1. FirstCall(seen[s]) \in Place
    BY DEF FirstCall, Place
  <2>2. WorkerOK' /\ ObjectsOK'
    BY <1>0, <1>4, <2>1, StartType DEF BeginProvision
  <2>3. QED
    BY <1>4, <2>2, Frames DEF BeginProvision
<1>5. CASE ReleaseAll(s)
  <2>1. "removeFinalizer" \in Place /\ [seen[s] EXCEPT !.finalizer = FALSE] \in Server
    BY <1>0, RecordFields DEF Place
  <2>2. WorkerOK' /\ ObjectsOK'
    BY <1>5, <2>1, StartType DEF ReleaseAll
  <2>3. PICK kept \in SUBSET {"ip", "machine"}, lost \in SUBSET {"event"} :
            /\ faults' = faults + Cardinality(kept \cup lost) /\ faults' <= MaxFaults
            /\ Release(s, kept)
            /\ trail' = IF lost = {} THEN [trail EXCEPT ![s] = @ \cup {"ServerDeleted"}]
                                    ELSE trail
    BY <1>5 DEF ReleaseAll
  <2>4. IsFiniteSet(kept \cup lost)
    <3>1. kept \cup lost \in SUBSET {"ip", "machine", "event"}
      OBVIOUS
    <3>2. QED
      BY <3>1, ReleaseRequests, FS_Subset
  <2>5. Cardinality(kept \cup lost) \in Nat
    BY <2>4, FS_CardinalityType
  <2>6. faults' \in 0..MaxFaults
    BY <2>3, <2>5, ServerAssumption DEF BoundsOK
  <2>7. NetboxTypeOK'
    <3>1. NoTenant \in Tenants \cup {NoTenant} /\ "active" \in DeviceStatus
      BY DEF DeviceStatus
    <3>2. QED
      BY <2>3, <3>1, ReleaseIPType, SetDeviceStatusType DEF Release, NetboxTypeOK
  <2>8. TrailOK'
    BY <2>3 DEF TrailOK, Event
  <2>9. QED
    BY <1>5, <2>2, <2>6, <2>7, <2>8, Frames DEF ReleaseAll
<1>6. QED
  BY <1>1, <1>2, <1>3, <1>4, <1>5 DEF Begin

\* Where the worker goes on, or is done with the claim, without another change of the claim.
LEMMA AdvanceType ==
    ASSUME WorkerOK, NEW s \in Claims, NEW place \in Place,
           at' = [at EXCEPT ![s] = place], UNCHANGED <<copyCur, chosen>>,
           copy' = copy \/ \E rec \in Server : copy' = [copy EXCEPT ![s] = rec]
    PROVE  WorkerOK'
BY DEF WorkerOK

LEMMA SaveThenType ==
    ASSUME ServerTypeOK, NEW s \in Claims, NEW place \in Place, SaveThen(s, place)
    PROVE  WorkerOK' /\ ObjectsOK' /\ faults' \in 0..MaxFaults
<1> USE TypeParts DEF TypesOK
<1>0. copy[s] \in Server /\ copyCur[s] \in BOOLEAN /\ due[s] \in BOOLEAN
  BY DEF WorkerOK, ObjectsOK
<1>1. CASE Store(s, copy[s], due[s]) /\ at' = [at EXCEPT ![s] = place]
           /\ UNCHANGED <<copy, copyCur, chosen, faults>>
  BY <1>0, <1>1, StoreType, AdvanceType DEF BoundsOK
<1>2. CASE WriteFails(s, copy[s], copyCur[s]) /\ Finish(s)
  BY <1>0, <1>2, WriteFailsType, FinishType
<1>3. QED
  BY <1>1, <1>2 DEF SaveThen

LEMMA ContinueType == ASSUME ServerTypeOK, NEW s \in Claims, Continue(s) PROVE ServerTypeOK'
<1> USE TypeParts DEF TypesOK
<1>0. copy[s] \in Server /\ copyCur[s] \in BOOLEAN /\ due[s] \in BOOLEAN /\ Erased(copy[s]) \in Server
  BY RecordFields DEF WorkerOK, ObjectsOK
<1>01. FirstCall(copy[s]) \in Place /\ {"saveAddress", "stage", "saveMachine", "emitMachine", "job"} \subseteq Place
  BY DEF FirstCall, Place
<1>1. CASE AllocateAddress(s)
  <2>1. NetboxTypeOK'
    BY <1>1, AllocateIPType DEF AllocateAddress, NetboxTypeOK
  <2>2. CASE /\ \E i \in IPs : copy' = [copy EXCEPT ![s].ip = i]
             /\ at' = [at EXCEPT ![s] = "saveAddress"]
             /\ UNCHANGED <<copyCur, chosen, due, storedVars, faults>>
    <3>1. PICK i \in IPs : copy' = [copy EXCEPT ![s] = [copy[s] EXCEPT !.ip = i]]
      BY <2>2 DEF WorkerOK
    <3>2. WorkerOK'
      BY <1>0, <1>01, <2>2, <3>1, AdvanceType, RecordFields
    <3>3. QED
      BY <1>1, <2>1, <2>2, <3>2, Frames DEF AllocateAddress
  <2>3. CASE Return(s, TRUE) /\ Finish(s) /\ (UNCHANGED faults \/ Fault("netbox", 1))
    BY <1>1, <2>1, <2>3, ReturnType, FinishType, FaultType, Frames DEF AllocateAddress, BoundsOK
  <2>4. QED
    BY <1>1, <2>2, <2>3 DEF AllocateAddress
<1>2. CASE SaveAddress(s)
  <2>1. WorkerOK' /\ ObjectsOK' /\ faults' \in 0..MaxFaults
    BY <1>01, <1>2, SaveThenType DEF SaveAddress
  <2>2. QED
    BY <1>2, <2>1, Frames DEF SaveAddress
<1>3. CASE ListMachines(s)
  <2> DEFINE failed == [copy[s] EXCEPT !.phase = "Failed"]
  <2>1. failed \in Server
    BY <1>0, RecordFields
  <2> HIDE DEF failed
  <2>2. UNCHANGED <<netboxVars, work, trail, edits>>
    BY <1>3 DEF ListMachines
  <2>3. CASE /\ \E m \in ListAvailableDevices : chosen' = [chosen EXCEPT ![s] = m]
             /\ at' = [at EXCEPT ![s] = "stage"]
             /\ UNCHANGED <<copy, copyCur, due, storedVars, faults>>
    <3>1. WorkerOK'
      BY <2>3 DEF WorkerOK, Place, ListAvailableDevices, Unassigned
    <3>2. QED
      BY <2>2, <2>3, <3>1, Frames
  <2>4. CASE Write(s, failed, copyCur[s], due[s]) /\ Finish(s)
    BY <1>0, <2>1, <2>2, <2>4, WriteType, FinishType, Frames
  <2>5. CASE Fault("netbox", 1) /\ Return(s, TRUE) /\ Finish(s)
    BY <2>2, <2>5, ReturnType, FaultType, FinishType, Frames
  <2>6. CASE Fault("netbox", 1) /\ Store(s, failed, due[s]) /\ Finish(s)
    BY <1>0, <2>1, <2>2, <2>6, StoreType, FaultType, FinishType, Frames
  <2>7. QED
    BY <1>3, <2>3, <2>4, <2>5, <2>6 DEF ListMachines, Failing, failed
<1>4. CASE StageMachine(s)
  <2>1. NetboxTypeOK'
    <3>1. TenantOf[s] \in Tenants \cup {NoTenant} /\ "staged" \in DeviceStatus
      BY ServerAssumption DEF DeviceStatus
    <3>2. QED
      BY <1>4, <3>1, SetDeviceStatusType DEF StageMachine, NetboxTypeOK
  <2>2. CASE /\ copy' = [copy EXCEPT ![s].machine = chosen[s]]
             /\ at' = [at EXCEPT ![s] = "saveMachine"]
             /\ UNCHANGED <<copyCur, chosen, due, storedVars, faults>>
    <3>1. [copy[s] EXCEPT !.machine = chosen[s]] \in Server
      BY <1>0 DEF WorkerOK, Server
    <3>2. WorkerOK'
      BY <1>01, <2>2, <3>1, AdvanceType DEF WorkerOK
    <3>3. QED
      BY <1>4, <2>1, <2>2, <3>2, Frames DEF StageMachine
  <2>3. CASE Fault("netbox", 1) /\ Return(s, TRUE) /\ Finish(s)
    BY <1>4, <2>1, <2>3, ReturnType, FinishType, FaultType, Frames DEF StageMachine
  <2>4. QED
    BY <1>4, <2>2, <2>3 DEF StageMachine
<1>5. CASE EmitPhaseChanged(s)
  <2>1. TrailOK' /\ faults' \in 0..MaxFaults
    BY <1>5, EmitType DEF EmitPhaseChanged, Event
  <2>2. QED
    BY <1>5, <2>1, ReturnType, FinishType, Frames DEF EmitPhaseChanged
<1>6. CASE EmitMachineAllocated(s)
  <2>1. TrailOK' /\ faults' \in 0..MaxFaults
    BY <1>6, EmitType DEF EmitMachineAllocated, Event
  <2>2. WorkerOK'
    BY <1>01, <1>6, AdvanceType DEF EmitMachineAllocated
  <2>3. QED
    BY <1>6, <2>1, <2>2, Frames DEF EmitMachineAllocated
<1>7. CASE SaveMachine(s)
  <2>1. WorkerOK' /\ ObjectsOK' /\ faults' \in 0..MaxFaults
    BY <1>01, <1>7, SaveThenType DEF SaveMachine
  <2>2. QED
    BY <1>7, <2>1, Frames DEF SaveMachine
<1>8. CASE CreateJob(s)
  <2>1. WorkOK'
    BY <1>8 DEF CreateJob, WorkOK, Progress
  <2>2. faults' \in 0..MaxFaults
    BY <1>8, FaultType DEF CreateJob, BoundsOK
  <2>3. QED
    BY <1>8, <2>1, <2>2, ReturnType, FinishType, Frames DEF CreateJob
<1>9. CASE FailOnJob(s) \/ SaveReady(s)
  <2>1. PICK p \in {"Failed", "Ready"} : Write(s, [copy[s] EXCEPT !.phase = p], copyCur[s], due[s])
    BY <1>9 DEF FailOnJob, SaveReady, Failing
  <2>2. [copy[s] EXCEPT !.phase = p] \in Server
    BY <1>0, RecordFields
  <2>3. ObjectsOK' /\ faults' \in 0..MaxFaults
    BY <1>0, <2>1, <2>2, WriteType
  <2>4. QED
    BY <1>9, <2>3, FinishType, Frames DEF FailOnJob, SaveReady
<1>10. CASE AwaitJob(s)
  BY <1>10, ReturnType, FinishType, Frames DEF AwaitJob
<1>11. CASE RemoveFinalizer(s)
  <2>1. ObjectsOK' /\ faults' \in 0..MaxFaults
    BY <1>0, <1>11, WriteType DEF RemoveFinalizer
  <2>2. QED
    BY <1>11, <2>1, FinishType, Frames DEF RemoveFinalizer
<1>12. QED
  BY <1>1, <1>2, <1>3, <1>4, <1>5, <1>6, <1>7, <1>8, <1>9, <1>10, <1>11 DEF Continue

LEMMA EditType ==
    ASSUME ServerTypeOK, NEW s \in Claims, NEW new \in Server, Edit(s, new)
    PROVE  ServerTypeOK'
<1> USE TypeParts DEF TypesOK
<1>1. ObjectsOK' /\ edits' \in 0..MaxEdits
  BY StoreType, ServerAssumption DEF Edit, ObjectsOK, BoundsOK
<1>2. WorkerOK'
  BY DEF Edit, WorkerOK
<1>3. QED
  BY <1>1, <1>2, Frames DEF Edit, BoundsOK

LEMMA NextType == ServerTypeOK /\ [Next]_vars => ServerTypeOK'
<1> USE TypeParts DEF TypesOK
<1> SUFFICES ASSUME ServerTypeOK, [Next]_vars PROVE ServerTypeOK'
  OBVIOUS
<1>1. ASSUME NEW s \in Claims, Relabel(s) \/ Delete(s) PROVE ServerTypeOK'
  BY <1>1, EditType, RecordFields DEF Relabel, Delete, ObjectsOK
<1>2. ASSUME NEW s \in Claims, CacheSync(s) PROVE ServerTypeOK'
  <2>1. ObjectsOK'
    BY <1>2 DEF CacheSync, ObjectsOK
  <2>2. QED
    BY <1>2, <2>1, Frames DEF CacheSync
<1>3. ASSUME NEW s \in Claims, JobRuns(s) PROVE ServerTypeOK'
  <2>1. ObjectsOK' /\ WorkOK'
    BY <1>3 DEF JobRuns, storedVars, ObjectsOK, WorkOK, Progress
  <2>2. QED
    BY <1>3, <2>1, Frames DEF JobRuns
<1>4. ASSUME NEW m \in Machines, Recycle(m) PROVE ServerTypeOK'
  <2>1. NetboxTypeOK'
    BY <1>4 DEF Recycle, ClearTenant, NetboxTypeOK, Device
  <2>2. QED
    BY <1>4, <2>1, Frames DEF Recycle
<1>5. CASE Restart
  <2>1. ObjectsOK' /\ WorkerOK'
    BY <1>5, FreshType DEF Restart, ObjectsOK, WorkerOK, Place
  <2>2. QED
    BY <1>5, <2>1, FaultType, Frames DEF Restart
<1>6. CASE UNCHANGED vars
  BY <1>6, Frames DEF vars, netboxVars, workerVars, storedVars
<1>7. QED
  BY <1>1, <1>2, <1>3, <1>4, <1>5, <1>6, BeginType, ContinueType DEF Next

LEMMA InitType == Init => ServerTypeOK
<1> SUFFICES ASSUME Init PROVE ServerTypeOK
  OBVIOUS
<1>1. NetboxTypeOK
  BY DEF Init, NetboxInit, NetboxTypeOK, Device, DeviceStatus, Address, NoName
<1>2. ObjectsOK /\ WorkerOK
  BY FreshType DEF Init, ObjectsOK, WorkerOK, Place
<1>3. TrailOK /\ WorkOK /\ BoundsOK
  BY ServerAssumption DEF Init, TrailOK, WorkOK, Progress, BoundsOK
<1>4. QED
  BY <1>1, <1>2, <1>3, TypeParts DEF TypesOK

\* Every variable of ServerClaim keeps its type.
THEOREM ServerTypeCorrect == Spec => []ServerTypeOK
BY InitType, NextType, PTL DEF Spec

-------------------------------------------------------------------------------
(* The versions of a claim, and the copy a worker makes of one *)

\* What no later version of a claim takes back.
Behind(old, new) ==
    /\ old.life = "deleting" => new.life # "live"
    /\ old.life = "gone" => new.life = "gone"
    /\ old.phase # "Pending" => new.phase # "Pending"
    /\ new.life # "gone" => /\ old.ip # NoIP => new.ip = old.ip
                            /\ old.machine # NoMachine => new.machine = old.machine
                            /\ old.finalizer => new.finalizer

\* A claim takes nothing before it has its finalizer, and an address before a device.
WellFormed(rec) ==
    /\ rec.life = "deleting" => rec.finalizer
    /\ rec.machine # NoMachine => rec.ip # NoIP
    /\ rec.ip # NoIP => rec.life # "gone" /\ rec.finalizer /\ rec.phase # "Pending"
    /\ rec.phase # "Pending" => rec.finalizer \/ rec.life = "gone"
    /\ rec.phase = "Ready" => rec.machine # NoMachine \/ rec.life = "gone"

\* The informer's copy is a version of the claim, the current one if it says so.
VersionInv ==
    \A s \in Claims :
        /\ WellFormed(server[s]) /\ WellFormed(seen[s]) /\ Behind(seen[s], server[s])
        /\ seenCur[s] => seen[s] = server[s]

Working == Place \ {"idle", "emitPhase"}

\* The version of the claim a worker's copy was made from: all but what it has added.
Origin(place, rec) ==
    CASE place = "saveAddress"     -> [rec EXCEPT !.ip = NoIP]
      [] place = "saveMachine"     -> [rec EXCEPT !.machine = NoMachine]
      [] place = "removeFinalizer" -> [rec EXCEPT !.finalizer = TRUE]
      [] OTHER                     -> rec

\* What a worker at this place knows from its copy rec: the claim it works on, obj, has gone
\* on from there, or is still at that version (cur).
Knows(place, rec, cur, obj) ==
    /\ cur => place \in Working /\ Origin(place, rec) = obj
    /\ place \in Working => /\ Behind(Origin(place, rec), obj)
                            /\ WellFormed(Origin(place, rec))
    /\ place \in Working \ {"removeFinalizer"} =>
          rec.life = "live" /\ rec.finalizer /\ rec.phase = "Provisioning"
    /\ place = "removeFinalizer" => rec.life = "deleting" /\ ~rec.finalizer
    /\ place = "allocate" => rec.ip = NoIP
    /\ place \in {"list", "stage", "saveAddress"} => rec.ip # NoIP /\ rec.machine = NoMachine
    /\ place \in {"saveMachine", "emitMachine", "job"} => rec.ip # NoIP /\ rec.machine # NoMachine
    /\ place = "emitPhase" => obj.phase # "Pending"

OneBusy == \A s, t \in Claims : at[s] # "idle" /\ at[t] # "idle" => s = t

CopyInv ==
    /\ OneBusy
    /\ \A s \in Claims : /\ Knows(at[s], copy[s], copyCur[s], server[s])
                         /\ at[s] = "stage" => chosen[s] \in Machines

WorkInv == VersionInv /\ CopyInv

LEMMA BehindItself == ASSUME NEW rec \in Server PROVE Behind(rec, rec)
BY DEF Behind

LEMMA BehindMore ==
    ASSUME NEW a \in Server, NEW b \in Server, NEW c \in Server, Behind(a, b), Behind(b, c)
    PROVE  Behind(a, c)
BY DEF Behind, Server

\* The API server accepts a next version.
LEMMA StoreVersion ==
    ASSUME ObjectsOK, VersionInv, NEW s \in Claims, NEW new \in Server, NEW again,
           Store(s, new, again), Behind(server[s], new), WellFormed(new)
    PROVE  /\ VersionInv'
           /\ server' = [server EXCEPT ![s] = new]
<1>1. server' = [server EXCEPT ![s] = new]
  BY DEF Store
<1>2. Behind(seen[s], new) /\ Behind(new, new)
  BY BehindMore, BehindItself DEF VersionInv, ObjectsOK
<1>3. CASE /\ seen' = [seen EXCEPT ![s] = new] /\ UNCHANGED seenCur
  BY <1>1, <1>2, <1>3 DEF VersionInv, ObjectsOK
<1>4. CASE /\ seenCur' = [seenCur EXCEPT ![s] = FALSE] /\ UNCHANGED seen
  BY <1>1, <1>2, <1>4 DEF VersionInv, ObjectsOK
<1>5. QED
  BY <1>1, <1>3, <1>4 DEF Store

\* A write from copy rec, which is current if cur: refused, or accepted.
LEMMA WriteVersion ==
    ASSUME ObjectsOK, VersionInv, NEW s \in Claims, NEW new \in Server, NEW cur \in BOOLEAN,
           NEW again, Write(s, new, cur, again) \/ WriteFails(s, new, cur),
           cur => Behind(server[s], new) /\ WellFormed(new)
    PROVE  /\ VersionInv'
           /\ UNCHANGED server \/ (cur /\ server' = [server EXCEPT ![s] = new])
<1>1. CASE UNCHANGED storedVars
  BY <1>1 DEF storedVars, VersionInv
<1>2. CASE cur /\ \E a : Store(s, new, a)
  BY <1>2, StoreVersion
<1>3. QED
  BY <1>1, <1>2 DEF Write, WriteFails, Return

-------------------------------------------------------------------------------
(* Every step keeps versions and copies *)

LEMMA Alone ==
    ASSUME CopyInv, NEW s \in Claims, at[s] # "idle" \/ Dequeue(s)
    PROVE  \A t \in Claims : t # s => at[t] = "idle"
BY DEF CopyInv, OneBusy, Dequeue

\* A step of the worker with claim s.
LEMMA WorkerStep ==
    ASSUME WorkerOK, CopyInv, NEW s \in Claims, \A t \in Claims : t # s => at[t] = "idle",
           \A t \in Claims : t # s => at'[t] = at[t] /\ copy'[t] = copy[t]
                                      /\ copyCur'[t] = copyCur[t],
           Knows(at'[s], copy'[s], copyCur'[s], server'[s]),
           at'[s] = "stage" => chosen'[s] \in Machines
    PROVE  CopyInv'
<1>1. OneBusy'
  BY DEF OneBusy
<1>2. ASSUME NEW t \in Claims, t # s
      PROVE  Knows(at'[t], copy'[t], copyCur'[t], server'[t]) /\ at'[t] # "stage"
  BY <1>2 DEF CopyInv, Knows, Working, Place
<1>3. QED
  BY <1>1, <1>2 DEF CopyInv

\* Idle, the worker knows nothing, whatever becomes of the claim.
LEMMA IdleKnows == ASSUME NEW rec, NEW obj PROVE Knows("idle", rec, FALSE, obj)
BY DEF Knows, Working, Place

LEMMA FinishStep ==
    ASSUME WorkerOK, CopyInv, NEW s \in Claims, at[s] # "idle", Finish(s)
    PROVE  CopyInv'
<1>1. /\ \A t \in Claims : t # s => at'[t] = at[t] /\ copy'[t] = copy[t]
                                    /\ copyCur'[t] = copyCur[t]
      /\ at'[s] = "idle" /\ copyCur'[s] = FALSE
  BY DEF Finish, WorkerOK
<1>2. QED
  BY <1>1, Alone, IdleKnows, WorkerStep

\* A handler that is over in one action.
LEMMA IdleStep ==
    ASSUME WorkerOK, CopyInv, NEW s \in Claims, Dequeue(s), UNCHANGED workerVars
    PROVE  CopyInv'
<1>1. at[s] = "idle" /\ UNCHANGED <<at, copy, copyCur, chosen>>
  BY DEF Dequeue, workerVars
<1>2. copyCur[s] = FALSE
  BY <1>1 DEF CopyInv, Knows, Working, WorkerOK
<1>3. Knows(at'[s], copy'[s], copyCur'[s], server'[s])
  BY <1>1, <1>2, IdleKnows
<1>4. QED
  BY <1>1, <1>3, Alone, WorkerStep

LEMMA BeginWork ==
    ASSUME ServerTypeOK, WorkInv, NEW s \in Claims, Begin(s)
    PROVE  /\ WorkInv'
           /\ \/ UNCHANGED server
              \/ /\ seenCur[s] /\ server' = [server EXCEPT ![s] = server'[s]]
                 /\ server'[s].life = server[s].life /\ server'[s].ip = server[s].ip
                 /\ server'[s].machine = server[s].machine
<1> USE TypeParts DEF TypesOK, WorkInv
<1>0. /\ seen[s] \in Server /\ server[s] \in Server /\ seenCur[s] \in BOOLEAN
      /\ WellFormed(seen[s]) /\ Behind(seen[s], server[s])
      /\ seenCur[s] => seen[s] = server[s]
      /\ WellFormed(server[s]) /\ at[s] \in Place /\ server \in [Claims -> Server]
  BY DEF ObjectsOK, VersionInv, WorkerOK
<1>1. CASE AddFinalizer(s)
  <2> DEFINE new == [seen[s] EXCEPT !.finalizer = TRUE]
  <2>1. new \in Server /\ Behind(seen[s], new) /\ WellFormed(new)
        /\ new.life = seen[s].life /\ new.ip = seen[s].ip /\ new.machine = seen[s].machine
    BY <1>0 DEF Server, Behind, WellFormed
  <2> HIDE DEF new
  <2>2. Write(s, new, seenCur[s], FALSE) /\ UNCHANGED workerVars /\ Dequeue(s)
    BY <1>1 DEF AddFinalizer, new
  <2>3. QED
    BY <1>0, <2>1, <2>2, WriteVersion, IdleStep
<1>2. CASE NothingToDo(s)
  <2>1. UNCHANGED <<server, seen, seenCur>> /\ UNCHANGED workerVars /\ Dequeue(s)
    BY <1>2 DEF NothingToDo, Return, storedVars, Takes
  <2>2. QED
    BY <2>1, IdleStep DEF VersionInv
<1>3. CASE Validate(s)
  <2> DEFINE verdict(p) == [seen[s] EXCEPT !.phase = p]
  <2>1. ASSUME NEW p \in {"Provisioning", "Failed"}
        PROVE  /\ verdict(p) \in Server /\ Behind(seen[s], verdict(p)) /\ WellFormed(verdict(p))
               /\ verdict(p).life = seen[s].life /\ verdict(p).ip = seen[s].ip
               /\ verdict(p).machine = seen[s].machine /\ verdict(p).phase = p
    BY <1>0, <1>3 DEF Server, Behind, WellFormed, Validate, Takes
  <2> HIDE DEF verdict
  <2>2. Dequeue(s)
    BY <1>3 DEF Validate, Takes
  <2>3. CASE /\ seenCur[s] /\ at' = [at EXCEPT ![s] = "emitPhase"]
             /\ Store(s, verdict("Provisioning"), FALSE)
             /\ UNCHANGED <<copy, copyCur, chosen, faults>>
    <3>1. VersionInv' /\ server' = [server EXCEPT ![s] = verdict("Provisioning")]
      BY <1>0, <2>1, <2>3, StoreVersion
    <3>2. copyCur[s] = FALSE /\ at'[s] = "emitPhase"
      BY <2>2, <2>3 DEF CopyInv, Knows, Working, WorkerOK, Dequeue
    <3>3. Knows(at'[s], copy'[s], copyCur'[s], server'[s])
      BY <1>0, <2>1, <2>3, <3>1, <3>2 DEF Knows, Working
    <3>4. CopyInv'
      BY <2>2, <2>3, <3>2, <3>3, Alone, WorkerStep DEF WorkerOK
    <3>5. QED
      BY <1>0, <2>1, <2>3, <3>1, <3>4
  <2>4. CASE UNCHANGED workerVars /\ \E p \in {"Provisioning", "Failed"} :
                \/ WriteFails(s, verdict(p), seenCur[s]) \/ Write(s, verdict(p), seenCur[s], FALSE)
    <3>1. PICK p \in {"Provisioning", "Failed"} :
             WriteFails(s, verdict(p), seenCur[s]) \/ Write(s, verdict(p), seenCur[s], FALSE)
      BY <2>4
    <3>2. /\ verdict(p) \in Server
          /\ seenCur[s] => Behind(server[s], verdict(p)) /\ WellFormed(verdict(p))
      BY <1>0, <2>1
    <3>3. VersionInv' /\ (UNCHANGED server \/ (seenCur[s] /\ server' = [server EXCEPT ![s] = verdict(p)]))
      BY <1>0, <3>1, <3>2, WriteVersion
    <3>4. CopyInv'
      BY <2>2, <2>4, IdleStep
    <3>5. QED
      BY <1>0, <2>1, <3>3, <3>4
  <2>5. CASE UNCHANGED workerVars /\ Return(s, TRUE)
    BY <2>2, <2>5, IdleStep DEF Return, storedVars, VersionInv
  <2>6. CASE UNCHANGED workerVars /\ seenCur[s] /\ Store(s, verdict("Failed"), FALSE)
    BY <1>0, <2>1, <2>2, <2>6, StoreVersion, IdleStep
  <2>7. QED
    BY <1>3, <2>3, <2>4, <2>5, <2>6 DEF Validate, verdict
<1>4. CASE BeginProvision(s)
  <2>1. /\ Dequeue(s) /\ Start(s, FirstCall(seen[s]), seen[s])
        /\ seen[s].life = "live" /\ seen[s].finalizer /\ seen[s].phase = "Provisioning"
    BY <1>4 DEF BeginProvision, Takes
  <2>2. VersionInv' /\ UNCHANGED server
    BY <2>1 DEF Start, storedVars, VersionInv
  <2>3. Knows(FirstCall(seen[s]), seen[s], seenCur[s], server[s])
    BY <1>0, <2>1 DEF Knows, Working, Place, Origin, FirstCall, WellFormed
  <2>4. FirstCall(seen[s]) # "stage"
    BY DEF FirstCall
  <2>5. CopyInv'
    BY <2>1, <2>2, <2>3, <2>4, Alone, WorkerStep DEF Start, WorkerOK
  <2>6. QED
    BY <2>2, <2>5
<1>5. CASE ReleaseAll(s)
  <2> DEFINE rec == [seen[s] EXCEPT !.finalizer = FALSE]
  <2>1. Dequeue(s) /\ Start(s, "removeFinalizer", rec) /\ seen[s].life = "deleting"
    BY <1>5 DEF ReleaseAll
  <2>2. VersionInv' /\ UNCHANGED server
    BY <2>1 DEF Start, storedVars, VersionInv
  <2>3. rec.life = "deleting" /\ rec.finalizer = FALSE /\ [rec EXCEPT !.finalizer = TRUE] = seen[s]
    BY <1>0, <2>1 DEF Server, WellFormed
  <2>4. Knows("removeFinalizer", rec, seenCur[s], server[s])
    BY <1>0, <2>3 DEF Knows, Working, Place, Origin
  <2>5. CopyInv'
    BY <2>1, <2>2, <2>4, Alone, WorkerStep DEF Start, WorkerOK
  <2>6. QED
    BY <2>2, <2>5
<1>6. QED
  BY <1>1, <1>2, <1>3, <1>4, <1>5 DEF Begin

\* What the worker writes of its copy: the copy itself, another phase, or the deletion.
LEMMA CopyVersions ==
    ASSUME ServerTypeOK, WorkInv, NEW s \in Claims, copyCur[s]
    PROVE  /\ server[s] = Origin(at[s], copy[s]) /\ WellFormed(server[s])
           /\ at[s] # "removeFinalizer" =>
                 \A p \in {"Provisioning", "Ready", "Failed"} :
                    LET new == [copy[s] EXCEPT !.phase = p]
                    IN  /\ Behind(server[s], new)
                        /\ p = "Ready" => (at[s] = "job" => WellFormed(new))
                        /\ p # "Ready" => WellFormed(new)
           /\ at[s] = "removeFinalizer" =>
                 Behind(server[s], Erased(copy[s])) /\ WellFormed(Erased(copy[s]))
<1> USE TypeParts DEF TypesOK, WorkInv
<1>1. /\ server[s] = Origin(at[s], copy[s]) /\ WellFormed(server[s]) /\ server[s] \in Server
      /\ Knows(at[s], copy[s], TRUE, server[s]) /\ copy[s] \in Server /\ at[s] \in Working
  BY DEF CopyInv, Knows, VersionInv, ObjectsOK, WorkerOK
<1>2. ASSUME at[s] # "removeFinalizer", NEW p \in {"Provisioning", "Ready", "Failed"}
      PROVE  LET new == [copy[s] EXCEPT !.phase = p]
             IN  /\ Behind(server[s], new)
                 /\ p = "Ready" => (at[s] = "job" => WellFormed(new))
                 /\ p # "Ready" => WellFormed(new)
  <2>1. CASE at[s] = "saveAddress"
    BY <1>1, <1>2, <2>1 DEF Origin, Knows, Working, Place, Behind, WellFormed, Server
  <2>2. CASE at[s] = "saveMachine"
    BY <1>1, <1>2, <2>2 DEF Origin, Knows, Working, Place, Behind, WellFormed, Server
  <2>3. CASE at[s] \notin {"saveAddress", "saveMachine"}
    BY <1>1, <1>2, <2>3 DEF Origin, Knows, Working, Place, Behind, WellFormed, Server
  <2>4. QED
    BY <2>1, <2>2, <2>3
<1>3. ASSUME at[s] = "removeFinalizer"
      PROVE  Behind(server[s], Erased(copy[s])) /\ WellFormed(Erased(copy[s]))
  BY <1>1, <1>3 DEF Origin, Knows, Behind, WellFormed, Server, Erased
<1>4. QED
  BY <1>1, <1>2, <1>3

\* A save of the copy after which the worker goes on, or has failed.
LEMMA SaveThenWork ==
    ASSUME ServerTypeOK, WorkInv, NEW s \in Claims, NEW place, SaveThen(s, place),
           \/ at[s] = "saveAddress" /\ place = FirstCall(copy[s])
           \/ at[s] = "saveMachine" /\ place = "emitMachine"
    PROVE  /\ WorkInv'
           /\ UNCHANGED server \/ (copyCur[s] /\ server' = [server EXCEPT ![s] = copy[s]])
<1> USE TypeParts DEF TypesOK, WorkInv
<1>1. /\ copy[s] \in Server /\ server \in [Claims -> Server] /\ copyCur[s] \in BOOLEAN
      /\ Knows(at[s], copy[s], copyCur[s], server[s])
  BY DEF ObjectsOK, WorkerOK, CopyInv
<1>2. copyCur[s] => Behind(server[s], copy[s]) /\ WellFormed(copy[s])
  <2>1. copy[s].phase = "Provisioning" /\ [copy[s] EXCEPT !.phase = "Provisioning"] = copy[s]
    BY <1>1 DEF Knows, Working, Place, Server
  <2>2. ASSUME copyCur[s]
        PROVE  /\ Behind(server[s], [copy[s] EXCEPT !.phase = "Provisioning"])
               /\ WellFormed([copy[s] EXCEPT !.phase = "Provisioning"])
    BY <2>2, CopyVersions
  <2>3. QED
    BY <2>1, <2>2
<1>3. CASE /\ copyCur[s] /\ Store(s, copy[s], due[s])
           /\ at' = [at EXCEPT ![s] = place]
           /\ UNCHANGED <<copy, copyCur, chosen, faults>>
  <2>1. VersionInv' /\ server' = [server EXCEPT ![s] = copy[s]]
    BY <1>1, <1>2, <1>3, StoreVersion
  <2>2. /\ place \in Working /\ Origin(place, copy[s]) = copy[s]
        /\ place # "removeFinalizer" /\ place # "stage"
        /\ place = "allocate" => copy[s].ip = NoIP
        /\ place = "list" => copy[s].ip # NoIP /\ copy[s].machine = NoMachine
        /\ place \in {"emitMachine", "job"} => copy[s].ip # NoIP /\ copy[s].machine # NoMachine
        /\ place \notin {"saveAddress", "saveMachine"}
    BY <1>1 DEF FirstCall, Working, Place, Origin, Knows
  <2>3. Knows(place, copy[s], TRUE, copy[s])
    BY <1>1, <1>2, <1>3, <2>2, BehindItself DEF Knows, Working, Place
  <2>4. CopyInv'
    <3>1. at[s] # "idle" /\ at'[s] = place /\ server'[s] = copy[s]
      BY <1>3, <2>1 DEF WorkerOK, ObjectsOK
    <3>2. QED
      BY <1>3, <2>2, <2>3, <3>1, Alone, WorkerStep DEF WorkerOK
  <2>5. QED
    BY <1>3, <2>1, <2>4
<1>4. CASE WriteFails(s, copy[s], copyCur[s]) /\ Finish(s)
  <2>1. VersionInv' /\ (UNCHANGED server \/ (copyCur[s] /\ server' = [server EXCEPT ![s] = copy[s]]))
    BY <1>1, <1>2, <1>4, WriteVersion
  <2>2. CopyInv'
    BY <1>4, FinishStep
  <2>3. QED
    BY <2>1, <2>2
<1>5. QED
  BY <1>3, <1>4 DEF SaveThen

\* A write that ends the handling of a claim, whether or not it is accepted.
LEMMA WriteAndFinish ==
    ASSUME ServerTypeOK, WorkInv, NEW s \in Claims, at[s] # "idle", NEW new \in Server, NEW again,
           \/ Write(s, new, copyCur[s], again)
           \/ copyCur[s] /\ Store(s, new, again)
           \/ Return(s, again),
           copyCur[s] => Behind(server[s], new) /\ WellFormed(new), Finish(s)
    PROVE  /\ WorkInv'
           /\ UNCHANGED server \/ (copyCur[s] /\ server' = [server EXCEPT ![s] = new])
<1> USE TypeParts DEF TypesOK, WorkInv
<1>1. CopyInv'
  BY FinishStep
<1>2. copyCur[s] \in BOOLEAN
  BY DEF WorkerOK
<1>3. VersionInv' /\ (UNCHANGED server \/ (copyCur[s] /\ server' = [server EXCEPT ![s] = new]))
  BY <1>2, WriteVersion, StoreVersion DEF Return, storedVars, VersionInv
<1>4. QED
  BY <1>1, <1>3

\* How a step of the worker at s may change the claim: not at all, to its copy with another
\* phase, or to nothing.
Changes(s) ==
    \/ UNCHANGED server
    \/ /\ copyCur[s] /\ server' = [server EXCEPT ![s] = server'[s]]
       /\ \/ /\ at[s] # "removeFinalizer" /\ server'[s].life = copy[s].life
             /\ server'[s].ip = copy[s].ip /\ server'[s].machine = copy[s].machine
          \/ at[s] = "removeFinalizer" /\ server'[s] = Erased(copy[s])

LEMMA ContinueWork ==
    ASSUME ServerTypeOK, WorkInv, NEW s \in Claims, Continue(s)
    PROVE  WorkInv' /\ Changes(s)
<1> USE TypeParts DEF TypesOK
<1>0. /\ copy[s] \in Server /\ server[s] \in Server /\ server \in [Claims -> Server]
      /\ Knows(at[s], copy[s], copyCur[s], server[s])
      /\ at[s] = "stage" => chosen[s] \in Machines
      /\ CopyInv /\ VersionInv
  BY DEF ObjectsOK, WorkerOK, CopyInv, WorkInv
<1>a. ASSUME UNCHANGED <<server, seen, seenCur>> PROVE VersionInv'
  BY <1>a, <1>0 DEF VersionInv
<1>1. CASE AllocateAddress(s)
  <2>1. CASE /\ \E i \in IPs : copy' = [copy EXCEPT ![s].ip = i]
             /\ at' = [at EXCEPT ![s] = "saveAddress"]
             /\ UNCHANGED <<copyCur, chosen, storedVars>>
    <3>1. PICK i \in IPs : copy' = [copy EXCEPT ![s].ip = i]
      BY <2>1
    <3>2. /\ copy'[s] = [copy[s] EXCEPT !.ip = i] /\ at[s] = "allocate" /\ i # NoIP
          /\ at'[s] = "saveAddress" /\ copyCur'[s] = copyCur[s] /\ server'[s] = server[s]
      BY <1>1, <2>1, <3>1, ServerAssumption DEF AllocateAddress, WorkerOK, storedVars
    <3>3. /\ [copy'[s] EXCEPT !.ip = NoIP] = copy[s]
          /\ copy'[s].life = copy[s].life /\ copy'[s].finalizer = copy[s].finalizer
          /\ copy'[s].phase = copy[s].phase /\ copy'[s].machine = copy[s].machine
          /\ copy'[s].ip = i
      BY <1>0, <3>2 DEF Server, Knows
    <3>4. copy[s].machine = NoMachine /\ Origin("allocate", copy[s]) = copy[s]
      BY <1>0, <3>2 DEF Knows, Working, Place, Origin, WellFormed
    <3>5. Knows("saveAddress", copy'[s], copyCur[s], server[s])
      BY <1>0, <3>2, <3>3, <3>4 DEF Knows, Working, Place, Origin
    <3>6. CopyInv'
      BY <1>0, <2>1, <3>1, <3>2, <3>5, Alone, WorkerStep DEF WorkerOK
    <3>7. QED
      BY <1>a, <2>1, <3>6 DEF storedVars, WorkInv, Changes
  <2>2. CASE Return(s, TRUE) /\ Finish(s)
    BY <1>0, <1>1, <1>a, <2>2, FinishStep DEF AllocateAddress, Return, storedVars, WorkInv, Changes
  <2>3. QED
    BY <1>1, <2>1, <2>2 DEF AllocateAddress
<1>2. CASE SaveAddress(s)
  BY <1>0, <1>2, SaveThenWork DEF SaveAddress, Changes
<1>3. CASE ListMachines(s)
  <2> DEFINE failed == [copy[s] EXCEPT !.phase = "Failed"]
  <2>1. /\ failed \in Server /\ failed.life = copy[s].life /\ failed.ip = copy[s].ip
        /\ failed.machine = copy[s].machine
        /\ copyCur[s] => Behind(server[s], failed) /\ WellFormed(failed)
    <3>1. ASSUME copyCur[s] PROVE Behind(server[s], failed) /\ WellFormed(failed)
      BY <1>3, <3>1, CopyVersions DEF ListMachines
    <3>2. QED
      BY <1>0, <3>1 DEF Server
  <2> HIDE DEF failed
  <2>2. CASE /\ \E m \in ListAvailableDevices : chosen' = [chosen EXCEPT ![s] = m]
             /\ at' = [at EXCEPT ![s] = "stage"]
             /\ UNCHANGED <<copy, copyCur, storedVars>>
    <3>1. /\ at[s] = "list" /\ at'[s] = "stage" /\ chosen'[s] \in Machines
          /\ UNCHANGED <<server, copy, copyCur, seen, seenCur>>
      BY <1>3, <2>2 DEF ListMachines, ListAvailableDevices, Unassigned, WorkerOK, storedVars
    <3>2. Knows("stage", copy[s], copyCur[s], server[s])
      BY <1>0, <3>1 DEF Knows, Working, Place, Origin
    <3>3. CopyInv'
      BY <1>0, <2>2, <3>1, <3>2, Alone, WorkerStep DEF WorkerOK
    <3>4. QED
      BY <1>a, <3>1, <3>3 DEF WorkInv, Changes
  <2>3. CASE Finish(s) /\ (\/ Write(s, failed, copyCur[s], due[s]) \/ Return(s, TRUE)
                           \/ copyCur[s] /\ Store(s, failed, due[s]))
    <3>1. at[s] = "list"
      BY <1>3 DEF ListMachines
    <3>2. WorkInv' /\ (UNCHANGED server \/ (copyCur[s] /\ server' = [server EXCEPT ![s] = failed]))
      BY <2>1, <2>3, <3>1, WriteAndFinish
    <3>3. QED
      BY <1>0, <2>1, <3>1, <3>2 DEF Changes
  <2>4. QED
    BY <1>3, <2>2, <2>3 DEF ListMachines, Failing, failed
<1>4. CASE StageMachine(s)
  <2>1. CASE /\ copy' = [copy EXCEPT ![s].machine = chosen[s]]
             /\ at' = [at EXCEPT ![s] = "saveMachine"]
             /\ UNCHANGED <<copyCur, chosen, storedVars>>
    <3>1. /\ copy'[s] = [copy[s] EXCEPT !.machine = chosen[s]] /\ at[s] = "stage"
          /\ chosen[s] \in Machines /\ chosen[s] # NoMachine
          /\ at'[s] = "saveMachine" /\ UNCHANGED <<copyCur, server, seen, seenCur>>
      BY <1>0, <1>4, <2>1, ServerAssumption DEF StageMachine, WorkerOK, storedVars
    <3>2. /\ [copy'[s] EXCEPT !.machine = NoMachine] = copy[s]
          /\ copy'[s].life = copy[s].life /\ copy'[s].finalizer = copy[s].finalizer
          /\ copy'[s].phase = copy[s].phase /\ copy'[s].ip = copy[s].ip
          /\ copy'[s].machine = chosen[s]
      BY <1>0, <3>1 DEF Server, Knows
    <3>3. Knows("saveMachine", copy'[s], copyCur[s], server[s])
      BY <1>0, <3>1, <3>2 DEF Knows, Working, Place, Origin
    <3>4. CopyInv'
      BY <1>0, <2>1, <3>1, <3>3, Alone, WorkerStep DEF WorkerOK
    <3>5. QED
      BY <1>a, <3>1, <3>4 DEF WorkInv, Changes
  <2>2. CASE Return(s, TRUE) /\ Finish(s)
    BY <1>0, <1>4, <1>a, <2>2, FinishStep DEF StageMachine, Return, storedVars, WorkInv, Changes
  <2>3. QED
    BY <1>4, <2>1, <2>2 DEF StageMachine
<1>5. CASE EmitPhaseChanged(s) \/ CreateJob(s) \/ AwaitJob(s)
  BY <1>0, <1>5, <1>a, FinishStep
     DEF EmitPhaseChanged, CreateJob, AwaitJob, Return, storedVars, WorkInv, Changes
<1>6. CASE EmitMachineAllocated(s)
  <2>1. /\ at[s] = "emitMachine" /\ at'[s] = "job" /\ UNCHANGED <<copy, copyCur, server, seen, seenCur>>
    BY <1>6 DEF EmitMachineAllocated, storedVars, WorkerOK
  <2>2. Knows("job", copy[s], copyCur[s], server[s])
    BY <1>0, <2>1 DEF Knows, Working, Place, Origin
  <2>3. CopyInv'
    BY <1>0, <1>6, <2>1, <2>2, Alone, WorkerStep DEF EmitMachineAllocated, WorkerOK
  <2>4. QED
    BY <1>a, <2>1, <2>3 DEF WorkInv, Changes
<1>7. CASE SaveMachine(s)
  BY <1>0, <1>7, SaveThenWork DEF SaveMachine, Changes
<1>8. CASE FailOnJob(s) \/ SaveReady(s)
  <2>1. PICK p \in {"Failed", "Ready"} : Write(s, [copy[s] EXCEPT !.phase = p], copyCur[s], due[s])
    BY <1>8 DEF FailOnJob, SaveReady, Failing
  <2> DEFINE new == [copy[s] EXCEPT !.phase = p]
  <2>2. at[s] = "job" /\ Finish(s)
    BY <1>8 DEF FailOnJob, SaveReady
  <2>3. /\ new \in Server /\ new.life = copy[s].life /\ new.ip = copy[s].ip
        /\ new.machine = copy[s].machine
        /\ copyCur[s] => Behind(server[s], new) /\ WellFormed(new)
    <3>1. ASSUME copyCur[s] PROVE Behind(server[s], new) /\ WellFormed(new)
      BY <2>2, <3>1, CopyVersions
    <3>2. QED
      BY <1>0, <3>1 DEF Server
  <2> HIDE DEF new
  <2>4. WorkInv' /\ (UNCHANGED server \/ (copyCur[s] /\ server' = [server EXCEPT ![s] = new]))
    BY <2>1, <2>2, <2>3, WriteAndFinish DEF new
  <2>5. QED
    BY <1>0, <2>2, <2>3, <2>4 DEF Changes
<1>9. CASE RemoveFinalizer(s)
  <2> DEFINE new == Erased(copy[s])
  <2>1. at[s] = "removeFinalizer" /\ Finish(s) /\ Write(s, new, copyCur[s], due[s])
    BY <1>9 DEF RemoveFinalizer
  <2>2. new \in Server /\ (copyCur[s] => Behind(server[s], new) /\ WellFormed(new))
    BY <1>0, <2>1, RecordFields, CopyVersions
  <2> HIDE DEF new
  <2>3. WorkInv' /\ (UNCHANGED server \/ (copyCur[s] /\ server' = [server EXCEPT ![s] = new]))
    BY <2>1, <2>2, WriteAndFinish
  <2>4. QED
    BY <1>0, <2>1, <2>3 DEF Changes, new
<1>10. QED
  BY <1>1, <1>2, <1>3, <1>4, <1>5, <1>6, <1>7, <1>8, <1>9 DEF Continue

LEMMA OriginType == ASSUME NEW place, NEW rec \in Server PROVE Origin(place, rec) \in Server
BY DEF Origin, Server

\* What a worker knows it goes on knowing while others change the claim, except that its
\* copy is the current version.
LEMMA KnowsLater ==
    ASSUME NEW place, NEW rec \in Server, NEW cur, NEW obj \in Server, NEW new \in Server,
           Knows(place, rec, cur, obj), Behind(obj, new)
    PROVE  Knows(place, rec, FALSE, new)
<1>1. place \in Working => Behind(Origin(place, rec), new)
  BY OriginType, BehindMore DEF Knows
<1>2. place = "emitPhase" => new.phase # "Pending"
  BY DEF Knows, Behind
<1>3. QED
  BY <1>1, <1>2 DEF Knows

\* A user's write of a claim: nothing the controller looks at, the deletion, or the end.
LEMMA EditWork ==
    ASSUME ServerTypeOK, WorkInv, NEW s \in Claims, Relabel(s) \/ Delete(s)
    PROVE  /\ WorkInv' /\ UNCHANGED <<netboxVars, at, copy, chosen, work, trail, faults>>
           /\ server' = [server EXCEPT ![s] = server'[s]]
           /\ \/ server'[s] = server[s]
              \/ /\ server[s].life = "live"
                 /\ \/ server'[s] = [server[s] EXCEPT !.life = "deleting"]
                    \/ server'[s] = Erased(server[s])
<1> USE TypeParts DEF TypesOK, WorkInv
<1>0. /\ server[s] \in Server /\ WellFormed(server[s]) /\ server \in [Claims -> Server]
      /\ copy \in [Claims -> Server]
  BY DEF ObjectsOK, VersionInv, WorkerOK
<1>1. PICK new \in Server :
         /\ Edit(s, new)
         /\ \/ new = server[s]
            \/ /\ server[s].life = "live"
               /\ \/ new = [server[s] EXCEPT !.life = "deleting"] /\ server[s].finalizer
                  \/ new = Erased(server[s])
  BY <1>0, RecordFields DEF Relabel, Delete
<1>2. Behind(server[s], new) /\ WellFormed(new)
  <2>1. CASE new = server[s]
    BY <1>0, <2>1, BehindItself
  <2>2. CASE /\ new = [server[s] EXCEPT !.life = "deleting"]
             /\ server[s].life = "live" /\ server[s].finalizer
    BY <1>0, <2>2 DEF Behind, WellFormed, Server
  <2>3. CASE new = Erased(server[s])
    BY <1>0, <2>3 DEF Behind, WellFormed, Server, Erased
  <2>4. QED
    BY <1>1, <2>1, <2>2, <2>3
<1>3. VersionInv' /\ server' = [server EXCEPT ![s] = new]
  BY <1>1, <1>2, StoreVersion DEF Edit
<1>4. CopyInv'
  <2>1. /\ \A t \in Claims : at'[t] = at[t] /\ copy'[t] = copy[t] /\ chosen'[t] = chosen[t]
        /\ copyCur' = [copyCur EXCEPT ![s] = FALSE] /\ copyCur'[s] = FALSE
        /\ at' = at
    BY <1>1 DEF Edit, WorkerOK
  <2>2. Knows(at'[s], copy'[s], copyCur'[s], server'[s])
    <3>1. server'[s] = new /\ copy[s] \in Server /\ Knows(at[s], copy[s], copyCur[s], server[s])
      BY <1>0, <1>3 DEF CopyInv
    <3>2. Knows(at[s], copy[s], FALSE, new)
      BY <1>0, <1>2, <3>1, KnowsLater
    <3>3. QED
      BY <2>1, <3>1, <3>2
  <2>3. ASSUME NEW t \in Claims, t # s PROVE Knows(at'[t], copy'[t], copyCur'[t], server'[t])
    BY <1>0, <1>3, <2>1, <2>3 DEF CopyInv, WorkerOK
  <2>4. QED
    BY <2>1, <2>2, <2>3 DEF CopyInv, OneBusy
<1>5. QED
  BY <1>0, <1>1, <1>3, <1>4 DEF Edit

LEMMA WorkInvInit == Init => WorkInv
<1> SUFFICES ASSUME Init PROVE WorkInv
  OBVIOUS
<1>1. WellFormed(Fresh) /\ Behind(Fresh, Fresh)
  BY DEF Fresh, WellFormed, Behind
<1>2. VersionInv
  BY <1>1 DEF Init, VersionInv
<1>3. CopyInv
  BY IdleKnows DEF Init, CopyInv, OneBusy
<1>4. QED
  BY <1>2, <1>3 DEF WorkInv

LEMMA WorkInvNext == ServerTypeOK /\ WorkInv /\ [Next]_vars => WorkInv'
<1> SUFFICES ASSUME ServerTypeOK, WorkInv, [Next]_vars PROVE WorkInv'
  OBVIOUS
<1> USE TypeParts DEF TypesOK
<1>1. ASSUME NEW s \in Claims, CacheSync(s) PROVE WorkInv'
  <2>1. VersionInv'
    BY <1>1, BehindItself DEF CacheSync, VersionInv, ObjectsOK, WorkInv
  <2>2. CopyInv'
    BY <1>1 DEF CacheSync, workerVars, CopyInv, OneBusy, WorkInv
  <2>3. QED
    BY <2>1, <2>2 DEF WorkInv
<1>2. CASE UNCHANGED <<storedVars, workerVars>>
  BY <1>2 DEF storedVars, workerVars, WorkInv, VersionInv, CopyInv, OneBusy
<1>3. CASE Restart
  <2>1. VersionInv'
    BY <1>3, BehindItself DEF Restart, VersionInv, ObjectsOK, WorkInv
  <2>2. CopyInv'
    <3>1. \A s \in Claims : at'[s] = "idle" /\ copyCur'[s] = FALSE
      BY <1>3 DEF Restart
    <3>2. \A s \in Claims : Knows(at'[s], copy'[s], copyCur'[s], server'[s])
      BY <3>1, IdleKnows
    <3>3. QED
      BY <3>1, <3>2 DEF CopyInv, OneBusy
  <2>3. QED
    BY <2>1, <2>2 DEF WorkInv
<1>4. QED
  BY <1>1, <1>2, <1>3, BeginWork, ContinueWork, EditWork
     DEF Next, JobRuns, Recycle, vars, storedVars, workerVars

LEMMA WorkInvariant == Spec => [](ServerTypeOK /\ WorkInv)
<1>1. Init => ServerTypeOK /\ WorkInv
  BY InitType, WorkInvInit
<1>2. ServerTypeOK /\ WorkInv /\ [Next]_vars => (ServerTypeOK /\ WorkInv)'
  BY NextType, WorkInvNext
<1>3. QED
  BY <1>1, <1>2, PTL DEF Spec

-------------------------------------------------------------------------------
(* The devices and the addresses the claims hold *)

\* A recorded device is its claim's tenant's and nobody else's; the one about to be staged is
\* free, the one staged and not yet recorded is recorded by nobody.
DeviceInv ==
    \A s \in Claims :
        /\ server[s].machine # NoMachine =>
              /\ device[server[s].machine].tenant = TenantOf[s]
              /\ \A t \in Claims : t # s => server[t].machine # server[s].machine
        /\ at[s] = "stage" => device[chosen[s]].tenant = NoTenant
        /\ at[s] = "saveMachine" =>
              /\ device[copy[s].machine] = [status |-> "staged", tenant |-> TenantOf[s]]
              /\ \A t \in Claims : server[t].machine # copy[s].machine

\* An address that some version of the claim names is the claim's, or was released.
OwnAddress(s, i) ==
    ipam[i].state = "released" \/ ipam[i] = [state |-> "live", dns |-> <<s, "server">>]

AddressInv ==
    \A s \in Claims :
        /\ server[s].ip # NoIP => OwnAddress(s, server[s].ip)
        /\ seen[s].ip # NoIP => OwnAddress(s, seen[s].ip)
        /\ copy[s].ip # NoIP => OwnAddress(s, copy[s].ip)
        /\ server[s].life = "live" /\ server[s].ip # NoIP => ipam[server[s].ip].state = "live"
        /\ at[s] = "saveAddress" => ipam[copy[s].ip].state = "live"

\* Where the worker is after it took a claim from the queue, or went on with one.
LEMMA BeginPlaces ==
    ASSUME WorkerOK, CopyInv, NEW s \in Claims, Begin(s)
    PROVE  \A t \in Claims : at'[t] \notin {"stage", "saveMachine", "saveAddress"}
<1>1. \A t \in Claims : at[t] = "idle"
  BY DEF Begin, AddFinalizer, NothingToDo, Takes, Validate, BeginProvision, ReleaseAll, Dequeue
<1>2. UNCHANGED at \/ \E p \in {"emitPhase", "allocate", "list", "job", "removeFinalizer"} :
                         at' = [at EXCEPT ![s] = p]
  BY DEF Begin, AddFinalizer, NothingToDo, Validate, BeginProvision, ReleaseAll, workerVars,
         Start, FirstCall
<1>3. QED
  BY <1>1, <1>2 DEF WorkerOK

LEMMA ContinuePlaces ==
    ASSUME WorkerOK, CopyInv, NEW s \in Claims, Continue(s)
    PROVE  /\ at[s] # "idle" /\ \A t \in Claims : t # s => at'[t] = "idle"
           /\ at'[s] = "stage" => ListMachines(s)
           /\ at'[s] = "saveMachine" => StageMachine(s)
           /\ at'[s] = "saveAddress" => AllocateAddress(s)
           /\ at'[s] # "removeFinalizer"
<1>1. at[s] # "idle" /\ at[s] \in Place
  BY DEF Continue, AllocateAddress, SaveAddress, ListMachines, StageMachine, EmitPhaseChanged,
         EmitMachineAllocated, SaveMachine, CreateJob, FailOnJob, AwaitJob, SaveReady,
         RemoveFinalizer, WorkerOK
<1>2. PICK p \in Place :
         /\ at' = [at EXCEPT ![s] = p] /\ p # "removeFinalizer"
         /\ p = "stage" => ListMachines(s)
         /\ p = "saveMachine" => StageMachine(s)
         /\ p = "saveAddress" => AllocateAddress(s)
  BY DEF Continue, AllocateAddress, SaveAddress, ListMachines, StageMachine, EmitPhaseChanged,
         EmitMachineAllocated, SaveMachine, CreateJob, FailOnJob, AwaitJob, SaveReady,
         RemoveFinalizer, SaveThen, FirstCall, Finish, Place
<1>3. QED
  BY <1>1, <1>2, Alone DEF WorkerOK

\* The devices a claim may record after a step of the worker.
LEMMA MachineKept ==
    ASSUME ServerTypeOK, WorkInv, NEW s \in Claims, Changes(s)
    PROVE  /\ \A t \in Claims : t # s => server'[t] = server[t]
           /\ \/ server'[s].machine \in {server[s].machine, NoMachine}
              \/ at[s] = "saveMachine" /\ server'[s].machine = copy[s].machine
<1> USE TypeParts DEF TypesOK, WorkInv
<1>1. /\ server[s] \in Server /\ copy[s] \in Server /\ server \in [Claims -> Server]
      /\ Knows(at[s], copy[s], copyCur[s], server[s])
  BY DEF ObjectsOK, WorkerOK, CopyInv
<1>2. copyCur[s] => Origin(at[s], copy[s]) = server[s]
  BY <1>1 DEF Knows
<1>3. \/ UNCHANGED server
      \/ /\ copyCur[s] /\ server' = [server EXCEPT ![s] = server'[s]]
         /\ server'[s].machine \in {copy[s].machine, NoMachine}
  BY <1>1 DEF Changes, Erased, Server
<1>4. Origin(at[s], copy[s]).machine = copy[s].machine \/ at[s] = "saveMachine"
  BY <1>1 DEF Origin, Server
<1>5. QED
  BY <1>1, <1>2, <1>3, <1>4

\* A step that assigns no device, and neither picks nor records one.
LEMMA DevicesKept ==
    ASSUME ServerTypeOK, DeviceInv, \A m \in Machines : device'[m].tenant = device[m].tenant,
           \A t \in Claims : server'[t].machine \in {server[t].machine, NoMachine},
           \A t \in Claims : at'[t] \notin {"stage", "saveMachine"}
    PROVE  DeviceInv'
<1>1. \A t \in Claims : server[t].machine \in Machines \cup {NoMachine}
  BY TypeParts DEF TypesOK, ObjectsOK, Server
<1>2. QED
  BY <1>1 DEF DeviceInv

LEMMA DeviceBegin ==
    ASSUME ServerTypeOK, WorkInv, DeviceInv, NEW s \in Claims, Begin(s)
    PROVE  DeviceInv'
<1> USE TypeParts DEF TypesOK, WorkInv
<1>1. \A t \in Claims : at'[t] \notin {"stage", "saveMachine"}
  BY BeginPlaces
<1>2. \A t \in Claims : server'[t].machine = server[t].machine
  BY BeginWork DEF ObjectsOK
<1>3. \A m \in Machines : device'[m].tenant = device[m].tenant
  <2>1. CASE UNCHANGED device
    BY <2>1
  <2>2. CASE \E S : SetDeviceStatus(S, "active", NoTenant)
    BY <2>2 DEF SetDeviceStatus, Patched
  <2>3. QED
    BY <2>1, <2>2 DEF Begin, AddFinalizer, NothingToDo, Validate, BeginProvision, ReleaseAll,
                      Release, netboxVars
<1>4. QED
  BY <1>1, <1>2, <1>3, DevicesKept

LEMMA DeviceContinue ==
    ASSUME ServerTypeOK, WorkInv, DeviceInv, NEW s \in Claims, Continue(s)
    PROVE  DeviceInv'
<1> USE TypeParts DEF TypesOK, WorkInv
<1>0. /\ Changes(s) /\ at[s] # "idle" /\ \A t \in Claims : t # s => at'[t] = "idle"
      /\ \A t \in Claims : server[t] \in Server /\ t # s => server'[t] = server[t]
      /\ server \in [Claims -> Server] /\ at \in [Claims -> Place] /\ copy[s] \in Server
      /\ chosen \in [Claims -> Machines \cup {NoMachine}]
      /\ at[s] = "stage" => chosen[s] \in Machines
  BY ContinueWork, ContinuePlaces, MachineKept DEF ObjectsOK, WorkerOK, CopyInv
<1>1. CASE ListMachines(s) /\ at'[s] = "stage"
  <2>1. /\ \E m \in ListAvailableDevices : chosen' = [chosen EXCEPT ![s] = m]
        /\ UNCHANGED <<device, server>>
    BY <1>0, <1>1 DEF ListMachines, Finish, storedVars, netboxVars
  <2>2. device'[chosen'[s]].tenant = NoTenant
    BY <1>0, <2>1 DEF ListAvailableDevices, Unassigned
  <2>3. QED
    BY <1>0, <1>1, <2>1, <2>2 DEF DeviceInv
<1>2. CASE StageMachine(s)
  <2>1. /\ at[s] = "stage" /\ UNCHANGED server
        /\ UNCHANGED device \/ SetDeviceStatus({chosen[s]}, "staged", TenantOf[s])
    BY <1>2 DEF StageMachine, Return, storedVars
  <2>2. /\ chosen[s] \in Machines /\ device[chosen[s]].tenant = NoTenant
        /\ TenantOf \in [Claims -> Tenants] /\ NoTenant \notin Tenants
        /\ chosen[s] # NoMachine
    BY <1>0, <2>1, ServerAssumption, NetboxAssumption DEF DeviceInv
  <2>3. ASSUME NEW t \in Claims PROVE server[t].machine # chosen[s]
    <3>1. server[t].machine # NoMachine => device[server[t].machine].tenant = TenantOf[t]
      BY DEF DeviceInv
    <3>2. QED
      BY <2>2, <3>1
  <2>4. ASSUME NEW t \in Claims, server'[t].machine # NoMachine
        PROVE  /\ device'[server'[t].machine].tenant = TenantOf[t]
               /\ \A u \in Claims : u # t => server'[u].machine # server'[t].machine
    <3>1. server[t].machine \in Machines /\ server[t].machine # chosen[s]
          /\ server'[t].machine = server[t].machine
      BY <1>0, <2>1, <2>3, <2>4 DEF Server
    <3>2. device'[server[t].machine] = device[server[t].machine]
      BY <2>1, <3>1 DEF SetDeviceStatus
    <3>3. QED
      BY <2>1, <2>4, <3>1, <3>2 DEF DeviceInv
  <2>5. CASE at'[s] = "saveMachine"
    <3>1. /\ copy' = [copy EXCEPT ![s].machine = chosen[s]]
          /\ SetDeviceStatus({chosen[s]}, "staged", TenantOf[s])
      BY <1>0, <1>2, <2>5 DEF StageMachine, Finish
    <3>2. copy'[s].machine = chosen[s]
      BY <1>0, <3>1 DEF WorkerOK, Server
    <3>3. device'[chosen[s]] = [status |-> "staged", tenant |-> TenantOf[s]]
      BY <2>2, <3>1 DEF SetDeviceStatus, Patched
    <3>4. QED
      BY <1>0, <2>1, <2>3, <2>4, <2>5, <3>2, <3>3 DEF DeviceInv
  <2>6. CASE at'[s] # "saveMachine"
    <3>1. at'[s] # "stage"
      BY <1>0, <1>2 DEF StageMachine, Finish
    <3>2. QED
      BY <1>0, <2>4, <2>6, <3>1 DEF DeviceInv
  <2>7. QED
    BY <2>5, <2>6
<1>3. CASE at[s] = "saveMachine"
  <2>1. /\ SaveMachine(s) /\ UNCHANGED device
    BY <1>0, <1>3 DEF Continue, AllocateAddress, SaveAddress, ListMachines, StageMachine,
         EmitPhaseChanged, EmitMachineAllocated, SaveMachine, CreateJob, FailOnJob, AwaitJob,
         SaveReady, RemoveFinalizer, netboxVars
  <2>2. at'[s] \notin {"stage", "saveMachine"}
    BY <1>0, <2>1 DEF SaveMachine, SaveThen, Finish
  <2>3. server'[s].machine \in {server[s].machine, NoMachine, copy[s].machine}
    BY MachineKept, <1>0
  <2>4. /\ device[copy[s].machine].tenant = TenantOf[s]
        /\ \A t \in Claims : server[t].machine # copy[s].machine
    <3>1. device[copy[s].machine] = [status |-> "staged", tenant |-> TenantOf[s]]
      BY <1>3 DEF DeviceInv
    <3>2. QED
      BY <1>3, <3>1 DEF DeviceInv
  <2>5. QED
    BY <1>0, <2>1, <2>2, <2>3, <2>4 DEF DeviceInv
<1>4. CASE at[s] # "saveMachine" /\ ~StageMachine(s) /\ at'[s] # "stage"
  <2>1. UNCHANGED device
    BY <1>4 DEF Continue, AllocateAddress, SaveAddress, ListMachines,
         EmitPhaseChanged, EmitMachineAllocated, SaveMachine, CreateJob, FailOnJob, AwaitJob,
         SaveReady, RemoveFinalizer, netboxVars
  <2>2. \A t \in Claims : at'[t] \notin {"stage", "saveMachine"}
    BY <1>0, <1>4, ContinuePlaces
  <2>3. \A t \in Claims : server'[t].machine \in {server[t].machine, NoMachine}
    BY <1>0, <1>4, MachineKept
  <2>4. QED
    BY <2>1, <2>2, <2>3, DevicesKept
<1>5. QED
  BY <1>1, <1>2, <1>3, <1>4, ContinuePlaces

LEMMA DeviceInit == Init => DeviceInv
BY DEF Init, DeviceInv, Fresh

LEMMA DeviceNext == ServerTypeOK /\ WorkInv /\ DeviceInv /\ [Next]_vars => DeviceInv'
<1> SUFFICES ASSUME ServerTypeOK, WorkInv, DeviceInv, [Next]_vars PROVE DeviceInv'
  OBVIOUS
<1> USE TypeParts DEF TypesOK
<1>1. ASSUME NEW s \in Claims, Relabel(s) \/ Delete(s) PROVE DeviceInv'
  <2>1. /\ UNCHANGED <<device, at, copy, chosen>>
        /\ server' = [server EXCEPT ![s] = server'[s]]
        /\ server'[s].machine \in {server[s].machine, NoMachine}
    <3>1. server[s] \in Server
      BY DEF ObjectsOK
    <3>2. QED
      BY <1>1, <3>1, EditWork DEF netboxVars, Erased, Server
  <2>2. \A t \in Claims : server'[t].machine \in {server[t].machine, NoMachine}
    BY <2>1 DEF ObjectsOK
  <2>3. \A t \in Claims : server[t].machine \in Machines \cup {NoMachine}
                          /\ copy[t].machine \in Machines \cup {NoMachine}
    BY DEF ObjectsOK, WorkerOK, Server
  <2>4. ASSUME NEW t \in Claims, at[t] = "saveMachine" PROVE copy[t].machine # NoMachine
    BY <2>4 DEF WorkInv, CopyInv, Knows
  <2>5. QED
    BY <2>1, <2>2, <2>3, <2>4 DEF DeviceInv
<1>2. ASSUME NEW m \in Machines, Recycle(m) PROVE DeviceInv'
  <2>1. /\ \A t \in Claims : server[t].machine # m
        /\ device[m].status = "active" /\ device' = [device EXCEPT ![m].tenant = NoTenant]
        /\ UNCHANGED <<server, at, copy, chosen>>
    BY <1>2 DEF Recycle, ClearTenant, storedVars, workerVars
  <2>2. /\ \A n \in Machines : n # m => device'[n] = device[n]
        /\ device'[m].tenant = NoTenant
    BY <2>1 DEF NetboxTypeOK, Device
  <2>3. \A t \in Claims : /\ server[t].machine \in Machines \cup {NoMachine}
                          /\ at[t] = "saveMachine" => copy[t].machine \in Machines
                          /\ at[t] = "stage" => chosen[t] \in Machines
    BY DEF ObjectsOK, WorkerOK, Server, WorkInv, CopyInv, Knows
  <2>4. ASSUME NEW t \in Claims, at[t] = "saveMachine" PROVE copy[t].machine # m
    <3>1. device[copy[t].machine] = [status |-> "staged", tenant |-> TenantOf[t]]
      BY <2>4 DEF DeviceInv
    <3>2. QED
      BY <2>1, <3>1
  <2>5. QED
    BY <2>1, <2>2, <2>3, <2>4 DEF DeviceInv
<1>3. CASE UNCHANGED <<device, server, at, copy, chosen>>
  BY <1>3 DEF DeviceInv
<1>4. CASE Restart
  <2>1. UNCHANGED <<device, server>> /\ \A t \in Claims : at'[t] = "idle"
    BY <1>4 DEF Restart, netboxVars
  <2>2. QED
    BY <2>1 DEF DeviceInv
<1>5. QED
  BY <1>1, <1>2, <1>3, <1>4, DeviceBegin, DeviceContinue
     DEF Next, CacheSync, JobRuns, vars, storedVars, workerVars, netboxVars

\* Addresses once named stay what they are to the claim that named them.
LEMMA OwnLater ==
    ASSUME NetboxTypeOK,
           \/ UNCHANGED ipam \/ (\E S : ReleaseIP(S))
           \/ \E i \in IPs : \E name : AllocateIP(i, name)
    PROVE  \A t \in Claims, j \in IPs : OwnAddress(t, j) => OwnAddress(t, j)'
<1>1. CASE UNCHANGED ipam
  BY <1>1 DEF OwnAddress
<1>2. ASSUME NEW S, ReleaseIP(S)
      PROVE  \A t \in Claims, j \in IPs : OwnAddress(t, j) => OwnAddress(t, j)'
  <2>1. \A j \in IPs : ipam'[j] = ipam[j] \/ ipam'[j].state = "released"
    BY <1>2 DEF ReleaseIP
  <2>2. QED
    BY <2>1 DEF OwnAddress
<1>3. ASSUME NEW i \in IPs, NEW name, AllocateIP(i, name)
      PROVE  \A t \in Claims, j \in IPs : OwnAddress(t, j) => OwnAddress(t, j)'
  <2>1. \A j \in IPs : ipam'[j] = ipam[j] \/ ipam[j].state = "unused"
    BY <1>3 DEF AllocateIP, NetboxTypeOK
  <2>2. QED
    BY <2>1 DEF OwnAddress
<1>4. QED
  BY <1>1, <1>2, <1>3

\* The informer's copy is the one it had, or the new version.
LEMMA SeenStore ==
    ASSUME ObjectsOK, NEW s \in Claims,
           \/ UNCHANGED storedVars
           \/ \E new, again : Store(s, new, again)
    PROVE  \A t \in Claims : seen'[t] = seen[t] \/ seen'[t] = server'[t]
BY DEF ObjectsOK, storedVars, Store

LEMMA SeenLater ==
    ASSUME ObjectsOK, [Next]_vars
    PROVE  \A t \in Claims : seen'[t] = seen[t] \/ seen'[t] = server'[t]
<1>1. ASSUME NEW s \in Claims, Begin(s)
      PROVE  UNCHANGED storedVars \/ (\E new, again : Store(s, new, again))
  BY <1>1 DEF Begin, AddFinalizer, NothingToDo, Validate, BeginProvision, ReleaseAll, Write,
              WriteFails, Return, Start
<1>2. ASSUME NEW s \in Claims, Continue(s)
      PROVE  UNCHANGED storedVars \/ (\E new, again : Store(s, new, again))
  BY <1>2 DEF Continue, AllocateAddress, SaveAddress, ListMachines, StageMachine,
         EmitPhaseChanged, EmitMachineAllocated, SaveMachine, CreateJob, FailOnJob, AwaitJob,
         SaveReady, RemoveFinalizer, SaveThen, Failing, Write, WriteFails, Return
<1>3. ASSUME NEW s \in Claims, Relabel(s) \/ Delete(s)
      PROVE  \E new, again : Store(s, new, again)
  BY <1>3 DEF Relabel, Delete, Edit
<1>4. ASSUME NEW s \in Claims, CacheSync(s)
      PROVE  \A t \in Claims : seen'[t] = seen[t] \/ seen'[t] = server'[t]
  BY <1>4 DEF CacheSync, ObjectsOK
<1>5. CASE Restart
  BY <1>5 DEF Restart
<1>6. CASE UNCHANGED storedVars
  BY <1>6 DEF storedVars
<1>7. QED
  BY <1>1, <1>2, <1>3, <1>4, <1>5, <1>6, SeenStore DEF Next, JobRuns, Recycle, vars, storedVars

\* The addresses a claim may record after a step of the worker.
LEMMA AddressKept ==
    ASSUME ServerTypeOK, WorkInv, NEW s \in Claims, Changes(s)
    PROVE  /\ \A t \in Claims : t # s => server'[t] = server[t]
           /\ \/ server'[s] = server[s]
              \/ server'[s].life # "live" /\ server'[s].ip \in {server[s].ip, NoIP}
              \/ server[s].life = "live" /\ server'[s].ip = server[s].ip
              \/ at[s] = "saveAddress" /\ server'[s].ip = copy[s].ip
<1> USE TypeParts DEF TypesOK, WorkInv
<1>1. /\ server[s] \in Server /\ copy[s] \in Server /\ server \in [Claims -> Server]
      /\ Knows(at[s], copy[s], copyCur[s], server[s])
  BY DEF ObjectsOK, WorkerOK, CopyInv
<1>2. copyCur[s] => Origin(at[s], copy[s]) = server[s]
  BY <1>1 DEF Knows
<1>3. \/ UNCHANGED server
      \/ /\ copyCur[s] /\ server' = [server EXCEPT ![s] = server'[s]]
         /\ \/ server'[s].life = copy[s].life /\ server'[s].ip = copy[s].ip
            \/ server'[s].life # "live" /\ server'[s].ip = NoIP
  BY <1>1 DEF Changes, Erased, Server
<1>4. \/ at[s] = "saveAddress"
      \/ /\ Origin(at[s], copy[s]).life = copy[s].life
         /\ Origin(at[s], copy[s]).ip = copy[s].ip
  BY <1>1 DEF Origin, Server
<1>5. QED
  BY <1>1, <1>2, <1>3, <1>4

LEMMA AddressBegin ==
    ASSUME ServerTypeOK, WorkInv, AddressInv, NEW s \in Claims, Begin(s)
    PROVE  AddressInv'
<1> USE TypeParts DEF TypesOK, WorkInv
<1>0. \A t \in Claims : /\ server[t].ip \in IPs \cup {NoIP} /\ seen[t].ip \in IPs \cup {NoIP}
                        /\ copy[t].ip \in IPs \cup {NoIP}
  BY DEF ObjectsOK, WorkerOK, Server
<1>1. \A t \in Claims : /\ at'[t] # "saveAddress"
                        /\ server'[t].ip = server[t].ip /\ server'[t].life = server[t].life
  BY BeginPlaces, BeginWork DEF ObjectsOK
<1>2. \A t \in Claims : seen'[t] = seen[t] \/ seen'[t] = server'[t]
  BY SeenLater DEF Next
<1>3. \A t \in Claims : copy'[t].ip \in {copy[t].ip, seen[t].ip}
  <2>1. CASE BeginProvision(s) \/ ReleaseAll(s)
    <3>1. PICK rec \in {seen[s], [seen[s] EXCEPT !.finalizer = FALSE]} :
             copy' = [copy EXCEPT ![s] = rec]
      BY <2>1 DEF BeginProvision, ReleaseAll, Start
    <3>2. rec.ip = seen[s].ip
      BY DEF ObjectsOK, Server
    <3>3. QED
      BY <3>1, <3>2 DEF WorkerOK
  <2>2. CASE ~BeginProvision(s) /\ ~ReleaseAll(s)
    BY <2>2 DEF Begin, AddFinalizer, NothingToDo, Validate, workerVars
  <2>3. QED
    BY <2>1, <2>2
<1>4. UNCHANGED ipam \/ (seen[s].life = "deleting" /\ \E S \in SUBSET {seen[s].ip} : ReleaseIP(S))
  <2>1. CASE ReleaseAll(s)
    BY <2>1 DEF ReleaseAll, Release
  <2>2. CASE ~ReleaseAll(s)
    BY <2>2 DEF Begin, AddFinalizer, NothingToDo, Validate, BeginProvision, netboxVars
  <2>3. QED
    BY <2>1, <2>2
<1>5. \A t \in Claims, j \in IPs : OwnAddress(t, j) => OwnAddress(t, j)'
  BY <1>4, OwnLater
<1>6. ASSUME NEW t \in Claims, server'[t].life = "live", server'[t].ip # NoIP
      PROVE  ipam'[server'[t].ip].state = "live"
  <2>1. /\ server[t].life = "live" /\ server[t].ip \in IPs /\ ipam[server[t].ip].state = "live"
        /\ OwnAddress(t, server[t].ip) /\ server'[t].ip = server[t].ip
    BY <1>0, <1>1, <1>6 DEF AddressInv
  <2>2. ipam[server[t].ip].dns = <<t, "server">>
    BY <2>1 DEF OwnAddress
  <2>3. ASSUME seen[s].life = "deleting" PROVE server[t].ip # seen[s].ip
    <3>1. CASE t = s
      BY <2>1, <2>3, <3>1 DEF VersionInv, Behind
    <3>2. CASE t # s
      <4>1. server[t].ip = seen[s].ip => OwnAddress(s, server[t].ip)
        BY <1>6, <2>1 DEF AddressInv
      <4>2. server[t].ip = seen[s].ip => ipam[server[t].ip].dns = <<s, "server">>
        BY <2>1, <4>1 DEF OwnAddress
      <4>3. QED
        BY <2>2, <3>2, <4>2
    <3>3. QED
      BY <3>1, <3>2
  <2>4. ipam'[server[t].ip] = ipam[server[t].ip]
    BY <1>4, <2>1, <2>3 DEF ReleaseIP
  <2>5. QED
    BY <2>1, <2>4
<1>7. ASSUME NEW t \in Claims
      PROVE  (/\ server[t].ip # NoIP => OwnAddress(t, server[t].ip)
              /\ seen[t].ip # NoIP => OwnAddress(t, seen[t].ip)
              /\ copy[t].ip # NoIP => OwnAddress(t, copy[t].ip))'
  <2>1. /\ server[t].ip # NoIP => OwnAddress(t, server[t].ip)
        /\ seen[t].ip # NoIP => OwnAddress(t, seen[t].ip)
        /\ copy[t].ip # NoIP => OwnAddress(t, copy[t].ip)
    BY DEF AddressInv
  <2>2. QED
    BY <1>0, <1>1, <1>2, <1>3, <1>5, <2>1 DEF OwnAddress
<1>8. QED
  BY <1>1, <1>6, <1>7 DEF AddressInv, OwnAddress

\* A request for an address leaves every address as it is, but the one it may create.
LEMMA AllocateOthers ==
    ASSUME NetboxTypeOK, NEW i \in IPs, NEW s \in Claims, AllocateIP(i, <<s, "server">>)
    PROVE  /\ ipam[i].state = "unused" /\ ipam'[i] = [state |-> "live", dns |-> <<s, "server">>]
           /\ \A j \in IPs : j # i => ipam'[j] = ipam[j]
BY DEF AllocateIP, NetboxTypeOK

\* A step that only forgets addresses, here or in Netbox those no live server records.
LEMMA AddressForgotten ==
    ASSUME AddressInv, ServerTypeOK,
           \A t \in Claims, j \in IPs : OwnAddress(t, j) => OwnAddress(t, j)',
           \A j \in IPs : ipam[j].state = "live" => ipam'[j] = ipam[j],
           UNCHANGED server, \A t \in Claims : seen'[t] \in {seen[t], server[t]},
           \A t \in Claims : at'[t] = "idle" /\ copy'[t].ip \in {copy[t].ip, NoIP}
    PROVE  AddressInv'
<1>1. ASSUME NEW t \in Claims
      PROVE  (/\ server[t].ip # NoIP => OwnAddress(t, server[t].ip)
              /\ seen[t].ip # NoIP => OwnAddress(t, seen[t].ip)
              /\ copy[t].ip # NoIP => OwnAddress(t, copy[t].ip)
              /\ server[t].life = "live" /\ server[t].ip # NoIP =>
                    ipam[server[t].ip].state = "live")'
  <2>1. /\ server[t].ip \in IPs \cup {NoIP} /\ seen[t].ip \in IPs \cup {NoIP}
        /\ copy[t].ip \in IPs \cup {NoIP}
    BY TypeParts DEF TypesOK, ObjectsOK, WorkerOK, Server
  <2>2. /\ server[t].ip # NoIP => OwnAddress(t, server[t].ip)
        /\ seen[t].ip # NoIP => OwnAddress(t, seen[t].ip)
        /\ copy[t].ip # NoIP => OwnAddress(t, copy[t].ip)
        /\ server[t].life = "live" /\ server[t].ip # NoIP => ipam[server[t].ip].state = "live"
    BY DEF AddressInv
  <2>3. /\ seen'[t].ip \in {seen[t].ip, server[t].ip} /\ server'[t] = server[t]
        /\ copy'[t].ip \in {copy[t].ip, NoIP}
    OBVIOUS
  <2>4. QED
    BY <2>1, <2>2, <2>3 DEF OwnAddress
<1>2. QED
  BY <1>1 DEF AddressInv

LEMMA AddressContinue ==
    ASSUME ServerTypeOK, WorkInv, AddressInv, NEW s \in Claims, Continue(s)
    PROVE  AddressInv'
<1> USE TypeParts DEF TypesOK, WorkInv
<1>0. /\ \A t \in Claims : /\ server[t] \in Server
                           /\ server[t].ip \in IPs \cup {NoIP} /\ seen[t].ip \in IPs \cup {NoIP}
                           /\ copy[t].ip \in IPs \cup {NoIP}
      /\ Changes(s) /\ copy \in [Claims -> Server] /\ at \in [Claims -> Place]
      /\ \A t \in Claims : t # s => at'[t] = "idle"
      /\ at'[s] = "saveAddress" => AllocateAddress(s)
  BY ContinueWork, ContinuePlaces DEF ObjectsOK, WorkerOK, Server
<1>1. \A t \in Claims : seen'[t] = seen[t] \/ seen'[t] = server'[t]
  BY SeenLater DEF Next
<1>2. \A t \in Claims, j \in IPs : OwnAddress(t, j) => OwnAddress(t, j)'
  <2>1. UNCHANGED ipam \/ \E i \in IPs : \E name : AllocateIP(i, name)
    BY DEF Continue, AllocateAddress, SaveAddress, ListMachines, StageMachine,
         EmitPhaseChanged, EmitMachineAllocated, SaveMachine, CreateJob, FailOnJob, AwaitJob,
         SaveReady, RemoveFinalizer, netboxVars
  <2>2. QED
    BY <2>1, OwnLater
<1>3. CASE AllocateAddress(s)
  <2>1. UNCHANGED <<server, seen>>
    BY <1>3 DEF AllocateAddress, storedVars, Return
  <2>2. \A j \in IPs : ipam[j].state = "live" => ipam'[j] = ipam[j]
    <3>1. CASE UNCHANGED ipam
      BY <3>1
    <3>2. CASE \E i \in IPs : AllocateIP(i, <<s, "server">>)
      BY <3>2, AllocateOthers
    <3>3. QED
      BY <1>3, <3>1, <3>2 DEF AllocateAddress
  <2>3. CASE Finish(s)
    <3>1. \A t \in Claims : at'[t] = "idle" /\ copy'[t].ip \in {copy[t].ip, NoIP}
      BY <1>0, <2>3 DEF Finish, Fresh
    <3>2. QED
      BY <1>2, <2>1, <2>2, <3>1, AddressForgotten
  <2>4. CASE /\ \E i \in IPs : AllocateIP(i, <<s, "server">>) /\ copy' = [copy EXCEPT ![s].ip = i]
             /\ at' = [at EXCEPT ![s] = "saveAddress"]
    <3>1. PICK i \in IPs : AllocateIP(i, <<s, "server">>) /\ copy' = [copy EXCEPT ![s].ip = i]
      BY <2>4
    <3>2. /\ copy'[s].ip = i /\ \A t \in Claims : t # s => copy'[t] = copy[t]
          /\ ipam'[i] = [state |-> "live", dns |-> <<s, "server">>]
      BY <1>0, <3>1, AllocateOthers DEF Server
    <3>3. ipam'[i].state = "live"
      BY <3>2
    <3>4. ASSUME NEW t \in Claims
          PROVE  (/\ server[t].ip # NoIP => OwnAddress(t, server[t].ip)
                  /\ seen[t].ip # NoIP => OwnAddress(t, seen[t].ip)
                  /\ copy[t].ip # NoIP => OwnAddress(t, copy[t].ip))'
      <4>1. /\ server[t].ip # NoIP => OwnAddress(t, server[t].ip)
            /\ seen[t].ip # NoIP => OwnAddress(t, seen[t].ip)
            /\ copy[t].ip # NoIP => OwnAddress(t, copy[t].ip)
        BY DEF AddressInv
      <4>2. QED
        BY <1>0, <1>2, <2>1, <3>2, <4>1 DEF OwnAddress
    <3>5. ASSUME NEW t \in Claims
          PROVE  (/\ server[t].life = "live" /\ server[t].ip # NoIP => ipam[server[t].ip].state = "live"
                  /\ at[t] = "saveAddress" => ipam[copy[t].ip].state = "live")'
      <4>1. server[t].life = "live" /\ server[t].ip # NoIP => ipam[server[t].ip].state = "live"
        BY DEF AddressInv
      <4>2. QED
        BY <1>0, <2>1, <2>2, <3>2, <3>3, <4>1
    <3>6. QED
      BY <3>4, <3>5 DEF AddressInv
  <2>5. QED
    BY <1>3, <2>3, <2>4 DEF AllocateAddress
<1>4. CASE ~AllocateAddress(s)
  <2>1. UNCHANGED ipam
    BY <1>4 DEF Continue, SaveAddress, ListMachines, StageMachine,
         EmitPhaseChanged, EmitMachineAllocated, SaveMachine, CreateJob, FailOnJob, AwaitJob,
         SaveReady, RemoveFinalizer, netboxVars
  <2>2. \A t \in Claims : at'[t] # "saveAddress"
    BY <1>0, <1>4
  <2>3. \A t \in Claims : copy'[t].ip \in {copy[t].ip, NoIP}
    <3>1. \/ UNCHANGED copy \/ copy' = [copy EXCEPT ![s] = Fresh]
          \/ copy' = [copy EXCEPT ![s].machine = chosen[s]]
      BY <1>4 DEF Continue, SaveAddress, ListMachines, StageMachine, SaveThen,
         EmitPhaseChanged, EmitMachineAllocated, SaveMachine, CreateJob, FailOnJob, AwaitJob,
         SaveReady, RemoveFinalizer, Finish
    <3>2. QED
      BY <1>0, <3>1 DEF Fresh, Server
  <2>4. /\ \A t \in Claims : t # s => server'[t] = server[t]
        /\ \/ server'[s] = server[s]
           \/ server'[s].life # "live" /\ server'[s].ip \in {server[s].ip, NoIP}
           \/ server[s].life = "live" /\ server'[s].ip = server[s].ip
           \/ at[s] = "saveAddress" /\ server'[s].ip = copy[s].ip
    BY <1>0, AddressKept
  <2>5. ASSUME NEW t \in Claims
        PROVE  (/\ server[t].ip # NoIP => OwnAddress(t, server[t].ip)
                /\ seen[t].ip # NoIP => OwnAddress(t, seen[t].ip)
                /\ copy[t].ip # NoIP => OwnAddress(t, copy[t].ip))'
    <3>1. /\ server[t].ip # NoIP => OwnAddress(t, server[t].ip)
          /\ seen[t].ip # NoIP => OwnAddress(t, seen[t].ip)
          /\ copy[t].ip # NoIP => OwnAddress(t, copy[t].ip)
      BY DEF AddressInv
    <3>2. server'[t].ip \in {server[t].ip, copy[t].ip, NoIP}
      BY <2>4
    <3>3. QED
      BY <1>1, <2>1, <2>3, <3>1, <3>2 DEF OwnAddress
  <2>6. ASSUME NEW t \in Claims, server'[t].life = "live", server'[t].ip # NoIP
        PROVE  ipam[server'[t].ip].state = "live"
    <3>1. /\ server[t].life = "live" /\ server[t].ip # NoIP => ipam[server[t].ip].state = "live"
          /\ at[t] = "saveAddress" => ipam[copy[t].ip].state = "live"
      BY DEF AddressInv
    <3>2. QED
      BY <2>4, <2>6, <3>1
  <2>7. QED
    BY <2>1, <2>2, <2>5, <2>6 DEF AddressInv, OwnAddress
<1>5. QED
  BY <1>3, <1>4

LEMMA AddressInit == Init => AddressInv
BY DEF Init, AddressInv, Fresh

LEMMA AddressNext == ServerTypeOK /\ WorkInv /\ AddressInv /\ [Next]_vars => AddressInv'
<1> SUFFICES ASSUME ServerTypeOK, WorkInv, AddressInv, [Next]_vars PROVE AddressInv'
  OBVIOUS
<1> USE TypeParts DEF TypesOK
<1>1. CASE UNCHANGED <<ipam, server, at, copy>>
  <2>1. \A t \in Claims : seen'[t] = seen[t] \/ seen'[t] = server'[t]
    BY SeenLater DEF ObjectsOK
  <2>2. QED
    BY <1>1, <2>1 DEF AddressInv, OwnAddress
<1>2. ASSUME NEW s \in Claims, Relabel(s) \/ Delete(s) PROVE AddressInv'
  <2>1. /\ UNCHANGED <<ipam, at, copy>> /\ server[s] \in Server
        /\ server' = [server EXCEPT ![s] = server'[s]] /\ server \in [Claims -> Server]
        /\ \/ server'[s] = server[s]
           \/ server'[s] = [server[s] EXCEPT !.life = "deleting"]
           \/ server'[s] = Erased(server[s])
    BY <1>2, EditWork DEF netboxVars, ObjectsOK
  <2>2. /\ \A t \in Claims : t # s => server'[t] = server[t]
        /\ \/ server'[s] = server[s]
           \/ server'[s].life # "live" /\ server'[s].ip \in {server[s].ip, NoIP}
    BY <2>1 DEF Erased, Server
  <2>3. \A t \in Claims : seen'[t] = seen[t] \/ seen'[t] = server'[t]
    BY SeenLater DEF ObjectsOK
  <2>4. ASSUME NEW t \in Claims
        PROVE  (/\ server[t].ip # NoIP => OwnAddress(t, server[t].ip)
                /\ seen[t].ip # NoIP => OwnAddress(t, seen[t].ip)
                /\ copy[t].ip # NoIP => OwnAddress(t, copy[t].ip)
                /\ server[t].life = "live" /\ server[t].ip # NoIP =>
                      ipam[server[t].ip].state = "live"
                /\ at[t] = "saveAddress" => ipam[copy[t].ip].state = "live")'
    <3>1. \/ server'[t] = server[t]
          \/ server'[t].life # "live" /\ server'[t].ip \in {server[t].ip, NoIP}
      BY <2>2
    <3>2. /\ server[t].ip # NoIP => OwnAddress(t, server[t].ip)
          /\ seen[t].ip # NoIP => OwnAddress(t, seen[t].ip)
          /\ copy[t].ip # NoIP => OwnAddress(t, copy[t].ip)
          /\ server[t].life = "live" /\ server[t].ip # NoIP => ipam[server[t].ip].state = "live"
          /\ at[t] = "saveAddress" => ipam[copy[t].ip].state = "live"
      BY DEF AddressInv
    <3>3. QED
      BY <2>1, <2>3, <3>1, <3>2 DEF OwnAddress
  <2>5. QED
    BY <2>4 DEF AddressInv
<1>3. CASE Restart
  <2>1. /\ UNCHANGED <<ipam, server>> /\ seen' = server
        /\ \A t \in Claims : at'[t] = "idle" /\ copy'[t].ip = NoIP
    BY <1>3 DEF Restart, netboxVars, Fresh
  <2>2. \A t \in Claims, j \in IPs : OwnAddress(t, j) => OwnAddress(t, j)'
    BY <2>1 DEF OwnAddress
  <2>3. \A t \in Claims : /\ seen'[t] \in {seen[t], server[t]}
                          /\ at'[t] = "idle" /\ copy'[t].ip \in {copy[t].ip, NoIP}
    BY <2>1
  <2>4. QED
    BY <2>1, <2>2, <2>3, AddressForgotten
<1>4. QED
  BY <1>1, <1>2, <1>3, AddressBegin, AddressContinue
     DEF Next, CacheSync, JobRuns, Recycle, ClearTenant, vars, storedVars, workerVars, netboxVars

-------------------------------------------------------------------------------
(* What a live server records is its own *)

HeldInv == ServerTypeOK /\ WorkInv /\ DeviceInv /\ AddressInv

LEMMA HeldInvariant == Spec => []HeldInv
<1>1. Init => HeldInv
  BY InitType, WorkInvInit, DeviceInit, AddressInit DEF HeldInv
<1>2. HeldInv /\ [Next]_vars => HeldInv'
  BY NextType, WorkInvNext, DeviceNext, AddressNext DEF HeldInv
<1>3. QED
  BY <1>1, <1>2, PTL DEF Spec

\* The address a live server records exists and carries its name, its device is its
\* tenant's and recorded by no other server: for any number of claims, faults and edits,
\* and whatever the caches hold.
THEOREM ServersHoldTheirOwn == Spec => []RecordedHeld
<1>1. HeldInv => RecordedHeld
  <2> SUFFICES ASSUME HeldInv, NEW s \in Claims, server[s].life = "live"
               PROVE  /\ server[s].ip # NoIP =>
                            ipam[server[s].ip] = [state |-> "live", dns |-> <<s, "server">>]
                      /\ server[s].machine # NoMachine =>
                            /\ device[server[s].machine].tenant = TenantOf[s]
                            /\ \A other \in Claims \ {s} : server[other].machine # server[s].machine
    BY DEF RecordedHeld
  <2>1. ASSUME server[s].ip # NoIP
        PROVE  ipam[server[s].ip] = [state |-> "live", dns |-> <<s, "server">>]
    <3>1. OwnAddress(s, server[s].ip) /\ ipam[server[s].ip].state = "live"
      BY <2>1 DEF HeldInv, AddressInv
    <3>2. QED
      BY <3>1 DEF OwnAddress
  <2>2. QED
    BY <2>1 DEF HeldInv, DeviceInv
<1>2. QED
  BY <1>1, HeldInvariant, PTL

-------------------------------------------------------------------------------
(* The controller implements the device ledger *)

\* The refinement mapping of ServerClaim.
Owned == [s \in Claims |-> {server[s].machine} \ {NoMachine}]
TenantIn == [m \in Machines |-> device[m].tenant]

LEMMA LedgerInit == Init => Ledger!Init
BY DEF Init, NetboxInit, Fresh, Ledger!Init

LEMMA LedgerVariables ==
    (TenantIn' = TenantIn /\ Owned' = Owned) => UNCHANGED Ledger!ledgerVars
BY DEF Ledger!ledgerVars, Owned, TenantIn

\* Claim s records another device, forgets the one it has, or nothing changes.
LEMMA LedgerClaims ==
    ASSUME HeldInv, NEW s \in Claims, TenantIn' = TenantIn,
           \A t \in Claims : t # s => server'[t].machine = server[t].machine,
           \/ server'[s].machine \in {server[s].machine, NoMachine}
           \/ /\ server[s].machine = NoMachine /\ server'[s].machine \in Machines
              /\ device[server'[s].machine].tenant = TenantOf[s]
              /\ \A t \in Claims : server[t].machine # server'[s].machine
    PROVE  Ledger!Next \/ UNCHANGED Ledger!ledgerVars
<1>0. server[s].machine \in Machines \cup {NoMachine} /\ NoMachine \notin Machines
  BY TypeParts, ServerAssumption DEF HeldInv, TypesOK, ObjectsOK, Server
<1>1. CASE server'[s].machine = server[s].machine
  <2>1. Owned' = Owned
    BY <1>1 DEF Owned
  <2>2. QED
    BY <2>1, LedgerVariables
<1>2. CASE server'[s].machine = NoMachine /\ server[s].machine # NoMachine
  <2>1. PICK S \in SUBSET Machines : S = {server[s].machine}
    BY <1>0, <1>2
  <2>2. Owned' = [Owned EXCEPT ![s] = @ \ S]
    BY <1>2, <2>1 DEF Owned
  <2>3. Ledger!Forget(s, S)
    BY <2>2 DEF Ledger!Forget, Owned, TenantIn
  <2>4. QED
    BY <2>3 DEF Ledger!Next
<1>3. CASE /\ server[s].machine = NoMachine /\ server'[s].machine \in Machines
           /\ device[server'[s].machine].tenant = TenantOf[s]
           /\ \A t \in Claims : server[t].machine # server'[s].machine
  <2>1. PICK S \in SUBSET Machines : S = {server'[s].machine}
    BY <1>3
  <2>2. Owned' = [Owned EXCEPT ![s] = @ \cup S]
    BY <1>0, <1>3, <2>1 DEF Owned
  <2>3. S \cap UNION {Owned[c] : c \in Claims} = {}
    BY <1>3, <2>1 DEF Owned
  <2>4. \A n \in S : TenantIn[n] = TenantOf[s]
    BY <1>3, <2>1 DEF TenantIn
  <2>5. Ledger!Record(s, S)
    BY <2>2, <2>3, <2>4 DEF Ledger!Record, Ledger!Recorded, Owned, TenantIn
  <2>6. QED
    BY <2>5 DEF Ledger!Next
<1>4. QED
  BY <1>0, <1>1, <1>2, <1>3

LEMMA LedgerStep == HeldInv /\ [Next]_vars => [Ledger!Next]_(Ledger!ledgerVars)
<1> SUFFICES ASSUME HeldInv, [Next]_vars PROVE Ledger!Next \/ UNCHANGED Ledger!ledgerVars
  OBVIOUS
<1>0. /\ ServerTypeOK /\ WorkInv /\ DeviceInv /\ TypesOK
      /\ server \in [Claims -> Server] /\ copy \in [Claims -> Server]
      /\ device \in [Machines -> Device]
  BY TypeParts DEF HeldInv, TypesOK, ObjectsOK, WorkerOK, NetboxTypeOK
<1>1. ASSUME NEW s \in Claims, Begin(s) PROVE Ledger!Next \/ UNCHANGED Ledger!ledgerVars
  <2>1. \A t \in Claims : server'[t].machine = server[t].machine
    BY <1>0, <1>1, BeginWork
  <2>2. TenantIn' = TenantIn
    <3>1. CASE UNCHANGED device
      BY <3>1 DEF TenantIn
    <3>2. CASE \E S : SetDeviceStatus(S, "active", NoTenant)
      BY <3>2 DEF SetDeviceStatus, Patched, TenantIn
    <3>3. QED
      BY <1>1, <3>1, <3>2 DEF Begin, AddFinalizer, NothingToDo, Validate, BeginProvision,
                              ReleaseAll, Release, netboxVars
  <2>3. QED
    BY <1>0, <2>1, <2>2, LedgerClaims
<1>2. ASSUME NEW s \in Claims, Continue(s), ~StageMachine(s)
      PROVE  Ledger!Next \/ UNCHANGED Ledger!ledgerVars
  <2>1. TenantIn' = TenantIn
    BY <1>2 DEF Continue, AllocateAddress, SaveAddress, ListMachines,
         EmitPhaseChanged, EmitMachineAllocated, SaveMachine, CreateJob, FailOnJob, AwaitJob,
         SaveReady, RemoveFinalizer, netboxVars, TenantIn
  <2>2. /\ \A t \in Claims : t # s => server'[t] = server[t]
        /\ \/ server'[s].machine \in {server[s].machine, NoMachine}
           \/ at[s] = "saveMachine" /\ server'[s].machine = copy[s].machine
    BY <1>0, <1>2, ContinueWork, MachineKept
  <2>3. CASE server'[s].machine \in {server[s].machine, NoMachine}
    BY <1>0, <2>1, <2>2, <2>3, LedgerClaims
  <2>4. CASE /\ at[s] = "saveMachine" /\ server'[s].machine = copy[s].machine
             /\ server'[s].machine \notin {server[s].machine, NoMachine}
    <3>1. /\ copy[s].machine \in Machines
          /\ \A t \in Claims : server[t].machine # copy[s].machine
          /\ device[copy[s].machine] = [status |-> "staged", tenant |-> TenantOf[s]]
      BY <1>0, <2>4 DEF DeviceInv, Server
    <3>2. device[copy[s].machine].tenant = TenantOf[s]
      BY <3>1
    <3>3. server[s].machine = NoMachine
      <4>1. Knows(at[s], copy[s], copyCur[s], server[s]) /\ Changes(s)
        BY <1>0, <1>2, ContinueWork DEF WorkInv, CopyInv
      <4>2. copyCur[s]
        BY <2>4, <4>1 DEF Changes
      <4>3. server[s] = [copy[s] EXCEPT !.machine = NoMachine]
        BY <2>4, <4>1, <4>2 DEF Knows, Origin
      <4>4. QED
        BY <1>0, <4>3 DEF Server
    <3>4. QED
      BY <1>0, <2>1, <2>2, <2>4, <3>1, <3>2, <3>3, LedgerClaims
  <2>5. QED
    BY <2>2, <2>3, <2>4
<1>3. ASSUME NEW s \in Claims, StageMachine(s)
      PROVE  Ledger!Next \/ UNCHANGED Ledger!ledgerVars
  <2>1. /\ at[s] = "stage" /\ Owned' = Owned
        /\ UNCHANGED device \/ SetDeviceStatus({chosen[s]}, "staged", TenantOf[s])
    BY <1>3 DEF StageMachine, Return, storedVars, Owned
  <2>2. /\ chosen[s] \in Machines /\ device[chosen[s]].tenant = NoTenant
        /\ TenantOf[s] \in Tenants /\ TenantOf[s] # NoTenant
    <3>1. device[chosen[s]].tenant = NoTenant
      BY <1>0, <2>1 DEF DeviceInv
    <3>2. chosen[s] \in Machines
      BY <1>0, <2>1 DEF WorkInv, CopyInv
    <3>3. QED
      BY <3>1, <3>2, ServerAssumption, NetboxAssumption
  <2>3. CASE UNCHANGED device
    BY <2>1, <2>3 DEF Ledger!ledgerVars, Owned, TenantIn
  <2>4. CASE SetDeviceStatus({chosen[s]}, "staged", TenantOf[s])
    <3>1. TenantIn' = [TenantIn EXCEPT ![chosen[s]] = TenantOf[s]]
      BY <2>2, <2>4 DEF SetDeviceStatus, Patched, TenantIn
    <3>2. Ledger!Assign(chosen[s], TenantOf[s])
      BY <2>1, <2>2, <3>1 DEF Ledger!Assign, TenantIn, Owned
    <3>3. QED
      BY <2>2, <3>2 DEF Ledger!Next
  <2>5. QED
    BY <2>1, <2>3, <2>4
<1>4. ASSUME NEW s \in Claims, Relabel(s) \/ Delete(s)
      PROVE  Ledger!Next \/ UNCHANGED Ledger!ledgerVars
  <2>1. /\ TenantIn' = TenantIn /\ server' = [server EXCEPT ![s] = server'[s]]
        /\ server'[s].machine \in {server[s].machine, NoMachine}
    <3>1. server[s] \in Server /\ UNCHANGED device
      BY <1>0, <1>4, EditWork DEF netboxVars
    <3>2. TenantIn' = TenantIn
      BY <3>1 DEF TenantIn
    <3>3. /\ server' = [server EXCEPT ![s] = server'[s]]
          /\ \/ server'[s] = server[s]
             \/ server'[s] = [server[s] EXCEPT !.life = "deleting"]
             \/ server'[s] = Erased(server[s])
      BY <1>0, <1>4, EditWork
    <3>4. server'[s].machine \in {server[s].machine, NoMachine}
      BY <3>1, <3>3 DEF Erased, Server
    <3>5. QED
      BY <3>2, <3>3, <3>4
  <2>2. \A t \in Claims : t # s => server'[t].machine = server[t].machine
    BY <1>0, <2>1
  <2>3. QED
    BY <2>1, <2>2, LedgerClaims
<1>5. ASSUME NEW m \in Machines, Recycle(m) PROVE Ledger!Next \/ UNCHANGED Ledger!ledgerVars
  <2>1. /\ \A t \in Claims : server[t].machine # m
        /\ device' = [device EXCEPT ![m].tenant = NoTenant] /\ Owned' = Owned
    BY <1>5 DEF Recycle, ClearTenant, storedVars, Owned
  <2>2. TenantIn' = [TenantIn EXCEPT ![m] = NoTenant]
    BY <1>0, <2>1 DEF TenantIn, Device
  <2>3. m \notin UNION {Owned[c] : c \in Claims}
    BY <2>1 DEF Owned
  <2>4. Ledger!Recycle(m)
    BY <2>1, <2>2, <2>3 DEF Ledger!Recycle, Ledger!Recorded, Owned, TenantIn
  <2>5. QED
    BY <2>4 DEF Ledger!Next
<1>6. CASE UNCHANGED <<server, device>>
  BY <1>6 DEF Ledger!ledgerVars
<1>7. QED
  BY <1>1, <1>2, <1>3, <1>4, <1>5, <1>6
     DEF Next, CacheSync, JobRuns, Restart, vars, storedVars, netboxVars

\* The ServerClaim controller implements the device ledger: every step of the worker, of
\* users, caches, Jobs, of an administrator and of a restart is a step of the ledger or none.
THEOREM ServersKeepTheLedger == Spec => LedgerKept
<1>1. Init => Ledger!Init
  BY LedgerInit
<1>2. HeldInv /\ [Next]_vars => [Ledger!Next]_(Ledger!ledgerVars)
  BY LedgerStep
<1>3. Spec => Ledger!Spec
  BY <1>1, <1>2, HeldInvariant, PTL DEF Spec, Ledger!Spec
<1>4. QED
  BY <1>3 DEF LedgerKept

-------------------------------------------------------------------------------
(* What the controller writes, and that a claim only goes forward *)

LEMMA BeginWrites ==
    ASSUME ServerTypeOK, NEW s \in Claims, Begin(s)
    PROVE  /\ UNCHANGED work
           /\ \/ UNCHANGED server
              \/ /\ seenCur[s] /\ seen[s].life = "live" /\ ~seen[s].finalizer
                 /\ server' = [server EXCEPT ![s] = [seen[s] EXCEPT !.finalizer = TRUE]]
              \/ /\ seenCur[s] /\ seen[s].life = "live" /\ seen[s].phase = "Pending"
                 /\ seen[s].finalizer
                 /\ \E p \in {"Provisioning", "Failed"} :
                       server' = [server EXCEPT ![s] = [seen[s] EXCEPT !.phase = p]]
<1>1. CASE AddFinalizer(s)
  BY <1>1 DEF AddFinalizer, Write, WriteFails, Store, Return, storedVars
<1>2. CASE Validate(s)
  BY <1>2 DEF Validate, Takes, Write, WriteFails, Store, Return, storedVars
<1>3. CASE NothingToDo(s) \/ BeginProvision(s) \/ ReleaseAll(s)
  BY <1>3 DEF NothingToDo, BeginProvision, ReleaseAll, Start, Return, storedVars
<1>4. QED
  BY <1>1, <1>2, <1>3 DEF Begin

LEMMA ContinueWrites ==
    ASSUME ServerTypeOK, NEW s \in Claims, Continue(s)
    PROVE  \/ UNCHANGED server
           \/ /\ copyCur[s] /\ UNCHANGED work
              /\ \/ /\ at[s] \in {"saveAddress", "saveMachine"}
                    /\ server' = [server EXCEPT ![s] = copy[s]]
                 \/ /\ \/ at[s] = "list"
                       \/ at[s] = "job" /\ work[s] \in {"retrying", "failed", "completeAfterFailure"}
                    /\ server' = [server EXCEPT ![s] = [copy[s] EXCEPT !.phase = "Failed"]]
                 \/ /\ at[s] = "job" /\ work[s] = "complete"
                    /\ server' = [server EXCEPT ![s] = [copy[s] EXCEPT !.phase = "Ready"]]
                 \/ /\ at[s] = "removeFinalizer"
                    /\ server' = [server EXCEPT ![s] = Erased(copy[s])]
<1>1. CASE SaveAddress(s) \/ SaveMachine(s)
  BY <1>1 DEF SaveAddress, SaveMachine, SaveThen, WriteFails, Store, Return, storedVars
<1>2. CASE ListMachines(s)
  BY <1>2 DEF ListMachines, Failing, Write, WriteFails, Store, Return, storedVars
<1>3. CASE FailOnJob(s)
  BY <1>3 DEF FailOnJob, Failing, Write, WriteFails, Store, Return, storedVars
<1>4. CASE SaveReady(s)
  BY <1>4 DEF SaveReady, Write, WriteFails, Store, Return, storedVars
<1>5. CASE RemoveFinalizer(s)
  BY <1>5 DEF RemoveFinalizer, Write, WriteFails, Store, Return, storedVars
<1>6. CASE AllocateAddress(s) \/ StageMachine(s) \/ EmitPhaseChanged(s) \/ EmitMachineAllocated(s)
           \/ CreateJob(s) \/ AwaitJob(s)
  BY <1>6 DEF AllocateAddress, StageMachine, EmitPhaseChanged, EmitMachineAllocated, CreateJob,
              AwaitJob, Return, storedVars
<1>7. QED
  BY <1>1, <1>2, <1>3, <1>4, <1>5, <1>6 DEF Continue

\* No step takes a claim back: its life, its address, its device, its first phase.
LEMMA Onward ==
    ASSUME HeldInv, [Next]_vars
    PROVE  \A t \in Claims : Behind(server[t], server'[t])
<1>0. /\ ServerTypeOK /\ WorkInv /\ server \in [Claims -> Server] /\ seen \in [Claims -> Server]
      /\ copy \in [Claims -> Server]
      /\ \A t \in Claims : Behind(server[t], server[t])
  BY TypeParts, BehindItself DEF HeldInv, TypesOK, ObjectsOK, WorkerOK
<1>1. ASSUME NEW s \in Claims, NEW new, server' = [server EXCEPT ![s] = new],
             Behind(server[s], new)
      PROVE  \A t \in Claims : Behind(server[t], server'[t])
  BY <1>0, <1>1
<1>2. ASSUME NEW s \in Claims, Begin(s)
      PROVE  \A t \in Claims : Behind(server[t], server'[t])
  <2>1. seenCur[s] => seen[s] = server[s]
    BY <1>0 DEF WorkInv, VersionInv
  <2>2. Behind(server[s], [server[s] EXCEPT !.finalizer = TRUE])
    BY <1>0 DEF Behind, Server
  <2>3. \A p \in {"Provisioning", "Failed"} : Behind(server[s], [server[s] EXCEPT !.phase = p])
    BY <1>0 DEF Behind, Server
  <2>4. \/ UNCHANGED server
        \/ server' = [server EXCEPT ![s] = [server[s] EXCEPT !.finalizer = TRUE]]
        \/ \E p \in {"Provisioning", "Failed"} :
              server' = [server EXCEPT ![s] = [server[s] EXCEPT !.phase = p]]
    BY <1>0, <1>2, <2>1, BeginWrites
  <2>5. QED
    BY <1>0, <1>1, <2>2, <2>3, <2>4
<1>3. ASSUME NEW s \in Claims, Continue(s)
      PROVE  \A t \in Claims : Behind(server[t], server'[t])
  <2>1. CASE /\ copyCur[s] /\ at[s] \in {"saveAddress", "saveMachine"}
             /\ server' = [server EXCEPT ![s] = copy[s]]
    <3>1. copy[s].phase = "Provisioning"
      BY <1>0, <2>1 DEF WorkInv, CopyInv, Knows, Working, Place
    <3>2. [copy[s] EXCEPT !.phase = "Provisioning"] = copy[s]
      BY <1>0, <3>1 DEF Server
    <3>3. Behind(server[s], [copy[s] EXCEPT !.phase = "Provisioning"])
      BY <1>0, <2>1, CopyVersions
    <3>4. QED
      BY <1>1, <2>1, <3>2, <3>3
  <2>2. CASE /\ copyCur[s] /\ at[s] \in {"list", "job"}
             /\ \E p \in {"Failed", "Ready"} :
                   server' = [server EXCEPT ![s] = [copy[s] EXCEPT !.phase = p]]
    <3>1. PICK p \in {"Failed", "Ready"} :
             server' = [server EXCEPT ![s] = [copy[s] EXCEPT !.phase = p]]
      BY <2>2
    <3>2. Behind(server[s], [copy[s] EXCEPT !.phase = p])
      BY <1>0, <2>2, CopyVersions
    <3>3. QED
      BY <1>1, <3>1, <3>2
  <2>3. CASE copyCur[s] /\ at[s] = "removeFinalizer" /\ server' = [server EXCEPT ![s] = Erased(copy[s])]
    BY <1>0, <1>1, <2>3, CopyVersions
  <2>4. CASE UNCHANGED server
    BY <1>0, <2>4
  <2>5. QED
    BY <1>0, <1>3, <2>1, <2>2, <2>3, <2>4, ContinueWrites
<1>4. ASSUME NEW s \in Claims, Relabel(s) \/ Delete(s)
      PROVE  \A t \in Claims : Behind(server[t], server'[t])
  <2>1. /\ server' = [server EXCEPT ![s] = server'[s]]
        /\ \/ server'[s] = server[s]
           \/ /\ server[s].life = "live"
              /\ \/ server'[s] = [server[s] EXCEPT !.life = "deleting"]
                 \/ server'[s] = Erased(server[s])
    BY <1>0, <1>4, EditWork
  <2>2. Behind(server[s], server'[s])
    <3>1. CASE server'[s] = server[s]
      BY <1>0, <3>1
    <3>2. CASE server[s].life = "live" /\ server'[s] = [server[s] EXCEPT !.life = "deleting"]
      BY <1>0, <3>2 DEF Behind, Server
    <3>3. CASE server'[s] = Erased(server[s])
      BY <1>0, <3>3 DEF Behind, Server, Erased
    <3>4. QED
      BY <2>1, <3>1, <3>2, <3>3
  <2>3. QED
    BY <1>1, <2>1, <2>2
<1>5. CASE UNCHANGED server
  BY <1>0, <1>5
<1>6. QED
  BY <1>2, <1>3, <1>4, <1>5 DEF Next, CacheSync, JobRuns, Recycle, Restart, vars, storedVars

-------------------------------------------------------------------------------
(* Jobs agree with the claims they run for *)

\* A claim and its Job.  That a claim failed without a Job has no device is what keeps a
\* stale worker, who has not seen the failure, from creating one for it.
Agree(rec, progress) ==
    rec.life # "gone" =>
        /\ progress # "none" => rec.ip # NoIP /\ rec.machine # NoMachine
        /\ rec.phase = "Ready" => progress = "complete"
        /\ rec.phase = "Failed" => progress \notin {"running", "complete"}
        /\ rec.phase = "Failed" /\ progress = "none" => rec.machine = NoMachine

JobInv == \A s \in Claims : Agree(server[s], work[s])

LEMMA JobContinue ==
    ASSUME HeldInv, JobInv, NEW s \in Claims, Continue(s)
    PROVE  Agree(server'[s], work'[s])
<1>0. /\ ServerTypeOK /\ WorkInv /\ server[s] \in Server /\ copy[s] \in Server
      /\ server \in [Claims -> Server] /\ work[s] \in Progress
      /\ Knows(at[s], copy[s], copyCur[s], server[s]) /\ Agree(server[s], work[s])
      /\ WellFormed(server[s])
  BY TypeParts DEF HeldInv, TypesOK, ObjectsOK, WorkerOK, WorkOK, WorkInv, CopyInv, JobInv, VersionInv
<1>1. CASE UNCHANGED server /\ ~CreateJob(s)
  <2>1. UNCHANGED work
    BY <1>1 DEF Continue, AllocateAddress, SaveAddress, ListMachines, StageMachine,
         EmitPhaseChanged, EmitMachineAllocated, SaveMachine, FailOnJob, AwaitJob, SaveReady,
         RemoveFinalizer
  <2>2. QED
    BY <1>0, <1>1, <2>1
<1>2. CASE CreateJob(s)
  <2>1. /\ at[s] = "job" /\ work[s] = "none" /\ UNCHANGED server
        /\ work'[s] \in {"none", "running"}
    BY <1>0, <1>2, TypeParts DEF CreateJob, Return, storedVars, TypesOK, WorkOK
  <2>2. server[s].life # "gone" => server[s].ip # NoIP /\ server[s].machine # NoMachine
    BY <1>0, <2>1 DEF Knows, Origin, Working, Place, Behind
  <2>3. QED
    BY <1>0, <2>1, <2>2 DEF Agree
<1>3. CASE /\ copyCur[s] /\ UNCHANGED work /\ at[s] \in {"saveAddress", "saveMachine"}
           /\ server' = [server EXCEPT ![s] = copy[s]]
  <2>1. /\ Origin(at[s], copy[s]) = server[s] /\ copy[s].phase = "Provisioning"
        /\ copy[s].life = "live" /\ server'[s] = copy[s] /\ work'[s] = work[s]
    BY <1>0, <1>3 DEF Knows, Working, Place
  <2>2. server[s].life = "live" /\ (server[s].ip = NoIP \/ server[s].machine = NoMachine)
    BY <1>0, <1>3, <2>1 DEF Origin, Server
  <2>3. QED
    BY <1>0, <2>1, <2>2 DEF Agree
<1>4. CASE /\ copyCur[s] /\ UNCHANGED work /\ at[s] \in {"list", "job"}
           /\ \E p \in {"Failed", "Ready"} :
                 /\ server' = [server EXCEPT ![s] = [copy[s] EXCEPT !.phase = p]]
                 /\ p = "Ready" => at[s] = "job" /\ work[s] = "complete"
                 /\ p = "Failed" => \/ at[s] = "list"
                                    \/ work[s] \in {"retrying", "failed", "completeAfterFailure"}
  <2>1. PICK p \in {"Failed", "Ready"} :
                 /\ server' = [server EXCEPT ![s] = [copy[s] EXCEPT !.phase = p]]
                 /\ p = "Ready" => at[s] = "job" /\ work[s] = "complete"
                 /\ p = "Failed" => \/ at[s] = "list"
                                    \/ work[s] \in {"retrying", "failed", "completeAfterFailure"}
    BY <1>4
  <2>2. server[s] = copy[s] /\ work'[s] = work[s] /\ copy[s].life = "live"
    BY <1>0, <1>4 DEF Knows, Origin, Working, Place
  <2>3. /\ server'[s].phase = p /\ server'[s].life = server[s].life
        /\ server'[s].ip = server[s].ip /\ server'[s].machine = server[s].machine
    BY <1>0, <2>1, <2>2 DEF Server
  <2>4. at[s] = "list" => server[s].machine = NoMachine
    BY <1>0, <2>2 DEF Knows
  <2>5. QED
    BY <1>0, <1>4, <2>1, <2>2, <2>3, <2>4 DEF Agree
<1>5. CASE copyCur[s] /\ at[s] = "removeFinalizer" /\ server' = [server EXCEPT ![s] = Erased(copy[s])]
  <2>1. server'[s].life = "gone"
    BY <1>0, <1>5 DEF Erased, Server
  <2>2. QED
    BY <2>1 DEF Agree
<1>6. QED
  BY <1>0, <1>1, <1>2, <1>3, <1>4, <1>5, ContinueWrites

LEMMA JobNext == HeldInv /\ JobInv /\ [Next]_vars => JobInv'
<1> SUFFICES ASSUME HeldInv, JobInv, [Next]_vars PROVE JobInv'
  OBVIOUS
<1>0. /\ ServerTypeOK /\ WorkInv /\ server \in [Claims -> Server] /\ seen \in [Claims -> Server]
      /\ work \in [Claims -> Progress]
      /\ \A s \in Claims : Agree(server[s], work[s]) /\ WellFormed(server[s])
      /\ \A s \in Claims : seenCur[s] => seen[s] = server[s]
  BY TypeParts DEF HeldInv, TypesOK, ObjectsOK, WorkOK, WorkInv, JobInv, VersionInv
<1>1. ASSUME NEW s \in Claims, Begin(s) PROVE JobInv'
  <2>1. UNCHANGED server => JobInv'
    BY <1>1, BeginWrites, <1>0 DEF JobInv
  <2>2. ASSUME NEW p \in {"Provisioning", "Failed"}, server[s].phase = "Pending",
               server[s].life = "live"
        PROVE  Agree([server[s] EXCEPT !.phase = p], work[s])
    BY <1>0, <2>2 DEF Agree, WellFormed, Server
  <2>3. Agree([server[s] EXCEPT !.finalizer = TRUE], work[s])
    BY <1>0 DEF Agree, Server
  <2>4. ASSUME NEW new, server' = [server EXCEPT ![s] = new], Agree(new, work[s]) PROVE JobInv'
    BY <1>0, <1>1, <2>4, BeginWrites DEF JobInv
  <2>5. QED
    <3>1. CASE server' = [server EXCEPT ![s] = [server[s] EXCEPT !.finalizer = TRUE]]
      BY <2>3, <2>4, <3>1
    <3>2. CASE /\ server[s].life = "live" /\ server[s].phase = "Pending"
               /\ \E p \in {"Provisioning", "Failed"} :
                     server' = [server EXCEPT ![s] = [server[s] EXCEPT !.phase = p]]
      BY <2>2, <2>4, <3>2
    <3>3. QED
      BY <1>0, <1>1, <2>1, <3>1, <3>2, BeginWrites
<1>2. ASSUME NEW s \in Claims, Continue(s) PROVE JobInv'
  <2>1. Agree(server'[s], work'[s])
    BY <1>2, JobContinue
  <2>2. \A t \in Claims : t # s => server'[t] = server[t]
    BY <1>0, <1>2, ContinueWork, MachineKept
  <2>3. \A t \in Claims : t # s => work'[t] = work[t]
    BY <1>0, <1>2 DEF Continue, AllocateAddress, SaveAddress, ListMachines, StageMachine,
         EmitPhaseChanged, EmitMachineAllocated, SaveMachine, CreateJob, FailOnJob, AwaitJob,
         SaveReady, RemoveFinalizer
  <2>4. QED
    BY <1>0, <2>1, <2>2, <2>3 DEF JobInv
<1>3. ASSUME NEW s \in Claims, Relabel(s) \/ Delete(s) PROVE JobInv'
  <2>1. /\ server' = [server EXCEPT ![s] = server'[s]] /\ UNCHANGED work
        /\ \/ server'[s] = server[s]
           \/ server'[s] = [server[s] EXCEPT !.life = "deleting"] /\ server[s].life = "live"
           \/ server'[s] = Erased(server[s])
    BY <1>0, <1>3, EditWork
  <2>2. Agree(server'[s], work[s])
    <3>1. \/ server'[s].life = "gone" \/ server'[s] = server[s]
          \/ /\ server'[s].phase = server[s].phase /\ server'[s].ip = server[s].ip
             /\ server'[s].machine = server[s].machine /\ server[s].life = "live"
      BY <1>0, <2>1 DEF Erased, Server
    <3>2. QED
      BY <1>0, <3>1 DEF Agree
  <2>3. QED
    BY <1>0, <2>1, <2>2 DEF JobInv
<1>4. ASSUME NEW s \in Claims, JobRuns(s) PROVE JobInv'
  <2>1. /\ UNCHANGED server /\ \A t \in Claims : t # s => work'[t] = work[t]
        /\ \/ work[s] = "running" /\ work'[s] \in {"complete", "retrying"}
           \/ work[s] = "retrying" /\ work'[s] \in {"completeAfterFailure", "failed"}
    BY <1>0, <1>4 DEF JobRuns, storedVars
  <2>2. Agree(server[s], work'[s])
    BY <1>0, <2>1 DEF Agree
  <2>3. QED
    BY <1>0, <2>1, <2>2 DEF JobInv
<1>5. CASE UNCHANGED <<server, work>>
  BY <1>5 DEF JobInv
<1>6. QED
  BY <1>1, <1>2, <1>3, <1>4, <1>5 DEF Next, CacheSync, Recycle, Restart, vars, storedVars

\* A Job runs only for a server that has saved its address and its device, and a phase that
\* ends provisioning agrees with the Job, also when a stale copy of the claim is worked on.
THEOREM JobsAreBacked == Spec => []JobBacked
<1>1. Init => JobInv
  BY DEF Init, JobInv, Agree, Fresh
<1>2. JobInv => JobBacked
  BY DEF JobInv, Agree, JobBacked
<1>3. HeldInv /\ JobInv /\ [Next]_vars => JobInv'
  BY JobNext
<1>4. QED
  BY <1>1, <1>2, <1>3, HeldInvariant, PTL DEF Spec

-------------------------------------------------------------------------------
(* The trail of events is true *)

\* What an event says of a claim, and, as claims only go forward, of its later versions.
Says(e, rec) ==
    /\ e = "PhaseChanged" => rec.phase # "Pending"
    /\ e = "MachineAllocated" => rec.machine # NoMachine \/ rec.life = "gone"
    /\ e = "ServerDeleted" => rec.life # "live"

TrailInv == \A s \in Claims : \A e \in trail[s] : Says(e, server[s])

LEMMA SaysLater ==
    ASSUME NEW e, NEW old \in Server, NEW new \in Server, Says(e, old), Behind(old, new)
    PROVE  Says(e, new)
BY DEF Says, Behind, Server

\* An event is emitted by a worker that has seen what it says.
LEMMA Emitted ==
    ASSUME HeldInv, [Next]_vars
    PROVE  \/ UNCHANGED trail
           \/ \E s \in Claims, e \in Event :
                 trail' = [trail EXCEPT ![s] = @ \cup {e}] /\ Says(e, server[s])
<1>0. /\ ServerTypeOK /\ WorkInv
      /\ \A s \in Claims : /\ Knows(at[s], copy[s], copyCur[s], server[s])
                           /\ Behind(seen[s], server[s]) /\ server[s] \in Server
  BY TypeParts DEF HeldInv, TypesOK, ObjectsOK, WorkInv, CopyInv, VersionInv
<1>1. ASSUME NEW s \in Claims, NEW e \in Event, Says(e, server[s]), Emit(s, e)
      PROVE  \/ UNCHANGED trail
             \/ \E t \in Claims, f \in Event :
                   trail' = [trail EXCEPT ![t] = @ \cup {f}] /\ Says(f, server[t])
  BY <1>1 DEF Emit
<1>2. ASSUME NEW s \in Claims, EmitPhaseChanged(s)
      PROVE  Says("PhaseChanged", server[s]) /\ Emit(s, "PhaseChanged")
  BY <1>0, <1>2 DEF EmitPhaseChanged, Knows, Says
<1>3. ASSUME NEW s \in Claims, EmitMachineAllocated(s)
      PROVE  Says("MachineAllocated", server[s]) /\ Emit(s, "MachineAllocated")
  <2>1. at[s] = "emitMachine" /\ Emit(s, "MachineAllocated")
    BY <1>3 DEF EmitMachineAllocated
  <2>2. Behind(copy[s], server[s]) /\ copy[s].machine # NoMachine
    BY <1>0, <2>1 DEF Knows, Origin, Working, Place
  <2>3. QED
    BY <2>1, <2>2 DEF Says, Behind
<1>4. ASSUME NEW s \in Claims, ReleaseAll(s)
      PROVE  \/ UNCHANGED trail
             \/ \E t \in Claims, f \in Event :
                   trail' = [trail EXCEPT ![t] = @ \cup {f}] /\ Says(f, server[t])
  <2>1. seen[s].life = "deleting"
        /\ (UNCHANGED trail \/ trail' = [trail EXCEPT ![s] = @ \cup {"ServerDeleted"}])
    BY <1>4 DEF ReleaseAll
  <2>2. Says("ServerDeleted", server[s])
    BY <1>0, <2>1 DEF Says, Behind
  <2>3. QED
    BY <2>1, <2>2 DEF Event
<1>5. ASSUME NEW s \in Claims, Begin(s), ~ReleaseAll(s) PROVE UNCHANGED trail
  BY <1>5 DEF Begin, AddFinalizer, NothingToDo, Validate, BeginProvision
<1>6. ASSUME NEW s \in Claims, Continue(s), ~EmitPhaseChanged(s), ~EmitMachineAllocated(s)
      PROVE  UNCHANGED trail
  BY <1>6 DEF Continue, AllocateAddress, SaveAddress, ListMachines, StageMachine,
         SaveMachine, CreateJob, FailOnJob, AwaitJob, SaveReady, RemoveFinalizer
<1>7. ASSUME NEW s \in Claims, Relabel(s) \/ Delete(s) PROVE UNCHANGED trail
  BY <1>0, <1>7, EditWork
<1>8. "PhaseChanged" \in Event /\ "MachineAllocated" \in Event
  BY DEF Event
<1>9. QED
  BY <1>1, <1>2, <1>3, <1>4, <1>5, <1>6, <1>7, <1>8
     DEF Next, CacheSync, JobRuns, Recycle, Restart, vars

LEMMA TrailNext == HeldInv /\ TrailInv /\ [Next]_vars => TrailInv'
<1> SUFFICES ASSUME HeldInv, TrailInv, [Next]_vars PROVE TrailInv'
  OBVIOUS
<1>0. /\ trail \in [Claims -> SUBSET Event]
      /\ \A s \in Claims : server[s] \in Server /\ server'[s] \in Server
      /\ \A s \in Claims : Behind(server[s], server'[s])
  <2>1. ServerTypeOK /\ ServerTypeOK'
    BY NextType DEF HeldInv
  <2>2. QED
    BY <2>1, TypeParts, Onward DEF TypesOK, ObjectsOK, TrailOK
<1>1. \A s \in Claims : \A e \in trail'[s] : Says(e, server[s])
  BY <1>0, Emitted DEF TrailInv
<1>2. QED
  BY <1>0, <1>1, SaysLater DEF TrailInv

\* The events say nothing of a server that did not happen, and never will again.
THEOREM EventsAreTrue == Spec => []TrailTruthful
<1>1. Init => TrailInv
  BY DEF Init, TrailInv
<1>2. TrailInv => TrailTruthful
  BY DEF TrailInv, TrailTruthful, Says
<1>3. HeldInv /\ TrailInv /\ [Next]_vars => TrailInv'
  BY TrailNext
<1>4. QED
  BY <1>1, <1>2, <1>3, HeldInvariant, PTL DEF Spec

-------------------------------------------------------------------------------
(* The finalizer gives back what the claim records *)

Unreleased(rec) == {i \in IPs : i = rec.ip /\ ipam[i].state # "released"}
Undrained(rec) == {m \in Machines : m = rec.machine /\ device[m].status # "active"}

\* While the finalizer is being removed, what is still held has cost a fault each.
FinalInv ==
    \A s \in Claims : at[s] = "removeFinalizer" =>
        Cardinality(Unreleased(copy[s])) + Cardinality(Undrained(copy[s])) <= faults

\* Two sets of one element at most, whose elements are paid for by different requests.
LEMMA PaidFor ==
    ASSUME NEW A, NEW B, NEW a, NEW b, A \subseteq {a}, B \subseteq {b},
           NEW kept, NEW lost \in SUBSET {"event"}, kept \in SUBSET {"ip", "machine"},
           A # {} => "ip" \in kept, B # {} => "machine" \in kept
    PROVE  /\ Cardinality(A) \in Nat /\ Cardinality(B) \in Nat /\ Cardinality(kept \cup lost) \in Nat
           /\ Cardinality(A) + Cardinality(B) <= Cardinality(kept \cup lost)
<1>1. IsFiniteSet(kept \cup lost) /\ Cardinality(kept \cup lost) \in Nat
  <2>1. kept \cup lost \in SUBSET {"ip", "machine", "event"}
    OBVIOUS
  <2>2. QED
    BY <2>1, ReleaseRequests, FS_Subset, FS_CardinalityType
<1>2. /\ A = {} => Cardinality(A) = 0
      /\ B = {} => Cardinality(B) = 0
      /\ A # {} => Cardinality(A) = 1
      /\ B # {} => Cardinality(B) = 1
  <2>1. (A = {} \/ A = {a}) /\ (B = {} \/ B = {b})
    OBVIOUS
  <2>2. QED
    BY <2>1, FS_EmptySet, FS_Singleton
<1>3. \A x \in kept \cup lost : Cardinality(kept \cup lost) >= 1
  <2> SUFFICES ASSUME NEW x \in kept \cup lost PROVE Cardinality(kept \cup lost) >= 1
    OBVIOUS
  <2>1. {x} \in SUBSET (kept \cup lost)
    OBVIOUS
  <2>2. Cardinality({x}) <= Cardinality(kept \cup lost) /\ Cardinality({x}) = 1
    BY <1>1, <2>1, FS_Subset, FS_Singleton
  <2>3. QED
    BY <1>1, <2>2
<1>4. ASSUME "ip" \in kept, "machine" \in kept PROVE Cardinality(kept \cup lost) >= 2
  <2>1. IsFiniteSet({"ip"}) /\ Cardinality({"ip"}) = 1
    BY FS_Singleton
  <2>2. Cardinality({"ip"} \cup {"machine"}) = 2
    BY <2>1, FS_AddElement
  <2>3. ({"ip"} \cup {"machine"}) \in SUBSET (kept \cup lost)
    BY <1>4
  <2>4. Cardinality({"ip"} \cup {"machine"}) <= Cardinality(kept \cup lost)
    BY <1>1, <2>3, FS_Subset
  <2>5. QED
    BY <1>1, <2>2, <2>4
<1>5. CASE A = {} /\ B = {}
  BY <1>1, <1>2, <1>5
<1>6. CASE A # {} /\ B # {}
  BY <1>1, <1>2, <1>4, <1>6
<1>7. CASE (A = {}) # (B = {})
  <2>1. Cardinality(kept \cup lost) >= 1
    BY <1>3, <1>7
  <2>2. \/ Cardinality(A) = 0 /\ Cardinality(B) = 1
        \/ Cardinality(A) = 1 /\ Cardinality(B) = 0
    BY <1>2, <1>7
  <2>3. QED
    BY <1>1, <2>1, <2>2
<1>8. QED
  BY <1>5, <1>6, <1>7

\* What the finalizer leaves held, its failed requests pay for.
LEMMA ReleasePaid ==
    ASSUME HeldInv, NEW s \in Claims, ReleaseAll(s)
    PROVE  /\ at' = [at EXCEPT ![s] = "removeFinalizer"]
           /\ copy'[s].ip = seen[s].ip /\ copy'[s].machine = seen[s].machine
           /\ IsFiniteSet(Unreleased(copy[s])') /\ IsFiniteSet(Undrained(copy[s])')
           /\ Cardinality(Unreleased(copy[s])') \in Nat /\ Cardinality(Undrained(copy[s])') \in Nat
           /\ \E n \in Nat : /\ faults' = faults + n
                            /\ Cardinality(Unreleased(copy[s])') + Cardinality(Undrained(copy[s])') <= n
<1>0. /\ AddressInv /\ at \in [Claims -> Place] /\ copy \in [Claims -> Server] /\ seen[s] \in Server
      /\ ipam \in [IPs -> Address] /\ device \in [Machines -> Device]
  BY TypeParts DEF HeldInv, TypesOK, ObjectsOK, WorkerOK, NetboxTypeOK
<1>1. PICK kept \in SUBSET {"ip", "machine"}, lost \in SUBSET {"event"} :
          faults' = faults + Cardinality(kept \cup lost) /\ Release(s, kept)
  BY DEF ReleaseAll
<1>2. /\ at' = [at EXCEPT ![s] = "removeFinalizer"]
      /\ copy'[s].ip = seen[s].ip /\ copy'[s].machine = seen[s].machine
  BY <1>0 DEF ReleaseAll, Start, Server
<1> DEFINE A == {i \in IPs : i = copy'[s].ip /\ ipam'[i].state # "released"}
           B == {m \in Machines : m = copy'[s].machine /\ device'[m].status # "active"}
<1>3. ASSUME "ip" \notin kept PROVE A = {}
  <2>1. ReleaseIP({seen[s].ip})
    BY <1>1, <1>3 DEF Release
  <2>2. ASSUME seen[s].ip \in IPs PROVE ipam'[seen[s].ip].state = "released"
    <3>1. seen[s].ip # NoIP /\ OwnAddress(s, seen[s].ip)
      BY <1>0, <2>2, ServerAssumption DEF AddressInv
    <3>2. ipam[seen[s].ip].state \in {"released", "live"}
      BY <3>1 DEF OwnAddress
    <3>3. QED
      BY <2>1, <2>2, <3>2 DEF ReleaseIP
  <2>3. QED
    BY <1>2, <2>2
<1>4. ASSUME "machine" \notin kept PROVE B = {}
  <2>1. SetDeviceStatus({seen[s].machine}, "active", NoTenant)
    BY <1>1, <1>4 DEF Release
  <2>2. seen[s].machine \in Machines => device'[seen[s].machine].status = "active"
    BY <2>1 DEF SetDeviceStatus, Patched
  <2>3. QED
    BY <1>2, <2>2
<1>5. A \in SUBSET {copy'[s].ip} /\ B \in SUBSET {copy'[s].machine}
  OBVIOUS
<1>6. IsFiniteSet(A) /\ IsFiniteSet(B)
  <2> HIDE DEF A, B
  <2>1. IsFiniteSet({copy'[s].ip}) /\ IsFiniteSet({copy'[s].machine})
    BY FS_Singleton
  <2>2. QED
    BY <1>5, <2>1, FS_Subset
<1>7. /\ Cardinality(A) + Cardinality(B) <= Cardinality(kept \cup lost)
      /\ Cardinality(A) \in Nat /\ Cardinality(B) \in Nat /\ Cardinality(kept \cup lost) \in Nat
  <2> HIDE DEF A, B
  <2>1. QED
    BY <1>3, <1>4, <1>5, PaidFor
<1>8. Unreleased(copy[s])' = A /\ Undrained(copy[s])' = B
  BY DEF Unreleased, Undrained
<1> HIDE DEF A, B
<1>9. QED
  BY <1>1, <1>2, <1>6, <1>7, <1>8

LEMMA FinalBegin ==
    ASSUME HeldInv, NEW s \in Claims, Begin(s)
    PROVE  FinalInv'
<1>0. at \in [Claims -> Place] /\ faults \in Nat
  BY TypeParts, ServerAssumption DEF HeldInv, TypesOK, WorkerOK, BoundsOK
<1>1. \A t \in Claims : at[t] = "idle"
  BY DEF Begin, AddFinalizer, NothingToDo, Takes, Validate, BeginProvision, ReleaseAll, Dequeue
<1>2. CASE ~ReleaseAll(s)
  <2>1. \A t \in Claims : at'[t] # "removeFinalizer"
    BY <1>0, <1>1, <1>2 DEF Begin, AddFinalizer, NothingToDo, Validate, BeginProvision,
                            workerVars, Start, FirstCall
  <2>2. QED
    BY <2>1 DEF FinalInv
<1>3. CASE ReleaseAll(s)
  <2>1. /\ at' = [at EXCEPT ![s] = "removeFinalizer"]
        /\ Cardinality(Unreleased(copy[s])') + Cardinality(Undrained(copy[s])') <= faults'
    BY <1>0, <1>3, ReleasePaid
  <2>2. \A t \in Claims : at'[t] = "removeFinalizer" => t = s
    BY <1>0, <1>1, <2>1
  <2>3. QED
    BY <2>1, <2>2 DEF FinalInv
<1>4. QED
  BY <1>2, <1>3

LEMMA FinalNext == HeldInv /\ FinalInv /\ [Next]_vars => FinalInv'
<1> SUFFICES ASSUME HeldInv, FinalInv, [Next]_vars PROVE FinalInv'
  OBVIOUS
<1>0. WorkerOK /\ CopyInv /\ device \in [Machines -> Device] /\ ServerTypeOK /\ WorkInv
  BY TypeParts DEF HeldInv, TypesOK, WorkInv, NetboxTypeOK
<1>1. ASSUME NEW s \in Claims, Continue(s) PROVE FinalInv'
  <2>1. \A t \in Claims : at'[t] # "removeFinalizer"
    BY <1>0, <1>1, ContinuePlaces
  <2>2. QED
    BY <2>1 DEF FinalInv
<1>2. CASE UNCHANGED <<ipam, device, at, copy, faults>>
  BY <1>2 DEF FinalInv, Unreleased, Undrained
<1>3. ASSUME NEW m \in Machines, Recycle(m) PROVE FinalInv'
  <2>1. UNCHANGED <<ipam, at, copy, faults>> /\ \A n \in Machines : device'[n].status = device[n].status
    BY <1>0, <1>3 DEF Recycle, ClearTenant, workerVars, Device
  <2>2. \A t \in Claims : Undrained(copy[t])' = Undrained(copy[t])
                          /\ Unreleased(copy[t])' = Unreleased(copy[t])
    BY <2>1 DEF Undrained, Unreleased
  <2>3. QED
    BY <2>1, <2>2 DEF FinalInv
<1>4. CASE Restart
  BY <1>4 DEF Restart, FinalInv
<1>5. ASSUME NEW s \in Claims, Relabel(s) \/ Delete(s) PROVE FinalInv'
  BY <1>0, <1>2, <1>5, EditWork DEF netboxVars
<1>6. QED
  BY <1>1, <1>2, <1>3, <1>4, <1>5, FinalBegin
     DEF Next, CacheSync, JobRuns, vars, netboxVars, workerVars

\* A server that goes leaves behind at most as many addresses and devices as there were
\* faults in the run, of which failed requests of its finalizer are some.
THEOREM FinalizerGivesBack == Spec => FinalizerReleases
<1> DEFINE Released ==
        \A s \in Claims : (server[s].life = "deleting" /\ server'[s].life = "gone") =>
          Cardinality({i \in IPs : i = server[s].ip /\ ipam[i].state # "released"})
          + Cardinality({m \in Machines : m = server[s].machine
                                          /\ device[m].status # "active"}) <= faults
<1>1. Init => FinalInv
  BY DEF Init, FinalInv
<1>2. HeldInv /\ FinalInv /\ [Next]_vars => FinalInv'
  BY FinalNext
<1>3. HeldInv /\ FinalInv /\ [Next]_vars => [Released]_vars
  <2> SUFFICES ASSUME HeldInv, FinalInv, [Next]_vars, NEW s \in Claims,
                      server[s].life = "deleting", server'[s].life = "gone"
               PROVE  Cardinality(Unreleased(server[s])) + Cardinality(Undrained(server[s])) <= faults
    BY DEF Unreleased, Undrained
  <2>0. /\ ServerTypeOK /\ WorkInv /\ server \in [Claims -> Server] /\ copy[s] \in Server
        /\ Knows(at[s], copy[s], copyCur[s], server[s])
    BY TypeParts DEF HeldInv, TypesOK, ObjectsOK, WorkerOK, WorkInv, CopyInv
  <2>1. ASSUME NEW t \in Claims, Begin(t) PROVE FALSE
    BY <2>0, <2>1, BeginWork
  <2>2. ASSUME NEW t \in Claims, Relabel(t) \/ Delete(t) PROVE FALSE
    <3>1. server'[s] = server[s] \/ server[s].life = "live"
      BY <2>0, <2>2, EditWork
    <3>2. QED
      BY <3>1
  <2>3. ASSUME NEW t \in Claims, Continue(t) PROVE t = s /\ at[s] = "removeFinalizer" /\ copyCur[s]
    <3>1. Changes(t)
      BY <2>0, <2>3, ContinueWork
    <3>2. t = s
      BY <2>0, <3>1, MachineKept
    <3>3. copyCur[s] /\ (at[s] # "removeFinalizer" => server'[s].life = copy[s].life)
      BY <3>1, <3>2 DEF Changes
    <3>4. at[s] # "removeFinalizer" => copy[s].life = "live"
      BY <2>0, <3>3 DEF Knows
    <3>5. QED
      BY <3>2, <3>3, <3>4
  <2>4. at[s] = "removeFinalizer" /\ copyCur[s]
    BY <2>1, <2>2, <2>3 DEF Next, CacheSync, JobRuns, Recycle, Restart, vars, storedVars
  <2>5. server[s] = [copy[s] EXCEPT !.finalizer = TRUE]
    BY <2>0, <2>4 DEF Knows, Origin
  <2>6. server[s].ip = copy[s].ip /\ server[s].machine = copy[s].machine
    BY <2>0, <2>5 DEF Server
  <2>7. Cardinality(Unreleased(copy[s])) + Cardinality(Undrained(copy[s])) <= faults
    BY <2>4 DEF FinalInv
  <2>8. QED
    BY <2>6, <2>7 DEF Unreleased, Undrained
<1>4. QED
  BY <1>1, <1>2, <1>3, HeldInvariant, PTL DEF Spec, FinalizerReleases

-------------------------------------------------------------------------------
(* What a fault or an edit can lose *)

\* The claims whose caches are never late see every version at once.
PromptInv == \A s \in Claims \ Late : seenCur[s]

\* A claim holds what it records, unless it is about to go, and what its worker is to save.
GivenUp(s) == at[s] = "removeFinalizer" /\ copyCur[s]
HoldsIP(s, i) == (server[s].ip = i /\ ~GivenUp(s)) \/ (copy[s].ip = i /\ at[s] = "saveAddress")
HoldsMachine(s, m) ==
    (server[s].machine = m /\ ~GivenUp(s)) \/ (copy[s].machine = m /\ at[s] = "saveMachine")

AstrayIPs ==
    {i \in Live : ipam[i].dns[1] \notin Late /\ \A s \in Claims \ Late : ~HoldsIP(s, i)}
AstrayMachines ==
    {m \in Machines : /\ device[m].status = "staged"
                      /\ device[m].tenant \notin {TenantOf[s] : s \in Late}
                      /\ \A s \in Claims \ Late : ~HoldsMachine(s, m)}

\* A worker whose next save will be refused: a user has edited the claim meanwhile.
Spoiled == {s \in Claims \ Late : at[s] \in Working \ {"removeFinalizer"} /\ ~copyCur[s]}

\* Each thing that went astray, or may with the next save, cost a fault or an edit.
LossInv ==
    Cardinality(AstrayIPs) + Cardinality(AstrayMachines) + Cardinality(Spoiled) <= faults + edits

LEMMA PromptNext == PromptInv /\ [Next]_vars /\ ServerTypeOK => PromptInv'
<1> SUFFICES ASSUME PromptInv, [Next]_vars, ServerTypeOK PROVE PromptInv'
  OBVIOUS
<1>0. seenCur \in [Claims -> BOOLEAN]
  BY TypeParts DEF TypesOK, ObjectsOK
<1>1. ASSUME NEW s \in Claims, UNCHANGED storedVars \/ (\E new, again : Store(s, new, again))
      PROVE  PromptInv'
  BY <1>0, <1>1 DEF storedVars, Store, PromptInv
<1>2. ASSUME NEW s \in Claims, Begin(s) PROVE PromptInv'
  <2>1. UNCHANGED storedVars \/ (\E new, again : Store(s, new, again))
    BY <1>2 DEF Begin, AddFinalizer, NothingToDo, Validate, BeginProvision, ReleaseAll, Write,
                WriteFails, Return, Start
  <2>2. QED
    BY <1>1, <2>1
<1>3. ASSUME NEW s \in Claims, Continue(s) PROVE PromptInv'
  <2>1. UNCHANGED storedVars \/ (\E new, again : Store(s, new, again))
    BY <1>3 DEF Continue, AllocateAddress, SaveAddress, ListMachines, StageMachine,
         EmitPhaseChanged, EmitMachineAllocated, SaveMachine, CreateJob, FailOnJob, AwaitJob,
         SaveReady, RemoveFinalizer, SaveThen, Failing, Write, WriteFails, Return
  <2>2. QED
    BY <1>1, <2>1
<1>4. ASSUME NEW s \in Claims, Relabel(s) \/ Delete(s) PROVE PromptInv'
  BY <1>1, <1>4 DEF Relabel, Delete, Edit
<1>5. ASSUME NEW s \in Claims, CacheSync(s) PROVE PromptInv'
  BY <1>0, <1>5 DEF CacheSync, PromptInv
<1>6. CASE Restart \/ UNCHANGED seenCur
  BY <1>6 DEF Restart, PromptInv
<1>7. QED
  BY <1>2, <1>3, <1>4, <1>5, <1>6 DEF Next, JobRuns, Recycle, vars, storedVars

\* A set that grows by the elements of another.
LEMMA Grown ==
    ASSUME NEW A, IsFiniteSet(A), NEW X, IsFiniteSet(X), NEW B, B \subseteq A \cup X
    PROVE  /\ IsFiniteSet(B)
           /\ Cardinality(A) \in Nat /\ Cardinality(X) \in Nat /\ Cardinality(B) \in Nat
           /\ Cardinality(B) <= Cardinality(A) + Cardinality(X)
<1>1. /\ IsFiniteSet(A \cup X) /\ Cardinality(A \cup X) = Cardinality(A) + Cardinality(X) - Cardinality(A \cap X)
  BY FS_Union
<1>2. A \cap X \in SUBSET A /\ B \in SUBSET (A \cup X)
  OBVIOUS
<1>3. IsFiniteSet(A \cap X) /\ IsFiniteSet(B)
  BY <1>1, <1>2, FS_Subset
<1>4. /\ Cardinality(A \cap X) \in Nat /\ Cardinality(A) \in Nat /\ Cardinality(X) \in Nat
      /\ Cardinality(B) \in Nat /\ Cardinality(A \cup X) \in Nat
  BY <1>1, <1>3, FS_CardinalityType
<1>5. Cardinality(B) <= Cardinality(A \cup X)
  BY <1>1, <1>2, FS_Subset
<1>6. QED
  BY <1>1, <1>3, <1>4, <1>5

LEMMA AstrayFinite ==
    IsFiniteSet(AstrayIPs) /\ IsFiniteSet(AstrayMachines) /\ IsFiniteSet(Spoiled)
<1>1. AstrayIPs \in SUBSET IPs /\ AstrayMachines \in SUBSET Machines /\ Spoiled \in SUBSET Claims
  BY DEF AstrayIPs, AstrayMachines, Spoiled, Live
<1>2. QED
  BY <1>1, ServerAssumption, FS_Subset

\* What X, Y and Z add to the three sets, n faults and edits pay for.
LEMMA LossPaid ==
    ASSUME BoundsOK, LossInv, NEW n \in Nat, faults' + edits' = faults + edits + n,
           NEW X, NEW Y, NEW Z, IsFiniteSet(X), IsFiniteSet(Y), IsFiniteSet(Z),
           Cardinality(X) + Cardinality(Y) + Cardinality(Z) <= n,
           AstrayIPs' \subseteq AstrayIPs \cup X, AstrayMachines' \subseteq AstrayMachines \cup Y,
           Spoiled' \subseteq Spoiled \cup Z
    PROVE  LossInv'
<1> DEFINE A == AstrayIPs  B == AstrayMachines  S == Spoiled
<1>1. /\ Cardinality(A') <= Cardinality(A) + Cardinality(X)
      /\ Cardinality(A') \in Nat /\ Cardinality(A) \in Nat /\ Cardinality(X) \in Nat
  BY AstrayFinite, Grown
<1>2. /\ Cardinality(B') <= Cardinality(B) + Cardinality(Y)
      /\ Cardinality(B') \in Nat /\ Cardinality(B) \in Nat /\ Cardinality(Y) \in Nat
  BY AstrayFinite, Grown
<1>3. /\ Cardinality(S') <= Cardinality(S) + Cardinality(Z)
      /\ Cardinality(S') \in Nat /\ Cardinality(S) \in Nat /\ Cardinality(Z) \in Nat
  BY AstrayFinite, Grown
<1>4. faults \in Nat /\ edits \in Nat
  BY ServerAssumption DEF BoundsOK
<1>5. Cardinality(A) + Cardinality(B) + Cardinality(S) <= faults + edits
  BY DEF LossInv
<1> HIDE DEF A, B, S
<1>6. Cardinality(A') + Cardinality(B') + Cardinality(S') <= faults' + edits'
  BY <1>1, <1>2, <1>3, <1>4, <1>5
<1>7. QED
  BY <1>6 DEF A, B, S, LossInv

\* The refused save of a spoiled copy loses no more than was foreseen.
LEMMA LossForeseen ==
    ASSUME BoundsOK, LossInv, UNCHANGED <<faults, edits>>, Spoiled # {}, Spoiled' = {},
           NEW X, NEW Y, IsFiniteSet(X), IsFiniteSet(Y), Cardinality(X) + Cardinality(Y) <= 1,
           AstrayIPs' \subseteq AstrayIPs \cup X, AstrayMachines' \subseteq AstrayMachines \cup Y
    PROVE  LossInv'
<1> DEFINE A == AstrayIPs  B == AstrayMachines  S == Spoiled
<1>1. /\ Cardinality(A') <= Cardinality(A) + Cardinality(X)
      /\ Cardinality(A') \in Nat /\ Cardinality(A) \in Nat /\ Cardinality(X) \in Nat
  BY AstrayFinite, Grown
<1>2. /\ Cardinality(B') <= Cardinality(B) + Cardinality(Y)
      /\ Cardinality(B') \in Nat /\ Cardinality(B) \in Nat /\ Cardinality(Y) \in Nat
  BY AstrayFinite, Grown
<1>3. Cardinality(S) \in Nat /\ Cardinality(S) # 0 /\ Cardinality(S') = 0
  BY AstrayFinite, FS_EmptySet, FS_CardinalityType
<1>4. faults \in Nat /\ edits \in Nat
  BY ServerAssumption DEF BoundsOK
<1>5. Cardinality(A) + Cardinality(B) + Cardinality(S) <= faults + edits
  BY DEF LossInv
<1> HIDE DEF A, B, S
<1>6. Cardinality(A') + Cardinality(B') + Cardinality(S') <= faults' + edits'
  BY <1>1, <1>2, <1>3, <1>4, <1>5
<1>7. QED
  BY <1>6 DEF A, B, S, LossInv

LEMMA NoneAtAll == IsFiniteSet({}) /\ Cardinality({}) = 0
BY FS_EmptySet

LEMMA LossBegin ==
    ASSUME HeldInv, PromptInv, LossInv, NEW s \in Claims, Begin(s)
    PROVE  LossInv'
<1>0. /\ ServerTypeOK /\ WorkerOK /\ CopyInv /\ BoundsOK /\ at \in [Claims -> Place]
      /\ copyCur \in [Claims -> BOOLEAN] /\ seen \in [Claims -> Server]
      /\ \A t \in Claims : seenCur[t] => seen[t] = server[t]
      /\ \A t \in Claims : server'[t].ip = server[t].ip /\ server'[t].machine = server[t].machine
      /\ faults \in Nat /\ edits \in Nat
  <2>1. \A t \in Claims : server'[t].ip = server[t].ip /\ server'[t].machine = server[t].machine
    BY BeginWork, TypeParts DEF HeldInv, TypesOK, ObjectsOK
  <2>2. QED
    BY <2>1, TypeParts, ServerAssumption
       DEF HeldInv, TypesOK, WorkerOK, ObjectsOK, BoundsOK, WorkInv, VersionInv
<1>1. \A t \in Claims : at[t] = "idle"
  BY DEF Begin, AddFinalizer, NothingToDo, Takes, Validate, BeginProvision, ReleaseAll, Dequeue
<1>2. /\ \A t \in Claims, i \in IPs : HoldsIP(t, i) <=> server[t].ip = i
      /\ \A t \in Claims, m \in Machines : HoldsMachine(t, m) <=> server[t].machine = m
  BY <1>1 DEF HoldsIP, HoldsMachine, GivenUp
<1>3. \A t \in Claims : at'[t] \notin {"saveAddress", "saveMachine"}
  BY <1>0, BeginPlaces
<1>4. Spoiled' = {}
  <2>1. /\ \A t \in Claims : t # s => at'[t] = "idle"
        /\ \/ at'[s] \in {"idle", "emitPhase", "removeFinalizer"} \/ copyCur'[s] = seenCur[s]
    BY <1>0, <1>1 DEF Begin, AddFinalizer, NothingToDo, Validate, BeginProvision, ReleaseAll,
                      workerVars, Start
  <2>2. QED
    BY <2>1 DEF Spoiled, Working, PromptInv
<1>5. UNCHANGED edits
  BY DEF Begin, AddFinalizer, NothingToDo, Validate, BeginProvision, ReleaseAll
<1>6. CASE ~ReleaseAll(s)
  <2>1. UNCHANGED <<ipam, device>> /\ \A t \in Claims : at'[t] # "removeFinalizer"
    BY <1>0, <1>1, <1>6 DEF Begin, AddFinalizer, NothingToDo, Validate, BeginProvision,
                            workerVars, netboxVars, Start, FirstCall
  <2>2. PICK n \in Nat : faults' + edits' = faults + edits + n
    <3>1. faults' = faults \/ faults' = faults + 1
      BY <1>0, <1>6 DEF Begin, AddFinalizer, NothingToDo, Validate, BeginProvision, Write,
                        WriteFails, Fault
    <3>2. faults' + edits' = faults + edits + 0 \/ faults' + edits' = faults + edits + 1
      BY <1>0, <1>5, <3>1
    <3>3. QED
      BY <3>2
  <2>3. /\ \A t \in Claims, i \in IPs : HoldsIP(t, i)' <=> HoldsIP(t, i)
        /\ \A t \in Claims, m \in Machines : HoldsMachine(t, m)' <=> HoldsMachine(t, m)
    BY <1>0, <1>2, <1>3, <2>1 DEF HoldsIP, HoldsMachine, GivenUp
  <2>4. AstrayIPs' \subseteq AstrayIPs \cup {} /\ AstrayMachines' \subseteq AstrayMachines \cup {}
    BY <2>1, <2>3 DEF AstrayIPs, AstrayMachines, Live
  <2>5. Cardinality({}) + Cardinality({}) + Cardinality({}) <= n /\ Spoiled' \subseteq Spoiled \cup {}
    BY <1>4, NoneAtAll
  <2>6. QED
    BY <1>0, <2>2, <2>4, <2>5, NoneAtAll, LossPaid
<1>7. CASE ReleaseAll(s)
  <2> DEFINE A == Unreleased(copy[s])'
             B == Undrained(copy[s])'
  <2>1. /\ at' = [at EXCEPT ![s] = "removeFinalizer"]
        /\ copy'[s].ip = seen[s].ip /\ copy'[s].machine = seen[s].machine
        /\ IsFiniteSet(A) /\ IsFiniteSet(B) /\ Cardinality(A) \in Nat /\ Cardinality(B) \in Nat
    BY <1>7, ReleasePaid
  <2>2. PICK n \in Nat : faults' = faults + n /\ Cardinality(A) + Cardinality(B) <= n
    BY <1>7, ReleasePaid
  <2>3. /\ \A i \in IPs : ipam'[i] = ipam[i] \/ ipam'[i].state = "released"
        /\ \A m \in Machines : device'[m] = device[m] \/ device'[m].status = "active"
    BY <1>7 DEF ReleaseAll, Release, ReleaseIP, SetDeviceStatus, Patched
  <2>4. /\ \A t \in Claims, i \in IPs : t # s /\ HoldsIP(t, i) => HoldsIP(t, i)'
        /\ \A t \in Claims, m \in Machines : t # s /\ HoldsMachine(t, m) => HoldsMachine(t, m)'
    BY <1>0, <1>1, <1>2, <2>1 DEF HoldsIP, HoldsMachine, GivenUp
  <2>5. s \notin Late => seen[s] = server[s]
    BY <1>0 DEF PromptInv
  <2>6. ASSUME NEW i \in AstrayIPs' PROVE i \in AstrayIPs \cup A
    <3>1. /\ i \in IPs /\ ipam'[i].state = "live" /\ ipam'[i] = ipam[i]
          /\ ipam[i].dns[1] \notin Late /\ \A t \in Claims \ Late : ~HoldsIP(t, i)'
      BY <2>3, <2>6 DEF AstrayIPs, Live
    <3>2. ASSUME s \notin Late, HoldsIP(s, i) PROVE i \in A
      BY <1>2, <2>1, <2>5, <3>1, <3>2 DEF Unreleased
    <3>3. QED
      BY <2>4, <3>1, <3>2 DEF AstrayIPs, Live
  <2>7. ASSUME NEW m \in AstrayMachines' PROVE m \in AstrayMachines \cup B
    <3>1. /\ m \in Machines /\ device'[m].status = "staged" /\ device'[m] = device[m]
          /\ device[m].tenant \notin {TenantOf[t] : t \in Late}
          /\ \A t \in Claims \ Late : ~HoldsMachine(t, m)'
      BY <2>3, <2>7 DEF AstrayMachines
    <3>2. ASSUME s \notin Late, HoldsMachine(s, m) PROVE m \in B
      BY <1>2, <2>1, <2>5, <3>1, <3>2 DEF Undrained
    <3>3. QED
      BY <2>4, <3>1, <3>2 DEF AstrayMachines
  <2> HIDE DEF A, B
  <2>8. AstrayIPs' \subseteq AstrayIPs \cup A /\ AstrayMachines' \subseteq AstrayMachines \cup B
    BY <2>6, <2>7
  <2>9. faults' + edits' = faults + edits + n /\ Cardinality(A) + Cardinality(B) + Cardinality({}) <= n
    BY <1>0, <1>5, <2>1, <2>2, NoneAtAll
  <2>10. QED
    BY <1>0, <1>4, <2>1, <2>8, <2>9, NoneAtAll, LossPaid
<1>8. QED
  BY <1>6, <1>7

LEMMA LossEdit ==
    ASSUME HeldInv, LossInv, NEW s \in Claims, Relabel(s) \/ Delete(s)
    PROVE  LossInv'
<1>0. /\ ServerTypeOK /\ WorkInv /\ BoundsOK /\ server[s] \in Server /\ server \in [Claims -> Server]
      /\ copyCur \in [Claims -> BOOLEAN] /\ WellFormed(server[s]) /\ faults \in Nat /\ edits \in Nat
  BY TypeParts, ServerAssumption
     DEF HeldInv, TypesOK, WorkerOK, ObjectsOK, BoundsOK, WorkInv, VersionInv
<1>1. PICK new : /\ Edit(s, new)
                 /\ \/ new = server[s] \/ new = [server[s] EXCEPT !.life = "deleting"]
                    \/ new = Erased(server[s]) /\ ~server[s].finalizer
  BY DEF Relabel, Delete
<1>2. new.ip = server[s].ip /\ new.machine = server[s].machine
  BY <1>0, <1>1 DEF WellFormed, Erased, Server
<1>3. /\ UNCHANGED <<ipam, device, at, copy, faults>> /\ server' = [server EXCEPT ![s] = new]
      /\ copyCur' = [copyCur EXCEPT ![s] = FALSE] /\ edits' = edits + 1
  BY <1>1 DEF Edit, Store, netboxVars
<1>4. \A t \in Claims : /\ server'[t].ip = server[t].ip /\ server'[t].machine = server[t].machine
                        /\ copyCur'[t] => copyCur[t]
  BY <1>0, <1>2, <1>3
<1>5. /\ \A t \in Claims, i \in IPs : HoldsIP(t, i) => HoldsIP(t, i)'
      /\ \A t \in Claims, m \in Machines : HoldsMachine(t, m) => HoldsMachine(t, m)'
  BY <1>3, <1>4 DEF HoldsIP, HoldsMachine, GivenUp
<1>6. AstrayIPs' \subseteq AstrayIPs \cup {} /\ AstrayMachines' \subseteq AstrayMachines \cup {}
  BY <1>3, <1>5 DEF AstrayIPs, AstrayMachines, Live
<1>7. Spoiled' \subseteq Spoiled \cup {s}
  BY <1>0, <1>3 DEF Spoiled
<1>8. IsFiniteSet({s}) /\ Cardinality({s}) = 1
  BY FS_Singleton
<1>9. /\ faults' + edits' = faults + edits + 1
      /\ Cardinality({}) + Cardinality({}) + Cardinality({s}) <= 1
  BY <1>0, <1>3, <1>8, NoneAtAll
<1>10. QED
  BY <1>0, <1>6, <1>7, <1>8, <1>9, NoneAtAll, LossPaid

\* What a worker has obtained and not yet saved: one thing at most.
UnsavedIPs(s) == {i \in IPs : i = copy[s].ip /\ at[s] = "saveAddress"}
UnsavedMachines(s) == {m \in Machines : m = copy[s].machine /\ at[s] = "saveMachine"}

LEMMA UnsavedOne ==
    ASSUME NEW s \in Claims
    PROVE  /\ IsFiniteSet(UnsavedIPs(s)) /\ IsFiniteSet(UnsavedMachines(s))
           /\ Cardinality(UnsavedIPs(s)) \in Nat /\ Cardinality(UnsavedMachines(s)) \in Nat
           /\ Cardinality(UnsavedIPs(s)) + Cardinality(UnsavedMachines(s)) <= 1
<1>1. /\ UnsavedIPs(s) = {} \/ \E x : UnsavedIPs(s) = {x}
      /\ UnsavedMachines(s) = {} \/ \E x : UnsavedMachines(s) = {x}
      /\ UnsavedIPs(s) = {} \/ UnsavedMachines(s) = {}
  BY DEF UnsavedIPs, UnsavedMachines
<1>2. \A x : IsFiniteSet({x}) /\ Cardinality({x}) = 1
  BY FS_Singleton
<1>3. /\ UnsavedIPs(s) = {} => IsFiniteSet(UnsavedIPs(s)) /\ Cardinality(UnsavedIPs(s)) = 0
      /\ UnsavedMachines(s) = {} =>
            IsFiniteSet(UnsavedMachines(s)) /\ Cardinality(UnsavedMachines(s)) = 0
  BY NoneAtAll
<1>4. /\ UnsavedIPs(s) # {} => IsFiniteSet(UnsavedIPs(s)) /\ Cardinality(UnsavedIPs(s)) = 1
      /\ UnsavedMachines(s) # {} =>
            IsFiniteSet(UnsavedMachines(s)) /\ Cardinality(UnsavedMachines(s)) = 1
  BY <1>1, <1>2
<1>5. QED
  BY <1>1, <1>3, <1>4

LEMMA LossRestart ==
    ASSUME HeldInv, LossInv, Restart
    PROVE  LossInv'
<1>0. /\ BoundsOK /\ OneBusy /\ at \in [Claims -> Place] /\ faults \in Nat /\ edits \in Nat
  BY TypeParts, ServerAssumption DEF HeldInv, TypesOK, WorkerOK, BoundsOK, WorkInv, CopyInv
<1>1. /\ UNCHANGED <<ipam, device, server>> /\ \A t \in Claims : at'[t] = "idle"
      /\ faults' + edits' = faults + edits + 1
  BY <1>0 DEF Restart, Fault, netboxVars
<1>2. Spoiled' \subseteq Spoiled \cup {}
  BY <1>1 DEF Spoiled, Working
<1>3. \A t \in Claims :
         /\ \A i \in IPs \ UnsavedIPs(t) : HoldsIP(t, i) => HoldsIP(t, i)'
         /\ \A m \in Machines \ UnsavedMachines(t) : HoldsMachine(t, m) => HoldsMachine(t, m)'
  BY <1>1 DEF HoldsIP, HoldsMachine, GivenUp, UnsavedIPs, UnsavedMachines
<1>4. CASE \A t \in Claims : at[t] = "idle"
  <2>1. \A t \in Claims : UnsavedIPs(t) = {} /\ UnsavedMachines(t) = {}
    BY <1>4 DEF UnsavedIPs, UnsavedMachines
  <2>2. AstrayIPs' \subseteq AstrayIPs \cup {} /\ AstrayMachines' \subseteq AstrayMachines \cup {}
    BY <1>1, <1>3, <2>1 DEF AstrayIPs, AstrayMachines, Live
  <2>3. Cardinality({}) + Cardinality({}) + Cardinality({}) <= 1
    BY NoneAtAll
  <2>4. QED
    BY <1>0, <1>1, <1>2, <2>2, <2>3, NoneAtAll, LossPaid
<1>5. ASSUME NEW s \in Claims, at[s] # "idle" PROVE LossInv'
  <2>1. \A t \in Claims : t # s => UnsavedIPs(t) = {} /\ UnsavedMachines(t) = {}
    BY <1>0, <1>5 DEF OneBusy, UnsavedIPs, UnsavedMachines
  <2>2. /\ AstrayIPs' \subseteq AstrayIPs \cup UnsavedIPs(s)
        /\ AstrayMachines' \subseteq AstrayMachines \cup UnsavedMachines(s)
    BY <1>1, <1>3, <2>1 DEF AstrayIPs, AstrayMachines, Live
  <2>3. /\ IsFiniteSet(UnsavedIPs(s)) /\ IsFiniteSet(UnsavedMachines(s))
        /\ Cardinality(UnsavedIPs(s)) + Cardinality(UnsavedMachines(s)) + Cardinality({}) <= 1
    BY UnsavedOne, NoneAtAll
  <2>4. QED
    BY <1>0, <1>1, <1>2, <2>2, <2>3, NoneAtAll, LossPaid
<1>6. QED
  BY <1>4, <1>5

\* The sets after a step of the worker at s that touches only what is in X and Y.
LEMMA LossSets ==
    ASSUME HeldInv, NEW s \in Claims, Continue(s), NEW X, NEW Y,
           \A i \in IPs \ X : ipam'[i] = ipam[i],
           \A m \in Machines \ Y : device'[m] = device[m],
           s \notin Late => /\ \A i \in IPs \ X : HoldsIP(s, i) => HoldsIP(s, i)'
                           /\ \A m \in Machines \ Y : HoldsMachine(s, m) => HoldsMachine(s, m)'
    PROVE  /\ AstrayIPs' \subseteq AstrayIPs \cup X
           /\ AstrayMachines' \subseteq AstrayMachines \cup Y
<1>0. /\ ServerTypeOK /\ WorkInv /\ WorkerOK /\ CopyInv
  BY TypeParts DEF HeldInv, TypesOK, WorkInv
<1>1. \A t \in Claims : t # s => at[t] = "idle" /\ at'[t] = "idle" /\ server'[t] = server[t]
  BY <1>0, ContinuePlaces, Alone, ContinueWork, MachineKept
<1>2. \A t \in Claims \ Late :
         /\ \A i \in IPs \ X : HoldsIP(t, i) => HoldsIP(t, i)'
         /\ \A m \in Machines \ Y : HoldsMachine(t, m) => HoldsMachine(t, m)'
  <2> SUFFICES ASSUME NEW t \in Claims \ Late
               PROVE  /\ \A i \in IPs \ X : HoldsIP(t, i) => HoldsIP(t, i)'
                      /\ \A m \in Machines \ Y : HoldsMachine(t, m) => HoldsMachine(t, m)'
    OBVIOUS
  <2>1. CASE t = s
    BY <2>1
  <2>2. CASE t # s
    BY <1>1, <2>2 DEF HoldsIP, HoldsMachine, GivenUp
  <2>3. QED
    BY <2>1, <2>2
<1>3. QED
  BY <1>2 DEF AstrayIPs, AstrayMachines, Live

\* No step of a worker spoils its copy, and one that is done has none.
LEMMA SpoiledKept ==
    ASSUME HeldInv, NEW s \in Claims, Continue(s)
    PROVE  /\ Spoiled' \subseteq Spoiled
           /\ Finish(s) => Spoiled' = {}
<1>0. /\ ServerTypeOK /\ WorkInv /\ WorkerOK /\ CopyInv
  BY TypeParts DEF HeldInv, TypesOK, WorkInv
<1>1. /\ \A t \in Claims : t # s => at'[t] = "idle"
      /\ Finish(s) => at'[s] = "idle"
  BY <1>0, ContinuePlaces DEF Finish, WorkerOK
<1>2. Finish(s) => Spoiled' = {}
  BY <1>1 DEF Spoiled, Working
<1>3. CASE ~Finish(s)
  <2>1. UNCHANGED copyCur /\ at[s] \in Working \ {"removeFinalizer"}
    BY <1>3 DEF Continue, AllocateAddress, SaveAddress, ListMachines, StageMachine,
         EmitPhaseChanged, EmitMachineAllocated, SaveMachine, CreateJob, FailOnJob, AwaitJob,
         SaveReady, RemoveFinalizer, SaveThen, Working, Place
  <2>2. QED
    BY <1>1, <2>1 DEF Spoiled, Working
<1>4. QED
  BY <1>2, <1>3

LEMMA ContinueFaults ==
    ASSUME BoundsOK, NEW s \in Claims, Continue(s)
    PROVE  /\ UNCHANGED edits
           /\ faults' + edits' = faults + edits \/ faults' + edits' = faults + edits + 1
<1>1. UNCHANGED edits
  BY DEF Continue, AllocateAddress, SaveAddress, ListMachines, StageMachine,
         EmitPhaseChanged, EmitMachineAllocated, SaveMachine, CreateJob, FailOnJob, AwaitJob,
         SaveReady, RemoveFinalizer
<1>2. faults' = faults \/ faults' = faults + 1
  <2>1. UNCHANGED faults \/ \E kind : Fault(kind, 1)
    BY DEF Continue, AllocateAddress, SaveAddress, ListMachines, StageMachine,
         EmitPhaseChanged, EmitMachineAllocated, SaveMachine, CreateJob, FailOnJob, AwaitJob,
         SaveReady, RemoveFinalizer, SaveThen, Failing, Write, WriteFails, Emit
  <2>2. QED
    BY <2>1 DEF Fault
<1>3. faults \in Nat /\ edits \in Nat
  BY ServerAssumption DEF BoundsOK
<1>4. QED
  BY <1>1, <1>2, <1>3

\* A step after which nothing more is astray, or one thing that a fault has paid for.
LEMMA LossContinued ==
    ASSUME HeldInv, LossInv, NEW s \in Claims, Continue(s), NEW X, NEW Y,
           AstrayIPs' \subseteq AstrayIPs \cup X, AstrayMachines' \subseteq AstrayMachines \cup Y,
           IsFiniteSet(X), IsFiniteSet(Y), Cardinality(X) \in Nat, Cardinality(Y) \in Nat,
           \/ X = {} /\ Y = {}
           \/ (\E kind : Fault(kind, 1)) /\ Cardinality(X) + Cardinality(Y) <= 1
    PROVE  LossInv'
<1>0. BoundsOK /\ faults \in Nat /\ edits \in Nat
  BY TypeParts, ServerAssumption DEF HeldInv, TypesOK, BoundsOK
<1>1. Spoiled' \subseteq Spoiled \cup {}
  BY SpoiledKept
<1>2. CASE X = {} /\ Y = {}
  <2>1. Cardinality(X) + Cardinality(Y) + Cardinality({}) <= 0
    BY <1>2, NoneAtAll
  <2>2. PICK n \in {0, 1} : faults' + edits' = faults + edits + n
    <3>1. faults' + edits' = faults + edits + 0 \/ faults' + edits' = faults + edits + 1
      BY <1>0, ContinueFaults
    <3>2. QED
      BY <3>1
  <2>3. n \in Nat /\ Cardinality(X) + Cardinality(Y) + Cardinality({}) <= n
    BY <1>2, NoneAtAll
  <2>4. QED
    BY <1>0, <1>1, <2>2, <2>3, NoneAtAll, LossPaid
<1>3. CASE (\E kind : Fault(kind, 1)) /\ Cardinality(X) + Cardinality(Y) <= 1
  <2>1. faults' + edits' = faults + edits + 1
    BY <1>0, <1>3, ContinueFaults DEF Fault
  <2>2. Cardinality(X) + Cardinality(Y) + Cardinality({}) <= 1
    BY <1>3, NoneAtAll
  <2>3. QED
    BY <1>0, <1>1, <2>1, <2>2, NoneAtAll, LossPaid
<1>4. QED
  BY <1>2, <1>3

\* The claim a worker goes on with keeps what it held, all but what is yet to be saved.
LEMMA HeldOn ==
    ASSUME HeldInv, NEW s \in Claims, Continue(s)
    PROVE  /\ \A i \in IPs \ UnsavedIPs(s) : HoldsIP(s, i) => HoldsIP(s, i)'
           /\ \A m \in Machines \ UnsavedMachines(s) : HoldsMachine(s, m) => HoldsMachine(s, m)'
<1>0. /\ ServerTypeOK /\ WorkInv /\ server[s] \in Server /\ copy[s] \in Server
      /\ server \in [Claims -> Server] /\ Knows(at[s], copy[s], copyCur[s], server[s])
      /\ at'[s] # "removeFinalizer"
  BY TypeParts, ContinuePlaces DEF HeldInv, TypesOK, ObjectsOK, WorkerOK, WorkInv, CopyInv
<1>1. \/ GivenUp(s)
      \/ /\ server'[s].ip = server[s].ip \/ server[s].ip = NoIP
         /\ server'[s].machine = server[s].machine \/ server[s].machine = NoMachine
  <2>1. CASE UNCHANGED server
    BY <2>1
  <2>2. CASE copyCur[s] /\ at[s] = "removeFinalizer"
    BY <2>2 DEF GivenUp
  <2>3. CASE /\ copyCur[s] /\ at[s] \in {"saveAddress", "saveMachine"}
             /\ server' = [server EXCEPT ![s] = copy[s]]
    <3>1. server[s] = Origin(at[s], copy[s]) /\ server'[s] = copy[s]
      BY <1>0, <2>3 DEF Knows
    <3>2. QED
      BY <1>0, <2>3, <3>1 DEF Origin, Server
  <2>4. CASE /\ copyCur[s] /\ at[s] \in {"list", "job"}
             /\ \E p : server' = [server EXCEPT ![s] = [copy[s] EXCEPT !.phase = p]]
    <3>1. server[s] = copy[s]
      BY <1>0, <2>4 DEF Knows, Origin
    <3>2. QED
      BY <1>0, <2>4, <3>1 DEF Server
  <2>5. QED
    BY <1>0, <2>1, <2>2, <2>3, <2>4, ContinueWrites
<1>2. NoIP \notin IPs /\ NoMachine \notin Machines
  BY ServerAssumption
<1>3. ASSUME NEW i \in IPs \ UnsavedIPs(s), HoldsIP(s, i) PROVE HoldsIP(s, i)'
  <2>1. server[s].ip = i /\ ~GivenUp(s)
    BY <1>3 DEF HoldsIP, UnsavedIPs
  <2>2. server'[s].ip = i
    BY <1>1, <1>2, <2>1
  <2>3. QED
    BY <1>0, <2>2 DEF HoldsIP, GivenUp
<1>4. ASSUME NEW m \in Machines \ UnsavedMachines(s), HoldsMachine(s, m) PROVE HoldsMachine(s, m)'
  <2>1. server[s].machine = m /\ ~GivenUp(s)
    BY <1>4 DEF HoldsMachine, UnsavedMachines
  <2>2. server'[s].machine = m
    BY <1>1, <1>2, <2>1
  <2>3. QED
    BY <1>0, <2>2 DEF HoldsMachine, GivenUp
<1>5. QED
  BY <1>3, <1>4

LEMMA LossAllocate ==
    ASSUME HeldInv, LossInv, NEW s \in Claims, AllocateAddress(s)
    PROVE  LossInv'
<1>0. /\ Continue(s) /\ at[s] = "allocate" /\ UNCHANGED device
      /\ at \in [Claims -> Place] /\ copy \in [Claims -> Server] /\ NetboxTypeOK
  BY TypeParts DEF Continue, AllocateAddress, HeldInv, TypesOK, WorkerOK
<1>1. UnsavedIPs(s) = {} /\ UnsavedMachines(s) = {}
  BY <1>0 DEF UnsavedIPs, UnsavedMachines
<1>2. /\ \A i \in IPs : HoldsIP(s, i) => HoldsIP(s, i)'
      /\ \A m \in Machines : HoldsMachine(s, m) => HoldsMachine(s, m)'
  BY <1>0, <1>1, HeldOn
<1>3. CASE UNCHANGED ipam
  <2>1. AstrayIPs' \subseteq AstrayIPs \cup {} /\ AstrayMachines' \subseteq AstrayMachines \cup {}
    BY <1>0, <1>2, <1>3, LossSets
  <2>2. QED
    BY <1>0, <2>1, NoneAtAll, LossContinued
<1>4. ASSUME NEW i \in IPs, AllocateIP(i, <<s, "server">>),
             \/ \E kind : Fault(kind, 1)
             \/ copy' = [copy EXCEPT ![s].ip = i] /\ at' = [at EXCEPT ![s] = "saveAddress"]
      PROVE  LossInv'
  <2>1. /\ ipam'[i] = [state |-> "live", dns |-> <<s, "server">>]
        /\ \A j \in IPs \ {i} : ipam'[j] = ipam[j]
    BY <1>0, <1>4, AllocateOthers
  <2>2. AstrayIPs' \subseteq AstrayIPs \cup {i} /\ AstrayMachines' \subseteq AstrayMachines \cup {}
    BY <1>0, <1>2, <2>1, LossSets
  <2>3. CASE \E kind : Fault(kind, 1)
    <3>1. IsFiniteSet({i}) /\ Cardinality({i}) = 1
      BY FS_Singleton
    <3>2. Cardinality({i}) \in Nat /\ Cardinality({i}) + Cardinality({}) <= 1
      BY <3>1, NoneAtAll
    <3>3. QED
      BY <1>0, <2>2, <2>3, <3>1, <3>2, NoneAtAll, LossContinued
  <2>4. CASE copy' = [copy EXCEPT ![s].ip = i] /\ at' = [at EXCEPT ![s] = "saveAddress"]
    <3>1. HoldsIP(s, i)'
      BY <1>0, <2>4 DEF HoldsIP, Server
    <3>2. ipam'[i].dns[1] = s
      BY <2>1
    <3>3. i \notin AstrayIPs'
      BY <3>1, <3>2 DEF AstrayIPs
    <3>4. AstrayIPs' \subseteq AstrayIPs \cup {}
      BY <2>2, <3>3
    <3>5. QED
      BY <1>0, <2>2, <3>4, NoneAtAll, LossContinued
  <2>5. QED
    BY <1>4, <2>3, <2>4
<1>5. \/ UNCHANGED ipam
      \/ \E i \in IPs : /\ AllocateIP(i, <<s, "server">>)
                        /\ \/ \E kind : Fault(kind, 1)
                           \/ /\ copy' = [copy EXCEPT ![s].ip = i]
                              /\ at' = [at EXCEPT ![s] = "saveAddress"]
  BY DEF AllocateAddress
<1>6. QED
  BY <1>3, <1>4, <1>5

LEMMA LossStage ==
    ASSUME HeldInv, LossInv, NEW s \in Claims, StageMachine(s)
    PROVE  LossInv'
<1>0. /\ Continue(s) /\ at[s] = "stage" /\ UNCHANGED ipam
      /\ at \in [Claims -> Place] /\ copy \in [Claims -> Server] /\ chosen[s] \in Machines
      /\ TenantOf[s] # NoTenant
  BY TypeParts, ServerAssumption, NetboxAssumption
     DEF Continue, StageMachine, HeldInv, TypesOK, WorkerOK, WorkInv, CopyInv
<1>1. UnsavedIPs(s) = {} /\ UnsavedMachines(s) = {}
  BY <1>0 DEF UnsavedIPs, UnsavedMachines
<1>2. /\ \A i \in IPs : HoldsIP(s, i) => HoldsIP(s, i)'
      /\ \A m \in Machines : HoldsMachine(s, m) => HoldsMachine(s, m)'
  BY <1>0, <1>1, HeldOn
<1>3. CASE UNCHANGED device
  <2>1. AstrayIPs' \subseteq AstrayIPs \cup {} /\ AstrayMachines' \subseteq AstrayMachines \cup {}
    BY <1>0, <1>2, <1>3, LossSets
  <2>2. QED
    BY <1>0, <2>1, NoneAtAll, LossContinued
<1>4. ASSUME SetDeviceStatus({chosen[s]}, "staged", TenantOf[s])
      PROVE  LossInv'
  <2>0. PICK d \in Machines : d = chosen[s]
    BY <1>0
  <2>1. device'[d].tenant = TenantOf[s] /\ \A m \in Machines \ {d} : device'[m] = device[m]
    BY <1>0, <1>4, <2>0 DEF SetDeviceStatus, Patched
  <2>2. AstrayIPs' \subseteq AstrayIPs \cup {} /\ AstrayMachines' \subseteq AstrayMachines \cup {d}
    BY <1>0, <1>2, <2>1, LossSets
  <2>3. CASE \E kind : Fault(kind, 1)
    <3>1. IsFiniteSet({d}) /\ Cardinality({d}) = 1
      BY FS_Singleton
    <3>2. Cardinality({d}) \in Nat /\ Cardinality({}) + Cardinality({d}) <= 1
      BY <3>1, NoneAtAll
    <3>3. QED
      BY <1>0, <2>2, <2>3, <3>1, <3>2, NoneAtAll, LossContinued
  <2>4. CASE copy' = [copy EXCEPT ![s].machine = d] /\ at' = [at EXCEPT ![s] = "saveMachine"]
    <3>1. HoldsMachine(s, d)'
      BY <1>0, <2>4 DEF HoldsMachine, Server
    <3>2. d \notin AstrayMachines'
      BY <2>1, <3>1 DEF AstrayMachines
    <3>3. AstrayMachines' \subseteq AstrayMachines \cup {}
      BY <2>2, <3>2
    <3>4. QED
      BY <1>0, <2>2, <3>3, NoneAtAll, LossContinued
  <2>5. QED
    BY <1>3, <2>0, <2>3, <2>4 DEF StageMachine
<1>5. QED
  BY <1>3, <1>4 DEF StageMachine

\* A save keeps what it writes; refused or lost, it loses the one thing it was to save.
LEMMA LossSaved ==
    ASSUME HeldInv, LossInv, NEW s \in Claims, SaveAddress(s) \/ SaveMachine(s)
    PROVE  LossInv'
<1> DEFINE X == UnsavedIPs(s)
           Y == UnsavedMachines(s)
<1>0. /\ Continue(s) /\ UNCHANGED <<ipam, device>> /\ at[s] \in {"saveAddress", "saveMachine"}
      /\ BoundsOK /\ at \in [Claims -> Place] /\ server \in [Claims -> Server]
      /\ faults \in Nat /\ edits \in Nat
      /\ Knows(at[s], copy[s], copyCur[s], server[s]) /\ copy[s] \in Server
  BY TypeParts, ServerAssumption
     DEF Continue, SaveAddress, SaveMachine, netboxVars, HeldInv, TypesOK, WorkerOK, ObjectsOK,
         BoundsOK, WorkInv, CopyInv
<1>1. /\ AstrayIPs' \subseteq AstrayIPs \cup X /\ AstrayMachines' \subseteq AstrayMachines \cup Y
  BY <1>0, HeldOn, LossSets
<1>2. /\ IsFiniteSet(X) /\ IsFiniteSet(Y) /\ Cardinality(X) \in Nat /\ Cardinality(Y) \in Nat
      /\ Cardinality(X) + Cardinality(Y) <= 1
  BY UnsavedOne
<1>3. CASE server' = [server EXCEPT ![s] = copy[s]]
  <2>1. \A i \in X : HoldsIP(s, i)'
    BY <1>0, <1>3, ContinuePlaces, TypeParts
       DEF UnsavedIPs, HoldsIP, GivenUp, HeldInv, TypesOK, WorkInv
  <2>2. \A m \in Y : HoldsMachine(s, m)'
    BY <1>0, <1>3, ContinuePlaces, TypeParts
       DEF UnsavedMachines, HoldsMachine, GivenUp, HeldInv, TypesOK, WorkInv
  <2>3. /\ \A i \in IPs : HoldsIP(s, i) => HoldsIP(s, i)'
        /\ \A m \in Machines : HoldsMachine(s, m) => HoldsMachine(s, m)'
    BY <1>0, <2>1, <2>2, HeldOn
  <2>4. AstrayIPs' \subseteq AstrayIPs \cup {} /\ AstrayMachines' \subseteq AstrayMachines \cup {}
    BY <1>0, <2>3, LossSets
  <2>5. QED
    BY <1>0, <2>4, NoneAtAll, LossContinued
<1>4. CASE ~copyCur[s] /\ Finish(s) /\ UNCHANGED faults
  <2>1. UNCHANGED edits
    BY <1>0, ContinueFaults
  <2>2. CASE s \in Late
    <3>1. AstrayIPs' \subseteq AstrayIPs \cup {} /\ AstrayMachines' \subseteq AstrayMachines \cup {}
      BY <1>0, <2>2, LossSets
    <3>2. QED
      BY <1>0, <3>1, NoneAtAll, LossContinued
  <2>3. CASE s \notin Late
    <3>1. s \in Spoiled
      BY <1>0, <1>4, <2>3 DEF Spoiled, Working, Place
    <3>2. Spoiled' = {}
      BY <1>0, <1>4, SpoiledKept
    <3> HIDE DEF X, Y
    <3>3. QED
      BY <1>0, <1>1, <1>2, <1>4, <2>1, <3>1, <3>2, LossForeseen
  <2>4. QED
    BY <2>2, <2>3
<1>5. CASE \E kind : Fault(kind, 1)
  <2> HIDE DEF X, Y
  <2>1. QED
    BY <1>0, <1>1, <1>2, <1>5, LossContinued
<1>6. QED
  BY <1>3, <1>4, <1>5 DEF SaveAddress, SaveMachine, SaveThen, WriteFails, Store

LEMMA LossContinue ==
    ASSUME HeldInv, LossInv, NEW s \in Claims, Continue(s)
    PROVE  LossInv'
<1>1. CASE AllocateAddress(s)
  BY <1>1, LossAllocate
<1>2. CASE StageMachine(s)
  BY <1>2, LossStage
<1>3. CASE SaveAddress(s) \/ SaveMachine(s)
  BY <1>3, LossSaved
<1>4. CASE /\ at[s] \notin {"saveAddress", "saveMachine"} /\ UNCHANGED <<ipam, device>>
  <2>1. UnsavedIPs(s) = {} /\ UnsavedMachines(s) = {}
    BY <1>4 DEF UnsavedIPs, UnsavedMachines
  <2>2. /\ \A i \in IPs : HoldsIP(s, i) => HoldsIP(s, i)'
        /\ \A m \in Machines : HoldsMachine(s, m) => HoldsMachine(s, m)'
    BY <2>1, HeldOn
  <2>3. AstrayIPs' \subseteq AstrayIPs \cup {} /\ AstrayMachines' \subseteq AstrayMachines \cup {}
    BY <1>4, <2>2, LossSets
  <2>4. QED
    BY <2>3, NoneAtAll, LossContinued
<1>5. QED
  BY <1>1, <1>2, <1>3, <1>4 DEF Continue, ListMachines, EmitPhaseChanged, EmitMachineAllocated,
     CreateJob, FailOnJob, AwaitJob, SaveReady, RemoveFinalizer, netboxVars

LEMMA LossNext == HeldInv /\ PromptInv /\ LossInv /\ [Next]_vars => LossInv'
<1> SUFFICES ASSUME HeldInv, PromptInv, LossInv, [Next]_vars PROVE LossInv'
  OBVIOUS
<1>1. ASSUME NEW s \in Claims, Begin(s) PROVE LossInv'
  BY <1>1, LossBegin
<1>2. ASSUME NEW s \in Claims, Continue(s) PROVE LossInv'
  BY <1>2, LossContinue
<1>3. ASSUME NEW s \in Claims, Relabel(s) \/ Delete(s) PROVE LossInv'
  BY <1>3, LossEdit
<1>4. CASE Restart
  BY <1>4, LossRestart
<1>5. ASSUME UNCHANGED <<ipam, server, at, copy, copyCur, faults, edits>>,
             \A m \in Machines : device'[m].status = "staged" => device'[m] = device[m]
      PROVE  LossInv'
  <2>1. /\ \A t \in Claims, i \in IPs : HoldsIP(t, i)' <=> HoldsIP(t, i)
        /\ \A t \in Claims, m \in Machines : HoldsMachine(t, m)' <=> HoldsMachine(t, m)
    BY <1>5 DEF HoldsIP, HoldsMachine, GivenUp
  <2>2. /\ AstrayIPs' \subseteq AstrayIPs \cup {} /\ AstrayMachines' \subseteq AstrayMachines \cup {}
        /\ Spoiled' \subseteq Spoiled \cup {}
    BY <1>5, <2>1 DEF AstrayIPs, AstrayMachines, Spoiled, Live
  <2>3. BoundsOK /\ faults' + edits' = faults + edits + 0
    BY <1>5, TypeParts, ServerAssumption DEF HeldInv, TypesOK, BoundsOK
  <2>4. Cardinality({}) + Cardinality({}) + Cardinality({}) <= 0
    BY NoneAtAll
  <2>5. QED
    BY <2>2, <2>3, <2>4, NoneAtAll, LossPaid
<1>6. ASSUME NEW s \in Claims, CacheSync(s) \/ JobRuns(s) PROVE LossInv'
  BY <1>5, <1>6 DEF CacheSync, JobRuns, netboxVars, workerVars, storedVars
<1>7. ASSUME NEW m \in Machines, Recycle(m) PROVE LossInv'
  <2>1. device \in [Machines -> Device]
    BY TypeParts DEF HeldInv, TypesOK, NetboxTypeOK
  <2>2. UNCHANGED <<ipam, server, at, copy, copyCur, faults, edits>>
    BY <1>7 DEF Recycle, ClearTenant, workerVars, storedVars
  <2>3. \A q \in Machines : device'[q].status = "staged" => device'[q] = device[q]
    BY <1>7, <2>1 DEF Recycle, ClearTenant, Device
  <2>4. QED
    BY <1>5, <2>2, <2>3
<1>8. CASE UNCHANGED vars
  BY <1>5, <1>8 DEF vars
<1>9. QED
  BY <1>1, <1>2, <1>3, <1>4, <1>6, <1>7, <1>8 DEF Next

LEMMA LossInit == Init => PromptInv /\ LossInv
<1> SUFFICES ASSUME Init PROVE PromptInv /\ LossInv
  OBVIOUS
<1>1. PromptInv
  BY DEF Init, PromptInv
<1>2. AstrayIPs = {} /\ AstrayMachines = {} /\ Spoiled = {}
  BY DEF Init, NetboxInit, AstrayIPs, AstrayMachines, Spoiled, Live, Working
<1>3. faults = 0 /\ edits = 0
  BY DEF Init
<1>4. QED
  BY <1>1, <1>2, <1>3, NoneAtAll DEF LossInv

\* Each address or device that Netbox holds for nobody cost a fault or a user's edit of the
\* claim: serverclaim_controller.go saves what stepProvision obtained before it goes on.
THEOREM ServersLoseLittle == Spec => []LossBounded
<1>1. HeldInv /\ LossInv => LossBounded
  <2> SUFFICES ASSUME HeldInv, LossInv PROVE LossBounded
    OBVIOUS
  <2>1. LostIPs \in SUBSET AstrayIPs /\ LostMachines \in SUBSET AstrayMachines
    BY DEF LostIPs, LostMachines, AstrayIPs, AstrayMachines, HoldsIP, HoldsMachine
  <2>2. /\ IsFiniteSet(LostIPs) /\ Cardinality(LostIPs) <= Cardinality(AstrayIPs)
        /\ IsFiniteSet(LostMachines) /\ Cardinality(LostMachines) <= Cardinality(AstrayMachines)
    BY <2>1, AstrayFinite, FS_Subset
  <2>3. /\ Cardinality(LostIPs) \in Nat /\ Cardinality(AstrayIPs) \in Nat
        /\ Cardinality(LostMachines) \in Nat /\ Cardinality(AstrayMachines) \in Nat
        /\ Cardinality(Spoiled) \in Nat
    BY <2>2, AstrayFinite, FS_CardinalityType
  <2>4. faults \in Nat /\ edits \in Nat
    BY TypeParts, ServerAssumption DEF HeldInv, TypesOK, BoundsOK
  <2>5. QED
    BY <2>2, <2>3, <2>4 DEF LossInv, LossBounded
<1>2. ServerTypeOK /\ PromptInv /\ [Next]_vars => PromptInv'
  BY PromptNext
<1>3. HeldInv => ServerTypeOK
  BY DEF HeldInv
<1>4. QED
  BY <1>1, <1>2, <1>3, LossInit, LossNext, HeldInvariant, PTL DEF Spec

-------------------------------------------------------------------------------
(* What the trail leaves out *)

\* The event e is missing from the claim's trail, and its handler will not emit it any more.
Owes(s, e) ==
    /\ e \notin trail[s]
    /\ \/ /\ e = "PhaseChanged" /\ at[s] # "emitPhase"
          /\ server[s].ip # NoIP \/ server[s].phase \in {"Provisioning", "Ready"}
       \/ e = "MachineAllocated" /\ at[s] # "emitMachine" /\ server[s].machine # NoMachine
       \/ /\ e = "ServerDeleted"
          /\ \/ at[s] = "removeFinalizer"
             \/ server[s].life = "gone" /\ server[s].phase # "Pending"

Debts == {d \in Claims \X Event : Owes(d[1], d[2])}

\* Each cost a fault.  The deletion is owed from the failed request on, not from the removal.
DebtInv == Cardinality(Debts) <= faults

LEMMA DebtsFinite == IsFiniteSet(Debts)
<1>1. IsFiniteSet({"PhaseChanged", "MachineAllocated", "ServerDeleted"})
  <2>1. IsFiniteSet({"PhaseChanged"})
    BY FS_Singleton
  <2>2. IsFiniteSet({"PhaseChanged"} \cup {"MachineAllocated"})
    BY <2>1, FS_AddElement
  <2>3. IsFiniteSet(({"PhaseChanged"} \cup {"MachineAllocated"}) \cup {"ServerDeleted"})
    BY <2>2, FS_AddElement
  <2>4. {"PhaseChanged", "MachineAllocated", "ServerDeleted"}
          = ({"PhaseChanged"} \cup {"MachineAllocated"}) \cup {"ServerDeleted"}
    OBVIOUS
  <2>5. QED
    BY <2>3, <2>4
<1>2. IsFiniteSet(Claims \X Event)
  BY <1>1, ServerAssumption, FS_Product DEF Event
<1>3. Debts \in SUBSET (Claims \X Event)
  BY DEF Debts
<1>4. QED
  BY <1>2, <1>3, FS_Subset

\* A step in which one claim comes to owe at most one event, and that for a fault.
LEMMA DebtPaid ==
    ASSUME BoundsOK, DebtInv, faults' \in Nat, faults' >= faults, NEW s \in Claims, NEW x \in Event,
           \A t \in Claims, e \in Event : Owes(t, e)' => Owes(t, e) \/ (t = s /\ e = x),
           \/ Owes(s, x)' => Owes(s, x)
           \/ faults' >= faults + 1
    PROVE  DebtInv'
<1>0. faults \in Nat
  BY ServerAssumption DEF BoundsOK
<1>1. CASE Owes(s, x)' => Owes(s, x)
  <2>1. Debts' \subseteq Debts \cup {}
    BY <1>1 DEF Debts
  <2>2. /\ Cardinality(Debts') \in Nat /\ Cardinality(Debts) \in Nat
        /\ Cardinality(Debts') <= Cardinality(Debts) + Cardinality({})
    BY <2>1, DebtsFinite, NoneAtAll, Grown
  <2>3. QED
    BY <1>0, <2>2, NoneAtAll DEF DebtInv
<1>2. CASE faults' >= faults + 1
  <2>1. Debts' \subseteq Debts \cup {<<s, x>>}
    BY DEF Debts
  <2>2. IsFiniteSet({<<s, x>>}) /\ Cardinality({<<s, x>>}) = 1
    BY FS_Singleton
  <2>3. /\ Cardinality(Debts') \in Nat /\ Cardinality(Debts) \in Nat
        /\ Cardinality(Debts') <= Cardinality(Debts) + Cardinality({<<s, x>>})
    BY <2>1, <2>2, DebtsFinite, Grown
  <2>4. QED
    BY <1>0, <1>2, <2>2, <2>3 DEF DebtInv
<1>3. QED
  BY <1>1, <1>2

\* The steps of the worker with one claim: the others owe what they owed.
LEMMA DebtStep ==
    ASSUME HeldInv, DebtInv, faults' \in Nat, faults' >= faults, NEW s \in Claims, NEW x \in Event,
           \A t \in Claims : t # s => /\ at'[t] = at[t] /\ server'[t] = server[t]
                                      /\ trail'[t] = trail[t],
           \A e \in Event : Owes(s, e)' => Owes(s, e) \/ e = x,
           \/ Owes(s, x)' => Owes(s, x)
           \/ faults' >= faults + 1
    PROVE  DebtInv'
<1>1. BoundsOK
  BY TypeParts DEF HeldInv, TypesOK
<1>2. \A t \in Claims, e \in Event : Owes(t, e)' => Owes(t, e) \/ (t = s /\ e = x)
  <2> SUFFICES ASSUME NEW t \in Claims, NEW e \in Event, Owes(t, e)'
               PROVE  Owes(t, e) \/ (t = s /\ e = x)
    OBVIOUS
  <2>1. CASE t # s
    BY <2>1 DEF Owes
  <2>2. QED
    BY <2>1
<1>3. QED
  BY <1>1, <1>2, DebtPaid

LEMMA DebtBegin ==
    ASSUME HeldInv, DebtInv, NEW s \in Claims, Begin(s)
    PROVE  DebtInv'
<1>0. /\ ServerTypeOK /\ ServerTypeOK' /\ WorkInv /\ at \in [Claims -> Place] /\ at[s] = "idle"
      /\ server \in [Claims -> Server] /\ trail \in [Claims -> SUBSET Event]
      /\ seen[s] \in Server /\ faults \in Nat /\ faults' \in Nat
      /\ seenCur[s] => seen[s] = server[s]
  <2>1. ServerTypeOK'
    BY BeginType DEF HeldInv
  <2>2. at[s] = "idle"
    BY DEF Begin, AddFinalizer, NothingToDo, Takes, Validate, BeginProvision, ReleaseAll, Dequeue
  <2>3. QED
    BY <2>1, <2>2, TypeParts, ServerAssumption
       DEF HeldInv, TypesOK, WorkerOK, ObjectsOK, TrailOK, BoundsOK, WorkInv, VersionInv
<1>1. WellFormed(server[s]) /\ UNCHANGED work
  BY <1>0, BeginWrites DEF WorkInv, VersionInv
<1>2. CASE ~ReleaseAll(s)
  <2>1. /\ UNCHANGED trail
        /\ \/ UNCHANGED faults
           \/ faults' = faults + 1
        /\ \/ at' = at
           \/ \E p \in Place \ {"removeFinalizer"} : at' = [at EXCEPT ![s] = p]
    BY <1>2 DEF Begin, AddFinalizer, NothingToDo, Validate, BeginProvision, workerVars, Start,
                FirstCall, Write, WriteFails, Fault, Place
  <2>2. /\ \A t \in Claims : t # s => /\ at'[t] = at[t] /\ server'[t] = server[t]
                                      /\ trail'[t] = trail[t]
        /\ at'[s] # "removeFinalizer"
    BY <1>0, <2>1, BeginWrites
  <2>3. /\ server'[s].ip = server[s].ip /\ server'[s].machine = server[s].machine
        /\ server'[s].life = "gone" => server'[s] = server[s]
        /\ \/ server'[s].phase = server[s].phase \/ server'[s].phase = "Failed"
           \/ server'[s].phase = "Provisioning" /\ Validate(s)
    <3>1. CASE UNCHANGED server
      BY <3>1
    <3>2. CASE /\ seenCur[s] /\ seen[s].life = "live"
               /\ server' = [server EXCEPT ![s] = [seen[s] EXCEPT !.finalizer = TRUE]]
      BY <1>0, <3>2 DEF Server
    <3>3. ASSUME NEW p \in {"Provisioning", "Failed"}, seenCur[s], seen[s].life = "live",
                 server' = [server EXCEPT ![s] = [seen[s] EXCEPT !.phase = p]]
          PROVE  /\ server'[s].ip = server[s].ip /\ server'[s].machine = server[s].machine
                 /\ server'[s].life = "live" /\ server'[s].phase = p
      BY <1>0, <3>3 DEF Server
    <3>4. ~Validate(s) => \/ UNCHANGED server
                          \/ /\ seenCur[s] /\ seen[s].life = "live"
                             /\ server' = [server EXCEPT ![s] = [seen[s] EXCEPT !.finalizer = TRUE]]
      BY <1>2 DEF Begin, AddFinalizer, NothingToDo, BeginProvision, Start, Write, WriteFails,
                  Store, Return, storedVars, Takes
    <3>5. QED
      BY <1>0, <3>1, <3>2, <3>3, <3>4, BeginWrites
  <2>4. \A e \in Event : Owes(s, e)' => Owes(s, e) \/ e = "PhaseChanged"
    BY <1>0, <2>1, <2>2, <2>3 DEF Owes
  <2>5. CASE server'[s].phase = "Provisioning" /\ Validate(s)
    <3>1. \/ at'[s] = "emitPhase"
          \/ faults' = faults + 1
          \/ UNCHANGED server
      BY <1>0, <2>1, <2>5 DEF Validate, WriteFails, Fault, Store, Return, storedVars, Write, Server
    <3>2. (Owes(s, "PhaseChanged")' => Owes(s, "PhaseChanged")) \/ faults' >= faults + 1
      BY <1>0, <2>1, <3>1 DEF Owes
    <3>3. QED
      BY <1>0, <2>1, <2>2, <2>4, <3>2, DebtStep DEF Event
  <2>6. CASE ~(server'[s].phase = "Provisioning" /\ Validate(s))
    <3>1. Owes(s, "PhaseChanged")' => Owes(s, "PhaseChanged")
      BY <1>0, <2>1, <2>3, <2>6 DEF Owes
    <3>2. QED
      BY <1>0, <2>1, <2>2, <2>4, <3>1, DebtStep DEF Event
  <2>7. QED
    BY <2>5, <2>6
<1>3. CASE ReleaseAll(s)
  <2>1. PICK kept \in SUBSET {"ip", "machine"}, lost \in SUBSET {"event"} :
            /\ faults' = faults + Cardinality(kept \cup lost)
            /\ trail' = IF lost = {} THEN [trail EXCEPT ![s] = @ \cup {"ServerDeleted"}]
                                    ELSE trail
    BY <1>3 DEF ReleaseAll
  <2>2. IsFiniteSet(kept \cup lost)
    <3>1. kept \cup lost \in SUBSET {"ip", "machine", "event"}
      OBVIOUS
    <3>2. QED
      BY <3>1, ReleaseRequests, FS_Subset
  <2>3. Cardinality(kept \cup lost) \in Nat /\ (Cardinality(kept \cup lost) = 0 => lost = {})
    BY <2>2, FS_CardinalityType, FS_EmptySet
  <2>4. /\ UNCHANGED server /\ at' = [at EXCEPT ![s] = "removeFinalizer"]
        /\ \A t \in Claims : trail[t] \subseteq trail'[t] /\ (t # s => trail'[t] = trail[t])
    BY <1>0, <1>3, <2>1 DEF ReleaseAll, Start, storedVars
  <2>5. \A e \in Event : Owes(s, e)' => Owes(s, e) \/ e = "ServerDeleted"
    BY <1>0, <2>4 DEF Owes
  <2>6. ~Owes(s, "ServerDeleted")' \/ faults' >= faults + 1
    <3>1. CASE lost = {}
      BY <1>0, <2>1, <3>1 DEF Owes
    <3>2. CASE lost # {}
      <4>1. PICK n \in Nat : n = Cardinality(kept \cup lost) /\ (n = 0 => lost = {})
        BY <2>3
      <4>2. n >= 1
        <5>1. n # 0
          BY <3>2, <4>1
        <5>2. QED
          BY <4>1, <5>1
      <4>3. faults' >= faults + 1
        BY <1>0, <2>1, <4>1, <4>2
      <4>4. QED
        BY <4>3
    <3>3. QED
      BY <3>1, <3>2
  <2>7. faults' >= faults
    BY <1>0, <2>1, <2>3
  <2>8. QED
    BY <1>0, <2>4, <2>5, <2>6, <2>7, DebtStep DEF Event
<1>4. QED
  BY <1>2, <1>3

LEMMA DebtContinue ==
    ASSUME HeldInv, DebtInv, NEW s \in Claims, Continue(s)
    PROVE  DebtInv'
<1>0. /\ ServerTypeOK /\ ServerTypeOK' /\ WorkInv /\ at \in [Claims -> Place]
      /\ server \in [Claims -> Server] /\ trail \in [Claims -> SUBSET Event]
      /\ server[s] \in Server /\ copy[s] \in Server /\ faults \in Nat /\ faults' \in Nat
      /\ Knows(at[s], copy[s], copyCur[s], server[s]) /\ WellFormed(server[s])
  <2>1. ServerTypeOK'
    BY ContinueType DEF HeldInv
  <2>2. QED
    BY <2>1, TypeParts, ServerAssumption
       DEF HeldInv, TypesOK, WorkerOK, ObjectsOK, TrailOK, BoundsOK, WorkInv, VersionInv, CopyInv
<1>1. /\ \A t \in Claims : t # s => at'[t] = at[t] /\ server'[t] = server[t]
      /\ at'[s] # "removeFinalizer"
  <2>1. /\ WorkerOK /\ CopyInv
        /\ UNCHANGED server \/ \E rec : server' = [server EXCEPT ![s] = rec]
    BY <1>0, TypeParts, ContinueWrites DEF TypesOK, WorkInv
  <2>2. at[s] # "idle" /\ \A t \in Claims : t # s => at[t] = "idle" /\ at'[t] = "idle"
    BY <2>1, ContinuePlaces, Alone
  <2>3. QED
    BY <1>0, <2>1, <2>2, ContinuePlaces
<1>2. faults' = faults \/ faults' = faults + 1
  <2>1. UNCHANGED faults \/ \E kind : Fault(kind, 1)
    BY DEF Continue, AllocateAddress, SaveAddress, ListMachines, StageMachine,
         EmitPhaseChanged, EmitMachineAllocated, SaveMachine, CreateJob, FailOnJob, AwaitJob,
         SaveReady, RemoveFinalizer, SaveThen, Failing, Write, WriteFails, Emit
  <2>2. QED
    BY <2>1 DEF Fault
<1>3. CASE EmitPhaseChanged(s)
  <2>1. UNCHANGED server /\ at[s] = "emitPhase" /\ Emit(s, "PhaseChanged") /\ at'[s] = "idle"
    BY <1>0, <1>3 DEF EmitPhaseChanged, Return, storedVars, Finish
  <2>2. \A t \in Claims : trail[t] \subseteq trail'[t] /\ (t # s => trail'[t] = trail[t])
    BY <1>0, <2>1 DEF Emit
  <2>3. \A e \in Event : Owes(s, e)' => Owes(s, e) \/ e = "PhaseChanged"
    BY <1>0, <2>1, <2>2 DEF Owes
  <2>4. ~Owes(s, "PhaseChanged")' \/ faults' >= faults + 1
    BY <1>0, <2>1 DEF Emit, Fault, Owes
  <2>5. QED
    BY <1>0, <1>1, <1>2, <2>2, <2>3, <2>4, DebtStep DEF Event
<1>4. CASE EmitMachineAllocated(s)
  <2>1. UNCHANGED server /\ at[s] = "emitMachine" /\ Emit(s, "MachineAllocated") /\ at'[s] = "job"
    BY <1>0, <1>4 DEF EmitMachineAllocated, storedVars
  <2>2. \A t \in Claims : trail[t] \subseteq trail'[t] /\ (t # s => trail'[t] = trail[t])
    BY <1>0, <2>1 DEF Emit
  <2>3. \A e \in Event : Owes(s, e)' => Owes(s, e) \/ e = "MachineAllocated"
    BY <1>0, <2>1, <2>2 DEF Owes
  <2>4. ~Owes(s, "MachineAllocated")' \/ faults' >= faults + 1
    BY <1>0, <2>1 DEF Emit, Fault, Owes
  <2>5. QED
    BY <1>0, <1>1, <1>2, <2>2, <2>3, <2>4, DebtStep DEF Event
<1>5. CASE ~EmitPhaseChanged(s) /\ ~EmitMachineAllocated(s)
  <2>1. UNCHANGED trail /\ at[s] \notin {"emitPhase", "emitMachine", "idle"}
    BY <1>0, <1>5 DEF Continue, AllocateAddress, SaveAddress, ListMachines, StageMachine,
         SaveMachine, CreateJob, FailOnJob, AwaitJob, SaveReady, RemoveFinalizer
  <2>2. /\ server'[s].life = "gone" /\ server[s].life # "gone" => at[s] = "removeFinalizer"
        /\ server'[s].life = "gone" /\ server'[s].phase # "Pending" =>
              at[s] = "removeFinalizer" \/ server[s].phase # "Pending"
        /\ server'[s].ip # NoIP \/ server'[s].phase \in {"Provisioning", "Ready"} =>
              server[s].ip # NoIP \/ server[s].phase \in {"Provisioning", "Ready"}
        /\ server'[s].machine # NoMachine =>
              server[s].machine # NoMachine \/ at[s] = "saveMachine"
    <3>1. CASE UNCHANGED server
      BY <3>1
    <3>2. CASE /\ copyCur[s] /\ at[s] \in {"saveAddress", "saveMachine"}
               /\ server' = [server EXCEPT ![s] = copy[s]]
      <4>1. /\ server'[s] = copy[s] /\ server[s] = Origin(at[s], copy[s])
            /\ copy[s].life = "live" /\ copy[s].phase = "Provisioning"
        BY <1>0, <3>2 DEF Knows, Working, Place
      <4>2. server[s].phase = "Provisioning" /\ (at[s] = "saveAddress" => server[s].machine = copy[s].machine)
        BY <1>0, <3>2, <4>1 DEF Origin, Server
      <4>3. QED
        BY <3>2, <4>1, <4>2
    <3>3. CASE /\ copyCur[s] /\ at[s] \in {"list", "job"}
               /\ \E p : server' = [server EXCEPT ![s] = [copy[s] EXCEPT !.phase = p]]
      <4>1. server[s] = copy[s] /\ copy[s].ip # NoIP /\ copy[s].life = "live"
        BY <1>0, <3>3 DEF Knows, Origin, Working, Place
      <4>2. /\ server'[s].ip = copy[s].ip /\ server'[s].machine = copy[s].machine
            /\ server'[s].life = copy[s].life
        BY <1>0, <3>3 DEF Server
      <4>3. QED
        BY <4>1, <4>2
    <3>4. CASE /\ copyCur[s] /\ at[s] = "removeFinalizer"
               /\ server' = [server EXCEPT ![s] = Erased(copy[s])]
      <4>1. server[s] = [copy[s] EXCEPT !.finalizer = TRUE]
        BY <1>0, <3>4 DEF Knows, Origin
      <4>2. server[s].phase = copy[s].phase
        BY <1>0, <4>1 DEF Server
      <4>3. /\ server'[s].ip = NoIP /\ server'[s].machine = NoMachine
            /\ server'[s].phase = copy[s].phase
        BY <1>0, <3>4 DEF Server, Erased
      <4>4. QED
        BY <3>4, <4>2, <4>3
    <3>5. QED
      BY <1>0, <3>1, <3>2, <3>3, <3>4, ContinueWrites
  <2>3. \A e \in Event : Owes(s, e)' => Owes(s, e) \/ e = "MachineAllocated"
    BY <1>0, <1>1, <2>1, <2>2 DEF Owes
  <2>4. CASE ~SaveMachine(s)
    <3>1. at[s] # "saveMachine"
      BY <1>5, <2>4 DEF Continue, AllocateAddress, SaveAddress, ListMachines, StageMachine,
           CreateJob, FailOnJob, AwaitJob, SaveReady, RemoveFinalizer
    <3>2. Owes(s, "MachineAllocated")' => Owes(s, "MachineAllocated")
      BY <1>0, <2>1, <2>2, <3>1 DEF Owes
    <3>3. QED
      BY <1>0, <1>1, <1>2, <2>1, <2>3, <3>2, DebtStep DEF Event
  <2>5. CASE SaveMachine(s)
    <3>1. at'[s] = "emitMachine" \/ UNCHANGED server \/ faults' = faults + 1
      BY <1>0, <2>5 DEF SaveMachine, SaveThen, WriteFails, Return, storedVars, Fault
    <3>2. (Owes(s, "MachineAllocated")' => Owes(s, "MachineAllocated")) \/ faults' >= faults + 1
      BY <1>0, <2>1, <3>1 DEF Owes
    <3>3. QED
      BY <1>0, <1>1, <1>2, <2>1, <2>3, <3>2, DebtStep DEF Event
  <2>6. QED
    BY <2>4, <2>5
<1>6. QED
  BY <1>3, <1>4, <1>5

LEMMA DebtRestart ==
    ASSUME HeldInv, DebtInv, Restart
    PROVE  DebtInv'
<1>0. /\ BoundsOK /\ OneBusy /\ faults \in Nat /\ faults' = faults + 1 /\ faults' \in Nat
  BY TypeParts, ServerAssumption
     DEF HeldInv, TypesOK, BoundsOK, WorkInv, CopyInv, Restart, Fault
<1>1. UNCHANGED <<server, trail>> /\ \A t \in Claims : at'[t] = "idle"
  BY DEF Restart
<1>2. CASE \A t \in Claims, e \in Event : Owes(t, e)' => Owes(t, e)
  <2>1. CASE Claims = {}
    <3>1. Debts' \subseteq Debts \cup {}
      BY <2>1 DEF Debts
    <3>2. /\ Cardinality(Debts') \in Nat /\ Cardinality(Debts) \in Nat
          /\ Cardinality(Debts') <= Cardinality(Debts) + Cardinality({})
      BY <3>1, DebtsFinite, NoneAtAll, Grown
    <3>3. QED
      BY <1>0, <3>2, NoneAtAll DEF DebtInv
  <2>2. ASSUME NEW s \in Claims PROVE DebtInv'
    <3>1. "PhaseChanged" \in Event /\ faults' >= faults /\ faults' >= faults + 1
      BY <1>0 DEF Event
    <3>2. QED
      BY <1>0, <1>2, <3>1, DebtPaid
  <2>3. QED
    BY <2>1, <2>2
<1>3. ASSUME NEW s \in Claims, NEW x \in Event, Owes(s, x)', ~Owes(s, x) PROVE DebtInv'
  <2>1. \/ x = "PhaseChanged" /\ at[s] = "emitPhase"
        \/ x = "MachineAllocated" /\ at[s] = "emitMachine"
    BY <1>1, <1>3 DEF Owes
  <2>2. \A t \in Claims : t # s => at[t] = "idle"
    BY <1>0, <2>1 DEF OneBusy
  <2>3. \A t \in Claims, e \in Event : Owes(t, e)' => Owes(t, e) \/ (t = s /\ e = x)
    BY <1>1, <2>1, <2>2 DEF Owes
  <2>4. faults' >= faults /\ faults' >= faults + 1
    BY <1>0
  <2>5. QED
    BY <1>0, <2>3, <2>4, DebtPaid
<1>4. QED
  BY <1>2, <1>3

LEMMA DebtNext == HeldInv /\ DebtInv /\ [Next]_vars => DebtInv'
<1> SUFFICES ASSUME HeldInv, DebtInv, [Next]_vars PROVE DebtInv'
  OBVIOUS
<1>0. faults \in Nat /\ server \in [Claims -> Server] /\ WorkInv /\ BoundsOK
  BY TypeParts, ServerAssumption DEF HeldInv, TypesOK, BoundsOK, ObjectsOK
<1>1. ASSUME NEW s \in Claims, Begin(s) PROVE DebtInv'
  BY <1>1, DebtBegin
<1>2. ASSUME NEW s \in Claims, Continue(s) PROVE DebtInv'
  BY <1>2, DebtContinue
<1>3. CASE Restart
  BY <1>3, DebtRestart
<1>4. ASSUME UNCHANGED faults, \A t \in Claims, e \in Event : Owes(t, e)' => Owes(t, e)
      PROVE  DebtInv'
  <2>1. Debts' \subseteq Debts \cup {}
    BY <1>4 DEF Debts
  <2>2. /\ Cardinality(Debts') \in Nat /\ Cardinality(Debts) \in Nat
        /\ Cardinality(Debts') <= Cardinality(Debts) + Cardinality({})
    BY <2>1, DebtsFinite, NoneAtAll, Grown
  <2>3. QED
    BY <1>0, <1>4, <2>2, NoneAtAll DEF DebtInv
<1>5. ASSUME UNCHANGED <<faults, server, at, trail>> PROVE DebtInv'
  <2>1. \A t \in Claims, e \in Event : Owes(t, e)' => Owes(t, e)
    BY <1>5 DEF Owes
  <2>2. QED
    BY <1>4, <1>5, <2>1
<1>6. ASSUME NEW s \in Claims, CacheSync(s) \/ JobRuns(s) PROVE DebtInv'
  BY <1>5, <1>6 DEF CacheSync, JobRuns, workerVars, storedVars
<1>7. ASSUME NEW m \in Machines, Recycle(m) PROVE DebtInv'
  BY <1>5, <1>7 DEF Recycle, workerVars, storedVars
<1>8. ASSUME NEW s \in Claims, Relabel(s) \/ Delete(s) PROVE DebtInv'
  <2>1. WellFormed(server[s]) /\ server[s] \in Server
    BY <1>0 DEF WorkInv, VersionInv
  <2>2. PICK new : /\ server' = [server EXCEPT ![s] = new] /\ UNCHANGED <<at, trail, faults>>
                   /\ \/ new = server[s]
                      \/ new = [server[s] EXCEPT !.life = "deleting"]
                      \/ new = Erased(server[s]) /\ ~server[s].finalizer /\ server[s].life = "live"
    BY <1>8 DEF Relabel, Delete, Edit, Store
  <2>3. /\ new.ip # NoIP => server[s].ip # NoIP
        /\ new.machine # NoMachine => server[s].machine # NoMachine
        /\ new.phase = server[s].phase
        /\ new.life = "gone" => server[s].life = "gone" \/ new.phase = "Pending"
    BY <2>1, <2>2 DEF WellFormed, Erased, Server
  <2>4. \A t \in Claims : server'[t] = IF t = s THEN new ELSE server[t]
    BY <1>0, <2>2
  <2>5. \A t \in Claims, e \in Event : Owes(t, e)' => Owes(t, e)
    BY <2>2, <2>3, <2>4 DEF Owes
  <2>6. QED
    BY <1>4, <2>2, <2>5
<1>9. CASE UNCHANGED vars
  BY <1>5, <1>9 DEF vars
<1>10. QED
  BY <1>1, <1>2, <1>3, <1>6, <1>7, <1>8, <1>9 DEF Next

\* An event that the trail of a server lacks cost a fault, whatever conflicts, stale reads and
\* retries its handler went through: emitAuditEvent follows the write it reports at once, or,
\* for a deletion, comes before it.
THEOREM MissingEventsAreFaults == Spec => []TrailGapsBounded
<1>1. Init => DebtInv
  <2> SUFFICES ASSUME Init PROVE DebtInv
    OBVIOUS
  <2>1. Debts = {}
    BY DEF Init, Debts, Owes, Fresh
  <2>2. QED
    BY <2>1, NoneAtAll DEF Init, DebtInv
<1>2. HeldInv /\ DebtInv => TrailGapsBounded
  <2> SUFFICES ASSUME HeldInv, DebtInv PROVE TrailGapsBounded
    OBVIOUS
  <2> DEFINE quiet == {q \in Claims : at[q] \notin {"emitPhase", "emitMachine"}}
             gaps == UNION {{<<s, e>> : e \in Reportable(s) \ trail[s]} : s \in quiet}
  <2>1. gaps \subseteq Debts
    <3> SUFFICES ASSUME NEW s \in quiet, NEW e \in Reportable(s) \ trail[s]
                 PROVE  <<s, e>> \in Debts
      OBVIOUS
    <3>1. Owes(s, e) /\ e \in Event
      BY DEF Reportable, Owes, Event
    <3>2. QED
      BY <3>1 DEF Debts
  <2>2. IsFiniteSet(gaps) /\ Cardinality(gaps) <= Cardinality(Debts)
    <3> HIDE DEF gaps
    <3>1. QED
      BY <2>1, DebtsFinite, FS_Subset
  <2>3. Cardinality(gaps) \in Nat /\ Cardinality(Debts) \in Nat /\ faults \in Nat
    BY <2>2, DebtsFinite, FS_CardinalityType, TypeParts, ServerAssumption
       DEF HeldInv, TypesOK, BoundsOK
  <2>4. Cardinality(gaps) <= faults
    <3> HIDE DEF gaps
    <3>1. QED
      BY <2>2, <2>3 DEF DebtInv
  <2>5. QED
    BY <2>4 DEF TrailGapsBounded
<1>3. QED
  BY <1>1, <1>2, DebtNext, HeldInvariant, PTL DEF Spec
=============================================================================

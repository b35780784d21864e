-------------------------- MODULE ClusterClaimProofs --------------------------
(***************************************************************************)
(* Theorems about ClusterClaim, for every number of claims, devices,       *)
(* address records, faults, user edits and, where not said otherwise,      *)
(* workers.                                                                *)
(***************************************************************************)
EXTENDS ClusterClaimInv, FiniteSetTheorems, TLAPS

-------------------------------------------------------------------------------
(* What the building blocks of the actions do to the types *)

LEMMA FreshType == ASSUME NEW n \in 1..MaxWant PROVE Fresh(n) \in Claim
BY DEF Fresh, Claim, Phase

LEMMA FinishType ==
    ASSUME WorkerTypeOK, NEW c \in Claims, Finish(c)
    PROVE  WorkerTypeOK'
<1>1. Fresh(1) \in Claim
  BY FreshType, BoundAssumption
<1>2. QED
  BY <1>1 DEF WorkerTypeOK, Finish, Place

LEMMA StartType ==
    ASSUME WorkerTypeOK, ObjectTypeOK, NEW c \in Claims, NEW place \in Place,
           NEW copy \in Claim, NEW work \in SUBSET Machines, Start(c, place, copy, work)
    PROVE  WorkerTypeOK' /\ queued' \in [Claims -> BOOLEAN]
BY DEF WorkerTypeOK, ObjectTypeOK, Start

LEMMA StoreType ==
    ASSUME ObjectTypeOK, NEW c \in Claims, NEW new \in Claim, NEW again \in BOOLEAN,
           Store(c, new, again)
    PROVE  ObjectTypeOK'
<1>1. (again \/ ~Lag) \in BOOLEAN
  OBVIOUS
<1>2. QED
  BY <1>1 DEF ObjectTypeOK, Store

LEMMA RetryType ==
    ASSUME ObjectTypeOK, NEW c \in Claims, Retry(c)
    PROVE  ObjectTypeOK'
BY DEF ObjectTypeOK, Retry, objectVars

LEMMA ReturnType ==
    ASSUME ObjectTypeOK, NEW c \in Claims, NEW again \in BOOLEAN, Return(c, again)
    PROVE  ObjectTypeOK'
BY DEF ObjectTypeOK, Return, objectVars

LEMMA FaultType ==
    ASSUME faults \in 0..MaxFaults, NEW kind, NEW n \in Nat, Fault(kind, n)
    PROVE  faults' \in 0..MaxFaults
BY BoundAssumption DEF Fault

LEMMA WriteFailsType ==
    ASSUME ObjectTypeOK, faults \in 0..MaxFaults,
           NEW c \in Claims, NEW new \in Claim, NEW cur \in BOOLEAN,
           WriteFails(c, new, cur)
    PROVE  ObjectTypeOK' /\ faults' \in 0..MaxFaults
<1>1. CASE Retry(c) /\ UNCHANGED faults
  BY <1>1, RetryType
<1>2. CASE Fault("api", 1) /\ Retry(c)
  BY <1>2, RetryType, FaultType
<1>3. CASE Fault("api", 1) /\ Store(c, new, TRUE)
  BY <1>3, StoreType, FaultType
<1>4. QED
  BY <1>1, <1>2, <1>3 DEF WriteFails

LEMMA WriteType ==
    ASSUME ObjectTypeOK, faults \in 0..MaxFaults,
           NEW c \in Claims, NEW new \in Claim, NEW cur \in BOOLEAN,
           NEW again \in BOOLEAN, Write(c, new, cur, again)
    PROVE  ObjectTypeOK' /\ faults' \in 0..MaxFaults
<1>1. CASE Store(c, new, again) /\ UNCHANGED faults
  BY <1>1, StoreType
<1>2. CASE WriteFails(c, new, cur)
  BY <1>2, WriteFailsType
<1>3. QED
  BY <1>1, <1>2 DEF Write

LEMMA RoleStoreType ==
    ASSUME RoleTypeOK, NEW t \in Tenants, NEW new \in Role, RoleStore(t, new)
    PROVE  RoleTypeOK'
BY DEF RoleTypeOK, RoleStore

LEMMA SetDeviceStatusType ==
    ASSUME NetboxTypeOK, NEW S, NEW status \in DeviceStatus,
           NEW slug \in Tenants \cup {NoTenant}, SetDeviceStatus(S, status, slug)
    PROVE  device' \in [Machines -> Device]
BY DEF NetboxTypeOK, SetDeviceStatus, Patched, Device

LEMMA ReleaseIPType ==
    ASSUME NetboxTypeOK, NEW S, ReleaseIP(S)
    PROVE  ipam' \in [IPs -> Address]
BY DEF NetboxTypeOK, ReleaseIP, Address, NoName

LEMMA Frames ==
    ASSUME TypeOK
    PROVE  /\ UNCHANGED netboxVars => NetboxTypeOK'
           /\ UNCHANGED roleVars => RoleTypeOK'
           /\ UNCHANGED workerVars => WorkerTypeOK'
           /\ (UNCHANGED objectVars /\ queued' \in [Claims -> BOOLEAN]) => ObjectTypeOK'
           /\ (UNCHANGED <<job, infra>>) => EnvironmentTypeOK'
BY DEF TypeOK, netboxVars, NetboxTypeOK, roleVars, RoleTypeOK, workerVars, WorkerTypeOK,
       objectVars, ObjectTypeOK, EnvironmentTypeOK

-------------------------------------------------------------------------------
(* Every action keeps the types *)

LEMMA BeginType == ASSUME TypeOK, NEW c \in Claims, Begin(c) PROVE TypeOK'
<1>0. cache[c] \in Claim /\ claim[c] \in Claim /\ cacheCur[c] \in BOOLEAN
  BY DEF TypeOK, ObjectTypeOK
<1>1. CASE ReconcileGone(c)
  <2>1. ObjectTypeOK'
    BY <1>1, ReturnType DEF ReconcileGone, TypeOK
  <2>2. QED
    BY <1>1, <2>1, Frames DEF ReconcileGone, TypeOK
<1>2. CASE AddFinalizer(c)
  <2>1. [cache[c] EXCEPT !.finalizer = TRUE] \in Claim
    BY <1>0 DEF Claim
  <2>2. ObjectTypeOK' /\ faults' \in 0..MaxFaults
    BY <1>2, <1>0, <2>1, WriteType DEF AddFinalizer, TypeOK
  <2>3. QED
    BY <1>2, <2>2, Frames DEF AddFinalizer, TypeOK
<1>3. CASE IgnoreFailed(c)
  <2>1. ObjectTypeOK'
    BY <1>3, ReturnType DEF IgnoreFailed, TypeOK
  <2>2. QED
    BY <1>3, <2>1, Frames DEF IgnoreFailed, TypeOK
<1>4. CASE Validate(c)
  <2> DEFINE passed == /\ c \in Resolvable
                       /\ Cardinality(ListAvailableDevices) >= cache[c].want
             to(p) == [cache[c] EXCEPT !.phase = p]
  <2>1. to("Provisioning") \in Claim /\ to("Failed") \in Claim
    BY <1>0 DEF Claim, Phase
  <2>2. passed \in BOOLEAN /\ to(IF passed THEN "Provisioning" ELSE "Failed") \in Claim
    BY <2>1
  <2>3. ASSUME Write(c, to(IF passed THEN "Provisioning" ELSE "Failed"), cacheCur[c], passed)
        PROVE  ObjectTypeOK' /\ faults' \in 0..MaxFaults
    BY <1>0, <2>2, <2>3, WriteType DEF TypeOK
  <2>4. ASSUME Fault("netbox", 1), Retry(c) \/ Store(c, to("Failed"), FALSE)
        PROVE  ObjectTypeOK' /\ faults' \in 0..MaxFaults
    BY <2>1, <2>4, RetryType, StoreType, FaultType DEF TypeOK
  <2>5. ObjectTypeOK' /\ faults' \in 0..MaxFaults
    BY <1>4, <2>3, <2>4 DEF Validate, TypeOK
  <2>6. QED
    BY <1>4, <2>5, Frames DEF Validate, TypeOK
<1>5. CASE BeginProvision(c)
  <2>1. FirstCall(cache[c]) \in Place
    BY DEF FirstCall, Place
  <2>2. WorkerTypeOK' /\ queued' \in [Claims -> BOOLEAN]
    BY <1>0, <1>5, <2>1, StartType DEF BeginProvision, TypeOK
  <2>3. QED
    BY <1>5, <2>2, Frames DEF BeginProvision, TypeOK
<1>6. CASE WatchAddons(c)
  <2>1. [cache[c] EXCEPT !.phase = "AddonsReady"] \in Claim
    BY <1>0 DEF Claim, Phase
  <2>2. ObjectTypeOK' /\ faults' \in 0..MaxFaults
    BY <1>0, <1>6, <2>1, WriteType, ReturnType, RetryType, FaultType
       DEF WatchAddons, TypeOK
  <2>3. EnvironmentTypeOK'
    BY <1>6 DEF WatchAddons, TypeOK, EnvironmentTypeOK
  <2>4. QED
    BY <1>6, <2>2, <2>3, Frames DEF WatchAddons, TypeOK
<1>7. CASE Grant(c)
  <2> DEFINE t == TenantOf[c]
             granted == [roleSeen[t] EXCEPT !.names = @ \cup {c}]
             ready == [cache[c] EXCEPT !.phase = "Ready", !.kube = TRUE]
  <2>1. t \in Tenants /\ granted \in Role
    BY ClaimAssumption DEF TypeOK, RoleTypeOK, Role
  <2>2. ready \in Claim /\ "saveReady" \in Place
    BY <1>0 DEF Claim, Phase, Place
  <2>3. RoleTypeOK'
    BY <1>7, <2>1, RoleStoreType, Frames DEF Grant, TypeOK
  <2>4. ASSUME Start(c, "saveReady", ready, {}), UNCHANGED <<objectVars, faults>>
        PROVE  WorkerTypeOK' /\ ObjectTypeOK' /\ faults' \in 0..MaxFaults
    BY <2>2, <2>4, StartType, Frames DEF TypeOK
  <2>5. ASSUME UNCHANGED <<workerVars, faults>>, Return(c, TRUE) \/ Retry(c)
        PROVE  WorkerTypeOK' /\ ObjectTypeOK' /\ faults' \in 0..MaxFaults
    BY <2>5, ReturnType, RetryType, Frames DEF TypeOK
  <2>6. ASSUME Fault("api", 1), Retry(c), UNCHANGED workerVars
        PROVE  WorkerTypeOK' /\ ObjectTypeOK' /\ faults' \in 0..MaxFaults
    BY <2>6, FaultType, RetryType, Frames DEF TypeOK
  <2>7. WorkerTypeOK' /\ ObjectTypeOK' /\ faults' \in 0..MaxFaults
    BY <1>7, <2>4, <2>5, <2>6 DEF Grant
  <2>8. QED
    BY <1>7, <2>3, <2>7, Frames DEF Grant, TypeOK
<1>8. CASE GraceDelete(c)
  <2>1. [claim[c] EXCEPT !.life = "deleting"] \in Claim
    BY <1>0 DEF Claim
  <2>2. ObjectTypeOK' /\ faults' \in 0..MaxFaults
    BY <1>8, <2>1, StoreType, ReturnType, RetryType, FaultType DEF GraceDelete, TypeOK
  <2>3. QED
    BY <1>8, <2>2, Frames DEF GraceDelete, TypeOK
<1>9. CASE Steady(c)
  <2>1. ObjectTypeOK'
    BY <1>9, ReturnType DEF Steady, TypeOK
  <2>2. QED
    BY <1>9, <2>1, Frames DEF Steady, TypeOK
<1>10. CASE ScaleUp(c)
  <2>1. ASSUME Write(c, cache[c], cacheCur[c], TRUE), UNCHANGED workerVars
        PROVE  WorkerTypeOK' /\ ObjectTypeOK' /\ faults' \in 0..MaxFaults
    BY <1>0, <2>1, WriteType, Frames DEF TypeOK
  <2>2. ASSUME NEW T \in SUBSET ListAvailableDevices, Start(c, "stage", cache[c], T),
               UNCHANGED <<objectVars, faults>>
        PROVE  WorkerTypeOK' /\ ObjectTypeOK' /\ faults' \in 0..MaxFaults
    <3>1. T \in SUBSET Machines /\ "stage" \in Place
      BY DEF ListAvailableDevices, Unassigned, Place
    <3>2. QED
      BY <1>0, <2>2, <3>1, StartType, Frames DEF TypeOK
  <2>3. ASSUME Fault("netbox", 1), UNCHANGED workerVars,
               Retry(c) \/ Store(c, cache[c], TRUE)
        PROVE  WorkerTypeOK' /\ ObjectTypeOK' /\ faults' \in 0..MaxFaults
    BY <1>0, <2>3, RetryType, StoreType, FaultType, Frames DEF TypeOK
  <2>4. WorkerTypeOK' /\ ObjectTypeOK' /\ faults' \in 0..MaxFaults
    BY <1>10, <2>1, <2>2, <2>3 DEF ScaleUp, Choices
  <2>5. QED
    BY <1>10, <2>4, Frames DEF ScaleUp, TypeOK
<1>11. CASE ScaleDown(c)
  <2>1. ASSUME Write(c, cache[c], cacheCur[c], FALSE), UNCHANGED workerVars
        PROVE  WorkerTypeOK' /\ ObjectTypeOK' /\ faults' \in 0..MaxFaults
    BY <1>0, <2>1, WriteType, Frames DEF TypeOK
  <2>2. ASSUME NEW T \in SUBSET cache[c].machines, UNCHANGED <<objectVars, faults>>,
               Start(c, "shrink", [cache[c] EXCEPT !.machines = @ \ T], T)
        PROVE  WorkerTypeOK' /\ ObjectTypeOK' /\ faults' \in 0..MaxFaults
    <3>1. /\ T \in SUBSET Machines /\ "shrink" \in Place
          /\ [cache[c] EXCEPT !.machines = @ \ T] \in Claim
      BY <1>0 DEF Claim, Place
    <3>2. QED
      BY <2>2, <3>1, StartType, Frames DEF TypeOK
  <2>3. WorkerTypeOK' /\ ObjectTypeOK' /\ faults' \in 0..MaxFaults
    BY <1>11, <2>1, <2>2 DEF ScaleDown
  <2>4. QED
    BY <1>11, <2>3, Frames DEF ScaleDown, TypeOK
<1>12. CASE ReleaseAll(c)
  <2>1. ASSUME NEW I, NEW M, Release(c, I, M)
        PROVE  NetboxTypeOK'
    <3>1. "active" \in DeviceStatus
      BY DEF DeviceStatus
    <3>2. QED
      BY <2>1, <3>1, SetDeviceStatusType, ReleaseIPType DEF Release, NetboxTypeOK, TypeOK
  <2>2. Revoke(c) => RoleTypeOK'
    <3>1. TenantOf[c] \in Tenants
      BY ClaimAssumption
    <3>2. [role[TenantOf[c]] EXCEPT !.names = @ \ {c}] \in Role
      BY <3>1 DEF TypeOK, RoleTypeOK, Role
    <3>3. QED
      BY <3>1, <3>2, RoleStoreType, Frames DEF Revoke, TypeOK
  <2>3. [cache[c] EXCEPT !.finalizer = FALSE] \in Claim /\ "removeFinalizer" \in Place
    BY <1>0 DEF Claim, Place
  <2>4. WorkerTypeOK' /\ ObjectTypeOK'
    BY <1>12, <2>3, StartType, Frames DEF ReleaseAll, TypeOK
  <2>5. faults' \in 0..MaxFaults
    <3>1. ASSUME NEW I \in SUBSET cache[c].ips, NEW M \in SUBSET cache[c].machines
          PROVE  Cardinality(I) + Cardinality(M) \in Nat
      <4>1. IsFiniteSet(I) /\ IsFiniteSet(M)
        BY <1>0, ClaimAssumption, FS_Subset DEF Claim
      <4>2. QED
        BY <4>1, FS_CardinalityType
    <3>2. QED
      BY <1>12, <3>1, FaultType DEF ReleaseAll, TypeOK
  <2>6. NetboxTypeOK' /\ RoleTypeOK'
    BY <1>12, <2>1, <2>2, Frames DEF ReleaseAll
  <2>7. QED
    BY <1>12, <2>4, <2>5, <2>6, Frames DEF ReleaseAll, TypeOK
<1>13. QED
  BY <1>1, <1>2, <1>3, <1>4, <1>5, <1>6, <1>7, <1>8, <1>9, <1>10, <1>11, <1>12 DEF Begin

LEMMA ContinueType == ASSUME TypeOK, NEW c \in Claims, Continue(c) PROVE TypeOK'
<1>0. /\ mem[c] \in Claim /\ memCur[c] \in BOOLEAN /\ queued[c] \in BOOLEAN
      /\ todo[c] \in SUBSET Machines /\ claim[c] \in Claim
  BY DEF TypeOK, WorkerTypeOK, ObjectTypeOK
<1>1. CASE AllocateAddress(c)
  <2> DEFINE name == <<c, IF mem[c].cp = NoIP THEN "api" ELSE "wh">>
  <2>1. ASSUME NEW i \in IPs, AllocateIP(i, name)
        PROVE  ipam' \in [IPs -> Address]
    <3>1. name \in DNSNames
      BY DEF DNSNames
    <3>2. QED
      BY <2>1, <3>1 DEF AllocateIP, TypeOK, NetboxTypeOK, Address
  <2>2. NetboxTypeOK'
    BY <1>1, <2>1 DEF AllocateAddress, TypeOK, NetboxTypeOK
  <2>3. ASSUME NEW i \in IPs
        PROVE  WithAddress(mem[c], i) \in Claim
    BY <1>0 DEF WithAddress, Claim
  <2>4. ASSUME NEW i \in IPs, mem' = [mem EXCEPT ![c] = WithAddress(mem[c], i)],
               pc' = [pc EXCEPT ![c] = "saveAddress"], UNCHANGED <<memCur, todo>>
        PROVE  WorkerTypeOK'
    BY <2>3, <2>4 DEF TypeOK, WorkerTypeOK, Place
  <2>5. Finish(c) => WorkerTypeOK'
    BY FinishType DEF TypeOK
  <2>6. WorkerTypeOK'
    BY <1>1, <2>4, <2>5 DEF AllocateAddress
  <2>7. ObjectTypeOK' /\ faults' \in 0..MaxFaults
    BY <1>1, RetryType, FaultType, Frames DEF AllocateAddress, TypeOK, ObjectTypeOK
  <2>8. QED
    BY <1>1, <2>2, <2>6, <2>7, Frames DEF AllocateAddress, TypeOK
<1>2. CASE SaveAddress(c)
  <2>1. FirstCall(mem[c]) \in Place
    BY DEF FirstCall, Place
  <2>2. ASSUME pc' = [pc EXCEPT ![c] = FirstCall(mem[c])], UNCHANGED <<mem, memCur, todo>>
        PROVE  WorkerTypeOK'
    BY <2>1, <2>2 DEF TypeOK, WorkerTypeOK
  <2>3. WorkerTypeOK'
    BY <1>2, <2>2, FinishType DEF SaveAddress, TypeOK
  <2>4. ObjectTypeOK' /\ faults' \in 0..MaxFaults
    BY <1>0, <1>2, StoreType, WriteFailsType DEF SaveAddress, TypeOK
  <2>5. QED
    BY <1>2, <2>3, <2>4, Frames DEF SaveAddress, TypeOK
<1>3. CASE ListMachines(c)
  <2>1. ASSUME NEW T \in SUBSET Machines, todo' = [todo EXCEPT ![c] = T],
               pc' = [pc EXCEPT ![c] = IF T = {} THEN "saveMachines" ELSE "stage"],
               UNCHANGED <<mem, memCur>>
        PROVE  WorkerTypeOK'
    BY <2>1 DEF TypeOK, WorkerTypeOK, Place
  <2>2. ListAvailableDevices \subseteq Machines
    BY DEF ListAvailableDevices, Unassigned
  <2>3. WorkerTypeOK'
    BY <1>3, <2>1, <2>2, FinishType DEF ListMachines, Choices, TypeOK
  <2>4. ObjectTypeOK' /\ faults' \in 0..MaxFaults
    BY <1>3, RetryType, FaultType, Frames DEF ListMachines, TypeOK, ObjectTypeOK
  <2>5. QED
    BY <1>3, <2>3, <2>4, Frames DEF ListMachines, TypeOK
<1>4. CASE StageMachine(c)
  <2>1. "staged" \in DeviceStatus /\ TenantOf[c] \in Tenants
    BY ClaimAssumption DEF DeviceStatus
  <2>2. NetboxTypeOK'
    BY <1>4, <2>1, SetDeviceStatusType DEF StageMachine, TypeOK, NetboxTypeOK
  <2>3. ASSUME NEW m \in todo[c], mem' = [mem EXCEPT ![c].machines = @ \cup {m}],
               todo' = [todo EXCEPT ![c] = @ \ {m}], UNCHANGED memCur,
               pc' = [pc EXCEPT ![c] = IF todo[c] = {m} THEN "saveMachines" ELSE "stage"]
        PROVE  WorkerTypeOK'
    <3>1. [mem[c] EXCEPT !.machines = @ \cup {m}] \in Claim
      BY <1>0 DEF Claim
    <3>2. mem' = [mem EXCEPT ![c] = [mem[c] EXCEPT !.machines = @ \cup {m}]]
      BY <2>3
    <3>3. QED
      BY <1>0, <2>3, <3>1, <3>2 DEF TypeOK, WorkerTypeOK, Place
  <2>4. WorkerTypeOK'
    BY <1>4, <2>3, FinishType DEF StageMachine, TypeOK
  <2>5. ObjectTypeOK' /\ faults' \in 0..MaxFaults
    BY <1>4, RetryType, FaultType, Frames DEF StageMachine, TypeOK, ObjectTypeOK
  <2>6. QED
    BY <1>4, <2>2, <2>4, <2>5, Frames DEF StageMachine, TypeOK
<1>5. CASE SaveMachines(c)
  <2>1. ASSUME pc' = [pc EXCEPT ![c] = "job"], UNCHANGED <<mem, memCur, todo>>
        PROVE  WorkerTypeOK'
    BY <2>1 DEF TypeOK, WorkerTypeOK, Place
  <2>2. WorkerTypeOK'
    BY <1>5, <2>1, FinishType DEF SaveMachines, TypeOK
  <2>3. ObjectTypeOK' /\ faults' \in 0..MaxFaults
    BY <1>0, <1>5, StoreType, WriteFailsType DEF SaveMachines, TypeOK
  <2>4. QED
    BY <1>5, <2>2, <2>3, Frames DEF SaveMachines, TypeOK
<1>6. CASE CreateJob(c)
  <2>1. EnvironmentTypeOK'
    BY <1>6 DEF CreateJob, TypeOK, EnvironmentTypeOK
  <2>2. WorkerTypeOK' /\ ObjectTypeOK' /\ faults' \in 0..MaxFaults
    BY <1>6, FinishType, ReturnType, FaultType DEF CreateJob, TypeOK
  <2>3. QED
    BY <1>6, <2>1, <2>2, Frames DEF CreateJob, TypeOK
<1>7. CASE AwaitJob(c)
  <2>1. WorkerTypeOK' /\ ObjectTypeOK'
    BY <1>7, FinishType, ReturnType DEF AwaitJob, TypeOK
  <2>2. QED
    BY <1>7, <2>1, Frames DEF AwaitJob, TypeOK
<1>8. CASE FailOnJob(c)
  <2>1. [mem[c] EXCEPT !.phase = "Failed"] \in Claim
    BY <1>0 DEF Claim, Phase
  <2>2. WorkerTypeOK' /\ ObjectTypeOK' /\ faults' \in 0..MaxFaults
    BY <1>0, <1>8, <2>1, FinishType, WriteType DEF FailOnJob, TypeOK
  <2>3. QED
    BY <1>8, <2>2, Frames DEF FailOnJob, TypeOK
<1>9. CASE EnsureCluster(c)
  <2> DEFINE next == IF infra[c] \in {"cpReady", "helm", "helmReady"}
                     THEN [mem[c] EXCEPT !.phase = "ClusterReady"] ELSE mem[c]
  <2>1. next \in Claim
    BY <1>0 DEF Claim, Phase
  <2>2. ASSUME Write(c, next, memCur[c], TRUE)
        PROVE  ObjectTypeOK' /\ faults' \in 0..MaxFaults
    BY <1>0, <2>1, <2>2, WriteType DEF TypeOK
  <2>3. ObjectTypeOK' /\ faults' \in 0..MaxFaults
    BY <1>9, <2>2, RetryType, FaultType DEF EnsureCluster, TypeOK
  <2>4. WorkerTypeOK' /\ EnvironmentTypeOK'
    BY <1>9, FinishType DEF EnsureCluster, TypeOK, EnvironmentTypeOK
  <2>5. QED
    BY <1>9, <2>3, <2>4, Frames DEF EnsureCluster, TypeOK
<1>10. CASE SaveReady(c)
  <2>1. WorkerTypeOK' /\ ObjectTypeOK' /\ faults' \in 0..MaxFaults
    BY <1>0, <1>10, FinishType, WriteType DEF SaveReady, TypeOK
  <2>2. QED
    BY <1>10, <2>1, Frames DEF SaveReady, TypeOK
<1>11. CASE ReleaseMachine(c)
  <2>1. "active" \in DeviceStatus
    BY DEF DeviceStatus
  <2>2. NetboxTypeOK'
    BY <1>11, <2>1, SetDeviceStatusType DEF ReleaseMachine, TypeOK, NetboxTypeOK
  <2>3. ASSUME NEW m \in todo[c], todo' = [todo EXCEPT ![c] = @ \ {m}],
               pc' = [pc EXCEPT ![c] = IF todo[c] = {m} THEN "saveMachines" ELSE "shrink"],
               UNCHANGED <<mem, memCur>>
        PROVE  WorkerTypeOK'
    BY <1>0, <2>3 DEF TypeOK, WorkerTypeOK, Place
  <2>4. WorkerTypeOK'
    BY <1>11, <2>3, FinishType DEF ReleaseMachine, TypeOK
  <2>5. ObjectTypeOK' /\ faults' \in 0..MaxFaults
    BY <1>11, RetryType, FaultType, Frames DEF ReleaseMachine, TypeOK, ObjectTypeOK
  <2>6. QED
    BY <1>11, <2>2, <2>4, <2>5, Frames DEF ReleaseMachine, TypeOK
<1>12. CASE RemoveFinalizer(c)
  <2>1. Erased(mem[c]) \in Claim
    BY <1>0 DEF Erased, Claim
  <2>2. WorkerTypeOK' /\ ObjectTypeOK' /\ faults' \in 0..MaxFaults
    BY <1>0, <1>12, <2>1, FinishType, WriteType DEF RemoveFinalizer, TypeOK
  <2>3. QED
    BY <1>12, <2>2, Frames DEF RemoveFinalizer, TypeOK
<1>13. QED
  BY <1>1, <1>2, <1>3, <1>4, <1>5, <1>6, <1>7, <1>8, <1>9, <1>10, <1>11, <1>12
     DEF Continue

LEMMA EditType ==
    ASSUME TypeOK, NEW c \in Claims, NEW new \in Claim, Edit(c, new)
    PROVE  TypeOK'
<1>1. ObjectTypeOK'
  BY StoreType DEF Edit, TypeOK, ObjectTypeOK
<1>2. WorkerTypeOK'
  BY DEF Edit, TypeOK, WorkerTypeOK
<1>3. edits' \in 0..MaxEdits
  BY BoundAssumption DEF Edit, TypeOK
<1>4. QED
  BY <1>1, <1>2, <1>3, Frames DEF Edit, TypeOK

LEMMA UserType == ASSUME TypeOK, NEW c \in Claims, User(c) PROVE TypeOK'
<1>0. claim[c] \in Claim
  BY DEF TypeOK, ObjectTypeOK
<1>1. CASE Scale(c)
  <2>1. ASSUME NEW n \in 1..MaxWant PROVE [claim[c] EXCEPT !.want = n] \in Claim
    BY <1>0 DEF Claim
  <2>2. QED
    BY <1>1, <2>1, EditType DEF Scale
<1>2. CASE Annotate(c)
  <2>1. [claim[c] EXCEPT !.deleteAt = ~@] \in Claim
    BY <1>0 DEF Claim
  <2>2. QED
    BY <1>2, <2>1, EditType DEF Annotate
<1>3. CASE Delete(c)
  <2>1. Erased(claim[c]) \in Claim /\ [claim[c] EXCEPT !.life = "deleting"] \in Claim
    BY <1>0 DEF Erased, Claim
  <2>2. QED
    BY <1>3, <2>1, EditType DEF Delete
<1>4. QED
  BY <1>1, <1>2, <1>3 DEF User

LEMMA EnvironmentType ==
    ASSUME TypeOK,
           \/ Restart
           \/ \E c \in Claims : CacheSync(c) \/ JobRuns(c) \/ InfraRuns(c)
           \/ \E t \in Tenants : TenantSync(t) \/ RoleCacheSync(t)
           \/ \E m \in Machines : Recycle(m)
    PROVE  TypeOK'
<1>1. CASE Restart
  <2>1. Fresh(1) \in Claim
    BY FreshType, BoundAssumption
  <2>2. WorkerTypeOK'
    BY <1>1, <2>1 DEF Restart, WorkerTypeOK, Place
  <2>3. ObjectTypeOK' /\ RoleTypeOK'
    BY <1>1 DEF Restart, TypeOK, ObjectTypeOK, RoleTypeOK
  <2>4. faults' \in 0..MaxFaults
    BY <1>1, FaultType DEF Restart, TypeOK
  <2>5. QED
    BY <1>1, <2>2, <2>3, <2>4, Frames DEF Restart, TypeOK
<1>2. ASSUME NEW c \in Claims, CacheSync(c) PROVE TypeOK'
  <2>1. ObjectTypeOK'
    BY <1>2 DEF CacheSync, TypeOK, ObjectTypeOK
  <2>2. QED
    BY <1>2, <2>1, Frames DEF CacheSync, TypeOK
<1>3. ASSUME NEW c \in Claims, JobRuns(c) PROVE TypeOK'
  <2>1. EnvironmentTypeOK' /\ queued' \in [Claims -> BOOLEAN]
    BY <1>3, OutcomeAssumption DEF JobRuns, TypeOK, EnvironmentTypeOK, ObjectTypeOK
  <2>2. QED
    BY <1>3, <2>1, Frames DEF JobRuns, TypeOK
<1>4. ASSUME NEW c \in Claims, InfraRuns(c) PROVE TypeOK'
  <2>1. EnvironmentTypeOK' /\ queued' \in [Claims -> BOOLEAN]
    BY <1>4 DEF InfraRuns, TypeOK, EnvironmentTypeOK, ObjectTypeOK
  <2>2. QED
    BY <1>4, <2>1, Frames DEF InfraRuns, TypeOK
<1>5. ASSUME NEW t \in Tenants, TenantSync(t) PROVE TypeOK'
  <2>1. [exists |-> TRUE, names |-> {}] \in Role
    BY DEF Role
  <2>2. RoleTypeOK'
    BY <1>5, <2>1, RoleStoreType DEF TenantSync, ReconcileTenantRole, TypeOK
  <2>3. QED
    BY <1>5, <2>2, Frames DEF TenantSync, TypeOK, ObjectTypeOK
<1>6. ASSUME NEW t \in Tenants, RoleCacheSync(t) PROVE TypeOK'
  <2>1. RoleTypeOK'
    BY <1>6 DEF RoleCacheSync, RoleSync, TypeOK, RoleTypeOK
  <2>2. QED
    BY <1>6, <2>1, Frames DEF RoleCacheSync, TypeOK, ObjectTypeOK
<1>7. ASSUME NEW m \in Machines, Recycle(m) PROVE TypeOK'
  <2>1. NetboxTypeOK'
    BY <1>7 DEF Recycle, ClearTenant, TypeOK, NetboxTypeOK, Device
  <2>2. QED
    BY <1>7, <2>1, Frames DEF Recycle, TypeOK, ObjectTypeOK
<1>8. QED
  BY <1>1, <1>2, <1>3, <1>4, <1>5, <1>6, <1>7

LEMMA InitType == Init => TypeOK
<1> SUFFICES ASSUME Init PROVE TypeOK
  OBVIOUS
<1>1. NetboxTypeOK /\ RoleTypeOK
  BY DEF Init, NetboxInit, RoleInit, NetboxTypeOK, RoleTypeOK, Device, DeviceStatus,
         Address, Role
<1>2. Fresh(1) \in Claim /\ {Fresh(n) : n \in 1..MaxWant} \subseteq Claim
  BY FreshType, BoundAssumption
<1>3. ObjectTypeOK /\ WorkerTypeOK /\ EnvironmentTypeOK
  BY <1>2 DEF Init, ObjectTypeOK, WorkerTypeOK, EnvironmentTypeOK, Place
<1>4. QED
  BY <1>1, <1>3, BoundAssumption DEF Init, TypeOK

LEMMA NextType == TypeOK /\ [Next]_vars => TypeOK'
<1> SUFFICES ASSUME TypeOK, [Next]_vars PROVE TypeOK'
  OBVIOUS
<1>1. CASE UNCHANGED vars
  <2>1. /\ UNCHANGED netboxVars /\ UNCHANGED roleVars /\ UNCHANGED workerVars
        /\ UNCHANGED objectVars /\ UNCHANGED <<job, infra>> /\ queued' = queued
        /\ faults' = faults /\ edits' = edits
    BY <1>1 DEF vars, netboxVars, roleVars, workerVars, objectVars
  <2>2. QED
    BY <2>1, Frames DEF TypeOK, ObjectTypeOK
<1>2. QED
  BY <1>1, BeginType, ContinueType, UserType, EnvironmentType DEF Next

\* Every variable keeps its type, whatever the numbers of claims, workers and faults.
THEOREM TypeCorrect == Spec => []TypeOK
<1>1. QED
  BY InitType, NextType, PTL DEF Spec

-------------------------------------------------------------------------------
(* The optimistic lock: what the writes of a step can do to the claims *)

Follows(p, q) == p = q \/ <<p, q>> \in PhaseSteps

\* Claim c keeps its devices and addresses, and its phase moves along PhaseSteps.
Rewrites(c) ==
    \/ claim' = claim
    \/ \E new \in Claim : /\ claim' = [claim EXCEPT ![c] = new]
                          /\ new.machines = claim[c].machines
                          /\ new.ips = claim[c].ips
                          /\ Follows(claim[c].phase, new.phase)

LEMMA StoreEffect ==
    ASSUME TypeOK, CacheFaithful, NEW c \in Claims, NEW new \in Claim, NEW again,
           Store(c, new, again)
    PROVE  claim' = [claim EXCEPT ![c] = new] /\ CacheFaithful'
BY DEF TypeOK, ObjectTypeOK, CacheFaithful, Store

LEMMA SameObjects ==
    ASSUME CacheFaithful, UNCHANGED objectVars
    PROVE  claim' = claim /\ CacheFaithful'
BY DEF CacheFaithful, objectVars

LEMMA WriteFailsEffect ==
    ASSUME TypeOK, CacheFaithful, NEW c \in Claims, NEW new \in Claim, NEW cur,
           WriteFails(c, new, cur)
    PROVE  /\ CacheFaithful'
           /\ claim' = claim \/ (cur /\ claim' = [claim EXCEPT ![c] = new])
<1>1. Retry(c) => UNCHANGED objectVars
  BY DEF Retry
<1>2. QED
  BY <1>1, SameObjects, StoreEffect DEF WriteFails

LEMMA WriteEffect ==
    ASSUME TypeOK, CacheFaithful, NEW c \in Claims, NEW new \in Claim, NEW cur, NEW again,
           Write(c, new, cur, again)
    PROVE  /\ CacheFaithful'
           /\ claim' = claim \/ (cur /\ claim' = [claim EXCEPT ![c] = new])
BY WriteFailsEffect, StoreEffect DEF Write

\* A handler that writes what it read from the informer rewrites its claim only.
LEMMA CachedWrite ==
    ASSUME TypeOK, CacheFaithful, NEW c \in Claims, NEW new \in Claim, NEW again,
           Write(c, new, cacheCur[c], again),
           new.machines = cache[c].machines, new.ips = cache[c].ips,
           Follows(cache[c].phase, new.phase)
    PROVE  CacheFaithful' /\ Rewrites(c)
BY WriteEffect DEF CacheFaithful, Rewrites

LEMMA CachedStore ==
    ASSUME TypeOK, CacheFaithful, NEW c \in Claims, NEW new \in Claim, NEW again,
           Store(c, new, again), cacheCur[c],
           new.machines = cache[c].machines, new.ips = cache[c].ips,
           Follows(cache[c].phase, new.phase)
    PROVE  CacheFaithful' /\ Rewrites(c)
BY StoreEffect DEF CacheFaithful, Rewrites

LEMMA NoWrite ==
    ASSUME CacheFaithful, NEW c,
           UNCHANGED objectVars \/ Retry(c) \/ (\E again : Return(c, again))
    PROVE  CacheFaithful' /\ Rewrites(c)
<1>1. UNCHANGED objectVars
  BY DEF Retry, Return
<1>2. QED
  BY <1>1, SameObjects DEF Rewrites

LEMMA BeginRewrites ==
    ASSUME TypeOK, CacheFaithful, NEW c \in Claims, Begin(c)
    PROVE  CacheFaithful' /\ Rewrites(c)
<1>0. cache[c] \in Claim /\ claim[c] \in Claim
  BY DEF TypeOK, ObjectTypeOK
<1>1. CASE ReconcileGone(c)
  BY <1>1, NoWrite DEF ReconcileGone
<1>2. CASE AddFinalizer(c)
  <2> DEFINE new == [cache[c] EXCEPT !.finalizer = TRUE]
  <2>1. /\ new \in Claim /\ new.machines = cache[c].machines /\ new.ips = cache[c].ips
        /\ Follows(cache[c].phase, new.phase)
    BY <1>0 DEF Claim, Follows
  <2>2. QED
    BY <1>2, <2>1, CachedWrite DEF AddFinalizer
<1>3. CASE IgnoreFailed(c)
  BY <1>3, NoWrite DEF IgnoreFailed
<1>4. CASE Validate(c)
  <2> DEFINE passed == /\ c \in Resolvable
                       /\ Cardinality(ListAvailableDevices) >= cache[c].want
             to(p) == [cache[c] EXCEPT !.phase = p]
  <2>1. ASSUME NEW p \in {"Provisioning", "Failed"}
        PROVE  /\ to(p) \in Claim /\ to(p).machines = cache[c].machines
               /\ to(p).ips = cache[c].ips /\ Follows(cache[c].phase, to(p).phase)
    BY <1>0, <1>4 DEF Claim, Phase, Follows, PhaseSteps, Validate, Takes
  <2>2. ASSUME Write(c, to(IF passed THEN "Provisioning" ELSE "Failed"), cacheCur[c], passed)
        PROVE  CacheFaithful' /\ Rewrites(c)
    BY <2>1, <2>2, CachedWrite
  <2>3. ASSUME cacheCur[c], Store(c, to("Failed"), FALSE)
        PROVE  CacheFaithful' /\ Rewrites(c)
    BY <2>1, <2>3, CachedStore
  <2>4. QED
    BY <1>4, <2>2, <2>3, NoWrite DEF Validate
<1>5. CASE BeginProvision(c)
  BY <1>5, NoWrite DEF BeginProvision
<1>6. CASE WatchAddons(c)
  <2> DEFINE new == [cache[c] EXCEPT !.phase = "AddonsReady"]
  <2>1. /\ new \in Claim /\ new.machines = cache[c].machines /\ new.ips = cache[c].ips
        /\ Follows(cache[c].phase, new.phase)
    BY <1>0, <1>6 DEF Claim, Phase, Follows, PhaseSteps, WatchAddons, Takes
  <2>2. QED
    BY <1>6, <2>1, CachedWrite, NoWrite DEF WatchAddons
<1>7. CASE Grant(c)
  BY <1>7, NoWrite DEF Grant
<1>8. CASE GraceDelete(c)
  <2> DEFINE new == [claim[c] EXCEPT !.life = "deleting"]
  <2>1. /\ new \in Claim /\ new.machines = claim[c].machines /\ new.ips = claim[c].ips
        /\ Follows(claim[c].phase, new.phase)
    BY <1>0 DEF Claim, Follows
  <2>2. ASSUME NEW again, Store(c, new, again)
        PROVE  CacheFaithful' /\ Rewrites(c)
    BY <2>1, <2>2, StoreEffect DEF Rewrites
  <2>3. QED
    BY <1>8, <2>2, NoWrite DEF GraceDelete
<1>9. CASE Steady(c)
  BY <1>9, NoWrite DEF Steady
<1>10. CASE ScaleUp(c)
  <2>1. Follows(cache[c].phase, cache[c].phase)
    BY DEF Follows
  <2>2. QED
    BY <1>0, <1>10, <2>1, CachedWrite, CachedStore, NoWrite DEF ScaleUp
<1>11. CASE ScaleDown(c)
  <2>1. Follows(cache[c].phase, cache[c].phase)
    BY DEF Follows
  <2>2. QED
    BY <1>0, <1>11, <2>1, CachedWrite, NoWrite DEF ScaleDown
<1>12. CASE ReleaseAll(c)
  BY <1>12, NoWrite DEF ReleaseAll
<1>13. QED
  BY <1>1, <1>2, <1>3, <1>4, <1>5, <1>6, <1>7, <1>8, <1>9, <1>10, <1>11, <1>12 DEF Begin

-------------------------------------------------------------------------------
(* PhaseInv: what a worker's copy says of its claim's phase *)

Provisions == {"allocate", "saveAddress", "list", "job"}

LEMMA StartKeepsPhase ==
    ASSUME TypeOK, PhaseInv, CacheFaithful', claim' = claim, NEW c \in Claims,
           NEW place \in Place \ {"idle"}, NEW copy \in Claim, NEW work,
           Start(c, place, copy, work),
           IF place = "saveReady" THEN cache[c].phase = "AddonsReady" /\ copy.phase = "Ready"
                                  ELSE copy.phase = cache[c].phase,
           place \in Provisions => copy.phase = "Provisioning"
    PROVE  PhaseInv'
<1> USE DEF TypeOK, WorkerTypeOK, Start
<1>1. CopyHeld'
  BY DEF PhaseInv, CopyHeld
<1>2. CopyPhase'
  BY DEF PhaseInv, CopyPhase, CacheFaithful
<1>3. PlacePhase'
  BY DEF PhaseInv, PlacePhase, Provisions
<1>4. QED
  BY <1>1, <1>2, <1>3 DEF PhaseInv

LEMMA FinishKeepsPhase ==
    ASSUME TypeOK, PhaseInv, CacheFaithful', NEW c \in Claims, Finish(c),
           \A d \in Claims \ {c} : claim'[d] = claim[d]
    PROVE  PhaseInv'
<1> USE DEF TypeOK, WorkerTypeOK, Finish
<1>1. CopyHeld'
  BY DEF PhaseInv, CopyHeld
<1>2. CopyPhase'
  BY DEF PhaseInv, CopyPhase
<1>3. PlacePhase'
  BY DEF PhaseInv, PlacePhase
<1>4. QED
  BY <1>1, <1>2, <1>3 DEF PhaseInv

LEMMA AdvanceKeepsPhase ==
    ASSUME TypeOK, PhaseInv, CacheFaithful', NEW c \in Claims,
           NEW place \in Place \ {"idle", "saveReady"}, pc[c] \notin {"idle", "saveReady"},
           pc' = [pc EXCEPT ![c] = place], memCur' = memCur,
           \A d \in Claims \ {c} : mem'[d] = mem[d] /\ claim'[d] = claim[d],
           mem'[c].phase = mem[c].phase,
           \/ claim'[c].phase = claim[c].phase
           \/ memCur[c] /\ claim'[c].phase = mem[c].phase,
           place \in Provisions => mem[c].phase = "Provisioning"
    PROVE  PhaseInv'
<1> USE DEF TypeOK, WorkerTypeOK
<1>1. CopyHeld'
  BY DEF PhaseInv, CopyHeld
<1>2. CopyPhase'
  BY DEF PhaseInv, CopyPhase
<1>3. PlacePhase'
  BY DEF PhaseInv, PlacePhase, Provisions
<1>4. QED
  BY <1>1, <1>2, <1>3 DEF PhaseInv

\* A handler that is over in one action leaves no copy behind.
LEMMA IdleKeepsPhase ==
    ASSUME TypeOK, PhaseInv, CacheFaithful', NEW c \in Claims, pc[c] = "idle",
           UNCHANGED workerVars, Rewrites(c)
    PROVE  PhaseInv'
<1>1. \A d \in Claims \ {c} : claim'[d] = claim[d]
  BY DEF Rewrites, TypeOK, ObjectTypeOK
<1>2. QED
  BY <1>1 DEF workerVars, PhaseInv, CopyHeld, CopyPhase, PlacePhase

LEMMA BeginPhase == ASSUME TypeOK, PhaseInv, NEW c \in Claims, Begin(c) PROVE PhaseInv'
<1>0. /\ cache[c] \in Claim /\ pc[c] = "idle"
      /\ CacheFaithful' /\ Rewrites(c)
  <2>1. CacheFaithful' /\ Rewrites(c)
    BY BeginRewrites DEF PhaseInv
  <2>2. pc[c] = "idle"
    BY DEF Begin, ReconcileGone, AddFinalizer, IgnoreFailed, Validate, BeginProvision,
           WatchAddons, Grant, GraceDelete, Steady, ScaleUp, ScaleDown, ReleaseAll,
           Takes, Dequeue
  <2>3. QED
    BY <2>1, <2>2 DEF TypeOK, ObjectTypeOK
<1>1. CASE UNCHANGED workerVars
  BY <1>0, <1>1, IdleKeepsPhase
<1>2. CASE BeginProvision(c)
  <2>1. /\ Start(c, FirstCall(cache[c]), cache[c], {}) /\ cache[c].phase = "Provisioning"
        /\ claim' = claim
    BY <1>2 DEF BeginProvision, Takes, objectVars
  <2>2. FirstCall(cache[c]) \in Place \ {"idle", "saveReady"}
    BY DEF FirstCall, Place
  <2>3. QED
    BY <1>0, <2>1, <2>2, StartKeepsPhase
<1>3. CASE Grant(c)
  <2> DEFINE ready == [cache[c] EXCEPT !.phase = "Ready", !.kube = TRUE]
  <2>1. ready \in Claim /\ ready.phase = "Ready" /\ cache[c].phase = "AddonsReady"
    BY <1>0, <1>3 DEF Claim, Phase, Grant, Takes
  <2>2. ASSUME Start(c, "saveReady", ready, {}), UNCHANGED objectVars
        PROVE  PhaseInv'
    <3>1. claim' = claim /\ "saveReady" \in Place \ {"idle"} /\ "saveReady" \notin Provisions
      BY <2>2 DEF objectVars, Place, Provisions
    <3>2. QED
      BY <1>0, <2>1, <2>2, <3>1, StartKeepsPhase
  <2>3. QED
    BY <1>1, <1>3, <2>2 DEF Grant
<1>4. CASE ScaleUp(c)
  <2>1. ASSUME NEW T, Start(c, "stage", cache[c], T), UNCHANGED objectVars
        PROVE  PhaseInv'
    <3>1. claim' = claim /\ "stage" \in Place \ {"idle", "saveReady"} /\ "stage" \notin Provisions
      BY <2>1 DEF objectVars, Place, Provisions
    <3>2. QED
      BY <1>0, <2>1, <3>1, StartKeepsPhase
  <2>2. QED
    BY <1>1, <1>4, <2>1 DEF ScaleUp
<1>5. CASE ScaleDown(c)
  <2>1. ASSUME NEW T, Start(c, "shrink", [cache[c] EXCEPT !.machines = @ \ T], T),
               UNCHANGED objectVars
        PROVE  PhaseInv'
    <3>1. /\ claim' = claim /\ "shrink" \in Place \ {"idle", "saveReady"}
          /\ "shrink" \notin Provisions
          /\ [cache[c] EXCEPT !.machines = @ \ T] \in Claim
          /\ [cache[c] EXCEPT !.machines = @ \ T].phase = cache[c].phase
      BY <1>0, <2>1 DEF objectVars, Place, Provisions, Claim
    <3>2. QED
      BY <1>0, <2>1, <3>1, StartKeepsPhase
  <2>2. QED
    BY <1>1, <1>5, <2>1 DEF ScaleDown
<1>6. CASE ReleaseAll(c)
  <2> DEFINE copy == [cache[c] EXCEPT !.finalizer = FALSE]
  <2>1. Start(c, "removeFinalizer", copy, {}) /\ claim' = claim
    BY <1>6 DEF ReleaseAll, objectVars
  <2>2. /\ copy \in Claim /\ copy.phase = cache[c].phase
        /\ "removeFinalizer" \in Place \ {"idle", "saveReady"}
        /\ "removeFinalizer" \notin Provisions
    BY <1>0 DEF Claim, Place, Provisions
  <2>3. QED
    BY <1>0, <2>1, <2>2, StartKeepsPhase
<1>7. QED
  BY <1>1, <1>2, <1>3, <1>4, <1>5, <1>6
     DEF Begin, ReconcileGone, AddFinalizer, IgnoreFailed, Validate, WatchAddons,
         GraceDelete, Steady

\* Claim c is as before, or takes over what a current copy says.
Commits(c) ==
    \/ claim' = claim
    \/ /\ memCur[c]
       /\ \E new \in Claim : /\ claim' = [claim EXCEPT ![c] = new]
                             /\ new.machines \subseteq mem[c].machines
                             /\ new.ips \subseteq mem[c].ips
                             /\ Follows(claim[c].phase, new.phase)

LEMMA CopyWrite ==
    ASSUME TypeOK, CacheFaithful, NEW c \in Claims, NEW new \in Claim, NEW again,
           Write(c, new, memCur[c], again) \/ WriteFails(c, new, memCur[c])
             \/ (memCur[c] /\ Store(c, new, again)),
           new.machines \subseteq mem[c].machines, new.ips \subseteq mem[c].ips,
           memCur[c] => Follows(claim[c].phase, new.phase)
    PROVE  CacheFaithful' /\ Commits(c)
BY WriteEffect, WriteFailsEffect, StoreEffect DEF Commits

LEMMA NoCommit ==
    ASSUME CacheFaithful, NEW c,
           UNCHANGED objectVars \/ Retry(c) \/ (\E again : Return(c, again))
    PROVE  CacheFaithful' /\ Commits(c)
<1>1. UNCHANGED objectVars
  BY DEF Retry, Return
<1>2. QED
  BY <1>1, SameObjects DEF Commits

LEMMA ContinueCommits ==
    ASSUME TypeOK, PhaseInv, NEW c \in Claims, Continue(c)
    PROVE  CacheFaithful' /\ Commits(c)
<1>0. mem[c] \in Claim /\ CacheFaithful
  BY DEF TypeOK, WorkerTypeOK, PhaseInv
<1>1. CASE AllocateAddress(c)
  BY <1>0, <1>1, NoCommit DEF AllocateAddress
<1>2. CASE SaveAddress(c)
  <2>1. memCur[c] => Follows(claim[c].phase, mem[c].phase)
    BY <1>2 DEF SaveAddress, PhaseInv, CopyPhase, Follows
  <2>2. QED
    BY <1>0, <1>2, <2>1, CopyWrite DEF SaveAddress
<1>3. CASE ListMachines(c)
  BY <1>0, <1>3, NoCommit DEF ListMachines
<1>4. CASE StageMachine(c)
  BY <1>0, <1>4, NoCommit DEF StageMachine
<1>5. CASE SaveMachines(c)
  <2>1. memCur[c] => Follows(claim[c].phase, mem[c].phase)
    BY <1>5 DEF SaveMachines, PhaseInv, CopyPhase, Follows
  <2>2. QED
    BY <1>0, <1>5, <2>1, CopyWrite DEF SaveMachines
<1>6. CASE CreateJob(c)
  BY <1>0, <1>6, NoCommit DEF CreateJob
<1>7. CASE AwaitJob(c)
  BY <1>0, <1>7, NoCommit DEF AwaitJob
<1>8. CASE FailOnJob(c)
  <2> DEFINE new == [mem[c] EXCEPT !.phase = "Failed"]
  <2>1. /\ new \in Claim /\ new.machines \subseteq mem[c].machines
        /\ new.ips \subseteq mem[c].ips
    BY <1>0 DEF Claim, Phase
  <2>2. memCur[c] => Follows(claim[c].phase, new.phase)
    BY <1>0, <1>8 DEF FailOnJob, PhaseInv, CopyPhase, PlacePhase, Follows, PhaseSteps, Claim
  <2>3. QED
    BY <1>0, <1>8, <2>1, <2>2, CopyWrite DEF FailOnJob
<1>9. CASE EnsureCluster(c)
  <2> DEFINE new == IF infra[c] \in {"cpReady", "helm", "helmReady"}
                    THEN [mem[c] EXCEPT !.phase = "ClusterReady"] ELSE mem[c]
  <2>1. /\ new \in Claim /\ new.machines \subseteq mem[c].machines
        /\ new.ips \subseteq mem[c].ips
    BY <1>0 DEF Claim, Phase
  <2>2. memCur[c] => Follows(claim[c].phase, new.phase)
    BY <1>0, <1>9 DEF EnsureCluster, PhaseInv, CopyPhase, PlacePhase, Follows, PhaseSteps, Claim
  <2>3. ASSUME Write(c, new, memCur[c], TRUE)
        PROVE  CacheFaithful' /\ Commits(c)
    BY <1>0, <2>1, <2>2, <2>3, CopyWrite
  <2>4. QED
    BY <1>0, <1>9, <2>3, NoCommit DEF EnsureCluster
<1>10. CASE SaveReady(c)
  <2>1. memCur[c] => Follows(claim[c].phase, mem[c].phase)
    BY <1>10 DEF SaveReady, PhaseInv, CopyPhase, Follows, PhaseSteps
  <2>2. QED
    BY <1>0, <1>10, <2>1, CopyWrite DEF SaveReady
<1>11. CASE ReleaseMachine(c)
  BY <1>0, <1>11, NoCommit DEF ReleaseMachine
<1>12. CASE RemoveFinalizer(c)
  <2>1. /\ Erased(mem[c]) \in Claim /\ Erased(mem[c]).machines \subseteq mem[c].machines
        /\ Erased(mem[c]).ips \subseteq mem[c].ips /\ Erased(mem[c]).phase = mem[c].phase
    BY <1>0 DEF Erased, Claim
  <2>2. memCur[c] => Follows(claim[c].phase, Erased(mem[c]).phase)
    BY <1>12, <2>1 DEF RemoveFinalizer, PhaseInv, CopyPhase, Follows
  <2>3. QED
    BY <1>0, <1>12, <2>1, <2>2, CopyWrite DEF RemoveFinalizer
<1>13. QED
  BY <1>1, <1>2, <1>3, <1>4, <1>5, <1>6, <1>7, <1>8, <1>9, <1>10, <1>11, <1>12
     DEF Continue

LEMMA ContinuePhase ==
    ASSUME TypeOK, PhaseInv, NEW c \in Claims, Continue(c)
    PROVE  PhaseInv'
<1>0. /\ mem[c] \in Claim /\ claim[c] \in Claim
      /\ CacheFaithful'
      /\ \A d \in Claims \ {c} : claim'[d] = claim[d]
  <2>1. CacheFaithful' /\ Commits(c)
    BY ContinueCommits
  <2>2. QED
    BY <2>1 DEF Commits, TypeOK, ObjectTypeOK, WorkerTypeOK
<1>1. CASE Finish(c)
  BY <1>0, <1>1, FinishKeepsPhase
<1>2. CASE AllocateAddress(c) /\ ~Finish(c)
  <2>1. PICK i \in IPs : mem' = [mem EXCEPT ![c] = WithAddress(mem[c], i)]
    BY <1>2 DEF AllocateAddress
  <2>2. WithAddress(mem[c], i).phase = mem[c].phase
    BY <1>0 DEF WithAddress, Claim
  <2>3. mem'[c].phase = mem[c].phase /\ \A d \in Claims \ {c} : mem'[d] = mem[d]
    BY <2>1, <2>2 DEF TypeOK, WorkerTypeOK
  <2>4. /\ pc[c] = "allocate" /\ pc' = [pc EXCEPT ![c] = "saveAddress"]
        /\ memCur' = memCur /\ claim' = claim
    BY <1>2 DEF AllocateAddress, objectVars
  <2>5. mem[c].phase = "Provisioning" /\ "saveAddress" \in Place \ {"idle", "saveReady"}
    BY <2>4 DEF PhaseInv, PlacePhase, Place
  <2>6. QED
    BY <1>0, <2>3, <2>4, <2>5, AdvanceKeepsPhase
<1>3. CASE SaveAddress(c) /\ ~Finish(c)
  <2>1. /\ pc[c] = "saveAddress" /\ memCur[c] /\ Store(c, mem[c], queued[c])
        /\ pc' = [pc EXCEPT ![c] = FirstCall(mem[c])] /\ UNCHANGED <<mem, memCur>>
    BY <1>3 DEF SaveAddress
  <2>2. claim'[c] = mem[c]
    BY <2>1 DEF Store, TypeOK, ObjectTypeOK
  <2>3. mem[c].phase = "Provisioning" /\ FirstCall(mem[c]) \in Place \ {"idle", "saveReady"}
    BY <2>1 DEF PhaseInv, PlacePhase, FirstCall, Place
  <2>4. QED
    BY <1>0, <2>1, <2>2, <2>3, AdvanceKeepsPhase
<1>4. CASE ListMachines(c) /\ ~Finish(c)
  <2>1. PICK place \in {"stage", "saveMachines"} :
          /\ pc[c] = "list" /\ pc' = [pc EXCEPT ![c] = place]
          /\ UNCHANGED <<mem, memCur, claim>>
    BY <1>4 DEF ListMachines, objectVars
  <2>2. place \in Place \ {"idle", "saveReady"} /\ place \notin Provisions
    BY DEF Place, Provisions
  <2>3. QED
    BY <1>0, <2>1, <2>2, AdvanceKeepsPhase
<1>5. CASE StageMachine(c) /\ ~Finish(c)
  <2>1. PICK m \in todo[c], place \in {"stage", "saveMachines"} :
          /\ pc[c] = "stage" /\ pc' = [pc EXCEPT ![c] = place]
          /\ mem' = [mem EXCEPT ![c].machines = @ \cup {m}]
          /\ UNCHANGED <<memCur, claim>>
    BY <1>5 DEF StageMachine, objectVars
  <2>2. mem'[c].phase = mem[c].phase /\ \A d \in Claims \ {c} : mem'[d] = mem[d]
    BY <1>0, <2>1 DEF TypeOK, WorkerTypeOK, Claim
  <2>3. place \in Place \ {"idle", "saveReady"} /\ place \notin Provisions
    BY DEF Place, Provisions
  <2>4. QED
    BY <1>0, <2>1, <2>2, <2>3, AdvanceKeepsPhase
<1>6. CASE SaveMachines(c) /\ ~Finish(c)
  <2>1. /\ pc[c] = "saveMachines" /\ memCur[c] /\ mem[c].phase = "Provisioning"
        /\ Store(c, mem[c], queued[c])
        /\ pc' = [pc EXCEPT ![c] = "job"] /\ UNCHANGED <<mem, memCur>>
    BY <1>6 DEF SaveMachines
  <2>2. claim'[c] = mem[c] /\ "job" \in Place \ {"idle", "saveReady"}
    BY <2>1 DEF Store, TypeOK, ObjectTypeOK, Place
  <2>3. QED
    BY <1>0, <2>1, <2>2, AdvanceKeepsPhase
<1>7. CASE ReleaseMachine(c) /\ ~Finish(c)
  <2>1. PICK place \in {"shrink", "saveMachines"} :
          /\ pc[c] = "shrink" /\ pc' = [pc EXCEPT ![c] = place]
          /\ UNCHANGED <<mem, memCur, claim>>
    BY <1>7 DEF ReleaseMachine, objectVars
  <2>2. place \in Place \ {"idle", "saveReady"} /\ place \notin Provisions
    BY DEF Place, Provisions
  <2>3. QED
    BY <1>0, <2>1, <2>2, AdvanceKeepsPhase
<1>8. QED
  BY <1>1, <1>2, <1>3, <1>4, <1>5, <1>6, <1>7
     DEF Continue, CreateJob, AwaitJob, FailOnJob, EnsureCluster, SaveReady, RemoveFinalizer

\* A user's write leaves recorded devices, addresses and the phase alone, or erases the
\* object, and makes every copy stale.
Edits(c) ==
    /\ UNCHANGED <<device, ipam, pc, mem, todo>>
    /\ memCur' = [memCur EXCEPT ![c] = FALSE]
    /\ \E new \in Claim : /\ claim' = [claim EXCEPT ![c] = new]
                          /\ new.machines \subseteq claim[c].machines
                          /\ new.ips \subseteq claim[c].ips
                          /\ new.phase = claim[c].phase

LEMMA UserEffect ==
    ASSUME TypeOK, CacheFaithful, NEW c \in Claims, User(c)
    PROVE  CacheFaithful' /\ Edits(c)
<1>0. claim[c] \in Claim
  BY DEF TypeOK, ObjectTypeOK
<1>1. ASSUME NEW new \in Claim, Edit(c, new),
             new.machines \subseteq claim[c].machines, new.ips \subseteq claim[c].ips,
             new.phase = claim[c].phase
      PROVE  CacheFaithful' /\ Edits(c)
  BY <1>1, StoreEffect DEF Edit, Edits, netboxVars
<1>2. CASE Scale(c)
  <2>1. ASSUME NEW n \in 1..MaxWant
        PROVE  LET new == [claim[c] EXCEPT !.want = n]
               IN  /\ new \in Claim /\ new.machines = claim[c].machines
                   /\ new.ips = claim[c].ips /\ new.phase = claim[c].phase
    BY <1>0 DEF Claim
  <2>2. QED
    BY <1>1, <1>2, <2>1 DEF Scale
<1>3. CASE Annotate(c)
  <2> DEFINE new == [claim[c] EXCEPT !.deleteAt = ~@]
  <2>1. /\ new \in Claim /\ new.machines = claim[c].machines
        /\ new.ips = claim[c].ips /\ new.phase = claim[c].phase
    BY <1>0 DEF Claim
  <2>2. QED
    BY <1>1, <1>3, <2>1 DEF Annotate
<1>4. CASE Delete(c)
  <2> DEFINE new == IF claim[c].finalizer THEN [claim[c] EXCEPT !.life = "deleting"]
                                          ELSE Erased(claim[c])
  <2>1. /\ new \in Claim /\ new.machines \subseteq claim[c].machines
        /\ new.ips \subseteq claim[c].ips /\ new.phase = claim[c].phase
    BY <1>0 DEF Claim, Erased
  <2>2. QED
    BY <1>1, <1>4, <2>1 DEF Delete
<1>5. QED
  BY <1>2, <1>3, <1>4 DEF User

LEMMA UserPhase == ASSUME TypeOK, PhaseInv, NEW c \in Claims, User(c) PROVE PhaseInv'
<1>1. CacheFaithful' /\ Edits(c)
  BY UserEffect DEF PhaseInv
<1>2. \A d \in Claims \ {c} : claim'[d] = claim[d]
  BY <1>1 DEF Edits, TypeOK, ObjectTypeOK
<1>3. QED
  BY <1>1, <1>2 DEF Edits, PhaseInv, CopyHeld, CopyPhase, PlacePhase, TypeOK, WorkerTypeOK

\* What happens outside the controller and its users touches neither a claim nor the
\* place of a worker.
Outside ==
    \/ \E c \in Claims : CacheSync(c) \/ JobRuns(c) \/ InfraRuns(c)
    \/ \E t \in Tenants : TenantSync(t) \/ RoleCacheSync(t)
    \/ \E m \in Machines : Recycle(m)

LEMMA OutsideEffect ==
    ASSUME TypeOK, CacheFaithful, Outside
    PROVE  /\ claim' = claim /\ UNCHANGED workerVars /\ CacheFaithful'
           /\ ipam' = ipam
           /\ (\E m \in Machines : Recycle(m)) \/ device' = device
<1>1. ASSUME NEW c \in Claims, CacheSync(c) PROVE CacheFaithful'
  BY <1>1 DEF CacheSync, CacheFaithful, TypeOK, ObjectTypeOK
<1>2. (~\E c \in Claims : CacheSync(c)) => UNCHANGED objectVars
  BY DEF Outside, JobRuns, InfraRuns, TenantSync, RoleCacheSync, Recycle
<1>3. CacheFaithful'
  BY <1>1, <1>2, SameObjects
<1>4. QED
  BY <1>3 DEF Outside, CacheSync, JobRuns, InfraRuns, TenantSync, RoleCacheSync, Recycle,
              ClearTenant, objectVars, netboxVars

LEMMA PhaseInvInit == Init => PhaseInv
BY DEF Init, PhaseInv, CopyHeld, CacheFaithful, CopyPhase, PlacePhase

LEMMA RestartPhase == ASSUME TypeOK, PhaseInv, Restart PROVE PhaseInv'
BY DEF TypeOK, ObjectTypeOK, Restart, PhaseInv, CopyHeld, CacheFaithful, CopyPhase,
       PlacePhase

LEMMA PhaseInvNext == TypeOK /\ PhaseInv /\ [Next]_vars => PhaseInv'
<1> SUFFICES ASSUME TypeOK, PhaseInv, [Next]_vars PROVE PhaseInv'
  OBVIOUS
<1>1. CASE UNCHANGED vars
  BY <1>1 DEF vars, PhaseInv, CopyHeld, CacheFaithful, CopyPhase, PlacePhase
<1>2. CASE Outside
  <2>1. claim' = claim /\ UNCHANGED workerVars /\ CacheFaithful'
    BY <1>2, OutsideEffect DEF PhaseInv
  <2>2. QED
    BY <2>1 DEF PhaseInv, CopyHeld, CopyPhase, PlacePhase, workerVars
<1>3. QED
  BY <1>1, <1>2, BeginPhase, ContinuePhase, UserPhase, RestartPhase DEF Next, Outside

LEMMA PhaseInvariant == Spec => []PhaseInv
<1>1. QED
  BY TypeCorrect, PhaseInvInit, PhaseInvNext, PTL DEF Spec

LEMMA PhaseMovesNext == TypeOK /\ PhaseInv /\ [Next]_vars => PhaseMoves
<1> SUFFICES ASSUME TypeOK, PhaseInv, [Next]_vars, NEW d \in Claims
             PROVE  Follows(claim[d].phase, claim'[d].phase)
  BY DEF PhaseMoves, Follows
<1>0. claim \in [Claims -> Claim] /\ CacheFaithful
  BY DEF TypeOK, ObjectTypeOK, PhaseInv
<1>1. CASE claim' = claim
  BY <1>1 DEF Follows
<1>2. ASSUME NEW c \in Claims, Rewrites(c) \/ Commits(c) \/ Edits(c)
      PROVE  Follows(claim[d].phase, claim'[d].phase)
  BY <1>0, <1>2 DEF Rewrites, Commits, Edits, Follows
<1>3. QED
  BY <1>0, <1>1, <1>2, BeginRewrites, ContinueCommits, UserEffect, OutsideEffect
     DEF Next, Outside, Restart, vars

\* The phase of a claim moves only along the state machine of the README, with any number
\* of workers, stale informers, crashes and lost requests: the optimistic lock suffices.
THEOREM PhasesMoveForward == Spec => PhaseMonotone
<1>1. QED
  BY TypeCorrect, PhaseInvariant, PhaseMovesNext, PTL DEF Spec, PhaseMonotone

-------------------------------------------------------------------------------
(* SerialInv: one worker never records a device twice *)

SerialParts == OneBusy /\ RecordedAssigned /\ CopyStaged /\ StageFree
               /\ Exclusive /\ CopyExclusive

LEMMA Alone ==
    ASSUME MaxWorkers = 1, NEW c, Dequeue(c)
    PROVE  \A d \in Claims : pc[d] = "idle"
<1>1. IsFiniteSet(Busy)
  BY ClaimAssumption, FS_Subset DEF Busy
<1>2. Cardinality(Busy) = 0
  BY <1>1, FS_CardinalityType DEF Dequeue
<1>3. QED
  BY <1>1, <1>2, FS_EmptySet DEF Busy

LEMMA AloneBusy ==
    ASSUME OneBusy, CopyHeld, NEW c \in Claims, pc[c] # "idle"
    PROVE  \A d \in Claims \ {c} : pc[d] = "idle" /\ ~memCur[d]
BY DEF OneBusy, Busy, CopyHeld

\* Devices keep a tenant once they have one.
Assigns == \A m \in Machines : device[m].tenant # NoTenant => device'[m].tenant # NoTenant

LEMMA SetDeviceStatusEffect ==
    ASSUME TypeOK, NEW S, NEW status, NEW slug, SetDeviceStatus(S, status, slug)
    PROVE  /\ Assigns
           /\ \A m \in Machines \ S : device'[m] = device[m]
           /\ slug = NoTenant => \A m \in Machines : device'[m].tenant = device[m].tenant
           /\ slug # NoTenant =>
                \A m \in Machines \cap S : device'[m] = [status |-> status, tenant |-> slug]
           /\ \A m \in Machines \cap S : device'[m].status = status
BY DEF TypeOK, NetboxTypeOK, Device, SetDeviceStatus, Patched, Assigns

LEMMA StartKeepsSerial ==
    ASSUME MaxWorkers = 1, TypeOK, PhaseInv, SerialParts, claim' = claim,
           \A m \in Machines : device'[m].tenant = device[m].tenant,
           NEW c \in Claims, Dequeue(c),
           NEW place \in Place, NEW copy \in Claim, NEW work, Start(c, place, copy, work),
           copy.machines \subseteq cache[c].machines,
           place = "stage" => \A m \in work : m \in Machines /\ device[m].tenant = NoTenant
    PROVE  SerialParts'
<1>1. \A d \in Claims : pc[d] = "idle" /\ ~memCur[d]
  BY Alone DEF PhaseInv, CopyHeld
<1>2. /\ \A d \in Claims \ {c} : pc'[d] = "idle" /\ ~memCur'[d]
      /\ pc'[c] = place /\ todo'[c] = work /\ mem'[c] = copy
      /\ memCur'[c] => copy.machines \subseteq claim[c].machines
  BY <1>1 DEF Start, TypeOK, WorkerTypeOK, PhaseInv, CacheFaithful
<1>3. \A d \in Claims : claim[d].machines \subseteq Machines
  BY DEF TypeOK, ObjectTypeOK, Claim
<1>4. OneBusy' /\ RecordedAssigned'
  BY <1>2, <1>3 DEF SerialParts, OneBusy, Busy, RecordedAssigned
<1>5. CopyStaged' /\ CopyExclusive' /\ Exclusive'
  BY <1>2 DEF SerialParts, CopyStaged, CopyExclusive, Exclusive
<1>6. StageFree'
  BY <1>2 DEF StageFree
<1>7. QED
  BY <1>4, <1>5, <1>6 DEF SerialParts

\* The end of a reconciliation: the claim may have taken over a current copy.
LEMMA FinishKeepsSerial ==
    ASSUME TypeOK, PhaseInv, SerialParts, Assigns, NEW c \in Claims, pc[c] # "idle",
           Finish(c), Commits(c)
    PROVE  SerialParts'
<1>1. \A d \in Claims : pc'[d] = "idle" /\ ~memCur'[d]
  BY AloneBusy DEF PhaseInv, SerialParts, Finish, TypeOK, WorkerTypeOK
<1>2. /\ \A d \in Claims \ {c} : claim'[d] = claim[d]
      /\ \/ claim'[c] = claim[c]
         \/ memCur[c] /\ claim'[c].machines \subseteq mem[c].machines
  BY DEF Commits, TypeOK, ObjectTypeOK
<1>3. \A d \in Claims : claim[d].machines \subseteq Machines /\ mem[d].machines \subseteq Machines
  BY DEF TypeOK, ObjectTypeOK, WorkerTypeOK, Claim
<1>4. ASSUME memCur[c], NEW m \in mem[c].machines
      PROVE  device[m].tenant # NoTenant
  <2>1. TenantOf[c] \in Tenants /\ NoTenant \notin Tenants
    BY ClaimAssumption, NetboxAssumption
  <2>2. m \in claim[c].machines \/ device[m] = [status |-> "staged", tenant |-> TenantOf[c]]
    BY <1>4 DEF SerialParts, CopyStaged
  <2>3. CASE m \in claim[c].machines
    BY <2>3 DEF SerialParts, RecordedAssigned
  <2>4. CASE device[m] = [status |-> "staged", tenant |-> TenantOf[c]]
    BY <2>1, <2>4
  <2>5. QED
    BY <2>2, <2>3, <2>4
<1>5. RecordedAssigned'
  BY <1>2, <1>3, <1>4 DEF SerialParts, RecordedAssigned, Assigns
<1>6. Exclusive'
  BY <1>2 DEF SerialParts, Exclusive, CopyExclusive
<1>7. OneBusy' /\ CopyStaged' /\ StageFree' /\ CopyExclusive'
  BY <1>1 DEF OneBusy, Busy, CopyStaged, StageFree, CopyExclusive
<1>8. QED
  BY <1>5, <1>6, <1>7 DEF SerialParts

\* A step of the worker that records nothing and changes no device.
LEMMA AdvanceKeepsSerial ==
    ASSUME TypeOK, PhaseInv, SerialParts, UNCHANGED <<device, claim, memCur>>,
           NEW c \in Claims, NEW place \in Place, pc[c] # "idle",
           pc' = [pc EXCEPT ![c] = place],
           \A d \in Claims : mem'[d].machines = mem[d].machines,
           pc[c] = "saveMachines" => place = "saveMachines",
           pc[c] # "stage",
           place = "stage" => \A m \in todo'[c] : device[m].tenant = NoTenant
    PROVE  SerialParts'
<1>1. \A d \in Claims \ {c} : pc[d] = "idle" /\ ~memCur[d] /\ pc'[d] = "idle"
  BY AloneBusy DEF PhaseInv, SerialParts, TypeOK, WorkerTypeOK
<1>2. OneBusy' /\ StageFree'
  BY <1>1 DEF OneBusy, Busy, StageFree, TypeOK, WorkerTypeOK
<1>3. RecordedAssigned' /\ Exclusive' /\ CopyExclusive'
  BY DEF SerialParts, RecordedAssigned, Exclusive, CopyExclusive
<1>4. CopyStaged'
  BY <1>1 DEF SerialParts, CopyStaged, TypeOK, WorkerTypeOK
<1>5. QED
  BY <1>2, <1>3, <1>4 DEF SerialParts

LEMMA IdleKeepsSerial ==
    ASSUME TypeOK, PhaseInv, SerialParts, UNCHANGED workerVars,
           \A m \in Machines : device'[m] = device[m], NEW c \in Claims, Rewrites(c)
    PROVE  SerialParts'
<1>1. \A d \in Claims : /\ claim'[d].machines = claim[d].machines
                        /\ claim[d].machines \subseteq Machines
                        /\ mem[d].machines \subseteq Machines /\ todo[d] \subseteq Machines
  BY DEF Rewrites, TypeOK, ObjectTypeOK, WorkerTypeOK, Claim
<1>2. OneBusy' /\ StageFree'
  BY <1>1 DEF SerialParts, OneBusy, Busy, StageFree, workerVars
<1>3. RecordedAssigned' /\ Exclusive' /\ CopyExclusive'
  BY <1>1 DEF SerialParts, RecordedAssigned, Exclusive, CopyExclusive, workerVars
<1>4. CopyStaged'
  BY <1>1 DEF SerialParts, CopyStaged, workerVars
<1>5. QED
  BY <1>2, <1>3, <1>4 DEF SerialParts

\* A worker saves its current copy and goes on with it.
LEMMA CommitKeepsSerial ==
    ASSUME TypeOK, PhaseInv, SerialParts, UNCHANGED <<device, mem, memCur, todo>>,
           NEW c \in Claims, NEW place \in Place \ {"stage"}, pc[c] # "idle", memCur[c],
           pc' = [pc EXCEPT ![c] = place], claim' = [claim EXCEPT ![c] = mem[c]]
    PROVE  SerialParts'
<1>1. \A d \in Claims \ {c} : /\ pc[d] = "idle" /\ ~memCur[d] /\ pc'[d] = "idle"
                              /\ claim'[d] = claim[d]
  BY AloneBusy DEF PhaseInv, SerialParts, TypeOK, WorkerTypeOK, ObjectTypeOK
<1>2. claim'[c] = mem[c] /\ pc'[c] = place
  BY DEF TypeOK, ObjectTypeOK, WorkerTypeOK
<1>3. ASSUME NEW m \in mem[c].machines
      PROVE  device[m].tenant # NoTenant
  <2>1. TenantOf[c] \in Tenants /\ NoTenant \notin Tenants
    BY ClaimAssumption, NetboxAssumption
  <2>2. m \in claim[c].machines \/ device[m] = [status |-> "staged", tenant |-> TenantOf[c]]
    BY DEF SerialParts, CopyStaged
  <2>3. CASE m \in claim[c].machines
    BY <2>3 DEF SerialParts, RecordedAssigned
  <2>4. CASE device[m] = [status |-> "staged", tenant |-> TenantOf[c]]
    BY <2>1, <2>4
  <2>5. QED
    BY <2>2, <2>3, <2>4
<1>4. RecordedAssigned'
  BY <1>1, <1>2, <1>3 DEF SerialParts, RecordedAssigned
<1>5. Exclusive' /\ CopyExclusive'
  BY <1>1, <1>2 DEF SerialParts, Exclusive, CopyExclusive
<1>6. CopyStaged'
  BY <1>1, <1>2 DEF CopyStaged
<1>7. OneBusy' /\ StageFree'
  BY <1>1, <1>2 DEF OneBusy, Busy, StageFree
<1>8. QED
  BY <1>4, <1>5, <1>6, <1>7 DEF SerialParts

LEMMA StageKeepsSerial ==
    ASSUME TypeOK, PhaseInv, SerialParts, UNCHANGED <<claim, memCur>>,
           NEW c \in Claims, NEW m \in todo[c], NEW place \in {"stage", "saveMachines"},
           pc[c] = "stage", pc' = [pc EXCEPT ![c] = place],
           SetDeviceStatus({m}, "staged", TenantOf[c]),
           mem' = [mem EXCEPT ![c].machines = @ \cup {m}],
           todo' = [todo EXCEPT ![c] = @ \ {m}]
    PROVE  SerialParts'
<1>0. /\ m \in Machines /\ TenantOf[c] # NoTenant
      /\ \A d \in Claims : claim[d].machines \subseteq Machines
      /\ mem[c] \in Claim /\ mem[c].machines \subseteq Machines /\ todo[c] \subseteq Machines
  <2>1. TenantOf[c] # NoTenant
    BY ClaimAssumption, NetboxAssumption
  <2>2. todo[c] \subseteq Machines
    BY DEF TypeOK, WorkerTypeOK
  <2>3. mem[c] \in Claim /\ \A d \in Claims : claim[d] \in Claim
    BY DEF TypeOK, ObjectTypeOK, WorkerTypeOK
  <2>4. QED
    BY <2>1, <2>2, <2>3 DEF Claim
<1>1. \A d \in Claims \ {c} : pc[d] = "idle" /\ ~memCur[d] /\ pc'[d] = "idle"
  BY AloneBusy DEF PhaseInv, SerialParts, TypeOK, WorkerTypeOK
<1>2. /\ pc'[c] = place /\ todo'[c] = todo[c] \ {m}
      /\ mem'[c].machines = mem[c].machines \cup {m}
  BY <1>0 DEF TypeOK, WorkerTypeOK, Claim
<1>3. /\ Assigns /\ device'[m] = [status |-> "staged", tenant |-> TenantOf[c]]
      /\ \A n \in Machines \ {m} : device'[n] = device[n]
  BY <1>0, SetDeviceStatusEffect
<1>4. device[m].tenant = NoTenant
  BY DEF SerialParts, StageFree
<1>5. \A d \in Claims : m \notin claim[d].machines
  BY <1>4 DEF SerialParts, RecordedAssigned
<1>6. RecordedAssigned' /\ Exclusive'
  BY <1>0, <1>3 DEF SerialParts, RecordedAssigned, Assigns, Exclusive
<1>7. CopyExclusive'
  BY <1>1, <1>2, <1>5 DEF SerialParts, CopyExclusive
<1>8. CopyStaged'
  BY <1>0, <1>1, <1>2, <1>3 DEF SerialParts, CopyStaged
<1>9. OneBusy' /\ StageFree'
  BY <1>0, <1>1, <1>2, <1>3 DEF SerialParts, OneBusy, Busy, StageFree
<1>10. QED
  BY <1>6, <1>7, <1>8, <1>9 DEF SerialParts

LEMMA ReleaseKeepsSerial ==
    ASSUME TypeOK, PhaseInv, SerialParts, UNCHANGED <<claim, mem, memCur>>,
           NEW c \in Claims, NEW m, NEW place \in {"shrink", "saveMachines"},
           pc[c] = "shrink", pc' = [pc EXCEPT ![c] = place],
           SetDeviceStatus({m}, "active", NoTenant)
    PROVE  SerialParts'
<1>0. \A d \in Claims : claim[d].machines \subseteq Machines
  BY DEF TypeOK, ObjectTypeOK, Claim
<1>1. \A d \in Claims \ {c} : pc[d] = "idle" /\ ~memCur[d] /\ pc'[d] = "idle"
  BY AloneBusy DEF PhaseInv, SerialParts, TypeOK, WorkerTypeOK
<1>2. pc'[c] = place
  BY DEF TypeOK, WorkerTypeOK
<1>3. Assigns
  BY SetDeviceStatusEffect
<1>4. RecordedAssigned' /\ Exclusive' /\ CopyExclusive'
  BY <1>0, <1>3 DEF SerialParts, RecordedAssigned, Assigns, Exclusive, CopyExclusive
<1>5. CopyStaged'
  BY <1>1 DEF SerialParts, CopyStaged
<1>6. OneBusy' /\ StageFree'
  BY <1>1, <1>2 DEF OneBusy, Busy, StageFree
<1>7. QED
  BY <1>4, <1>5, <1>6 DEF SerialParts

LEMMA BeginSerial ==
    ASSUME MaxWorkers = 1, TypeOK, PhaseInv, SerialParts, NEW c \in Claims, Begin(c)
    PROVE  SerialParts'
<1>0. cache[c] \in Claim /\ Rewrites(c) /\ Dequeue(c)
  <2>1. Dequeue(c)
    BY DEF Begin, ReconcileGone, AddFinalizer, IgnoreFailed, Validate, BeginProvision,
           WatchAddons, Grant, GraceDelete, Steady, ScaleUp, ScaleDown, ReleaseAll, Takes
  <2>2. QED
    BY <2>1, BeginRewrites DEF PhaseInv, TypeOK, ObjectTypeOK
<1>1. CASE UNCHANGED workerVars /\ UNCHANGED device
  BY <1>0, <1>1, IdleKeepsSerial
<1>2. CASE BeginProvision(c)
  <2>1. /\ Start(c, FirstCall(cache[c]), cache[c], {}) /\ claim' = claim /\ device' = device
    BY <1>2 DEF BeginProvision, objectVars, netboxVars
  <2>2. FirstCall(cache[c]) \in Place \ {"stage"}
    BY DEF FirstCall, Place
  <2>3. QED
    BY <1>0, <2>1, <2>2, StartKeepsSerial
<1>3. CASE Grant(c)
  <2> DEFINE ready == [cache[c] EXCEPT !.phase = "Ready", !.kube = TRUE]
  <2>1. ready \in Claim /\ ready.machines = cache[c].machines /\ "saveReady" \in Place
    BY <1>0 DEF Claim, Phase, Place
  <2>2. ASSUME Start(c, "saveReady", ready, {}), UNCHANGED objectVars
        PROVE  SerialParts'
    <3>1. claim' = claim /\ device' = device
      BY <1>3, <2>2 DEF objectVars, Grant, netboxVars
    <3>2. QED
      BY <1>0, <2>1, <2>2, <3>1, StartKeepsSerial
  <2>3. device' = device
    BY <1>3 DEF Grant, netboxVars
  <2>4. QED
    BY <1>1, <1>3, <2>2, <2>3 DEF Grant
<1>4. CASE ScaleUp(c)
  <2>1. device' = device
    BY <1>4 DEF ScaleUp, netboxVars
  <2>2. ASSUME NEW T \in SUBSET ListAvailableDevices, Start(c, "stage", cache[c], T),
               UNCHANGED objectVars
        PROVE  SerialParts'
    <3>1. claim' = claim /\ "stage" \in Place
      BY <2>2 DEF objectVars, Place
    <3>2. \A m \in T : m \in Machines /\ device[m].tenant = NoTenant
      BY DEF ListAvailableDevices, Unassigned
    <3>3. QED
      BY <1>0, <2>1, <2>2, <3>1, <3>2, StartKeepsSerial
  <2>3. QED
    BY <1>1, <1>4, <2>1, <2>2 DEF ScaleUp, Choices
<1>5. CASE ScaleDown(c)
  <2>1. device' = device
    BY <1>5 DEF ScaleDown, netboxVars
  <2>2. ASSUME NEW T, UNCHANGED objectVars,
               Start(c, "shrink", [cache[c] EXCEPT !.machines = @ \ T], T)
        PROVE  SerialParts'
    <3>1. /\ claim' = claim /\ "shrink" \in Place
          /\ [cache[c] EXCEPT !.machines = @ \ T] \in Claim
          /\ [cache[c] EXCEPT !.machines = @ \ T].machines \subseteq cache[c].machines
      BY <1>0, <2>2 DEF objectVars, Place, Claim
    <3>2. QED
      BY <1>0, <2>1, <2>2, <3>1, StartKeepsSerial
  <2>3. QED
    BY <1>1, <1>5, <2>1, <2>2 DEF ScaleDown
<1>6. CASE ReleaseAll(c)
  <2> DEFINE copy == [cache[c] EXCEPT !.finalizer = FALSE]
  <2>1. Start(c, "removeFinalizer", copy, {}) /\ claim' = claim
    BY <1>6 DEF ReleaseAll, objectVars
  <2>2. copy \in Claim /\ copy.machines = cache[c].machines /\ "removeFinalizer" \in Place
    BY <1>0 DEF Claim, Place
  <2>3. \A m \in Machines : device'[m].tenant = device[m].tenant
    <3>1. ASSUME NEW I, NEW M, Release(c, I, M)
          PROVE  \A m \in Machines : device'[m].tenant = device[m].tenant
      BY <3>1, SetDeviceStatusEffect DEF Release
    <3>2. QED
      BY <1>6, <3>1 DEF ReleaseAll
  <2>4. QED
    BY <1>0, <2>1, <2>2, <2>3, StartKeepsSerial
<1>7. QED
  BY <1>1, <1>2, <1>3, <1>4, <1>5, <1>6
     DEF Begin, ReconcileGone, AddFinalizer, IgnoreFailed, Validate, WatchAddons,
         GraceDelete, Steady, netboxVars

LEMMA ContinueSerial ==
    ASSUME TypeOK, PhaseInv, SerialParts, NEW c \in Claims, Continue(c)
    PROVE  SerialParts'
<1>0. mem[c] \in Claim /\ pc[c] # "idle"
  BY DEF TypeOK, WorkerTypeOK, Continue, AllocateAddress, SaveAddress, ListMachines,
         StageMachine, SaveMachines, CreateJob, AwaitJob, FailOnJob, EnsureCluster,
         SaveReady, ReleaseMachine, RemoveFinalizer
<1>1. CASE Finish(c)
  <2>1. Assigns
    <3>1. device' = device => Assigns
      BY DEF Assigns
    <3>2. QED
      BY <3>1, SetDeviceStatusEffect
         DEF Continue, AllocateAddress, SaveAddress, ListMachines, StageMachine,
             SaveMachines, CreateJob, AwaitJob, FailOnJob, EnsureCluster, SaveReady,
             ReleaseMachine, RemoveFinalizer, netboxVars
  <2>2. QED
    BY <1>0, <1>1, <2>1, ContinueCommits, FinishKeepsSerial
<1>2. CASE AllocateAddress(c) /\ ~Finish(c)
  <2>1. PICK i \in IPs : mem' = [mem EXCEPT ![c] = WithAddress(mem[c], i)]
    BY <1>2 DEF AllocateAddress
  <2>2. WithAddress(mem[c], i).machines = mem[c].machines
    BY <1>0 DEF WithAddress, Claim
  <2>3. /\ pc[c] = "allocate" /\ pc' = [pc EXCEPT ![c] = "saveAddress"]
        /\ UNCHANGED <<device, claim, memCur>> /\ "saveAddress" \in Place
        /\ \A d \in Claims : mem'[d].machines = mem[d].machines
    BY <1>2, <2>1, <2>2 DEF AllocateAddress, objectVars, Place, TypeOK, WorkerTypeOK
  <2>4. QED
    BY <2>3, AdvanceKeepsSerial
<1>3. CASE SaveAddress(c) /\ ~Finish(c)
  <2>1. /\ pc[c] = "saveAddress" /\ memCur[c] /\ claim' = [claim EXCEPT ![c] = mem[c]]
        /\ pc' = [pc EXCEPT ![c] = FirstCall(mem[c])]
        /\ UNCHANGED <<device, mem, memCur, todo>>
    BY <1>3 DEF SaveAddress, Store, netboxVars
  <2>2. FirstCall(mem[c]) \in Place \ {"stage"}
    BY DEF FirstCall, Place
  <2>3. QED
    BY <2>1, <2>2, CommitKeepsSerial
<1>4. CASE ListMachines(c) /\ ~Finish(c)
  <2>1. PICK T \in SUBSET ListAvailableDevices, place \in {"stage", "saveMachines"} :
          /\ pc[c] = "list" /\ pc' = [pc EXCEPT ![c] = place]
          /\ todo' = [todo EXCEPT ![c] = T]
          /\ UNCHANGED <<device, mem, memCur, claim>>
    BY <1>4 DEF ListMachines, Choices, objectVars, netboxVars
  <2>2. \A m \in todo'[c] : device[m].tenant = NoTenant
    BY <2>1 DEF ListAvailableDevices, Unassigned, TypeOK, WorkerTypeOK
  <2>3. QED
    BY <2>1, <2>2, AdvanceKeepsSerial DEF Place
<1>5. CASE StageMachine(c) /\ ~Finish(c)
  <2>1. PICK m \in todo[c], place \in {"stage", "saveMachines"} :
          /\ pc[c] = "stage" /\ pc' = [pc EXCEPT ![c] = place]
          /\ SetDeviceStatus({m}, "staged", TenantOf[c])
          /\ mem' = [mem EXCEPT ![c].machines = @ \cup {m}]
          /\ todo' = [todo EXCEPT ![c] = @ \ {m}]
          /\ UNCHANGED <<memCur, claim>>
    BY <1>5 DEF StageMachine, objectVars
  <2>2. QED
    BY <2>1, StageKeepsSerial
<1>6. CASE SaveMachines(c) /\ ~Finish(c)
  <2>1. /\ pc[c] = "saveMachines" /\ memCur[c] /\ claim' = [claim EXCEPT ![c] = mem[c]]
        /\ pc' = [pc EXCEPT ![c] = "job"] /\ "job" \in Place \ {"stage"}
        /\ UNCHANGED <<device, mem, memCur, todo>>
    BY <1>6 DEF SaveMachines, Store, netboxVars, Place
  <2>2. QED
    BY <2>1, CommitKeepsSerial
<1>7. CASE ReleaseMachine(c) /\ ~Finish(c)
  <2>1. PICK m \in todo[c], place \in {"shrink", "saveMachines"} :
          /\ pc[c] = "shrink" /\ pc' = [pc EXCEPT ![c] = place]
          /\ SetDeviceStatus({m}, "active", NoTenant)
          /\ UNCHANGED <<mem, memCur, claim>>
    BY <1>7 DEF ReleaseMachine, objectVars
  <2>2. QED
    BY <2>1, ReleaseKeepsSerial
<1>8. QED
  BY <1>1, <1>2, <1>3, <1>4, <1>5, <1>6, <1>7
     DEF Continue, CreateJob, AwaitJob, FailOnJob, EnsureCluster, SaveReady, RemoveFinalizer

LEMMA UserSerial == ASSUME TypeOK, PhaseInv, SerialParts, NEW c \in Claims, User(c)
                    PROVE  SerialParts'
<1>1. Edits(c)
  BY UserEffect DEF PhaseInv
<1>2. \A d \in Claims : /\ claim'[d].machines \subseteq claim[d].machines
                        /\ d # c => memCur'[d] = memCur[d] /\ claim'[d] = claim[d]
  BY <1>1 DEF Edits, TypeOK, ObjectTypeOK, WorkerTypeOK
<1>3. ~memCur'[c] /\ pc' = pc /\ mem' = mem /\ todo' = todo /\ device' = device
  BY <1>1 DEF Edits, TypeOK, WorkerTypeOK
<1>4. OneBusy' /\ StageFree'
  BY <1>3 DEF SerialParts, OneBusy, Busy, StageFree
<1>5. RecordedAssigned' /\ Exclusive'
  BY <1>2, <1>3 DEF SerialParts, RecordedAssigned, Exclusive
<1>6. CopyStaged' /\ CopyExclusive'
  BY <1>2, <1>3 DEF SerialParts, CopyStaged, CopyExclusive
<1>7. QED
  BY <1>4, <1>5, <1>6 DEF SerialParts

\* An administrator takes the tenant only from active devices that no claim records.
LEMMA OutsideSerial == ASSUME TypeOK, PhaseInv, SerialParts, Outside PROVE SerialParts'
<1>1. claim' = claim /\ UNCHANGED workerVars
  BY OutsideEffect DEF PhaseInv
<1>2. CASE device' = device
  BY <1>1, <1>2 DEF SerialParts, OneBusy, Busy, RecordedAssigned, CopyStaged, StageFree,
                    Exclusive, CopyExclusive, workerVars
<1>3. ASSUME NEW n \in Machines, Recycle(n) PROVE SerialParts'
  <2>1. /\ \A c \in Claims : n \notin claim[c].machines
        /\ device[n].status = "active" /\ device'[n].tenant = NoTenant
        /\ \A m \in Machines \ {n} : device'[m] = device[m]
    BY <1>3 DEF Recycle, ClearTenant, TypeOK, NetboxTypeOK, Device
  <2>2. \A c \in Claims : /\ claim[c].machines \subseteq Machines
                          /\ mem[c].machines \subseteq Machines /\ todo[c] \subseteq Machines
    <3>1. \A c \in Claims : claim[c] \in Claim /\ mem[c] \in Claim
      BY DEF TypeOK, ObjectTypeOK, WorkerTypeOK
    <3>2. QED
      BY <3>1 DEF Claim, TypeOK, WorkerTypeOK
  <2>3. RecordedAssigned' /\ Exclusive' /\ CopyExclusive'
    BY <1>1, <2>1, <2>2
       DEF SerialParts, RecordedAssigned, Exclusive, CopyExclusive, workerVars
  <2>4. CopyStaged'
    BY <1>1, <2>1, <2>2 DEF SerialParts, CopyStaged, workerVars
  <2>5. OneBusy' /\ StageFree'
    BY <1>1, <2>1, <2>2 DEF SerialParts, OneBusy, Busy, StageFree, workerVars
  <2>6. QED
    BY <2>3, <2>4, <2>5 DEF SerialParts
<1>4. QED
  BY <1>2, <1>3, OutsideEffect DEF PhaseInv

LEMMA RestartSerial == ASSUME SerialParts, Restart PROVE SerialParts'
BY DEF Restart, SerialParts, OneBusy, Busy, RecordedAssigned, CopyStaged, StageFree,
       Exclusive, CopyExclusive, netboxVars

LEMMA SerialInvInit == Init => SerialInv
<1> SUFFICES ASSUME Init PROVE SerialParts
  BY DEF SerialInv, SerialParts
<1>1. \A c \in Claims : claim[c].machines = {}
  BY DEF Init, Fresh
<1>2. OneBusy /\ StageFree /\ CopyStaged
  BY DEF Init, OneBusy, Busy, StageFree, CopyStaged
<1>3. QED
  BY <1>1, <1>2 DEF Init, SerialParts, RecordedAssigned, Exclusive, CopyExclusive

LEMMA SerialInvNext == TypeOK /\ PhaseInv /\ SerialInv /\ [Next]_vars => SerialInv'
<1> SUFFICES ASSUME MaxWorkers = 1, TypeOK, PhaseInv, SerialParts, [Next]_vars
             PROVE  SerialParts'
  BY DEF SerialInv, SerialParts
<1>1. CASE UNCHANGED vars
  BY <1>1 DEF vars, SerialParts, OneBusy, Busy, RecordedAssigned, CopyStaged, StageFree,
              Exclusive, CopyExclusive
<1>2. QED
  BY <1>1, BeginSerial, ContinueSerial, UserSerial, OutsideSerial, RestartSerial
     DEF Next, Outside

LEMMA SerialInvariant == Spec => []SerialInv
<1>1. QED
  BY TypeCorrect, PhaseInvariant, SerialInvInit, SerialInvNext, PTL DEF Spec

\* With the default single worker no device is ever recorded by two claims, whatever the
\* caches, users, crashes and lost requests do, for any number of claims and devices.
THEOREM OneWorkerExclusive == Spec => []SerialExclusive
<1>1. SerialInv => SerialExclusive
  BY DEF SerialInv, SerialExclusive
<1>2. QED
  BY <1>1, SerialInvariant, PTL
=============================================================================

--------------------------- MODULE ClusterClaimInv ---------------------------
(***************************************************************************)
(* Inductive invariants of ClusterClaim: TLC checks them on the instances  *)
(* of MCClusterClaim, ClusterClaimProofs proves them for every instance.   *)
(***************************************************************************)
EXTENDS ClusterClaim

\* A worker's copy is current only while the worker has it.
CopyHeld == \A c \in Claims : memCur[c] => pc[c] # "idle"

\* The current resourceVersion has one content: so has an informer copy of it.
CacheFaithful == \A c \in Claims : cacheCur[c] => cache[c] = claim[c]

\* The work queue hands out one claim at a time to a single worker.
OneBusy == \A c, d \in Busy : c = d

\* A recorded device has a tenant, so no listing offers it.
RecordedAssigned ==
    \A c \in Claims : \A m \in claim[c].machines : device[m].tenant # NoTenant

\* A current copy adds to the recorded devices only those it has just staged.
CopyStaged ==
    \A c \in Claims : memCur[c] =>
        \A m \in mem[c].machines :
            \/ m \in claim[c].machines
            \/ /\ pc[c] \in {"stage", "saveMachines"}
               /\ device[m] = [status |-> "staged", tenant |-> TenantOf[c]]

\* The devices a single worker is about to stage are nobody's.
StageFree ==
    \A c \in Claims :
        pc[c] = "stage" => \A m \in todo[c] : device[m].tenant = NoTenant

\* No current copy names a device that another claim records.
CopyExclusive ==
    \A c, d \in Claims : (c # d /\ memCur[c]) =>
        mem[c].machines \cap claim[d].machines = {}

\* Why one worker records no device twice (SerialExclusive): the optimistic lock keeps
\* stale copies out of the API server, and a current copy holds what its claim records
\* plus devices that had no tenant when this worker, the only one, staged them.
\* Inductive together with TypeOK and PhaseInv.
SerialInv ==
    MaxWorkers = 1 =>
        /\ OneBusy /\ RecordedAssigned /\ CopyStaged
        /\ StageFree /\ Exclusive /\ CopyExclusive

\* The phase of a current copy: the claim's own, except Ready about to be saved.
\* No place but saveReady is reached with a copy whose phase was changed.
CopyPhase ==
    \A c \in Claims : memCur[c] =>
        IF pc[c] = "saveReady"
        THEN claim[c].phase = "AddonsReady" /\ mem[c].phase = "Ready"
        ELSE mem[c].phase = claim[c].phase

\* The steps of stepProvision run in Provisioning only.
PlacePhase ==
    \A c \in Claims :
        pc[c] \in {"allocate", "saveAddress", "list", "job"} =>
            mem[c].phase = "Provisioning"

\* Why no stale copy moves a phase backwards (PhaseMonotone).
PhaseInv == CopyHeld /\ CacheFaithful /\ CopyPhase /\ PlacePhase

\* Between the release and the removal of the finalizer, what the claim records stays
\* released: why the object never goes before its resources (FinalizerReleases).
ReleasedInv ==
    (MaxWorkers = 1 /\ "netbox" \notin FaultKinds) =>
        /\ \A c \in Claims : \A i \in claim[c].ips : ipam[i].state # "unused"
        /\ \A c \in Claims : \A i \in mem[c].ips : ipam[i].state # "unused"
        /\ \A c \in Claims : (pc[c] = "removeFinalizer" /\ memCur[c]) =>
              /\ \A i \in claim[c].ips : ipam[i].state = "released"
              /\ \A m \in claim[c].machines : device[m].status = "active"
=============================================================================

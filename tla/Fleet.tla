------------------------------- MODULE Fleet -------------------------------
(***************************************************************************)
(* The two controllers that take devices, in one process over one Netbox   *)
(* (main.go sets both up on one manager): ClusterClaim, extended here, and *)
(* ServerClaim, an instance over the same inventory.  They share no queue  *)
(* and no lock; each lists and stages on its own.  faults and edits are    *)
(* one budget for both.                                                    *)
(***************************************************************************)
EXTENDS ClusterClaim

CONSTANTS Servers, ServerTenantOf, NoMachine, SiteKnown, Late

VARIABLES server, seen, seenCur, due, at, copy, copyCur, chosen, work, trail

serverVars == <<server, seen, seenCur, due, at, copy, copyCur, chosen, work, trail>>
clusterVars == <<roleVars, objectVars, queued, workerVars, job, infra>>

Server == INSTANCE ServerClaim WITH Claims <- Servers, TenantOf <- ServerTenantOf

FleetInit == Init /\ Server!Init

(***************************************************************************)
(* The process is one: a restart is a restart of both, and the careful     *)
(* administrator looks at both kinds of claims.                            *)
(***************************************************************************)
FleetRestart ==
    /\ Restart
    /\ Server!Restart

FleetRecycle(m) ==
    /\ Recycle(m)
    /\ \A s \in Servers : server[s].machine # m
    /\ UNCHANGED serverVars

ClusterStep ==
    /\ \/ \E c \in Claims : \/ Begin(c) \/ Continue(c) \/ User(c)
                            \/ CacheSync(c) \/ JobRuns(c) \/ InfraRuns(c)
       \/ \E t \in Tenants : TenantSync(t) \/ RoleCacheSync(t)
    /\ UNCHANGED serverVars

ServerStep ==
    /\ \E s \in Servers :
          \/ Server!Begin(s) \/ Server!Continue(s) \/ Server!Relabel(s)
          \/ Server!Delete(s) \/ Server!CacheSync(s) \/ Server!JobRuns(s)
    /\ UNCHANGED clusterVars

FleetNext ==
    \/ ClusterStep \/ ServerStep \/ FleetRestart
    \/ \E m \in Machines : FleetRecycle(m)

fleetVars == <<vars, serverVars>>

FleetSpec == FleetInit /\ [][FleetNext]_fleetVars

-------------------------------------------------------------------------------
\* "AllocatedMachineIDs holds the Netbox device IDs allocated to this cluster"
\* (clusterclaim_types.go:73): a device a cluster records is no server's.
FleetExclusive ==
    \A c \in Claims, s \in Servers : server[s].machine \notin claim[c].machines
=============================================================================

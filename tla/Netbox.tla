-------------------------------- MODULE Netbox --------------------------------
(***************************************************************************)
(* The Netbox inventory as the operator sees it through                    *)
(* internal/netbox/client.go: devices with a status and a tenant, and the  *)
(* address records the operator creates and deletes.  Every operator below *)
(* is the effect on Netbox of one HTTP request; whether the request, or    *)
(* its answer, is lost is for the caller's module to say.                  *)
(***************************************************************************)
EXTENDS Naturals, FiniteSets

CONSTANTS
    Machines,   \* devices of the one site and machine class that claims ask for
    IPs,        \* IDs of the address records Netbox can create: one is never reused
    Tenants,    \* tenant slugs
    NoTenant,   \* the null tenant of an unassigned device
    Claims      \* the claims that register DNS names

ASSUME NetboxAssumption == NoTenant \notin Tenants /\ IPs \subseteq Nat

VARIABLES
    device,     \* device[m]: the device's status and tenant
    ipam        \* ipam[i]: whether record i exists, and the DNS name it carries

netboxVars == <<device, ipam>>

(***************************************************************************)
(* "offline" and "decommissioning" exist too (client.go:81-82); nothing in *)
(* the operator writes or reads them.                                      *)
(***************************************************************************)
DeviceStatus == {"active", "staged"}
Device == [status: DeviceStatus, tenant: Tenants \cup {NoTenant}]

\* A cluster registers <claim>-api... and <claim>-wh..., a server <claim>... itself.
NoName == <<"none", "none">>
DNSNames == Claims \X {"api", "wh", "server"}
Address == [state: {"unused", "live", "released"}, dns: DNSNames \cup {NoName}]

NetboxTypeOK ==
    /\ device \in [Machines -> Device]
    /\ ipam \in [IPs -> Address]

NetboxInit ==
    /\ device = [m \in Machines |-> [status |-> "active", tenant |-> NoTenant]]
    /\ ipam = [i \in IPs |-> [state |-> "unused", dns |-> NoName]]

Live == {i \in IPs : ipam[i].state = "live"}
Unassigned == {m \in Machines : device[m].tenant = NoTenant}

AnyTenantListed ==                      \* mutant: the tenant is not filtered
    {m \in Machines : device[m].status = "active"}

\* GET dcim/devices?status=active&tenant_id__isnull=true
ListAvailableDevices == {m \in Unassigned : device[m].status = "active"}

SwappedPatched(d, status, slug) ==      \* mutant: status and tenant swapped
    [status |-> slug, tenant |-> status]

(***************************************************************************)
(* PATCH dcim/devices.  The payload names the tenant only when the slug is *)
(* not empty, and Netbox leaves alone what a PATCH does not name: called   *)
(* with an empty slug the request changes the status and keeps the tenant. *)
(***************************************************************************)
Patched(d, status, slug) ==
    [status |-> status, tenant |-> IF slug = NoTenant THEN d.tenant ELSE slug]

SetDeviceStatus(S, status, slug) ==
    device' = [m \in Machines |-> IF m \in S THEN Patched(device[m], status, slug)
                                             ELSE device[m]]

\* POST prefixes/<id>/available-ips: a record that never existed before, with the
\* next ID.
AllocateIP(i, name) ==
    /\ ipam[i].state = "unused"
    /\ \A j \in IPs : ipam[j].state = "unused" => i <= j
    /\ ipam' = [ipam EXCEPT ![i] = [state |-> "live", dns |-> name]]

\* DELETE ip-addresses/<id>; deleting a record that is gone is a 404, no change.
ReleaseIP(S) ==
    ipam' = [i \in IPs |-> IF i \in S /\ ipam[i].state = "live"
                           THEN [state |-> "released", dns |-> NoName] ELSE ipam[i]]

(***************************************************************************)
(* What the operator never does: an inventory administrator who clears the *)
(* tenant of an active device, which makes it available again.             *)
(***************************************************************************)
ClearTenant(m) ==
    /\ device[m].status = "active"
    /\ device[m].tenant # NoTenant
    /\ device' = [device EXCEPT ![m].tenant = NoTenant]
    /\ UNCHANGED ipam
=============================================================================

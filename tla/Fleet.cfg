\* One worker per controller, no fault: a cluster and a server want the last device.
SPECIFICATION FleetSpec
CONSTANTS
    Claims = {c1}
    Servers = {s1}
    Machines = {m1}
    IPs = {1, 2, 3}
    acme = acme
    NoTenant = NoTenant
    NoIP = NoIP
    NoMachine = NoMachine
    Tenants <- OneTenant
    TenantOf <- AllInAcme
    ServerTenantOf <- ServersInAcme
    Resolvable = {c1}
    WithIssuer = {c1}
    TypesKnown = TRUE
    SiteKnown = {s1}
    CephProfile = {}
    Late = {}
    MaxWorkers = 1
    MaxWant = 1
    FaultKinds = {}
    MaxFaults = 0
    MaxEdits = 0
    JobOutcomes = {"complete"}
    Lag = FALSE
    AdminRecycles = FALSE
CHECK_DEADLOCK FALSE
INVARIANTS FleetExclusive

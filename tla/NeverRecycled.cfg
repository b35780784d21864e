\* One claim deleted, nobody but the operator touches Netbox.
SPECIFICATION Spec
CONSTANTS
    Claims = {c1}
    Machines = {m1}
    IPs = {1, 2}
    acme = acme
    NoTenant = NoTenant
    NoIP = NoIP
    Tenants <- OneTenant
    TenantOf <- AllInAcme
    Resolvable = {c1}
    WithIssuer = {c1}
    TypesKnown = TRUE
    CephProfile = {}
    MaxWorkers = 1
    MaxWant = 1
    FaultKinds = {}
    MaxFaults = 0
    MaxEdits = 1
    JobOutcomes = {"complete"}
    Lag = FALSE
    AdminRecycles = FALSE
CHECK_DEADLOCK FALSE
INVARIANT ReleasedIsAvailable

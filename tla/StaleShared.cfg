\* Two claims, one worker, a cache that may be stale, devices recycled, a user edit.
SPECIFICATION Spec
CONSTANTS
    Claims = {c1, c2}
    Machines = {m1, m2}
    IPs = {1, 2, 3, 4}
    acme = acme
    NoTenant = NoTenant
    NoIP = NoIP
    Tenants <- OneTenant
    TenantOf <- AllInAcme
    Resolvable = {c1, c2}
    WithIssuer = {c1, c2}
    TypesKnown = TRUE
    CephProfile = {}
    MaxWorkers = 1
    MaxWant = 1
    FaultKinds = {}
    MaxFaults = 0
    MaxEdits = 1
    JobOutcomes = {"complete"}
    Lag = TRUE
    AdminRecycles = TRUE
CHECK_DEADLOCK FALSE
SYMMETRY Symmetry
INVARIANTS SerialInv PhaseInv
PROPERTIES LedgerKept

\* Two claims and the periodic tenant synchronisation.
SPECIFICATION Spec
CONSTANTS
    Claims = {c1, c2}
    Machines = {m1, m2}
    IPs = {1, 2, 3, 4}
    acme = acme
    NoTenant = NoTenant
    NoIP = NoIP
    Tenants <- OneTenant
    TenantOf <- AllInAcme
    Resolvable = {c1, c2}
    WithIssuer = {c1, c2}
    TypesKnown = TRUE
    CephProfile = {}
    MaxWorkers = 1
    MaxWant = 1
    FaultKinds = {}
    MaxFaults = 0
    MaxEdits = 0
    JobOutcomes = {"complete"}
    Lag = FALSE
    AdminRecycles = FALSE
SYMMETRY Symmetry
CHECK_DEADLOCK FALSE
INVARIANT ReadyMeansGranted

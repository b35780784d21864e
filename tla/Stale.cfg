\* One claim whose worker reads a cache that may be stale; every fault, every end of its
\* Job, a user edit or deletion; fairness.
SPECIFICATION FairSpec
CONSTANTS
    Claims = {c1}
    Machines = {m1, m2}
    IPs = {1, 2, 3}
    acme = acme
    NoTenant = NoTenant
    NoIP = NoIP
    Tenants <- OneTenant
    TenantOf <- AllInAcme
    Resolvable = {c1}
    WithIssuer = {c1}
    TypesKnown = TRUE
    CephProfile = {c1}
    MaxWorkers = 1
    MaxWant = 2
    FaultKinds = {"crash", "api", "netbox"}
    MaxFaults = 1
    MaxEdits = 1
    JobOutcomes = {"complete", "completeAfterFailure", "failed"}
    Lag = TRUE
    AdminRecycles = FALSE
CHECK_DEADLOCK FALSE
INVARIANTS PhaseBacked
PROPERTIES PhaseMonotone DeletionCompletes Settles NamesForgotten

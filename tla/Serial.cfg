\* One worker, two claims, crashes and lost API answers, one user edit.
SPECIFICATION Spec
CONSTANTS
    Claims = {c1, c2}
    Machines = {m1, m2, m3}
    IPs = {1, 2, 3, 4, 5}
    acme = acme
    NoTenant = NoTenant
    NoIP = NoIP
    Tenants <- OneTenant
    TenantOf <- AllInAcme
    Resolvable = {c1, c2}
    WithIssuer = {c1, c2}
    TypesKnown = TRUE
    CephProfile = {}
    MaxWorkers = 1
    MaxWant = 2
    FaultKinds = {"crash", "api"}
    MaxFaults = 1
    MaxEdits = 1
    JobOutcomes = {"complete"}
    Lag = FALSE
    AdminRecycles = TRUE
SYMMETRY Symmetry
CHECK_DEADLOCK FALSE
INVARIANTS TypeOK SerialExclusive RecordedIPsLive IPLeakBounded StrandedBounded
PROPERTIES FinalizerReleases

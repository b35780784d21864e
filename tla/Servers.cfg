\* Two server claims share one worker and one device; the second one's cache may be stale.
SPECIFICATION FairSpec
CONSTANTS
    s1 = s1
    Claims = {s1, s2}
    Machines = {m1}
    IPs = {1, 2, 3}
    acme = acme
    beta = beta
    NoTenant = NoTenant
    NoIP = NoIP
    NoMachine = NoMachine
    Tenants <- TwoTenants
    TenantOf <- FirstInAcme
    SiteKnown = {s1, s2}
    Late = {s2}
    FaultKinds = {"crash", "api", "netbox"}
    MaxFaults = 1
    MaxEdits = 1
CHECK_DEADLOCK FALSE
INVARIANTS ServerTypeOK RecordedHeld LossBounded JobBacked TrailTruthful TrailGapsBounded
PROPERTIES LedgerKept FinalizerReleases Settles DeletionCompletes

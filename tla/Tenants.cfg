\* Two tenants, one of them with a namespace that may hang while terminating.
SPECIFICATION FairSpec
CONSTANTS
    Tenants = {t1, t2}
    NoTenant = NoTenant
    Stuck = {t2}
    MaxLimit = 2
    MaxFaults = 1
    MaxEdits = 1
INVARIANTS TenantTypeOK RightsCapped
PROPERTIES TenantsProvided

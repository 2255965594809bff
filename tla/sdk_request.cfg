CONSTANTS
    t1 = t1
    Tenants = {t1}
    NoTenant = NoTenant
    PlatformAdminTenant = Platform
    Callers <- MCCallers
    Routes <- MCRoutes
    Options <- MCOptions
    Requests = {r1, r2}
    MaxSize = 1
    Ttl = 2
    FetchTimeout = 1
SPECIFICATION Spec
INVARIANTS SdkInv AuditFollowsAnswer
PROPERTIES OpenOnlyIfRecentlyOn EveryRequestAnswered
CHECK_DEADLOCK FALSE

CONSTANTS
    t1 = t1
    t2 = t2
    n1 = n1
    h1 = h1
    h2 = h2
    hp = hp
    e1 = e1
    Tenants = {t1, t2}
    Platform = Platform
    Notices = {n1}
    EventOf <- MCEventOf
    TenantOf <- MCTenantOf
    Hooks = {h1, h2, hp}
    HookTenant <- MCHookTenant
    Events = {e1}
    Urls = {u1, u2}
    Processors = {p1, p2}
    None = None
    MaxFaults = 1
    MaxEdits = 1
    MaxOps = 1
    Attempts = 2
    MaxStalledCount = 1
SPECIFICATION Spec
SYMMETRY Symmetric
CHECK_DEADLOCK FALSE
INVARIANTS TenantsApart OneEndpoint EachAccountedFor DuplicateNeedsMishap

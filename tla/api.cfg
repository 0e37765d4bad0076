\* TenantRegistry and MessageIntake.
CONSTANTS
    t1 = t1
    t2 = t2
    Tenants = {t1, t2}
    Keys = {k1}
    Templates = {m1, m2}
    m1 = m1
    m2 = m2
    Hooks = {h1}
    Names = {n1, n2}
    Admins = {a1, a2}
    Calls = {c1}
    Platform = Platform
    Admin = Admin
    None = None
    MaxEdits = 2
    Requests = {r1}
    Recipients = {i1, i2}
    Texts = {x1, x2}
    Vars = {v1}
    SendAts = {0, 1, 2, 3, 4, 5, 6, None, Unreadable}
    Delays = {1, 2, 3, None}
    Unreadable = Unreadable
    MaxAhead = 3
    MaxTime = 4
    MaxTemplateEdits = 1
SPECIFICATION ApiSpec
SYMMETRY ApiSymmetry
CHECK_DEADLOCK FALSE
INVARIANTS ApiTypeOK NamesAndOwners WordIsKept CutOff WholeBatch OneVersion NeverEarly
PROPERTY ScopeIsRespected

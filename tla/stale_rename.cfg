CONSTANTS
    Tenants = {t1}
    Keys = {k1}
    Templates = {}
    Hooks = {}
    Names = {n1, n2}
    Admins = {a1, a2}
    Calls = {c1}
    Platform = Platform
    Admin = Admin
    None = None
    MaxEdits = 2
SPECIFICATION Spec
SYMMETRY MCSymmetry
CHECK_DEADLOCK FALSE
INVARIANT DeactivationHolds

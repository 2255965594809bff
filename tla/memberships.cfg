CONSTANTS
    Tenants = {t1}
    Roles = {admin, viewer}
    UnknownRole = UnknownRole
    None = None
    Requests = {r1, r2}
    MaxOps = 2
    MaxFaults = 1
SPECIFICATION Spec
INVARIANTS MembershipsInv
PROPERTY TokensCatchUp
CHECK_DEADLOCK FALSE

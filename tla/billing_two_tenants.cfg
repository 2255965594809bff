CONSTANTS
    Tenants = {t1, t2}
    CustomerIds = {c1, c2}
    Workers = {w1, w2}
    None = None
    RowsVisible = TRUE
    InOrder = FALSE
    MaxEvents = 4
    MaxAttempts = 1
    MaxFaults = 0
SPECIFICATION Spec
SYMMETRY MCSymmetry
INVARIANTS BilledToOwner
CHECK_DEADLOCK FALSE

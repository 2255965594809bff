CONSTANTS
    Tenants = {t1}
    CustomerIds = {c1, c2}
    Workers = {w1, w2}
    None = None
    RowsVisible = TRUE
    InOrder = FALSE
    MaxEvents = 3
    MaxAttempts = 2
    MaxFaults = 1
SPECIFICATION Spec
SYMMETRY MCSymmetry
INVARIANTS AnsweredIsTraced BillingInv
CHECK_DEADLOCK FALSE

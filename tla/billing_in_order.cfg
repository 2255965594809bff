CONSTANTS
    Tenants = {t1}
    CustomerIds = {c1}
    Workers = {w1}
    None = None
    RowsVisible = TRUE
    InOrder = TRUE
    MaxEvents = 6
    MaxAttempts = 2
    MaxFaults = 1
SPECIFICATION FairSpec
INVARIANTS MirrorsStripe
PROPERTY EventuallyAnswered
CHECK_DEADLOCK FALSE

CONSTANTS
    Requests = {r1, r2}
    Tokens = {t1, t2}
    MaxAttempts = 2
    MaxFaults = 1
SPECIFICATION Spec
INVARIANTS AuthInv LoggedOutStaysOut
PROPERTY LockEnds
CHECK_DEADLOCK FALSE

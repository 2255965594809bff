CONSTANTS
    Admins = {a1, a2}
    Requests = {r1, r2}
    MaxSessions = 2
    MaxFaults = 1
SPECIFICATION Spec
SYMMETRY Alike
INVARIANTS ImpersonationInv HandedOutOnRecord AnsweredIsEnded
CHECK_DEADLOCK FALSE

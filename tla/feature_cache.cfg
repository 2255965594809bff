CONSTANTS
    Features = {f1, f2}
    Default = {f1}
    FeatureSets = {{f1}, {f1, f2}}
    Requests = {r1, r2}
    MaxWrites = 2
    MaxFaults = 1
SPECIFICATION FlagsSpec
INVARIANTS FlagsInv
PROPERTIES KeepsPromise EventuallyFresh
CHECK_DEADLOCK FALSE

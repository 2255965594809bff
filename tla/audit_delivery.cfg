CONSTANTS
    g1 = g1
    g2 = g2
    t1 = t1
    f1 = f1
    p1 = p1
    Messages = {g1, g2, t1, f1, p1}
    Kind <- MCKind
    Prefetch = 2
    BatchSize = 2
    MaxFaults = 2
SPECIFICATION FairSpec
INVARIANTS NoLoss DuplicatesBounded PrefetchRespected ConsumerInv
PROPERTY EventuallyStored
CHECK_DEADLOCK FALSE

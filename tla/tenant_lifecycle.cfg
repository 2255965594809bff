CONSTANTS
    f1 = f1
    Features = {f1}
    Default = {f1}
    FeatureSets = {{f1}, {}}
    Requests = {r1, r2}
    Plans <- MCPlans
    Listed <- MCListed
    PlanFeatures <- MCPlanFeatures
    Free = "free"
    MinimalFeatures = {f1}
    StaticFeatures <- MCStaticFeatures
    Statuses = {"active", "past_due", "cancelled"}
    Customers = {c1}
    None = None
    Absent = Absent
    MaxWrites = 1
    MaxFaults = 1
    MaxOps = 2
SPECIFICATION Spec
INVARIANTS LifecycleInv SnapshotMatchesPlan
PROPERTIES LifecycleSteps
SYMMETRY MCSymmetry
CHECK_DEADLOCK FALSE

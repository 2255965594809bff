CONSTANTS
    Requests = {r1, r2}
    Accounts = {"cash", "sales", "surplus"}
    AccountType <- MCAccountType
    RetainedSurplus = "surplus"
    LineSets <- MCRacing
    PatchedAccounts = {}
    PeriodRanges <- MCOnePeriod
    MaxAmount = 1
    MaxDate = 1
    MaxEntries = 3
    MaxPeriods = 1
SPECIFICATION Spec
SYMMETRY MCSymmetry
INVARIANTS TypeOK PostedBalanced ReversalMirrors TrialBalanceBalances PublishedCommitted OpeningEntryLinked InFlight

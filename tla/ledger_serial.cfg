CONSTANTS
    Requests = {r1}
    Accounts = {"cash", "sales", "rent", "surplus"}
    AccountType <- MCAccountType
    RetainedSurplus = "surplus"
    LineSets <- MCSerial
    PatchedAccounts = {"sales", "surplus"}
    PeriodRanges <- MCOnePeriod
    MaxAmount = 1
    MaxDate = 2
    MaxEntries = 3
    MaxPeriods = 2
SPECIFICATION Spec
INVARIANTS AtMostOneReversal
PROPERTIES JournalRules CloseMovesProfit

\* one job with and without --since, one corrected rate, one kill
SPECIFICATION FairSpec
CONSTANTS
    Jobs = {"one"}
    OtherBase = "USD"
    Base <- JobBase
    Symbols <- JobSymbols
    Sinces = {2, NoSince}
    NoSince = NoSince
    DEFAULT_LOOKBACK_DAYS = 2
    BusinessDays <- MCBusinessDays
    FirstDay = 2
    LastDay = 6
    MaxRevisions = 1
    MaxKills = 1
INVARIANTS NoGaps NothingBeforeSince
PROPERTIES RowsKept KeptUpToDate

\* two jobs with different bases
SPECIFICATION Spec
CONSTANTS
    Jobs = {"one", "two"}
    OtherBase = "GBP"
    Base <- JobBase
    Symbols <- JobSymbols
    Sinces = {2}
    NoSince = NoSince
    DEFAULT_LOOKBACK_DAYS = 2
    BusinessDays <- MCBusinessDays
    FirstDay = 2
    LastDay = 5
    MaxRevisions = 0
    MaxKills = 0
INVARIANT OneBase

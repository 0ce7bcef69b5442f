SPECIFICATION FairSpec
CONSTANTS
    MaxRetries = 2
    TotalTime = 10
    RequestTimeout = 30
INVARIANTS
    QueryWithinBudget
PROPERTIES
    StatusOfThisPoll
    OutageTolerated
    StatusConverges

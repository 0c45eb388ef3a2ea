\* One event transaction fails.
SPECIFICATION FairSpec
CONSTANTS
    o1 = o1
    o2 = o2
    Orders = {o1}
    ChainEvents <- FundedEvent
    Requests <- NoRequests
    Limit = 5
    MaxLedger = 3
    MaxFailures = 1
    MaxCrashes = 0
PROPERTY AlwaysSynced

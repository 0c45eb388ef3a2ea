\* More events match than a page holds.
SPECIFICATION FairSpec
CONSTANTS
    o1 = o1
    o2 = o2
    Orders = {o1}
    ChainEvents <- FundedEvent
    Requests <- NoRequests
    Limit = 1
    MaxLedger = 3
    MaxFailures = 0
    MaxCrashes = 0
PROPERTY AlwaysSynced

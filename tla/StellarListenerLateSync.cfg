\* A dispute is applied while the sync of the fund transaction waits for its answer.
SPECIFICATION FairSpec
CONSTANTS
    o1 = o1
    o2 = o2
    Orders = {o1}
    ChainEvents <- DisputedEvent
    Requests <- FundRequest
    Limit = 8
    MaxLedger = 4
    MaxFailures = 0
    MaxCrashes = 0
PROPERTY AlwaysSynced

\* An order is created and funded while a poll waits for the RPC.
SPECIFICATION FairSpec
CONSTANTS
    o1 = o1
    o2 = o2
    Orders = {o1, o2}
    ChainEvents <- FundedEvent
    Requests <- NoRequests
    Limit = 8
    MaxLedger = 4
    MaxFailures = 0
    MaxCrashes = 0
PROPERTY AlwaysSynced

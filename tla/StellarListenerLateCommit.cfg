\* The buyer marks the fiat as sent between the check and the transaction of ESCROW_FUNDED.
SPECIFICATION FairSpec
CONSTANTS
    o1 = o1
    o2 = o2
    Orders = {o1}
    ChainEvents <- NoEvents
    Requests <- BuyerRequests
    Limit = 8
    MaxLedger = 3
    MaxFailures = 0
    MaxCrashes = 0
PROPERTY EventsAlwaysAdvance

\* Two orders, so that a ledger holds events of both and an order can be created during a poll for
\* the other; a crash, a failing transaction, RPC errors, client syncs and full pages.
SPECIFICATION FairSpec
CONSTANTS
    o1 = o1
    o2 = o2
    Orders = {o1, o2}
    ChainEvents <- MixedEvents
    Requests <- BuyerOfOne
    Limit = 3
    MaxLedger = 4
    MaxFailures = 1
    MaxCrashes = 1
INVARIANTS
    TypeOK
    NothingSkipped
PROPERTIES
    EventsOnlyAdvance
    EventuallySynced

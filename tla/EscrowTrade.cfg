\* One order, two requests in flight, one cron run, the listener.
SPECIFICATION Spec
CONSTANTS
    Orders = {o1}
    Requests = {r1, r2}
    Jobs = {j1}
    ClientStatuses = {"cancelled"}
SYMMETRY Symmetry
INVARIANTS
    TypeOK
    EscrowWitnessed
    OrderWitnessed
    ReleaseNeedsFiatSent
PROPERTY KeepsPromise

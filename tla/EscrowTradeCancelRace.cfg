\* cancel() racing a sync or the listener.
SPECIFICATION Spec
CONSTANTS
    Orders = {o1}
    Requests = {r1, r2}
    Jobs = {j1}
    ClientStatuses = {}
PROPERTY CancelOnlyBeforeFunding

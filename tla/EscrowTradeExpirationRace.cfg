\* The expiration cron racing a sync.
SPECIFICATION Spec
CONSTANTS
    Orders = {o1}
    Requests = {r1, r2}
    Jobs = {j1}
    ClientStatuses = {}
PROPERTY FiatSentBlocksExpiration

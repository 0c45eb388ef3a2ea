\* Two webhooks about one user, delivered concurrently and repeatedly, while writes fail and the
\* process dies.
SPECIFICATION FairSpec
CONSTANTS
    Users = {u1}
    Webhooks = {d1, d2}
    Requests = {r1, r2}
    RawStatuses = {"declined"}
    MaxFailures = 2
    MaxCrashes = 1
INVARIANTS
    TypeOK
    AckedAudited
    SuccessApplied
PROPERTY DecisionSettled

\* The audit write after an update fails.
SPECIFICATION Spec
CONSTANTS
    Users = {u1}
    Webhooks = {d1}
    Requests = {r1, r2}
    RawStatuses = {"approved"}
    MaxFailures = 1
    MaxCrashes = 0
PROPERTY FailureRolledBack

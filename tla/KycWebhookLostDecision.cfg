\* One database write fails.
SPECIFICATION FairSpec
CONSTANTS
    Users = {u1}
    Webhooks = {d1}
    Requests = {r1, r2}
    RawStatuses = {"approved"}
    MaxFailures = 1
    MaxCrashes = 0
PROPERTY DecisionApplied

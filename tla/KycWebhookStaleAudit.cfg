\* Two webhooks about one user at the same time.
SPECIFICATION Spec
CONSTANTS
    Users = {u1}
    Webhooks = {d1, d2}
    Requests = {r1, r2}
    RawStatuses = {"approved", "declined"}
    MaxFailures = 0
    MaxCrashes = 0
PROPERTY AuditShowsTransition

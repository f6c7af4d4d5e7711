\* Two handlers, three jobs of the same alert, one failure, one retry per job.
SPECIFICATION FairDeliverySpec
CONSTANTS
    Warrants = {w1}
    Snapshots = {p1}
    Configs = {c1}
    None = None
    Entries = {e1}
    Workers = {x1, x2}
    RetryLimit = 1
    MaxErrors = 1
    MaxJobs = 3
    MaxHistory = 1
INVARIANTS SentIsDelivered DuplicatesBounded
PROPERTIES SettledStaysSettled JobsFinish

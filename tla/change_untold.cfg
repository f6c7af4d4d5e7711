\* One call and one handler, no failure: a change after the first message.
SPECIFICATION Spec
CONSTANTS
    p1 = p1
    p2 = p2
    p3 = p3
    Warrants = {w1}
    Snapshots = {p1, p3}
    Status <- MCStatus
    Revoked = "REVOGADO"
    Configs = {c1}
    Syncers = {s1}
    None = None
    MaxChanges = 1
    MaxFaults = 0
    Workers = {x1}
    RetryLimit = 0
    MaxErrors = 0
    MaxJobs = 9
    MaxHistory = 9
INVARIANT ChangesAreTold

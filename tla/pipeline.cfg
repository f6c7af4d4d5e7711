\* One call of syncWarrant and one alert handler at a time, one failure in each.
SPECIFICATION FairSpec
CONSTANTS
    p1 = p1
    p2 = p2
    p3 = p3
    Warrants = {w1}
    Snapshots = {p1, p3}
    Status <- MCStatus
    Revoked = "REVOGADO"
    Configs = {c1}
    Syncers = {s1}
    None = None
    MaxChanges = 2
    MaxFaults = 1
    Workers = {x1}
    RetryLimit = 0
    MaxErrors = 1
    MaxJobs = 9
    MaxHistory = 9
INVARIANTS PendingIsCarried HistoryIsChain
PROPERTIES SyncSpec DeliveryHolds LifecycleSpec PendingSettles

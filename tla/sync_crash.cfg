\* One call of syncWarrant at a time, which may die once.
SPECIFICATION FairSyncSpec
CONSTANTS
    p1 = p1
    p2 = p2
    p3 = p3
    Warrants = {w1}
    Snapshots = {p1, p2}
    Status <- MCStatus
    Revoked = "REVOGADO"
    Configs = {c1}
    Syncers = {s1}
    None = None
    MaxChanges = 1
    MaxFaults = 1
PROPERTY UnchangedMeansDone

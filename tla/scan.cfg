\* One row is inserted and one changes; two requests or rows fail.
SPECIFICATION FairScan
CONSTANTS
    r1 = r1
    r2 = r2
    r3 = r3
    r4 = r4
    r5 = r5
    Rows = {r1, r2, r3, r4, r5}
    Listing0 <- MCListing0
    Payloads = {p1, p2}
    Payload0 = p1
    None = None
    PageSize = 1
    MaxPages = 3
    RetroStart = 3
    RetroEnd = 5
    MaxAttempts = 2
    MaxChanges = 1
    MaxFaults = 2
INVARIANTS ScanTypeOK WorkBounded CleanRunCovers
PROPERTIES RowsRefresh

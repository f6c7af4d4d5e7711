\* An admin and a plain user, two requests at a time, two runs of the seed.
SPECIFICATION Spec
CONSTANTS
    to = to
    go = go
    Members = {ana, bia}
    Moderators = {ana}
    Labels = {l1, l2}
    Estados = {to, go}
    Municipios = {0, 1}
    Seeds <- MCSeeds
    None = None
    MaxCities = 1
    MaxConfigs = 1
    Requests = {r1, r2}
    MaxRequests = 3
    MaxSeeds = 2
INVARIANTS TypeOK RowsBounded PlaceholdersStayInactive
CHECK_DEADLOCK FALSE
SYMMETRY Symmetry

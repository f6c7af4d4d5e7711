CONSTANTS
    Procs = {p1, p2}
    Cities = {c1}
    Kinds = {"scan"}
    TeamSize = 1
    MaxFaults = 2
SPECIFICATION FairSpec
INVARIANTS TypeOK OneJobPerCity ServicesOutliveHandlers
PROPERTIES SignalledExits ActiveCitiesAreScanned

\* Two requests at a time over a pool of two.
SPECIFICATION FairSpec
CONSTANTS
    Callers = {c1, c2}
    PoolSize = 2
    MaxSessions = 4
INVARIANTS PoolBounded PoolIsSound
PROPERTIES RequestsEnd

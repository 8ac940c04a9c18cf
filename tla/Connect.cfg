SPECIFICATION FairSpec
CONSTANTS
    Caller = {c1, c2}
    Nobody = Nobody
    MaxInstance = 3
INVARIANTS
    TypeOK
    ProxyIsWatched
    RefusedOnlyWhenDown
PROPERTIES
    ProxySetOnce
    EveryCallReturns

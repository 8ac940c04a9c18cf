SPECIFICATION FairSpec
CONSTANTS
    Methods = {"set", "clear", "has", "get"}
    Function = {f1}
    PoolSize = 2
    MaxCalls = 2
    MaxRefs = 1
    MaxOther = 2
INVARIANTS
    TypeOK
    ReadsSeeAwaitedWrites
    ChangesAreOnTheirWay
PROPERTIES
    EveryCallSettles
    EveryChangeCalledBack
    AsyncCallsAreAtomic
CHECK_DEADLOCK FALSE

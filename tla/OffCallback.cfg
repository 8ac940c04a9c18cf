SPECIFICATION Spec
CONSTANTS
    Methods = {"set"}
    Function = {f1}
    PoolSize = 1
    MaxCalls = 1
    MaxRefs = 2
    MaxOther = 0
INVARIANTS
    OffUnregisters

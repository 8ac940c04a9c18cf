SPECIFICATION Spec
CONSTANTS
    Thread = {t1, t2}
    App = {a1, a2}
    Size = {50, 2048}
    Time = {3, 700}
    TopApps = 1
    NoTable = NoTable
    NoAccess = NoAccess
    MaxStarts = 2
    MaxAccesses = 2
INVARIANTS
    EventsNameState
CHECK_DEADLOCK FALSE

SPECIFICATION Spec
CONSTANTS
    Thread = {t1, t2}
    NoThread = NoThread
    app1 = app1
    app2 = app2
    orphan = orphan
    user1 = user1
    user2 = user2
    nobody = nobody
    Uid <- MCUid
    UserId <- MCUserId
    ErrorUserId = nobody
    UserOf <- MCUserOf
    Data = {d1, d2}
    NoData = NoData
    Observer = {o1, o2}
    NoObserver = NoObserver
    NoCall = NoCall
    Methods = {"Set", "Get", "Has", "Clear", "Add", "Remove", "RemoveAll"}
    Reentrant = {}
    Mortal = {}
SYMMETRY Symmetry
INVARIANTS
    TypeOK
    LocksMatchControl
    NoMissedChange
    NoCallbackAfterRemoval
PROPERTIES
    HandlersAreAtomic
    ObserversFixedWhileIterated
    UsersAreIsolated

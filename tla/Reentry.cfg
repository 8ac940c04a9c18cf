SPECIFICATION FairSpec
CONSTANTS
    Thread = {t1, t2}
    NoThread = NoThread
    app1 = app1
    app2 = app2
    orphan = orphan
    user1 = user1
    user2 = user2
    nobody = nobody
    Uid <- OneUid
    UserId <- OneUserId
    ErrorUserId = nobody
    UserOf <- OneUserOf
    Data = {d1}
    NoData = NoData
    Observer = {o1, o2}
    NoObserver = NoObserver
    NoCall = NoCall
    Methods = {"Set", "Clear", "Add", "Remove"}
    Reentrant = {o1}
    Mortal = {o1}
PROPERTIES
    EveryCallAnswered
    EveryChangeAnnounced
    ReentryWedges
CHECK_DEADLOCK FALSE

SPECIFICATION HSpec
CONSTANTS
    Thread = {t1, t2}
    NoThread = NoThread
    app1 = app1
    app2 = app2
    bundle1 = bundle1
    bundle2 = bundle2
    nobody = nobody
    d1 = d1
    Uid <- MCUid
    UserId <- OneUserId
    ErrorUserId = nobody
    UserOf <- OneUserOf
    Data = {d1}
    NoData = NoData
    Observer = {}
    NoObserver = NoObserver
    NoCall = NoCall
    Methods = {"Set", "Get", "Clear"}
    Reentrant = {}
    Mortal = {}
    Bundle = {bundle1, bundle2}
    BundleOf <- MCBundleOf
    Time = {now1, now2}
    NoUid = NoUid
    NoTime = NoTime
    HistorySize = 2
    HistoryCap = 2
INVARIANTS
    HistoryBounded

SPECIFICATION HSpec
CONSTANTS
    Thread = {t1, t2}
    NoThread = NoThread
    app1 = app1
    app2 = app2
    bundle1 = bundle1
    bundle2 = bundle2
    nobody = nobody
    d1 = d1
    Uid <- MCUid
    UserId <- TwoUserIds
    ErrorUserId = nobody
    UserOf <- TwoUserOf
    Data = {d1}
    NoData = NoData
    Observer = {}
    NoObserver = NoObserver
    NoCall = NoCall
    Methods = {"Set", "Get", "Clear"}
    Reentrant = {}
    Mortal = {}
    Bundle = {bundle1, bundle2}
    BundleOf <- MCBundleOf
    Time = {now1}
    NoUid = NoUid
    NoTime = NoTime
    HistorySize = 1
    HistoryCap = 1
SYMMETRY Threads
INVARIANTS
    HistoryTypeOK
    ShownDataHasOwner

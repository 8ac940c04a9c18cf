------------------------- MODULE PasteboardInterface -------------------------
(***************************************************************************)
(* The interface of the pasteboard service: the methods of                 *)
(* IPasteboardService, the calls applications make through it, and the     *)
(* mapping of a caller's uid to its OS account.                            *)
(***************************************************************************)

CONSTANTS
    Uid,          \* the uids of the calling applications
    UserId,       \* the ids of the OS accounts, the keys of clips_
    ErrorUserId,  \* what GetUserId returns when the account lookup fails
    UserOf,       \* OsAccountManager: the account a uid belongs to
    Data,         \* the pieces of paste data applications copy
    NoData,       \* no paste data
    Observer,     \* the remote observer objects
    NoObserver,   \* the null observer
    NoCall,       \* no call: the thread is idle
    Methods       \* the interface methods the applications call

ASSUME UserOfAssumption == UserOf \in [Uid -> UserId \cup {ErrorUserId}]
ASSUME ErrorUserAssumption == ErrorUserId \notin UserId
ASSUME NoDataAssumption == NoData \notin Data
ASSUME NoObserverAssumption == NoObserver \notin Observer

DataMethods == {"Set", "Get", "Has", "Clear"}
ObserverMethods == {"Add", "Remove", "RemoveAll"}

ASSUME MethodsAssumption == Methods \subseteq DataMethods \cup ObserverMethods

\* The calls an application can make; the arguments a method does not take are null.
CallWith(methods, data, observers) ==
    [method : methods \cap Methods, uid : Uid, data : data, observer : observers]

Call == CallWith({"Set"}, Data, {NoObserver})
        \cup CallWith({"Add", "Remove"}, {NoData}, Observer \cup {NoObserver})
        \cup CallWith({"Get", "Has", "Clear", "RemoveAll"}, {NoData}, {NoObserver})

ASSUME NoCallAssumption == NoCall \notin Call

\* The answer of a call: the returned bool and, for Get, the returned data.
Answer == [ok : BOOLEAN, data : Data \cup {NoData}]
Failure == [ok |-> FALSE, data |-> NoData]

\* PasteboardService::GetUserId: the account of the application that made call c.
GetUserId(c) == UserOf[c.uid]

=============================================================================

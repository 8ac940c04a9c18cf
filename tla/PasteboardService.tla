-------------------------- MODULE PasteboardService --------------------------
(***************************************************************************)
(* PasteboardService (services/core/src/pasteboard_service.cpp): the       *)
(* clipboards of all users and their observers, served on the threads of   *)
(* the binder pool.  A handler runs from one lock to the next as the code  *)
(* does: clipMutex_ guards clips_, observerMutex_ guards observerMap_, and *)
(* NotifyObservers calls the observers back, synchronously, while its      *)
(* caller holds clipMutex_ and it holds observerMutex_ itself.             *)
(*                                                                         *)
(* The access history and the "last copy" fields that SetPasteDataDot and  *)
(* GetPasteDataDot update are in AccessHistory.tla; here the two are the   *)
(* step "dot", which touches neither lock nor map.                         *)
(***************************************************************************)
EXTENDS PasteboardInterface

CONSTANTS
    Thread,      \* the binder threads of the service
    NoThread,    \* no thread: a free mutex
    Reentrant,   \* observers whose OnPasteboardChanged calls the service back
    Mortal       \* observers whose application may end without removing them

ASSUME NoThreadAssumption == NoThread \notin Thread
ASSUME ReentrantAssumption == Reentrant \subseteq Observer /\ Mortal \subseteq Observer

VARIABLES
    clips,          \* clips[u]: clips_, NoData where the map has no entry
    observerMap,    \* observerMap[u]: observerMap_, {} where it has no entry
    clipMutex,      \* the thread that holds clipMutex_
    observerMutex,  \* the thread that holds observerMutex_
    pc,             \* pc[t]: where in its handler thread t is
    call,           \* call[t]: the call it serves
    answer,         \* answer[t]: what the handler returns
    todo,           \* todo[t]: the observers NotifyObservers has still to call
    ended,          \* the observers whose application has ended
    callee,         \* callee[t]: the reentrant observer thread t is calling back
    nested,         \* nested[t]: the thread serving the call a callback of t made
    inner,          \* the threads that stand for an inner frame of the thread below
    stale           \* what is registered and not called back since a clipboard last changed

callbacks == <<ended, callee, nested, inner>>
vars == <<clips, observerMap, clipMutex, observerMutex, pc, call, answer, todo, callbacks, stale>>

locks == <<clipMutex, observerMutex>>

-----------------------------------------------------------------------------
\* Control points.

\* A thread is here while its lock_guard on clipMutex_ lives ...
ClipSection == {"clip", "insert", "lockNotify", "notify", "reenter", "nested", "unlockClip"}
\* ... here while NotifyObservers' lock_guard on observerMutex_ does ...
NotifySection == {"notify", "reenter", "nested"}
\* ... and here while an observer method's lock_guard on observerMutex_ does.
ObserverSection == NotifySection \cup {"observer"}

\* A thread is here when its handler has yet to take effect.
Ineffective == {"start", "dot", "lockClip", "clip", "lockObserver", "observer"}
\* A thread is here when it waits for a mutex.
Waiting == {"lockClip", "lockNotify", "lockObserver"}

Control == ClipSection \cup ObserverSection \cup Ineffective \cup Waiting \cup {"idle", "reply"}

\* The observers of all users, each with its user: what NotifyObservers iterates over.
Registered == {p \in UserId \X Observer : p[2] \in observerMap[p[1]]}

TypeOK ==
    /\ clips \in [UserId -> Data \cup {NoData}]
    /\ observerMap \in [UserId -> SUBSET Observer]
    /\ clipMutex \in Thread \cup {NoThread}
    /\ observerMutex \in Thread \cup {NoThread}
    /\ pc \in [Thread -> Control]
    /\ call \in [Thread -> Call \cup {NoCall}]
    /\ answer \in [Thread -> Answer]
    /\ todo \in [Thread -> SUBSET (UserId \X Observer)]
    /\ ended \in SUBSET Observer
    /\ callee \in [Thread -> Observer \cup {NoObserver}]
    /\ nested \in [Thread -> Thread \cup {NoThread}]
    /\ inner \in SUBSET Thread
    /\ stale \in SUBSET (UserId \X Observer)

Init ==
    /\ clips = [u \in UserId |-> NoData]
    /\ observerMap = [u \in UserId |-> {}]
    /\ clipMutex = NoThread
    /\ observerMutex = NoThread
    /\ pc = [t \in Thread |-> "idle"]
    /\ call = [t \in Thread |-> NoCall]
    /\ answer = [t \in Thread |-> Failure]
    /\ todo = [t \in Thread |-> {}]
    /\ ended = {}
    /\ callee = [t \in Thread |-> NoObserver]
    /\ nested = [t \in Thread |-> NoThread]
    /\ inner = {}
    /\ stale = {}

-----------------------------------------------------------------------------
\* Steps of a handler.

User(t) == GetUserId(call[t])
Method(t) == call[t].method

GoTo(t, from, to) ==
    /\ pc[t] = from
    /\ pc' = [pc EXCEPT ![t] = to]

\* PasteboardServiceStub::OnRemoteRequest hands thread t the call c.
Receive(t, c) ==
    /\ GoTo(t, "idle", "start")
    /\ c.observer \notin ended
    /\ call' = [call EXCEPT ![t] = c]
    /\ UNCHANGED <<clips, observerMap, locks, answer, todo, callbacks, stale>>

\* Mutant: AddPasteboardChangedObserver without its null check.
TurnedAwayButForNull(c) ==
    \/ c.method = "Remove" /\ c.observer = NoObserver
    \/ c.method \in {"Clear", "Has", "Remove", "RemoveAll"} /\ GetUserId(c) = ErrorUserId

\* A null observer and a caller without an account are turned away before any lock is
\* taken, but AddPasteboardChangedObserver looks the account up under the lock.
TurnedAway(c) ==
    \/ c.method \in {"Add", "Remove"} /\ c.observer = NoObserver
    \/ c.method \in {"Clear", "Has", "Remove", "RemoveAll"} /\ GetUserId(c) = ErrorUserId

\* Where a handler goes first: SetPasteData and GetPasteData record the access, whoever
\* their caller is.
Entry(c) ==
    IF c.method \in {"Set", "Get"} THEN "dot"
    ELSE IF TurnedAway(c) THEN "reply"
    ELSE IF c.method \in ObserverMethods THEN "lockObserver" ELSE "lockClip"

Start(t) ==
    /\ GoTo(t, "start", Entry(call[t]))
    /\ UNCHANGED <<clips, observerMap, locks, call, answer, todo, callbacks, stale>>

\* SetPasteDataDot and GetPasteDataDot run before the account is checked.
Dot(t) ==
    /\ GoTo(t, "dot", IF User(t) = ErrorUserId THEN "reply" ELSE "lockClip")
    /\ UNCHANGED <<clips, observerMap, locks, call, answer, todo, callbacks, stale>>

\* Mutant: a data handler that does not wait for clipMutex_.
LockClipWithoutWaiting(t) ==
    /\ GoTo(t, "lockClip", "clip")
    /\ clipMutex' = t
    /\ UNCHANGED <<clips, observerMap, observerMutex, call, answer, todo, callbacks, stale>>

LockClip(t) ==
    /\ GoTo(t, "lockClip", "clip")
    /\ clipMutex = NoThread
    /\ clipMutex' = t
    /\ UNCHANGED <<clips, observerMap, observerMutex, call, answer, todo, callbacks, stale>>

\* Every registered observer is out of date once a clipboard has changed.
ClipChanged == stale' = Registered

\* Mutant: Clear erases and returns without NotifyObservers.
ClearSilently(t) ==
    /\ pc[t] = "clip"
    /\ Method(t) = "Clear"
    /\ GoTo(t, "clip", "unlockClip")
    /\ clips' = [clips EXCEPT ![User(t)] = NoData]
    /\ IF clips[User(t)] # NoData THEN ClipChanged ELSE UNCHANGED stale
    /\ UNCHANGED <<observerMap, locks, call, answer, todo, callbacks>>

\* Mutant: Clear empties the map instead of erasing the caller's entry.
ClearEveryUser(t) ==
    /\ pc[t] = "clip"
    /\ Method(t) = "Clear"
    /\ GoTo(t, "clip", "lockNotify")
    /\ clips' = [u \in UserId |-> NoData]
    /\ ClipChanged
    /\ UNCHANGED <<observerMap, locks, call, answer, todo, callbacks>>

Clear(t) ==
    /\ pc[t] = "clip"
    /\ Method(t) = "Clear"
    /\ IF clips[User(t)] # NoData
       THEN /\ GoTo(t, "clip", "lockNotify")
            /\ clips' = [clips EXCEPT ![User(t)] = NoData]
            /\ ClipChanged
       ELSE /\ GoTo(t, "clip", "unlockClip")
            /\ UNCHANGED <<clips, stale>>
    /\ UNCHANGED <<observerMap, locks, call, answer, todo, callbacks>>

\* Mutant: GetPasteData returns with clipMutex_ locked.
GetKeepsLock(t) ==
    /\ GoTo(t, "clip", "reply")
    /\ Method(t) = "Get"
    /\ LET found == clips[User(t)]
       IN  answer' = [answer EXCEPT ![t] = [ok |-> found # NoData, data |-> found]]
    /\ UNCHANGED <<clips, observerMap, locks, call, todo, callbacks, stale>>

GetPasteData(t) ==
    /\ GoTo(t, "clip", "unlockClip")
    /\ Method(t) = "Get"
    /\ LET found == clips[User(t)]
       IN  answer' = [answer EXCEPT ![t] = [ok |-> found # NoData, data |-> found]]
    /\ UNCHANGED <<clips, observerMap, locks, call, todo, callbacks, stale>>

HasPasteData(t) ==
    /\ GoTo(t, "clip", "unlockClip")
    /\ Method(t) = "Has"
    /\ answer' = [answer EXCEPT ![t] = [ok |-> clips[User(t)] # NoData, data |-> NoData]]
    /\ UNCHANGED <<clips, observerMap, locks, call, todo, callbacks, stale>>

\* SetPasteData erases the old entry and then inserts a copy of the new data.
SetErase(t) ==
    /\ GoTo(t, "clip", "insert")
    /\ Method(t) = "Set"
    /\ clips' = [clips EXCEPT ![User(t)] = NoData]
    /\ UNCHANGED <<observerMap, locks, call, answer, todo, callbacks, stale>>

SetInsert(t) ==
    /\ GoTo(t, "insert", "lockNotify")
    /\ clips' = [clips EXCEPT ![User(t)] = call[t].data]
    /\ ClipChanged
    /\ UNCHANGED <<observerMap, locks, call, answer, todo, callbacks>>

-----------------------------------------------------------------------------
\* NotifyObservers.

\* Mutant: NotifyObservers iterates without observerMutex_.
NotifyUnlocked(t) ==
    /\ GoTo(t, "lockNotify", "notify")
    /\ todo' = [todo EXCEPT ![t] = Registered]
    /\ UNCHANGED <<clips, observerMap, locks, call, answer, callbacks, stale>>

\* Mutant: clipMutex_ is released before the observers are called.
NotifyReleasesClips(t) ==
    /\ GoTo(t, "lockNotify", "notify")
    /\ observerMutex = NoThread
    /\ observerMutex' = t
    /\ clipMutex' = NoThread
    /\ todo' = [todo EXCEPT ![t] = Registered]
    /\ UNCHANGED <<clips, observerMap, call, answer, callbacks, stale>>

LockNotify(t) ==
    /\ GoTo(t, "lockNotify", "notify")
    /\ observerMutex = NoThread
    /\ observerMutex' = t
    /\ todo' = [todo EXCEPT ![t] = Registered]
    /\ UNCHANGED <<clips, observerMap, clipMutex, call, answer, callbacks, stale>>

\* Where OnPasteboardChanged of one observer leads; a call of an application that has
\* ended returns at once, with an error nobody looks at.
CallBack(t, o) ==
    LET comesBack == o \in Reentrant \ ended
    IN  /\ GoTo(t, "notify", IF comesBack THEN "reenter" ELSE "notify")
        /\ callee' = [callee EXCEPT ![t] = IF comesBack THEN o ELSE NoObserver]
        /\ UNCHANGED <<ended, nested, inner>>

\* Mutant: the loop does not advance its iterator.
NotifyForever(t) ==
    /\ \E p \in todo[t] : CallBack(t, p[2]) /\ stale' = stale \ {p}
    /\ UNCHANGED <<clips, observerMap, locks, call, answer, todo>>

\* Mutant: the loop ends at a call that fails.
NotifyUntilError(t) ==
    /\ \E p \in todo[t] :
        /\ CallBack(t, p[2])
        /\ todo' = [todo EXCEPT ![t] = IF p[2] \in ended THEN {} ELSE @ \ {p}]
        /\ stale' = stale \ {p}
    /\ UNCHANGED <<clips, observerMap, locks, call, answer>>

\* OnPasteboardChanged of one observer, a synchronous call; the order of the
\* observers is that of the users' ids and the objects' addresses.
Notify(t) ==
    /\ \E p \in todo[t] :
        /\ CallBack(t, p[2])
        /\ todo' = [todo EXCEPT ![t] = @ \ {p}]
        /\ stale' = stale \ {p}
    /\ UNCHANGED <<clips, observerMap, locks, call, answer>>

\* The callback of a reentrant observer calls the service, and returns when that call is
\* answered.  n stands for whatever serves the nested call: another thread of the pool
\* or, where the binder driver hands it back to t itself, that thread's inner frame.
\* Neither gets past a mutex of t, for std::mutex is not recursive.
Reenter(t, n, c) ==
    /\ pc[t] = "reenter"
    /\ pc[n] = "idle"
    /\ {callee[t], c.observer} \cap ended = {}
    /\ pc' = [pc EXCEPT ![t] = "nested", ![n] = "start"]
    /\ call' = [call EXCEPT ![n] = c]
    /\ nested' = [nested EXCEPT ![t] = n]
    /\ inner' \in {inner, inner \cup {n}}
    /\ UNCHANGED <<clips, observerMap, locks, answer, todo, ended, callee, stale>>

\* The application of observer o ends (external).  No death recipient is linked to an
\* observer, so observerMap_ keeps it.
ApplicationEnds(o) ==
    /\ o \in Mortal \ ended
    /\ ended' = ended \cup {o}
    /\ UNCHANGED <<clips, observerMap, locks, pc, call, answer, todo, callee, nested, inner, stale>>

\* A callback in progress fails when its application ends, and the loop goes on; but a
\* thread that serves the nested call in its own inner frame has to finish it first.
CallbackFails(t) ==
    /\ pc[t] \in {"reenter", "nested"}
    /\ callee[t] \in ended
    /\ nested[t] \notin inner
    /\ pc' = [pc EXCEPT ![t] = "notify"]
    /\ callee' = [callee EXCEPT ![t] = NoObserver]
    /\ nested' = [nested EXCEPT ![t] = NoThread]
    /\ UNCHANGED <<clips, observerMap, locks, call, answer, todo, ended, inner, stale>>

\* The loop ends and NotifyObservers releases observerMutex_.
NotifyEnd(t) ==
    /\ todo[t] = {}
    /\ GoTo(t, "notify", "unlockClip")
    /\ observerMutex' = NoThread
    /\ UNCHANGED <<clips, observerMap, clipMutex, call, answer, todo, callbacks, stale>>

UnlockClip(t) ==
    /\ GoTo(t, "unlockClip", "reply")
    /\ clipMutex' = NoThread
    /\ UNCHANGED <<clips, observerMap, observerMutex, call, answer, todo, callbacks, stale>>

-----------------------------------------------------------------------------
\* The observer methods.

\* Mutant: the observer methods do not wait for observerMutex_.
LockObserverWithoutWaiting(t) ==
    /\ GoTo(t, "lockObserver", "observer")
    /\ UNCHANGED <<clips, observerMap, locks, call, answer, todo, callbacks, stale>>

LockObserver(t) ==
    /\ GoTo(t, "lockObserver", "observer")
    /\ observerMutex = NoThread
    /\ observerMutex' = t
    /\ UNCHANGED <<clips, observerMap, clipMutex, call, answer, todo, callbacks, stale>>

\* What the method does to the observers of the caller's user.
AddPasteboardChangedObserver(c, observers) == observers \cup {c.observer}
RemovePasteboardChangedObserver(c, observers) == observers \ {c.observer}
RemoveAllChangedObserver(c, observers) == {}

\* The body of an observer method, to the end of its lock_guard.  An observer that
\* is added has missed nothing, one that is removed is told nothing more.
ObserverMethod(t) ==
    /\ GoTo(t, "observer", "reply")
    /\ observerMap' =
          [u \in UserId |->
             IF u # User(t) THEN observerMap[u]
             ELSE CASE Method(t) = "Add" -> AddPasteboardChangedObserver(call[t], observerMap[u])
                    [] Method(t) = "Remove" -> RemovePasteboardChangedObserver(call[t], observerMap[u])
                    [] OTHER -> RemoveAllChangedObserver(call[t], observerMap[u])]
    /\ observerMutex' = NoThread
    /\ stale' = stale \cap Registered'
    /\ UNCHANGED <<clips, clipMutex, call, answer, todo, callbacks>>

\* The reply parcel leaves; a callback that waited for it goes on.
Reply(t) ==
    /\ pc[t] = "reply"
    /\ pc' = [u \in Thread |-> IF u = t THEN "idle" ELSE IF nested[u] = t THEN "notify" ELSE pc[u]]
    /\ nested' = [u \in Thread |-> IF nested[u] = t THEN NoThread ELSE nested[u]]
    /\ callee' = [u \in Thread |-> IF nested[u] = t THEN NoObserver ELSE callee[u]]
    /\ inner' = inner \ {t}
    /\ call' = [call EXCEPT ![t] = NoCall]
    /\ answer' = [answer EXCEPT ![t] = Failure]
    /\ UNCHANGED <<clips, observerMap, locks, todo, ended, stale>>

-----------------------------------------------------------------------------
ClipMethod(t) == Clear(t) \/ GetPasteData(t) \/ HasPasteData(t) \/ SetErase(t) \/ SetInsert(t)

Lock(t) == LockClip(t) \/ LockNotify(t) \/ LockObserver(t)

\* What thread t does on its own once it has a call.
Serve(t) ==
    \/ Start(t) \/ ClipMethod(t)
    \/ Notify(t) \/ CallbackFails(t) \/ NotifyEnd(t) \/ UnlockClip(t)
    \/ ObserverMethod(t)
    \/ Reply(t)

Run(t) == Serve(t) \/ Dot(t)

Next ==
    \/ \E t \in Thread, c \in Call : Receive(t, c)
    \/ \E t \in Thread : Run(t)
    \/ \E t \in Thread : Lock(t)
    \/ \E t, n \in Thread, c \in Call : Reenter(t, n, c)
    \/ \E o \in Observer : ApplicationEnds(o)

Spec == Init /\ [][Next]_vars

\* The scheduler runs every thread, and a thread that waits for a mutex gets it if the
\* mutex is free again and again (the futex wakes its waiters).
FairSpec ==
    /\ Spec
    /\ \A t \in Thread :
        /\ WF_vars(Run(t))
        /\ SF_vars(LockClip(t)) /\ SF_vars(LockNotify(t)) /\ SF_vars(LockObserver(t))
        /\ WF_vars(\E n \in Thread, c \in Call : Reenter(t, n, c))
-----------------------------------------------------------------------------
\* Safety.

\* Each mutex is held by exactly the thread that is inside its lock_guard's scope
\* (std::lock_guard in every handler and in NotifyObservers): no two threads are ever
\* inside, and no path out of a handler leaves a mutex locked.
LocksMatchControl ==
    \A t \in Thread :
        /\ clipMutex = t <=> pc[t] \in ClipSection
        /\ observerMutex = t <=> pc[t] \in ObserverSection

\* A change of any user's clipboard has reached every observer registered at the time,
\* and not removed since, before another call can see or change a clipboard
\* (SetPasteData and Clear notify before they release clipMutex_).
NoMissedChange == clipMutex = NoThread => stale = {}

\* NotifyObservers never calls an observer whose removal has been answered: what is
\* left of its loop is always still registered.
NoCallbackAfterRemoval == \A t \in Thread : todo[t] \subseteq Registered

\* The observers are not changed under the loop that iterates over them, which would
\* invalidate the iterators of NotifyObservers.
ObserversFixedWhileIterated ==
    [][(\E t \in Thread : pc[t] \in NotifySection) => UNCHANGED observerMap]_vars

\* A call of one user's application never touches another user's clipboard or
\* observers, and a caller without an account touches none (clips_ and observerMap_
\* are keyed by GetUserId).
UsersAreIsolated ==
    [][\A u \in UserId :
         clips'[u] # clips[u] \/ observerMap'[u] # observerMap[u]
            => \E t \in Thread : pc'[t] # pc[t] /\ call[t] # NoCall /\ User(t) = u]_vars

-----------------------------------------------------------------------------
\* Liveness.

\* Thread n is held up by a callback that called the service back: its application is
\* there to wait for the answer, or n serves the nested call itself.
HeldUp(n) ==
    /\ pc[n] \in {"reenter", "nested"}
    /\ callee[n] \notin ended \/ nested[n] \in inner

\* A call that is received is answered, also when applications end before, in or after
\* their callbacks, unless a callback called the service back: the service then holds
\* both mutexes until that nested call is answered, and the nested call may need one.
EveryCallAnswered ==
    \A t \in Thread : pc[t] = "start" ~> pc[t] = "idle" \/ \E n \in Thread : HeldUp(n)

\* A registered observer eventually hears of every change, whatever other threads do
\* and however many of the observers before it have lost their application, unless a
\* callback called the service back.
EveryChangeAnnounced ==
    \A p \in UserId \X Observer : p \in stale ~> p \notin stale \/ \E n \in Thread : HeldUp(n)

\* A callback whose nested call has come to a mutex does not return while its
\* application lives, and never if its own thread serves the call: that thread keeps
\* both mutexes, and no call that needs one is answered (NotifyObservers calls
\* OnPasteboardChanged synchronously under both lock_guards).
ReentryWedges ==
    [][\A t, n \in Thread :
         nested[t] = n /\ pc[n] \in Waiting /\ HeldUp(t)
            => UNCHANGED <<clipMutex, observerMutex, clips, observerMap>>]_vars

-----------------------------------------------------------------------------
\* Refinement: every call takes effect atomically.  SetPasteData does at its erase:
\* between erase and insert the new data is already the clipboard's content.

Holder(t) == clipMutex = t /\ pc[t] = "insert"

EffectiveClips ==
    [u \in UserId |->
        IF \E t \in Thread : Holder(t) /\ User(t) = u THEN call[clipMutex].data ELSE clips[u]]

Status ==
    [t \in Thread |-> IF pc[t] = "idle" THEN "idle"
                      ELSE IF pc[t] \in Ineffective THEN "called"
                      ELSE "done"]

PB == INSTANCE Pasteboard WITH clip <- EffectiveClips, registered <- observerMap, status <- Status

\* The handlers of IPasteboardService are atomic: linearizable calls on one clipboard
\* and one observer set per user.
HandlersAreAtomic == PB!Spec

=============================================================================

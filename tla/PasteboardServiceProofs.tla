----------------------- MODULE PasteboardServiceProofs -----------------------
(***************************************************************************)
(* Proofs about PasteboardService, for every set of threads, users,        *)
(* applications, observers and data, reentrant observers included.         *)
(***************************************************************************)
EXTENDS PasteboardService, TLAPS

-----------------------------------------------------------------------------
\* The inductive invariant, in parts.

\* A thread that is not idle has a call; one on its way to clips_ serves an
\* application with an account; one that is to change the observers serves an observer
\* method, and has an observer to add.
CallsFitControl ==
    \A t \in Thread :
        /\ pc[t] # "idle" => call[t] \in Call
        /\ pc[t] \in ClipSection \cup {"lockClip"} => User(t) \in UserId
        /\ pc[t] \in {"lockObserver", "observer"} =>
              /\ Method(t) \in ObserverMethods
              /\ Method(t) = "Add" => call[t].observer \in Observer

\* Only a callback in progress has a nested call.
NestedFitsControl == \A t \in Thread : nested[t] # NoThread => pc[t] = "nested"

TypeInv == TypeOK /\ CallsFitControl /\ NestedFitsControl

-----------------------------------------------------------------------------
\* Lemmas about calls.

LEMMA CallFields ==
    ASSUME NEW c \in Call
    PROVE  /\ c.method \in DataMethods \cup ObserverMethods
           /\ c.uid \in Uid
           /\ c.data \in Data \cup {NoData}
           /\ c.observer \in Observer \cup {NoObserver}
  BY MethodsAssumption DEF Call, CallWith, DataMethods, ObserverMethods

LEMMA UserIdOfCall ==
    ASSUME NEW c \in Call
    PROVE  GetUserId(c) \in UserId \cup {ErrorUserId}
  BY CallFields, UserOfAssumption DEF GetUserId

\* A call goes where its arguments and its caller's account allow.
LEMMA EntryOfCall ==
    ASSUME NEW c \in Call
    PROVE  /\ Entry(c) \in {"dot", "reply", "lockObserver", "lockClip"}
           /\ Entry(c) = "lockClip" => GetUserId(c) \in UserId
           /\ Entry(c) = "lockObserver" =>
                /\ c.method \in ObserverMethods
                /\ c.method = "Add" => c.observer \in Observer
  BY CallFields, UserIdOfCall DEF Entry, TurnedAway, DataMethods, ObserverMethods

-----------------------------------------------------------------------------
\* Type correctness.

LEMMA TypeInvInit == Init => TypeInv
  BY DEF Init, TypeInv, TypeOK, CallsFitControl, NestedFitsControl, Control, ClipSection,
         ObserverSection, NotifySection, Ineffective, Waiting, Answer, Failure

\* The next-state relation, one disjunct per step of a handler.
LEMMA NextSteps ==
    ASSUME [Next]_vars
    PROVE  \/ \E t \in Thread, c \in Call : Receive(t, c)
           \/ \E t, n \in Thread, c \in Call : Reenter(t, n, c)
           \/ \E o \in Observer : ApplicationEnds(o)
           \/ \E t \in Thread :
                \/ Start(t) \/ Dot(t) \/ LockClip(t) \/ UnlockClip(t)
                \/ Clear(t) \/ GetPasteData(t) \/ HasPasteData(t) \/ SetErase(t) \/ SetInsert(t)
                \/ LockNotify(t) \/ Notify(t) \/ CallbackFails(t) \/ NotifyEnd(t)
                \/ LockObserver(t) \/ ObserverMethod(t) \/ Reply(t)
           \/ UNCHANGED vars
  BY DEF Next, Run, Serve, ClipMethod, Lock

LEMMA TypeInvNext == TypeInv /\ [Next]_vars => TypeInv'
  <1> SUFFICES ASSUME TypeInv, [Next]_vars PROVE TypeInv'
    OBVIOUS
  <1> USE DEF TypeInv, TypeOK, CallsFitControl, NestedFitsControl, User, Method, callbacks
  <1>1. ASSUME NEW t \in Thread, NEW c \in Call, Receive(t, c) PROVE TypeInv'
    BY <1>1 DEF Receive, GoTo, locks, Control, ClipSection, Ineffective
  <1>2. ASSUME NEW t \in Thread, NEW n \in Thread, NEW c \in Call, Reenter(t, n, c) PROVE TypeInv'
    BY <1>2, NoThreadAssumption DEF Reenter, locks, Control, ClipSection, Ineffective
  <1>3. ASSUME NEW t \in Thread, Start(t) PROVE TypeInv'
    <2>1. call[t] \in Call
      BY <1>3 DEF Start, GoTo
    <2>2. /\ Entry(call[t]) \in {"dot", "reply", "lockObserver", "lockClip"}
          /\ Entry(call[t]) = "lockClip" => User(t) \in UserId
          /\ Entry(call[t]) = "lockObserver" =>
                /\ Method(t) \in ObserverMethods
                /\ Method(t) = "Add" => call[t].observer \in Observer
      BY <2>1, EntryOfCall
    <2> QED BY <1>3, <2>1, <2>2 DEF Start, GoTo, locks, Control, ClipSection, Ineffective, Waiting
  <1>4. ASSUME NEW t \in Thread, Dot(t) PROVE TypeInv'
    <2>1. User(t) \in UserId \cup {ErrorUserId}
      BY <1>4, UserIdOfCall DEF Dot, GoTo
    <2> QED BY <1>4, <2>1 DEF Dot, GoTo, locks, Control, ClipSection, Waiting
  <1>5. ASSUME NEW t \in Thread, LockClip(t) \/ UnlockClip(t) PROVE TypeInv'
    BY <1>5 DEF LockClip, UnlockClip, GoTo, Control, ClipSection
  <1>6. ASSUME NEW t \in Thread, Clear(t) PROVE TypeInv'
    BY <1>6 DEF Clear, GoTo, ClipChanged, Registered, locks, Control, ClipSection
  <1>7. ASSUME NEW t \in Thread, GetPasteData(t) \/ HasPasteData(t) PROVE TypeInv'
    <2>1. User(t) \in UserId
      BY <1>7 DEF GetPasteData, HasPasteData, GoTo, ClipSection
    <2>2. clips[User(t)] \in Data \cup {NoData}
      BY <2>1
    <2>3. /\ [ok |-> clips[User(t)] # NoData, data |-> clips[User(t)]] \in Answer
          /\ [ok |-> clips[User(t)] # NoData, data |-> NoData] \in Answer
      BY <2>2 DEF Answer
    <2>4. answer' \in [Thread -> Answer]
      BY <1>7, <2>3 DEF GetPasteData, HasPasteData
    <2> QED BY <1>7, <2>4 DEF GetPasteData, HasPasteData, GoTo, locks, Control, ClipSection
  <1>8. ASSUME NEW t \in Thread, SetErase(t) PROVE TypeInv'
    BY <1>8 DEF SetErase, GoTo, locks, Control, ClipSection
  <1>9. ASSUME NEW t \in Thread, SetInsert(t) PROVE TypeInv'
    <2>1. call[t].data \in Data \cup {NoData}
      BY <1>9, CallFields DEF SetInsert, GoTo
    <2> QED BY <1>9, <2>1 DEF SetInsert, GoTo, ClipChanged, Registered, locks, Control, ClipSection
  <1>10. ASSUME NEW t \in Thread, LockNotify(t) PROVE TypeInv'
    BY <1>10 DEF LockNotify, GoTo, Registered, Control, ClipSection
  <1>11. ASSUME NEW t \in Thread, Notify(t) PROVE TypeInv'
    BY <1>11, ReentrantAssumption DEF Notify, CallBack, GoTo, locks, Control, ClipSection
  <1>12. ASSUME NEW t \in Thread, NotifyEnd(t) PROVE TypeInv'
    BY <1>12 DEF NotifyEnd, GoTo, Control, ClipSection
  <1>13. ASSUME NEW t \in Thread, LockObserver(t) PROVE TypeInv'
    BY <1>13 DEF LockObserver, GoTo, Control, ClipSection, ObserverSection
  <1>14. ASSUME NEW t \in Thread, ObserverMethod(t) PROVE TypeInv'
    BY <1>14 DEF ObserverMethod, AddPasteboardChangedObserver, RemovePasteboardChangedObserver,
       RemoveAllChangedObserver, GoTo, Control, ClipSection, Registered
  <1>15. ASSUME NEW t \in Thread, Reply(t) PROVE TypeInv'
    BY <1>15, NoThreadAssumption DEF Reply, locks, Control, ClipSection, Ineffective, Answer, Failure
  <1>16. ASSUME NEW t \in Thread, CallbackFails(t) PROVE TypeInv'
    BY <1>16 DEF CallbackFails, locks, Control, ClipSection
  <1>17. ASSUME NEW o \in Observer, ApplicationEnds(o) PROVE TypeInv'
    BY <1>17 DEF ApplicationEnds, locks
  <1>18. CASE UNCHANGED vars
    BY <1>18 DEF vars, locks
  <1> QED
    BY <1>1, <1>2, <1>3, <1>4, <1>5, <1>6, <1>7, <1>8, <1>9, <1>10, <1>11, <1>12, <1>13, <1>14,
       <1>15, <1>16, <1>17, <1>18, NextSteps

LEMMA TypeInvariant == Spec => []TypeInv
  BY TypeInvInit, TypeInvNext, PTL DEF Spec

\* Every variable of the service keeps its type: no handler, whatever its caller's
\* account and arguments, stores anything but paste data in clips_, anything but
\* observers in observerMap_, or answers with anything but a bool and data.
THEOREM TypeCorrect == Spec => []TypeOK
  BY TypeInvariant, PTL DEF TypeInv

-----------------------------------------------------------------------------
\* Mutual exclusion.

LockInv == TypeInv /\ LocksMatchControl

LEMMA LockInvNext == LockInv /\ [Next]_vars => LockInv'
  <1> SUFFICES ASSUME LockInv, [Next]_vars PROVE LocksMatchControl'
    BY TypeInvNext DEF LockInv
  <1> USE NoThreadAssumption
      DEF LockInv, TypeInv, TypeOK, LocksMatchControl, GoTo, locks, ClipSection, ObserverSection, NotifySection
  <1>1. ASSUME NEW t \in Thread, NEW c \in Call, Receive(t, c) PROVE LocksMatchControl'
    BY <1>1 DEF Receive
  <1>2. ASSUME NEW t \in Thread, NEW n \in Thread, NEW c \in Call, Reenter(t, n, c)
        PROVE  LocksMatchControl'
    BY <1>2 DEF Reenter
  <1>3. ASSUME NEW t \in Thread, Start(t) PROVE LocksMatchControl'
    <2>1. Entry(call[t]) \in {"dot", "reply", "lockObserver", "lockClip"}
      BY <1>3, EntryOfCall DEF Start, CallsFitControl
    <2> QED BY <1>3, <2>1 DEF Start
  <1>4. ASSUME NEW t \in Thread, Dot(t) PROVE LocksMatchControl'
    BY <1>4 DEF Dot
  <1>5. ASSUME NEW t \in Thread, LockClip(t) \/ UnlockClip(t) PROVE LocksMatchControl'
    BY <1>5 DEF LockClip, UnlockClip
  <1>6. ASSUME NEW t \in Thread,
               Clear(t) \/ GetPasteData(t) \/ HasPasteData(t) \/ SetErase(t) \/ SetInsert(t)
        PROVE  LocksMatchControl'
    BY <1>6 DEF Clear, GetPasteData, HasPasteData, SetErase, SetInsert
  <1>7. ASSUME NEW t \in Thread, LockNotify(t) \/ Notify(t) \/ CallbackFails(t) \/ NotifyEnd(t)
        PROVE  LocksMatchControl'
    BY <1>7 DEF LockNotify, Notify, CallBack, CallbackFails, NotifyEnd
  <1>8. ASSUME NEW t \in Thread, LockObserver(t) \/ ObserverMethod(t) PROVE LocksMatchControl'
    BY <1>8 DEF LockObserver, ObserverMethod
  <1>9. ASSUME NEW t \in Thread, Reply(t) PROVE LocksMatchControl'
    BY <1>9 DEF Reply, NestedFitsControl
  <1>10. CASE (\E o \in Observer : ApplicationEnds(o)) \/ UNCHANGED vars
    BY <1>10 DEF ApplicationEnds, vars
  <1> QED
    BY <1>1, <1>2, <1>3, <1>4, <1>5, <1>6, <1>7, <1>8, <1>9, <1>10, NextSteps

LEMMA LockInvariant == Spec => []LockInv
  <1>1. Init => LockInv
    BY TypeInvInit, NoThreadAssumption
       DEF LockInv, Init, LocksMatchControl, ClipSection, ObserverSection, NotifySection
  <1> QED BY <1>1, LockInvNext, PTL DEF Spec

\* The two mutexes exclude: each is held by exactly the thread inside its lock_guard's
\* scope, on every path through every handler, callbacks that call back included.
THEOREM LocksAreExclusive == Spec => []LocksMatchControl
  BY LockInvariant, PTL DEF LockInv

-----------------------------------------------------------------------------
\* Notification.

\* Only NotifyObservers has observers left to call, all of them registered.
TodoFitsControl ==
    \A t \in Thread : /\ todo[t] # {} => pc[t] \in NotifySection
                      /\ todo[t] \subseteq Registered

\* What is out of date is registered, and a thread is about to notify or still has
\* all of it to call.
StaleIsPending ==
    /\ stale \subseteq Registered
    /\ stale # {} => \E t \in Thread : \/ pc[t] = "lockNotify"
                                       \/ pc[t] \in NotifySection /\ stale \subseteq todo[t]

NotifyInv == TodoFitsControl /\ StaleIsPending

LEMMA NotifyInvNext == LockInv /\ NotifyInv /\ [Next]_vars => NotifyInv'
  <1> SUFFICES ASSUME LockInv, NotifyInv, [Next]_vars PROVE NotifyInv'
    OBVIOUS
  <1> USE NoThreadAssumption
      DEF LockInv, TypeInv, TypeOK, LocksMatchControl, NotifyInv, TodoFitsControl, StaleIsPending,
          GoTo, locks, ClipSection, ObserverSection, NotifySection
  <1>1. ASSUME NEW t \in Thread, NEW c \in Call, Receive(t, c) PROVE NotifyInv'
    BY <1>1 DEF Receive, Registered
  <1>2. ASSUME NEW t \in Thread, NEW n \in Thread, NEW c \in Call, Reenter(t, n, c)
        PROVE  NotifyInv'
    BY <1>2 DEF Reenter, Registered
  <1>3. ASSUME NEW t \in Thread, Start(t) \/ Dot(t) \/ LockClip(t) \/ LockObserver(t) \/ UnlockClip(t)
        PROVE  NotifyInv'
    BY <1>3 DEF Start, Dot, LockClip, LockObserver, UnlockClip, Registered
  <1>4. ASSUME NEW t \in Thread, GetPasteData(t) \/ HasPasteData(t) \/ SetErase(t)
        PROVE  NotifyInv'
    BY <1>4 DEF GetPasteData, HasPasteData, SetErase, Registered
  <1>5. ASSUME NEW t \in Thread, Clear(t) \/ SetInsert(t) PROVE NotifyInv'
    BY <1>5 DEF Clear, SetInsert, ClipChanged, Registered
  <1>6. ASSUME NEW t \in Thread, LockNotify(t) PROVE NotifyInv'
    BY <1>6 DEF LockNotify, Registered
  <1>7. ASSUME NEW t \in Thread, Notify(t) PROVE NotifyInv'
    BY <1>7 DEF Notify, CallBack, Registered
  <1>8. ASSUME NEW t \in Thread, NotifyEnd(t) PROVE NotifyInv'
    BY <1>8 DEF NotifyEnd, Registered
  <1>9. ASSUME NEW t \in Thread, ObserverMethod(t) PROVE NotifyInv'
    <2>1. \A u \in Thread : pc[u] \notin NotifySection /\ todo[u] = {}
      BY <1>9 DEF ObserverMethod
    <2>2. stale' \subseteq stale /\ stale' \subseteq Registered'
      BY <1>9 DEF ObserverMethod
    <2>3. TodoFitsControl'
      BY <1>9, <2>1 DEF ObserverMethod
    <2> QED BY <1>9, <2>1, <2>2, <2>3 DEF ObserverMethod
  <1>10. ASSUME NEW t \in Thread, Reply(t) PROVE NotifyInv'
    BY <1>10 DEF Reply, NestedFitsControl, Registered
  <1>11. CASE (\E t \in Thread : CallbackFails(t)) \/ (\E o \in Observer : ApplicationEnds(o)) \/ UNCHANGED vars
    BY <1>11 DEF CallbackFails, ApplicationEnds, vars, Registered
  <1> QED
    BY <1>1, <1>2, <1>3, <1>4, <1>5, <1>6, <1>7, <1>8, <1>9, <1>10, <1>11, NextSteps

LEMMA NotifyInvariant == Spec => []NotifyInv
  <1>1. Init => NotifyInv
    BY DEF Init, NotifyInv, TodoFitsControl, StaleIsPending
  <1> QED BY <1>1, NotifyInvNext, LockInvariant, PTL DEF Spec

\* Every change of a clipboard has reached every observer that stays registered before
\* another call can see or change a clipboard, however many threads, users and
\* observers there are.
THEOREM NoChangeIsMissed == Spec => []NoMissedChange
  <1>1. LockInv /\ NotifyInv => NoMissedChange
    BY NoThreadAssumption
       DEF LockInv, LocksMatchControl, NotifyInv, StaleIsPending, NoMissedChange, ClipSection, NotifySection
  <1> QED BY <1>1, LockInvariant, NotifyInvariant, PTL

\* No observer is called back once its removal has been answered.
THEOREM NoLateCallback == Spec => []NoCallbackAfterRemoval
  <1>1. NotifyInv => NoCallbackAfterRemoval
    BY DEF NotifyInv, TodoFitsControl, NoCallbackAfterRemoval
  <1> QED BY <1>1, NotifyInvariant, PTL

-----------------------------------------------------------------------------
\* What a step may never do.

\* The loop of NotifyObservers iterates over sets that nothing changes: observers are
\* added and removed under the mutex the loop holds.
THEOREM ObserversStayFixed == Spec => ObserversFixedWhileIterated
  <1> DEFINE Fixed == (\E t \in Thread : pc[t] \in NotifySection) => UNCHANGED observerMap
  <1>1. LockInv /\ [Next]_vars => [Fixed]_vars
    <2> SUFFICES ASSUME LockInv, [Next]_vars, NEW u \in Thread, pc[u] \in NotifySection
                 PROVE  UNCHANGED observerMap
      OBVIOUS
    <2>1. observerMutex = u
      BY DEF LockInv, LocksMatchControl, ObserverSection
    <2>2. ASSUME NEW t \in Thread, ObserverMethod(t) PROVE FALSE
      BY <2>1, <2>2 DEF ObserverMethod, GoTo, LockInv, LocksMatchControl, ObserverSection, NotifySection
    <2> QED
      BY <2>2, NextSteps
         DEF Receive, Reenter, Start, Dot, LockClip, UnlockClip, Clear, GetPasteData, HasPasteData,
             SetErase, SetInsert, LockNotify, Notify, CallbackFails, ApplicationEnds, NotifyEnd,
             LockObserver, Reply, vars
  <1> QED BY <1>1, LockInvariant, PTL DEF Spec, ObserversFixedWhileIterated

\* A clipboard or an observer set changes only in a call of an application of its user.
THEOREM UsersStayIsolated == Spec => UsersAreIsolated
  <1> DEFINE Isolated(u) ==
        clips'[u] # clips[u] \/ observerMap'[u] # observerMap[u]
            => \E t \in Thread : pc'[t] # pc[t] /\ call[t] # NoCall /\ User(t) = u
  <1>1. TypeInv /\ [Next]_vars => [\A u \in UserId : Isolated(u)]_vars
    <2> SUFFICES ASSUME TypeInv, [Next]_vars, NEW u \in UserId PROVE Isolated(u)
      OBVIOUS
    <2> USE DEF TypeInv, TypeOK
    <2>1. ASSUME NEW t \in Thread,
                 Clear(t) \/ SetErase(t) \/ SetInsert(t) \/ ObserverMethod(t)
          PROVE  Isolated(u)
      <3>1. pc[t] \in {"clip", "insert", "observer"} /\ pc'[t] # pc[t]
        BY <2>1 DEF Clear, SetErase, SetInsert, ObserverMethod, GoTo
      <3>2. call[t] # NoCall
        BY <3>1, NoCallAssumption DEF CallsFitControl
      <3>3. User(t) # u => clips'[u] = clips[u] /\ observerMap'[u] = observerMap[u]
        <4>1. CASE Clear(t) \/ SetErase(t) \/ SetInsert(t)
          BY <4>1 DEF Clear, SetErase, SetInsert
        <4>2. CASE ObserverMethod(t)
          BY <4>2 DEF ObserverMethod
        <4> QED BY <2>1, <4>1, <4>2
      <3> QED BY <3>1, <3>2, <3>3
    <2> QED
      BY <2>1, NextSteps
         DEF Receive, Reenter, Start, Dot, LockClip, UnlockClip, GetPasteData, HasPasteData,
             LockNotify, Notify, CallbackFails, ApplicationEnds, NotifyEnd, LockObserver, Reply, vars
  <1> QED BY <1>1, TypeInvariant, PTL DEF Spec, UsersAreIsolated

\* A callback whose nested call waits for a mutex keeps both mutexes, and with them every
\* clipboard and every observer set as they are, while its application lives or its own
\* thread serves the call: its thread holds both, and no other thread gets past them.
THEOREM ReentryIsFatal == Spec => ReentryWedges
  <1> DEFINE Wedged ==
        \A t, n \in Thread : nested[t] = n /\ pc[n] \in Waiting /\ HeldUp(t)
            => UNCHANGED <<clipMutex, observerMutex, clips, observerMap>>
  <1>1. LockInv /\ [Next]_vars => [Wedged]_vars
    <2> SUFFICES ASSUME LockInv, [Next]_vars,
                        NEW t \in Thread, NEW n \in Thread, nested[t] = n, pc[n] \in Waiting, HeldUp(t)
                 PROVE  UNCHANGED <<clipMutex, observerMutex, clips, observerMap>>
      OBVIOUS
    <2>1. pc[t] = "nested" /\ clipMutex = t /\ observerMutex = t
      BY NoThreadAssumption DEF LockInv, TypeInv, NestedFitsControl, LocksMatchControl, ClipSection,
                                ObserverSection, NotifySection
    <2>2. \A u \in Thread : u # t => pc[u] \notin ClipSection \cup ObserverSection
      BY <2>1 DEF LockInv, LocksMatchControl
    <2>3. ASSUME NEW u \in Thread,
                 \/ LockClip(u) \/ UnlockClip(u) \/ LockNotify(u) \/ NotifyEnd(u) \/ LockObserver(u)
                 \/ Clear(u) \/ SetErase(u) \/ SetInsert(u) \/ ObserverMethod(u)
          PROVE  FALSE
      BY <2>1, <2>2, <2>3, NoThreadAssumption
         DEF LockClip, UnlockClip, LockNotify, NotifyEnd, LockObserver, Clear, SetErase, SetInsert,
             ObserverMethod, GoTo, ClipSection, ObserverSection, NotifySection
    <2> QED
      BY <2>3, NextSteps
         DEF Receive, Reenter, Start, Dot, GetPasteData, HasPasteData, Notify, CallbackFails,
             ApplicationEnds, Reply, locks, vars
  <1> QED BY <1>1, LockInvariant, PTL DEF Spec, ReentryWedges

=============================================================================

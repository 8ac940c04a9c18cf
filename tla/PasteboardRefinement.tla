------------------------- MODULE PasteboardRefinement -------------------------
(***************************************************************************)
(* PasteboardService implements Pasteboard: every call takes effect in one *)
(* step between its receipt and its answer, for every set of threads,      *)
(* users, applications, observers and data.                                *)
(***************************************************************************)
EXTENDS PasteboardServiceProofs

-----------------------------------------------------------------------------
\* The refinement mapping.

\* Pasteboard's interface is the service's.
LEMMA SameInterface ==
    /\ PB!Call = Call
    /\ PB!Failure = Failure
    /\ \A c : PB!GetUserId(c) = GetUserId(c)
  BY DEF PB!Call, Call, PB!CallWith, CallWith, PB!Failure, Failure, PB!GetUserId, GetUserId

\* While no thread is between its erase and its insert, clips_ is the abstract clipboard.
LEMMA EffectiveAtRest == LockInv /\ (\A t \in Thread : pc[t] # "insert") => EffectiveClips = clips
  BY DEF LockInv, TypeInv, TypeOK, EffectiveClips, Holder

\* While thread t is, the abstract clipboard has its data already.
LEMMA EffectiveAtInsert ==
    LockInv => \A t \in Thread : pc[t] = "insert" =>
                    EffectiveClips = [clips EXCEPT ![User(t)] = call[t].data]
  <1> SUFFICES ASSUME LockInv, NEW t \in Thread, pc[t] = "insert"
               PROVE  EffectiveClips = [clips EXCEPT ![User(t)] = call[t].data]
    OBVIOUS
  <1>1. clipMutex = t /\ User(t) \in UserId
    BY DEF LockInv, LocksMatchControl, TypeInv, CallsFitControl, ClipSection
  <1>2. \A u \in Thread : Holder(u) <=> u = t
    BY <1>1 DEF Holder
  <1> QED BY <1>1, <1>2 DEF LockInv, TypeInv, TypeOK, EffectiveClips

\* The same in the state after a step.
LEMMA EffectiveAfter ==
    LockInv' =>
      /\ (\A t \in Thread : pc'[t] # "insert") => EffectiveClips' = clips'
      /\ \A t \in Thread : pc'[t] = "insert" =>
            EffectiveClips' = [clips' EXCEPT ![User(t)'] = call'[t].data]
  <1>1. (LockInv /\ (\A t \in Thread : pc[t] # "insert") => EffectiveClips = clips)'
    BY EffectiveAtRest, PTL
  <1>2. (LockInv => \A t \in Thread : pc[t] = "insert" =>
                    EffectiveClips = [clips EXCEPT ![User(t)] = call[t].data])'
    BY EffectiveAtInsert, PTL
  <1> QED BY <1>1, <1>2

\* A step that leaves clips_ alone, and every thread between erase and insert there with
\* its call, leaves the abstract clipboard alone.
LEMMA EffectiveUnchanged ==
    ASSUME LockInv, LockInv', UNCHANGED clips,
           \A t \in Thread : /\ pc'[t] = "insert" <=> pc[t] = "insert"
                             /\ pc[t] = "insert" => call'[t] = call[t]
    PROVE  UNCHANGED EffectiveClips
  <1>1. \A t \in Thread : Holder(t)' <=> Holder(t)
    BY DEF LockInv, LocksMatchControl, Holder, ClipSection
  <1>2. \A t \in Thread : Holder(t) => User(t)' = User(t) /\ clipMutex' = t /\ call'[clipMutex'] = call[clipMutex]
    BY <1>1 DEF Holder, User
  <1> QED BY <1>1, <1>2 DEF EffectiveClips

-----------------------------------------------------------------------------
\* Every step of the service is one of Pasteboard's, or changes nothing of it.

LEMMA RefinedInit == Init => PB!Init
  BY SameInterface DEF Init, PB!Init, EffectiveClips, Holder, Status

\* The call thread t serves takes effect: its status says so, and the abstract step
\* is that of its method.
LEMMA Performed ==
    ASSUME LockInv, NEW t \in Thread, pc[t] \in Ineffective,
           Status' = [Status EXCEPT ![t] = "done"], UNCHANGED call,
           \/ /\ User(t) = ErrorUserId
              /\ UNCHANGED <<EffectiveClips, observerMap, answer>>
           \/ /\ User(t) \in UserId
              /\ \/ PB!SetClip(t, User(t)) \/ PB!ClearClip(t, User(t))
                 \/ PB!GetClip(t, User(t)) \/ PB!HasClip(t, User(t))
                 \/ PB!Add(t, User(t)) \/ PB!Remove(t, User(t)) \/ PB!RemoveAll(t, User(t))
    PROVE  PB!Perform(t)
  <1>1. Status[t] = "called"
    BY DEF Status, Ineffective
  <1>2. PB!User(t) = User(t)
    BY SameInterface DEF PB!User, User
  <1> QED BY <1>1, <1>2 DEF PB!Perform, PB!Refuse

LEMMA RefinedNext ==
    ASSUME LockInv, LockInv', [Next]_vars
    PROVE  [PB!Next]_(PB!vars)
  <1> USE DEF LockInv, TypeInv, TypeOK, GoTo, locks
  <1> DEFINE Stutters == UNCHANGED <<EffectiveClips, observerMap, Status, call, answer>>
  <1>1. ASSUME NEW t \in Thread, NEW c \in Call, Receive(t, c) PROVE PB!Receive(t, c)
    <2>1. UNCHANGED EffectiveClips
      BY <1>1, EffectiveUnchanged DEF Receive
    <2>2. Status[t] = "idle" /\ Status' = [Status EXCEPT ![t] = "called"]
      BY <1>1 DEF Receive, Status, Ineffective
    <2> QED BY <1>1, <2>1, <2>2 DEF Receive, PB!Receive
  <1>2. ASSUME NEW t \in Thread, NEW n \in Thread, NEW c \in Call, Reenter(t, n, c)
        PROVE  PB!Receive(n, c)
    <2>1. UNCHANGED EffectiveClips
      BY <1>2, EffectiveUnchanged DEF Reenter
    <2>2. Status[n] = "idle" /\ Status' = [Status EXCEPT ![n] = "called"]
      BY <1>2 DEF Reenter, Status, Ineffective
    <2> QED BY <1>2, <2>1, <2>2 DEF Reenter, PB!Receive
  <1>3. ASSUME NEW t \in Thread, Start(t) PROVE PB!Perform(t) \/ Stutters
    <2>1. call[t] \in Call /\ pc[t] = "start" /\ pc' = [pc EXCEPT ![t] = Entry(call[t])]
      BY <1>3 DEF Start, CallsFitControl
    <2>2. Entry(call[t]) \in {"dot", "reply", "lockObserver", "lockClip"}
      BY <2>1, EntryOfCall
    <2>3. UNCHANGED <<EffectiveClips, observerMap, call, answer>>
      BY <1>3, <2>1, <2>2, EffectiveUnchanged DEF Start
    <2>4. CASE Entry(call[t]) # "reply"
      <3>1. UNCHANGED Status
        BY <2>1, <2>2, <2>4 DEF Status, Ineffective
      <3> QED BY <2>3, <3>1
    <2>5. CASE Entry(call[t]) = "reply"
      <3>1. Status' = [Status EXCEPT ![t] = "done"]
        BY <2>1, <2>5 DEF Status, Ineffective
      <3>2. TurnedAway(call[t])
        BY <2>5 DEF Entry
      <3>3. CASE User(t) = ErrorUserId
        BY <2>1, <2>3, <3>1, <3>3, Performed DEF Ineffective
      <3>4. CASE User(t) # ErrorUserId
        <4>1. User(t) \in UserId /\ call[t].observer = NoObserver /\ call[t].method \in {"Add", "Remove"}
          BY <2>1, <3>2, <3>4, UserIdOfCall DEF TurnedAway, User
        <4>2. PB!Add(t, User(t)) \/ PB!Remove(t, User(t))
          BY <2>3, <4>1, NoObserverAssumption DEF PB!Add, PB!Remove
        <4> QED BY <2>1, <2>3, <3>1, <4>1, <4>2, Performed DEF Ineffective
      <3> QED BY <3>3, <3>4
    <2> QED BY <2>4, <2>5
  <1>4. ASSUME NEW t \in Thread, Dot(t) PROVE PB!Perform(t) \/ Stutters
    <2>1. UNCHANGED <<EffectiveClips, observerMap, call, answer>>
      BY <1>4, EffectiveUnchanged DEF Dot
    <2>2. CASE User(t) # ErrorUserId
      <3>1. UNCHANGED Status
        BY <1>4, <2>2 DEF Dot, Status, Ineffective
      <3> QED BY <2>1, <3>1
    <2>3. CASE User(t) = ErrorUserId
      <3>1. Status' = [Status EXCEPT ![t] = "done"]
        BY <1>4, <2>3 DEF Dot, Status, Ineffective
      <3> QED BY <1>4, <2>1, <2>3, <3>1, Performed DEF Dot, Ineffective
    <2> QED BY <2>2, <2>3
  <1>5. ASSUME NEW t \in Thread,
               \/ LockClip(t) \/ LockNotify(t) \/ Notify(t) \/ CallbackFails(t) \/ NotifyEnd(t)
               \/ UnlockClip(t) \/ LockObserver(t)
        PROVE  Stutters
    <2>1. UNCHANGED EffectiveClips
      BY <1>5, EffectiveUnchanged DEF LockClip, LockNotify, Notify, CallBack, CallbackFails, NotifyEnd, UnlockClip, LockObserver
    <2>2. UNCHANGED Status
      BY <1>5 DEF LockClip, LockNotify, Notify, CallBack, CallbackFails, NotifyEnd, UnlockClip, LockObserver, Status, Ineffective
    <2> QED BY <1>5, <2>1, <2>2 DEF LockClip, LockNotify, Notify, CallBack, CallbackFails, NotifyEnd, UnlockClip, LockObserver
  <1>6. ASSUME NEW t \in Thread, Clear(t) \/ GetPasteData(t) \/ HasPasteData(t) \/ SetErase(t)
        PROVE  PB!Perform(t)
    <2>1. pc[t] = "clip" /\ User(t) \in UserId
      BY <1>6 DEF Clear, GetPasteData, HasPasteData, SetErase, CallsFitControl, ClipSection
    <2>2. \A u \in Thread : pc[u] # "insert"
      BY <2>1 DEF LocksMatchControl, ClipSection
    <2>3. EffectiveClips = clips
      BY <2>2, EffectiveAtRest
    <2>4. Status' = [Status EXCEPT ![t] = "done"]
      <3>1. \E to \in {"lockNotify", "unlockClip", "insert"} : pc' = [pc EXCEPT ![t] = to]
        BY <1>6 DEF Clear, GetPasteData, HasPasteData, SetErase
      <3> QED BY <3>1 DEF Status, Ineffective
    <2>5. CASE Clear(t)
      <3>1. EffectiveClips' = clips'
        BY <2>2, <2>5, EffectiveAfter DEF Clear
      <3>2. PB!ClearClip(t, User(t))
        BY <2>1, <2>3, <2>5, <3>1 DEF Clear, PB!ClearClip, Method
      <3> QED BY <2>1, <2>4, <2>5, <3>2, Performed DEF Clear, Ineffective
    <2>6. CASE GetPasteData(t)
      <3>1. EffectiveClips' = clips'
        BY <2>2, <2>6, EffectiveAfter DEF GetPasteData
      <3>2. PB!GetClip(t, User(t))
        BY <2>1, <2>3, <2>6, <3>1 DEF GetPasteData, PB!GetClip, Method
      <3> QED BY <2>1, <2>4, <2>6, <3>2, Performed DEF GetPasteData, Ineffective
    <2>7. CASE HasPasteData(t)
      <3>1. EffectiveClips' = clips'
        BY <2>2, <2>7, EffectiveAfter DEF HasPasteData
      <3>2. PB!HasClip(t, User(t))
        BY <2>1, <2>3, <2>7, <3>1 DEF HasPasteData, PB!HasClip, Method
      <3> QED BY <2>1, <2>4, <2>7, <3>2, Performed DEF HasPasteData, Ineffective
    <2>8. CASE SetErase(t)
      <3>1. EffectiveClips' = [clips' EXCEPT ![User(t)] = call[t].data]
        BY <2>8, EffectiveAfter DEF SetErase, User
      <3>2. PB!SetClip(t, User(t))
        BY <2>1, <2>3, <2>8, <3>1 DEF SetErase, PB!SetClip, Method
      <3> QED BY <2>1, <2>4, <2>8, <3>2, Performed DEF SetErase, Ineffective
    <2> QED BY <1>6, <2>5, <2>6, <2>7, <2>8
  <1>7. ASSUME NEW t \in Thread, SetInsert(t) PROVE Stutters
    <2>1. \A u \in Thread \ {t} : pc[u] # "insert"
      BY <1>7 DEF SetInsert, LocksMatchControl, ClipSection
    <2>2. EffectiveClips' = clips'
      BY <1>7, <2>1, EffectiveAfter DEF SetInsert
    <2>3. EffectiveClips = [clips EXCEPT ![User(t)] = call[t].data]
      BY <1>7, EffectiveAtInsert DEF SetInsert
    <2>4. UNCHANGED Status
      BY <1>7 DEF SetInsert, Status, Ineffective
    <2> QED BY <1>7, <2>2, <2>3, <2>4 DEF SetInsert
  <1>8. ASSUME NEW t \in Thread, ObserverMethod(t) PROVE PB!Perform(t)
    <2>1. /\ call[t] \in Call
          /\ User(t) \in UserId \cup {ErrorUserId}
          /\ Method(t) \in ObserverMethods
          /\ Method(t) = "Add" => call[t].observer \in Observer
      BY <1>8, UserIdOfCall DEF ObserverMethod, CallsFitControl, User
    <2>2. UNCHANGED <<EffectiveClips, call, answer>>
      BY <1>8, EffectiveUnchanged DEF ObserverMethod
    <2>3. Status' = [Status EXCEPT ![t] = "done"]
      BY <1>8 DEF ObserverMethod, Status, Ineffective
    <2>4. CASE User(t) = ErrorUserId
      <3>1. UNCHANGED observerMap
        BY <1>8, <2>4, ErrorUserAssumption DEF ObserverMethod
      <3> QED BY <1>8, <2>2, <2>3, <2>4, <3>1, Performed DEF ObserverMethod, Ineffective
    <2>5. CASE User(t) \in UserId
      <3>1. observerMap' = [observerMap EXCEPT ![User(t)] =
                CASE Method(t) = "Add" -> @ \cup {call[t].observer}
                  [] Method(t) = "Remove" -> @ \ {call[t].observer}
                  [] OTHER -> {}]
        BY <1>8, <2>5 DEF ObserverMethod, AddPasteboardChangedObserver,
                          RemovePasteboardChangedObserver, RemoveAllChangedObserver
      <3>2. PB!Add(t, User(t)) \/ PB!Remove(t, User(t)) \/ PB!RemoveAll(t, User(t))
        <4>1. CASE Method(t) = "Add"
          BY <2>1, <2>2, <3>1, <4>1, NoObserverAssumption DEF Method, PB!Add
        <4>2. CASE Method(t) = "Remove"
          BY <2>2, <3>1, <4>2 DEF Method, PB!Remove
        <4>3. CASE Method(t) = "RemoveAll"
          BY <2>2, <3>1, <4>3 DEF Method, PB!RemoveAll
        <4> QED BY <2>1, <4>1, <4>2, <4>3 DEF ObserverMethods
      <3> QED BY <1>8, <2>2, <2>3, <2>5, <3>2, Performed DEF ObserverMethod, Ineffective
    <2> QED BY <2>1, <2>4, <2>5
  <1>9. ASSUME NEW t \in Thread, Reply(t) PROVE PB!Reply(t)
    <2>1. UNCHANGED EffectiveClips
      BY <1>9, NoThreadAssumption, EffectiveUnchanged DEF Reply, NestedFitsControl
    <2>2. Status[t] = "done" /\ Status' = [Status EXCEPT ![t] = "idle"]
      <3>1. \A u \in Thread : nested[u] = t => pc[u] = "nested" /\ u # t
        BY <1>9, NoThreadAssumption DEF Reply, NestedFitsControl
      <3> QED BY <1>9, <3>1 DEF Reply, Status, Ineffective
    <2> QED BY <1>9, <2>1, <2>2, SameInterface DEF Reply, PB!Reply
  <1>10. ASSUME (\E o \in Observer : ApplicationEnds(o)) \/ UNCHANGED vars PROVE Stutters
    <2>1. UNCHANGED EffectiveClips
      BY <1>10, EffectiveUnchanged DEF ApplicationEnds, vars
    <2> QED BY <1>10, <2>1 DEF ApplicationEnds, vars, Status
  <1>11. (\E t \in Thread : (\E c \in Call : PB!Receive(t, c)) \/ PB!Perform(t) \/ PB!Reply(t)) => PB!Next
    BY SameInterface DEF PB!Next
  <1>12. Stutters => UNCHANGED PB!vars
    BY DEF PB!vars
  <1> HIDE DEF Stutters
  <1> QED
    BY <1>1, <1>2, <1>3, <1>4, <1>5, <1>6, <1>7, <1>8, <1>9, <1>10, <1>11, <1>12, NextSteps DEF Stutters

\* Every behaviour of the threaded service is one of the atomic clipboard: the calls of
\* IPasteboardService are linearizable, callbacks that call back included.
THEOREM ServiceIsAtomic == Spec => HandlersAreAtomic
  BY RefinedInit, RefinedNext, LockInvariant, PTL DEF Spec, HandlersAreAtomic, PB!Spec

=============================================================================

------------------------- MODULE AccessHistoryProofs -------------------------
(***************************************************************************)
(* Proofs about AccessHistory, for every number of threads, applications,  *)
(* users and readings of the clock.                                        *)
(***************************************************************************)
EXTENDS AccessHistory, PasteboardServiceProofs, SequenceTheorems

-----------------------------------------------------------------------------
\* The inductive invariant, in parts.

Recorded == uIdForLastCopy \in Uid /\ timeForLastCopy \in Time

\* A thread is inside SetPasteDataDot or GetPasteDataDot only at its step "dot"; the time
\* of a copy is recorded by a copy, and clips_ is filled by one.
DotFitsControl ==
    /\ dot \in [Thread -> {"begin", "time", "test", "erase", "push", "report"}]
    /\ \A t \in Thread :
        /\ dot[t] # "begin" => pc[t] = "dot"
        /\ dot[t] = "time" \/ pc[t] = "insert" => Method(t) = "Set"

\* Thread t has been through SetPasteDataDot and has yet to fill clips_.
Copying(t) ==
    /\ Method(t) = "Set"
    /\ \/ pc[t] = "dot" /\ dot[t] \in {"test", "erase", "push", "report"}
       \/ pc[t] \in {"lockClip", "clip", "insert"}

\* Owner and time are recorded, in this order, before clips_ is filled.
CopiesAreRecorded ==
    /\ \A t \in Thread : dot[t] = "time" => uIdForLastCopy \in Uid
    /\ \A t \in Thread : Copying(t) => Recorded
    /\ Filled # {} => Recorded

\* What has been dumped so far and what is still to be read.
DumpIsOwned ==
    /\ dump \in {"idle", "mimeTypes", "owner", "timestamp", "done"}
    /\ shown = [count |-> shown.count, mimeTypes |-> shown.mimeTypes,
                owner |-> shown.owner, timestamp |-> shown.timestamp]
    /\ dump \in {"mimeTypes", "owner", "timestamp"} => Recorded
    /\ dump = "timestamp" => shown.owner \in Uid
    /\ ShownDataHasOwner

HistoryInv == DotFitsControl /\ CopiesAreRecorded /\ DumpIsOwned

-----------------------------------------------------------------------------
\* Every step of this module is one of the service, or changes nothing of it.
LEMMA ServiceSteps == [HNext]_hvars => [Next]_vars
  BY DEF HNext, Record, RecordOwner, RecordTime, ReadTime, TestHistory, EraseOldest, PushHistory, Report,
         HReceive, DunmpData, DumpCount, DumpMimeTypes, DumpOwner, DumpTimestamp, DumpEnd, DumpTo, Next, Run, hvars

LEMMA ServiceTypeInvariant == HSpec => []TypeInv
  <1>1. HInit => Init
    BY DEF HInit
  <1> QED BY <1>1, TypeInvInit, TypeInvNext, ServiceSteps, PTL DEF HSpec

LEMMA HistoryInvInit == HInit => HistoryInv
  BY DEF HInit, Init, HistoryInv, DotFitsControl, Copying, CopiesAreRecorded, DumpIsOwned, ShownDataHasOwner,
         Filled, NoOutput

\* The steps of HNext, one disjunct per action.
LEMMA HistorySteps ==
    ASSUME [HNext]_hvars
    PROVE  \/ \E t \in Thread :
                \/ RecordOwner(t) \/ RecordTime(t) \/ ReadTime(t)
                \/ TestHistory(t) \/ EraseOldest(t) \/ PushHistory(t) \/ Report(t)
           \/ /\ UNCHANGED <<historyVars, dot, now, dumpVars>>
              /\ \E t \in Thread :
                   \/ \E c \in Call : Receive(t, c)
                   \/ Start(t) \/ Clear(t) \/ GetPasteData(t) \/ HasPasteData(t) \/ SetErase(t) \/ SetInsert(t)
                   \/ Notify(t) \/ CallbackFails(t) \/ NotifyEnd(t) \/ UnlockClip(t) \/ ObserverMethod(t) \/ Reply(t)
                   \/ LockClip(t) \/ LockNotify(t) \/ LockObserver(t)
           \/ DumpCount \/ DumpMimeTypes \/ DumpOwner \/ DumpTimestamp \/ DumpEnd
           \/ UNCHANGED hvars
  BY DEF HNext, Record, HReceive, Serve, ClipMethod, Lock, DunmpData

LEMMA HistoryInvNext == TypeInv /\ HistoryInv /\ [HNext]_hvars => HistoryInv'
  <1> SUFFICES ASSUME TypeInv, HistoryInv, [HNext]_hvars PROVE HistoryInv'
    OBVIOUS
  <1> USE DEF HistoryInv, DotFitsControl, CopiesAreRecorded, Copying, Recorded, DumpIsOwned, ShownDataHasOwner,
              Filled, Method, historyVars, dumpVars, vars
  <1>0. TypeOK /\ CallsFitControl /\ NestedFitsControl
    BY DEF TypeInv
  <1>1. ASSUME NEW t \in Thread, RecordOwner(t) PROVE HistoryInv'
    <2>1. call[t].uid \in Uid
      BY <1>0, <1>1, CallFields DEF RecordOwner, AtDot, CallsFitControl
    <2> QED BY <1>1, <2>1 DEF RecordOwner, AtDot
  <1>2. ASSUME NEW t \in Thread, RecordTime(t) PROVE HistoryInv'
    BY <1>2 DEF RecordTime, AtDot
  <1>3. ASSUME NEW t \in Thread, ReadTime(t) PROVE HistoryInv'
    BY <1>3 DEF ReadTime, AtDot
  <1>4. ASSUME NEW t \in Thread, TestHistory(t) \/ EraseOldest(t) PROVE HistoryInv'
    BY <1>4 DEF TestHistory, EraseOldest, AtDot
  <1>5. ASSUME NEW t \in Thread, PushHistory(t) PROVE HistoryInv'
    BY <1>5 DEF PushHistory, AtDot
  <1>6. ASSUME NEW t \in Thread, Report(t) PROVE HistoryInv'
    BY <1>0, <1>6 DEF Report, AtDot, Dot, GoTo, TypeOK, callbacks, locks
  <1>7. ASSUME UNCHANGED <<historyVars, dot, now, dumpVars>>, NEW t \in Thread,
               \/ \E c \in Call : Receive(t, c)
               \/ Start(t) \/ Clear(t) \/ GetPasteData(t) \/ HasPasteData(t) \/ SetErase(t) \/ SetInsert(t)
               \/ Notify(t) \/ CallbackFails(t) \/ NotifyEnd(t) \/ UnlockClip(t) \/ ObserverMethod(t) \/ Reply(t)
               \/ LockClip(t) \/ LockNotify(t) \/ LockObserver(t)
        PROVE  HistoryInv'
    <2> USE DEF GoTo, TypeOK
    <2>1. CASE \E c \in Call : Receive(t, c)
      BY <1>0, <1>7, <2>1 DEF Receive
    <2>2. CASE Start(t)
      BY <1>0, <1>7, <2>2 DEF Start, Entry
    <2>3. CASE Clear(t)
      BY <1>0, <1>7, <2>3 DEF Clear
    <2>4. CASE GetPasteData(t) \/ HasPasteData(t)
      BY <1>0, <1>7, <2>4 DEF GetPasteData, HasPasteData
    <2>5. CASE SetErase(t)
      BY <1>0, <1>7, <2>5 DEF SetErase
    <2>6. CASE SetInsert(t)
      BY <1>0, <1>7, <2>6 DEF SetInsert
    <2>7. CASE Notify(t) \/ CallbackFails(t) \/ NotifyEnd(t)
      BY <1>0, <1>7, <2>7 DEF Notify, CallBack, CallbackFails, NotifyEnd
    <2>8. CASE UnlockClip(t) \/ ObserverMethod(t)
      BY <1>0, <1>7, <2>8 DEF UnlockClip, ObserverMethod
    <2>9. CASE Reply(t)
      BY <1>0, <1>7, <2>9, NoThreadAssumption DEF Reply, NestedFitsControl
    <2>10. CASE LockClip(t) \/ LockNotify(t) \/ LockObserver(t)
      BY <1>0, <1>7, <2>10 DEF LockClip, LockNotify, LockObserver
    <2> QED BY <1>7, <2>1, <2>2, <2>3, <2>4, <2>5, <2>6, <2>7, <2>8, <2>9, <2>10
  <1>8. CASE DumpCount
    BY <1>8 DEF DumpCount, DumpTo, NoOutput
  <1>9. CASE DumpMimeTypes \/ DumpOwner \/ DumpTimestamp
    BY <1>9 DEF DumpMimeTypes, DumpOwner, DumpTimestamp, DumpTo
  <1>10. CASE DumpEnd
    BY <1>10 DEF DumpEnd, DumpTo, NoOutput
  <1>11. CASE UNCHANGED hvars
    BY <1>11 DEF hvars
  <1> QED
    BY <1>1, <1>2, <1>3, <1>4, <1>5, <1>6, <1>7, <1>8, <1>9, <1>10, <1>11, HistorySteps

-----------------------------------------------------------------------------
\* However its reads fall among the copies of any number of threads, DunmpData prints no
\* data without an owner and a time: SetPasteDataDot records both before clips_ is filled.
THEOREM DumpShowsOwner == HSpec => []ShownDataHasOwner
  <1>1. HistoryInv => ShownDataHasOwner
    BY DEF HistoryInv, DumpIsOwned
  <1> QED BY <1>1, HistoryInvInit, HistoryInvNext, ServiceTypeInvariant, PTL DEF HSpec

-----------------------------------------------------------------------------
\* Type correctness of what is remembered and shown.

\* The time an access is pushed with has been read, by a copy or a paste.
AccessesAreTimed ==
    \A t \in Thread : dot[t] \in {"test", "erase", "push", "report"} => Method(t) \in {"Set", "Get"} /\ now[t] \in Time

\* clips_.rbegin(): of the users with a clipboard one is the greatest, though the user ids
\* are any numbers, because clipboards are filled one at a time.  Erasing any of them leaves
\* a greatest one only if every subset has one.
LastClipExists == \A S \in SUBSET Filled : S # {} => \E u \in S : \A v \in S : v <= u

TypedHistoryInv == HistoryTypeOK /\ AccessesAreTimed /\ LastClipExists

\* Filling one more clipboard, or erasing any number of them, leaves a last one.
LEMMA LastClipAfterFilling ==
    ASSUME NEW before \in SUBSET UserId, NEW after \in SUBSET UserId, NEW x \in UserId,
           \A S \in SUBSET before : S # {} => \E u \in S : \A v \in S : v <= u,
           after \subseteq before \cup {x}
    PROVE  \A S \in SUBSET after : S # {} => \E u \in S : \A v \in S : v <= u
  <1> SUFFICES ASSUME NEW S \in SUBSET after, S # {} PROVE \E u \in S : \A v \in S : v <= u
    OBVIOUS
  <1>0. /\ x \in Nat
        /\ S \subseteq Nat
    BY UserIdsAreOrdered
  <1>1. S \ {x} \in SUBSET before
    OBVIOUS
  <1>2. CASE S \ {x} = {}
    <2>1. S = {x}
      BY <1>2
    <2> QED BY <1>0, <2>1
  <1>3. CASE S \ {x} # {}
    <2>1. PICK u \in S \ {x} : \A v \in S \ {x} : v <= u
      BY <1>1, <1>3
    <2>2. CASE x \in S /\ u <= x
      <3>1. \A v \in S : v <= x
        BY <1>0, <2>1, <2>2
      <3> QED BY <2>2, <3>1
    <2>3. CASE ~(x \in S /\ u <= x)
      <3>1. \A v \in S : v <= u
        BY <1>0, <2>1, <2>3
      <3> QED BY <3>1
    <2> QED BY <2>2, <2>3
  <1> QED BY <1>2, <1>3

LEMMA LastClipIsData ==
    ASSUME TypeInv, LastClipExists, Filled # {}
    PROVE  LastClip \in Data
  <1>1. \E u \in Filled : \A v \in Filled : v <= u
    BY DEF LastClipExists
  <1>2. (CHOOSE u \in Filled : \A v \in Filled : v <= u) \in Filled
    BY <1>1
  <1> QED BY <1>2 DEF LastClip, Filled, TypeInv, TypeOK

LEMMA TypedHistoryInit == HInit => TypedHistoryInv
  <1> SUFFICES ASSUME HInit PROVE TypedHistoryInv
    OBVIOUS
  <1>1. Filled = {}
    BY DEF HInit, Init, Filled
  <1>2. LastClipExists /\ AccessesAreTimed
    BY <1>1 DEF HInit, LastClipExists, AccessesAreTimed
  <1>3. HistoryTypeOK
    BY DEF HInit, HistoryTypeOK, NoOutput
  <1> QED BY <1>2, <1>3 DEF TypedHistoryInv

\* Only SetPasteData fills a clipboard, and one; every other step leaves or empties some.
LEMMA LastClipNext == TypeInv /\ LastClipExists /\ [HNext]_hvars => LastClipExists'
  <1> SUFFICES ASSUME TypeInv, LastClipExists, [HNext]_hvars PROVE LastClipExists'
    OBVIOUS
  <1> USE DEF Filled
  <1>0. TypeOK /\ CallsFitControl
    BY DEF TypeInv
  <1>1. ASSUME Filled' \subseteq Filled PROVE LastClipExists'
    BY <1>1 DEF LastClipExists
  <1>2. ASSUME UNCHANGED vars PROVE LastClipExists'
    BY <1>1, <1>2 DEF vars
  <1>3. ASSUME NEW t \in Thread, Clear(t) \/ SetErase(t) PROVE LastClipExists'
    BY <1>0, <1>1, <1>3 DEF TypeOK, Clear, SetErase
  <1>4. ASSUME NEW t \in Thread, SetInsert(t) PROVE LastClipExists'
    <2>1. User(t) \in UserId
      BY <1>0, <1>4 DEF SetInsert, GoTo, CallsFitControl, ClipSection
    <2>2. Filled' \subseteq Filled \cup {User(t)}
      BY <1>0, <1>4 DEF SetInsert, TypeOK
    <2>3. Filled \in SUBSET UserId /\ Filled' \in SUBSET UserId
      OBVIOUS
    <2> QED BY <2>1, <2>2, <2>3, LastClipAfterFilling DEF LastClipExists
  <1>5. ASSUME NEW t \in Thread,
               \/ RecordOwner(t) \/ RecordTime(t) \/ ReadTime(t)
               \/ TestHistory(t) \/ EraseOldest(t) \/ PushHistory(t)
        PROVE  LastClipExists'
    BY <1>2, <1>5 DEF RecordOwner, RecordTime, ReadTime, TestHistory, EraseOldest, PushHistory
  <1>6. ASSUME NEW t \in Thread, Report(t) PROVE LastClipExists'
    BY <1>1, <1>6 DEF Report, Dot
  <1>7. ASSUME NEW t \in Thread,
               \/ \E c \in Call : Receive(t, c)
               \/ Start(t) \/ GetPasteData(t) \/ HasPasteData(t)
               \/ Notify(t) \/ CallbackFails(t) \/ NotifyEnd(t) \/ UnlockClip(t) \/ ObserverMethod(t) \/ Reply(t)
               \/ LockClip(t) \/ LockNotify(t) \/ LockObserver(t)
        PROVE  LastClipExists'
    BY <1>1, <1>7 DEF Receive, Start, GetPasteData, HasPasteData, Notify, CallBack, CallbackFails, NotifyEnd,
                      UnlockClip, ObserverMethod, Reply, LockClip, LockNotify, LockObserver
  <1>8. CASE DumpCount \/ DumpMimeTypes \/ DumpOwner \/ DumpTimestamp \/ DumpEnd
    BY <1>2, <1>8 DEF DumpCount, DumpMimeTypes, DumpOwner, DumpTimestamp, DumpEnd, DumpTo
  <1>9. CASE UNCHANGED hvars
    BY <1>2, <1>9 DEF hvars
  <1> QED BY <1>3, <1>4, <1>5, <1>6, <1>7, <1>8, <1>9, HistorySteps

\* While an access is timed its thread stays at "dot" with the call it serves.
LEMMA AccessesAreTimedNext ==
    TypeInv /\ DotFitsControl /\ HistoryTypeOK /\ AccessesAreTimed /\ [HNext]_hvars => AccessesAreTimed'
  <1> SUFFICES ASSUME TypeInv, DotFitsControl, HistoryTypeOK, AccessesAreTimed, [HNext]_hvars
               PROVE  AccessesAreTimed'
    OBVIOUS
  <1> USE DEF DotFitsControl, AccessesAreTimed, HistoryTypeOK, Method, historyVars, dumpVars, vars
  <1>0. TypeOK /\ NestedFitsControl
    BY DEF TypeInv
  <1>1. ASSUME NEW t \in Thread,
               \/ RecordOwner(t) \/ RecordTime(t) \/ ReadTime(t)
               \/ TestHistory(t) \/ EraseOldest(t) \/ PushHistory(t)
        PROVE  AccessesAreTimed'
    <2>1. CASE RecordOwner(t)
      BY <2>1 DEF RecordOwner, AtDot
    <2>2. CASE RecordTime(t)
      BY <2>2 DEF RecordTime, AtDot
    <2>3. CASE ReadTime(t)
      BY <2>3 DEF ReadTime, AtDot
    <2>4. CASE TestHistory(t) \/ EraseOldest(t)
      BY <2>4 DEF TestHistory, EraseOldest, AtDot
    <2>5. CASE PushHistory(t)
      BY <2>5 DEF PushHistory, AtDot
    <2> QED BY <1>1, <2>1, <2>2, <2>3, <2>4, <2>5
  <1>2. ASSUME NEW t \in Thread, Report(t) PROVE AccessesAreTimed'
    BY <1>2 DEF Report, AtDot, Dot
  <1>3. ASSUME UNCHANGED <<dot, now, call>> PROVE AccessesAreTimed'
    BY <1>3
  <1>4. ASSUME UNCHANGED <<historyVars, dot, now, dumpVars>>, NEW t \in Thread, NEW c \in Call, Receive(t, c)
        PROVE  AccessesAreTimed'
    BY <1>0, <1>4 DEF Receive, GoTo, TypeOK
  <1>5. ASSUME UNCHANGED <<historyVars, dot, now, dumpVars>>, NEW t \in Thread, Reply(t) PROVE AccessesAreTimed'
    BY <1>0, <1>5, NoThreadAssumption DEF Reply, NestedFitsControl, GoTo, TypeOK
  <1>6. ASSUME UNCHANGED <<historyVars, dot, now, dumpVars>>, NEW t \in Thread,
               \/ Start(t) \/ Clear(t) \/ GetPasteData(t) \/ HasPasteData(t) \/ SetErase(t) \/ SetInsert(t)
               \/ Notify(t) \/ CallbackFails(t) \/ NotifyEnd(t) \/ UnlockClip(t) \/ ObserverMethod(t)
               \/ LockClip(t) \/ LockNotify(t) \/ LockObserver(t)
        PROVE  AccessesAreTimed'
    BY <1>3, <1>6 DEF Start, Clear, GetPasteData, HasPasteData, SetErase, SetInsert, Notify, CallBack,
                      CallbackFails, NotifyEnd, UnlockClip, ObserverMethod, LockClip, LockNotify, LockObserver
  <1>7. CASE DumpCount \/ DumpMimeTypes \/ DumpOwner \/ DumpTimestamp \/ DumpEnd
    BY <1>3, <1>7 DEF DumpCount, DumpMimeTypes, DumpOwner, DumpTimestamp, DumpEnd, DumpTo
  <1>8. CASE UNCHANGED hvars
    BY <1>3, <1>8 DEF hvars
  <1> QED BY <1>1, <1>2, <1>4, <1>5, <1>6, <1>7, <1>8, HistorySteps

LEMMA HistoryTypeNext ==
    TypeInv /\ HistoryInv /\ TypedHistoryInv /\ [HNext]_hvars => HistoryTypeOK'
  <1> SUFFICES ASSUME TypeInv, HistoryInv, TypedHistoryInv, [HNext]_hvars PROVE HistoryTypeOK'
    OBVIOUS
  <1> USE DEF HistoryTypeOK, historyVars, dumpVars
  <1>0. /\ HistoryTypeOK /\ AccessesAreTimed /\ LastClipExists
        /\ TypeOK /\ CallsFitControl
    BY DEF TypeInv, TypedHistoryInv
  <1>1. ASSUME NEW t \in Thread, pc[t] = "dot" PROVE call[t].uid \in Uid
    BY <1>0, <1>1, CallFields DEF CallsFitControl
  <1>2. ASSUME NEW t \in Thread, RecordOwner(t) PROVE HistoryTypeOK'
    BY <1>0, <1>1, <1>2 DEF RecordOwner, AtDot
  <1>3. ASSUME NEW t \in Thread, RecordTime(t) \/ ReadTime(t) PROVE HistoryTypeOK'
    <2>1. PICK time \in Time : now' = [now EXCEPT ![t] = time]
      BY <1>3 DEF RecordTime, ReadTime
    <2>2. timeForLastCopy' \in Time \cup {NoTime}
      BY <1>0, <1>3 DEF RecordTime, ReadTime
    <2>3. dot' \in [Thread -> {"begin", "time", "test", "erase", "push", "report"}]
      BY <1>0, <1>3 DEF RecordTime, ReadTime, AtDot
    <2> QED BY <1>0, <1>3, <2>1, <2>2, <2>3 DEF RecordTime, ReadTime
  <1>4. ASSUME NEW t \in Thread, TestHistory(t) \/ EraseOldest(t) PROVE HistoryTypeOK'
    <2>1. ASSUME dataHistory # <<>> PROVE Tail(dataHistory) \in Seq(Access)
      BY <1>0, <2>1, HeadTailProperties
    <2>2. dataHistory' \in Seq(Access)
      BY <1>0, <1>4, <2>1 DEF TestHistory, EraseOldest
    <2> QED BY <1>0, <1>4, <2>2 DEF TestHistory, EraseOldest, AtDot
  <1>5. ASSUME NEW t \in Thread, PushHistory(t) PROVE HistoryTypeOK'
    <2>1. now[t] \in Time /\ Method(t) \in {"Set", "Get"} /\ call[t].uid \in Uid
      BY <1>0, <1>1, <1>5 DEF PushHistory, AtDot, AccessesAreTimed
    <2>2. [time |-> now[t], bundle |-> BundleOf[call[t].uid], state |-> Method(t)] \in Access
      BY <2>1, BundleOfAssumption DEF Access
    <2>3. dataHistory' \in Seq(Access)
      BY <1>0, <1>5, <2>2, AppendProperties DEF PushHistory
    <2> QED BY <1>0, <1>5, <2>3 DEF PushHistory, AtDot
  <1>6. ASSUME NEW t \in Thread, Report(t) PROVE HistoryTypeOK'
    BY <1>0, <1>6 DEF Report, AtDot
  <1>7. CASE DumpCount
    <2>1. Filled # {} => LastClip \in Data
      BY <1>0, LastClipIsData
    <2> QED BY <1>0, <1>7, <2>1 DEF DumpCount, DumpTo, NoOutput
  <1>8. CASE DumpMimeTypes
    <2>1. Filled # {} => LastClip \in Data
      BY <1>0, LastClipIsData
    <2>2. PICK d \in Data : shown' = [shown EXCEPT !.mimeTypes = d]
      BY <1>8, <2>1 DEF DumpMimeTypes
    <2> QED BY <1>0, <1>8, <2>2 DEF DumpMimeTypes, DumpTo
  <1>9. CASE DumpOwner \/ DumpTimestamp \/ DumpEnd
    BY <1>0, <1>9 DEF DumpOwner, DumpTimestamp, DumpEnd, DumpTo, NoOutput
  <1>10. ASSUME UNCHANGED <<historyVars, dot, now, dumpVars>> PROVE HistoryTypeOK'
    BY <1>0, <1>10
  <1> QED BY <1>2, <1>3, <1>4, <1>5, <1>6, <1>7, <1>8, <1>9, <1>10, HistorySteps DEF hvars

\* Whatever threads interleave in SetPasteDataDot and GetPasteDataDot, each access in the
\* history has the time its thread read, the bundle of its caller and "Set" or "Get", and what
\* DunmpData takes from clips_.rbegin() is data, though the map is filled and emptied meanwhile.
THEOREM HistoryTyped == HSpec => []HistoryTypeOK
  <1>1. TypeInv /\ HistoryInv /\ TypedHistoryInv /\ [HNext]_hvars => TypedHistoryInv'
    BY LastClipNext, AccessesAreTimedNext, HistoryTypeNext DEF TypedHistoryInv, HistoryInv
  <1>2. TypedHistoryInv => HistoryTypeOK
    BY DEF TypedHistoryInv
  <1> QED BY <1>1, <1>2, HistoryInvInit, HistoryInvNext, TypedHistoryInit, ServiceTypeInvariant, PTL DEF HSpec

-----------------------------------------------------------------------------
\* The length of the history: when it is bounded, and what happens when it is not.

\* A thread is between the test of the history's size and the push.
Trimming(t) == dot[t] \in {"erase", "push"}

\* No two threads are.
NoTwoTrimming == \A t, u \in Thread : Trimming(t) /\ Trimming(u) => t = u

\* What a thread alone has tested still holds.
HistoryLengthInv ==
    /\ HistoryBounded
    /\ \A t \in Thread :
        /\ dot[t] = "erase" => Len(dataHistory) = HistorySize
        /\ dot[t] = "push" => Len(dataHistory) < HistorySize

\* What a step does to the history, and to what stands between test and push.
Tests(t) ==
    /\ dot' = [dot EXCEPT ![t] = IF Len(dataHistory) = HistorySize THEN "erase" ELSE "push"]
    /\ Len(dataHistory') = Len(dataHistory)
Erases(t) ==
    /\ dot[t] = "erase" /\ dot' = [dot EXCEPT ![t] = "push"]
    /\ Len(dataHistory') = Len(dataHistory) - 1
Pushes(t) ==
    /\ dot[t] = "push" /\ dot' = [dot EXCEPT ![t] = "report"]
    /\ Len(dataHistory') = Len(dataHistory) + 1
Keeps ==
    /\ Len(dataHistory') = Len(dataHistory)
    /\ \A t \in Thread : dot'[t] \in {"erase", "push"} => dot'[t] = dot[t]

LEMMA LengthSteps ==
    ASSUME HistoryTypeOK, [HNext]_hvars
    PROVE  /\ Len(dataHistory) \in Nat /\ Len(dataHistory') \in Nat
           /\ Keeps \/ \E t \in Thread : Tests(t) \/ Erases(t) \/ Pushes(t)
  <1>0. /\ dataHistory \in Seq(Access) /\ Len(dataHistory) \in Nat
        /\ dot \in [Thread -> {"begin", "time", "test", "erase", "push", "report"}]
    BY LenProperties DEF HistoryTypeOK
  <1>1. ASSUME NEW t \in Thread, TestHistory(t) PROVE Tests(t)
    BY <1>1 DEF TestHistory, AtDot, Tests, historyVars
  <1>2. ASSUME NEW t \in Thread, EraseOldest(t) PROVE Erases(t) /\ Len(dataHistory') \in Nat
    <2>1. Len(dataHistory') = Len(dataHistory) - 1 /\ Len(dataHistory') \in Nat
      BY <1>0, <1>2, HeadTailProperties, LenProperties DEF EraseOldest
    <2> QED BY <1>2, <2>1 DEF EraseOldest, AtDot, Erases
  <1>3. ASSUME NEW t \in Thread, PushHistory(t) PROVE Pushes(t)
    <2>1. PICK e : dataHistory' = Append(dataHistory, e)
      BY <1>3 DEF PushHistory
    <2>2. dataHistory \in Seq(Access \cup {e})
      BY <1>0, SeqMonotonic
    <2>3. Len(dataHistory') = Len(dataHistory) + 1
      BY <2>1, <2>2, AppendProperties
    <2> QED BY <1>3, <2>3 DEF PushHistory, AtDot, Pushes
  <1>4. ASSUME NEW t \in Thread, RecordOwner(t) \/ RecordTime(t) \/ ReadTime(t) \/ Report(t) PROVE Keeps
    BY <1>0, <1>4 DEF RecordOwner, RecordTime, ReadTime, Report, AtDot, historyVars, Keeps
  <1>5. ASSUME UNCHANGED <<dataHistory, dot>> PROVE Keeps
    BY <1>5 DEF Keeps
  <1>6. ASSUME UNCHANGED <<historyVars, dot, now, dumpVars>> \/ UNCHANGED hvars PROVE Keeps
    BY <1>5, <1>6 DEF historyVars, hvars
  <1>7. ASSUME DumpCount \/ DumpMimeTypes \/ DumpOwner \/ DumpTimestamp \/ DumpEnd PROVE Keeps
    BY <1>5, <1>7 DEF DumpCount, DumpMimeTypes, DumpOwner, DumpTimestamp, DumpEnd, DumpTo, historyVars
  <1>8. Keeps \/ \E t \in Thread : Tests(t) \/ Pushes(t) \/ (Erases(t) /\ Len(dataHistory') \in Nat)
    BY <1>1, <1>2, <1>3, <1>4, <1>6, <1>7, HistorySteps
  <1>9. Len(dataHistory') \in Nat
    BY <1>0, <1>8 DEF Keeps, Tests, Pushes
  <1> QED BY <1>0, <1>8, <1>9

\* "Dump access history last ten times": the history keeps to DATA_HISTORY_SIZE as long as no
\* two threads are between SetPasteboardHistory's test of the size and its push_back at a time.
\* The race is the only way past the bound, and a lock over the two would close it.
THEOREM OnlyARaceOutgrows == HSpec /\ []NoTwoTrimming => []HistoryBounded
  <1>1. HInit => HistoryLengthInv
    BY HistorySizeAssumption, EmptySeq DEF HInit, HistoryLengthInv, HistoryBounded
  <1>2. HistoryTypeOK /\ NoTwoTrimming /\ NoTwoTrimming' /\ HistoryLengthInv /\ [HNext]_hvars
            => HistoryLengthInv'
    <2> SUFFICES ASSUME HistoryTypeOK, NoTwoTrimming, NoTwoTrimming', HistoryLengthInv, [HNext]_hvars
                 PROVE  HistoryLengthInv'
      OBVIOUS
    <2> USE HistorySizeAssumption DEF HistoryLengthInv, HistoryBounded, NoTwoTrimming, Trimming
    <2>0. /\ dot \in [Thread -> {"begin", "time", "test", "erase", "push", "report"}]
          /\ Len(dataHistory) \in Nat /\ Len(dataHistory') \in Nat
      BY LengthSteps DEF HistoryTypeOK
    <2>1. CASE Keeps
      BY <2>0, <2>1 DEF Keeps
    <2>2. ASSUME NEW t \in Thread, Tests(t) PROVE HistoryLengthInv'
      BY <2>0, <2>2 DEF Tests
    <2>3. ASSUME NEW t \in Thread, Erases(t) PROVE HistoryLengthInv'
      BY <2>0, <2>3 DEF Erases
    <2>4. ASSUME NEW t \in Thread, Pushes(t) PROVE HistoryLengthInv'
      BY <2>0, <2>4 DEF Pushes
    <2> QED BY <2>1, <2>2, <2>3, <2>4, LengthSteps
  <1>3. HistoryLengthInv => HistoryBounded
    BY DEF HistoryLengthInv
  <1> QED BY <1>1, <1>2, <1>3, HistoryTyped, PTL DEF HSpec

\* The history is longer than the limit, and no thread that found it exactly full has still to
\* drop an access.
Outgrown == Len(dataHistory) > HistorySize /\ \A t \in Thread : dot[t] # "erase"

\* An outgrown history never shrinks again, and stays outgrown: SetPasteboardHistory drops the
\* oldest access only after it found the size to be exactly the limit, which it never is again.
THEOREM OutgrownForGood ==
    HSpec => [][Outgrown => Outgrown' /\ Len(dataHistory') >= Len(dataHistory)]_hvars
  <1>1. ASSUME HistoryTypeOK, [HNext]_hvars, Outgrown
        PROVE  Outgrown' /\ Len(dataHistory') >= Len(dataHistory)
    <2>0. /\ dot \in [Thread -> {"begin", "time", "test", "erase", "push", "report"}]
          /\ Len(dataHistory) \in Nat /\ Len(dataHistory') \in Nat
          /\ HistorySize \in Nat
      BY <1>1, LengthSteps, HistorySizeAssumption DEF HistoryTypeOK
    <2>1. CASE Keeps
      BY <1>1, <2>0, <2>1 DEF Keeps, Outgrown
    <2>2. ASSUME NEW t \in Thread, Tests(t) PROVE Outgrown' /\ Len(dataHistory') >= Len(dataHistory)
      BY <1>1, <2>0, <2>2 DEF Tests, Outgrown
    <2>3. ASSUME NEW t \in Thread, Pushes(t) PROVE Outgrown' /\ Len(dataHistory') >= Len(dataHistory)
      BY <1>1, <2>0, <2>3 DEF Pushes, Outgrown
    <2>4. ASSUME NEW t \in Thread, Erases(t) PROVE FALSE
      BY <1>1, <2>4 DEF Erases, Outgrown
    <2> QED BY <1>1, <2>1, <2>2, <2>3, <2>4, LengthSteps
  <1>2. HistoryTypeOK /\ [HNext]_hvars
            => [Outgrown => Outgrown' /\ Len(dataHistory') >= Len(dataHistory)]_hvars
    BY <1>1
  <1> QED BY <1>2, HistoryTyped, PTL DEF HSpec

=============================================================================

------------------------- MODULE HiViewAdapterProofs -------------------------
(***************************************************************************)
(* Proofs about HiViewAdapter, for every set of binder threads, finite set *)
(* of applications and number of accesses and starts.                      *)
(***************************************************************************)
EXTENDS HiViewAdapter, FiniteSetTheorems, TLAPS

\* Whatever the time of day, the sleep of the timer thread ends within the minute that
\* follows midnight: at 24:00 and the seconds that the current minute has run.
THEOREM SleepsUntilMidnight ==
    ASSUME NEW hour \in 0..23, NEW minute \in 0..59
    PROVE  (hour * 60 + minute) * 60 + SleepTime(hour, minute) = 24 * 3600
  BY DEF SleepTime

\* Every size and every time has a level that the tables hold: no access is left out of
\* the statistics as a "wrong data level" or a "wrong time level".
THEOREM LevelsExist ==
    ASSUME NEW size \in Nat, NEW time \in Nat
    PROVE  CalculateData(size) \in DataLevel /\ CalculateTime(time) \in TimeLevel
  <1>1. CalculateData(size) \in DataLevel
    BY DEF CalculateData, DataLevel
  <1>2. CalculateTime(time) \in TimeLevel
    <2>1. time % 500 \in Nat
      OBVIOUS
    <2> QED  BY <2>1 DEF CalculateTime, TimeLevel
  <1> QED  BY <1>1, <1>2

-----------------------------------------------------------------------------
\* At most one timer thread.

TimerInv == running \in BOOLEAN /\ timers = IF running THEN 1 ELSE 0

\* However the service is started, stopped and retried, one timer thread is started at
\* most in the life of the process.
THEOREM TimerIsUnique == Spec => []OneTimer
  <1>1. Init => TimerInv
    BY DEF Init, TimerInv
  <1>2. TimerInv /\ [Next]_vars => TimerInv'
    <2> SUFFICES ASSUME TimerInv, [Next]_vars PROVE TimerInv'
      OBVIOUS
    <2> USE DEF TimerInv
    <2>1. ASSUME NEW ok \in BOOLEAN, OnStart(ok) PROVE TimerInv'
      <3>1. CASE UNCHANGED <<running, timers>>
        BY <3>1
      <3>2. CASE StartTimerThread
        <4>1. CASE running
          BY <3>2, <4>1 DEF StartTimerThread
        <4>2. CASE ~running
          BY <3>2, <4>2 DEF StartTimerThread
        <4> QED  BY <4>1, <4>2
      <3> QED  BY <2>1, <3>1, <3>2 DEF OnStart
    <2>2. ASSUME UNCHANGED <<running, timers>> PROVE TimerInv'
      BY <2>2
    <2>3. CASE OnStop \/ \E ok \in BOOLEAN : RetryInit(ok)
      BY <2>3, <2>2 DEF OnStop, RetryInit
    <2>4. CASE TimerThread
      BY <2>4, <2>2 DEF TimerThread, Wake, ReportBehaviour, WriteBeyond, ClearBehaviour,
                        ReportStatisticEvent, ClearConsuming, life
    <2>5. CASE \E t \in Thread : Report(t)
      BY <2>5, <2>2 DEF Report, Begin, ReportPasteboardBehaviour,
                        ReportTimeConsumingStatistic, NothingToMeasure, life
    <2>6. CASE UNCHANGED vars
      BY <2>6, <2>2 DEF vars, life
    <2> QED  BY <2>1, <2>3, <2>4, <2>5, <2>6 DEF Next, Live
  <1>3. TimerInv => OneTimer
    BY DEF TimerInv, OneTimer
  <1> QED  BY <1>1, <1>2, <1>3, PTL DEF Spec

-----------------------------------------------------------------------------
\* No access is lost between the binder threads and the timer thread.

CountsTyped ==
    /\ behaviour \in [State -> [App -> Nat]]
    /\ accesses \in [State -> [App -> Nat]]
    /\ reported \in [State -> [App -> Nat]]
    /\ overrun \in BOOLEAN
    /\ \A t \in Thread : serving[t] # NoAccess => serving[t].state \in State /\ serving[t].app \in App

\* The timer thread goes to sleep, and wakes, with a table to write.
SleepsBeforeWriting == timer \in {"none", "asleep"} => \A s \in State : ~Clears(s)

\* Before running_ is set there is no thread that could be reporting.
NoTimerBefore == ~running => timer = "none"

CountInv == CountsTyped /\ SleepsBeforeWriting /\ NoTimerBefore /\ BehaviourConserved

LEMMA AccessingIsFinite ==
    ASSUME NEW s \in State
    PROVE  IsFiniteSet(Accessing(s)) /\ Cardinality(Accessing(s)) \in Nat
  <1>1. Accessing(s) \in SUBSET App
    BY DEF Accessing
  <1>2. IsFiniteSet(Accessing(s))
    BY <1>1, AppAssumption, FS_Subset
  <1> QED  BY <1>2, FS_CardinalityType

\* An event with room for all has all.
LEMMA TopIsAll ==
    ASSUME CountsTyped, NEW s \in State, Cardinality(Accessing(s)) <= TopApps, NEW top \in Top(s)
    PROVE  top = Accessing(s)
  <1>1. IsFiniteSet(Accessing(s)) /\ Cardinality(Accessing(s)) \in Nat
    BY AccessingIsFinite
  <1>2. /\ top \in SUBSET Accessing(s)
        /\ Cardinality(top) =
              IF Cardinality(Accessing(s)) < TopApps THEN Cardinality(Accessing(s)) ELSE TopApps
    BY DEF Top
  <1>3. Cardinality(top) = Cardinality(Accessing(s))
    BY <1>1, <1>2, AdapterBounds
  <1> QED  BY <1>1, <1>2, <1>3, FS_Subset

\* What a report clears it has written before.
LEMMA ReportConserves ==
    ASSUME CountInv, NEW s \in State, ReportBehaviour(s)
    PROVE  CountInv'
  <1> USE DEF CountInv
  <1>1. CountsTyped'
    <2>0. UNCHANGED <<behaviour, accesses, serving>>
      BY DEF ReportBehaviour, counts
    <2>1. CASE Accessing(s) = {}
      <3>1. UNCHANGED <<reported, overrun>>
        BY <2>1 DEF ReportBehaviour
      <3> QED  BY <2>0, <3>1 DEF CountsTyped
    <2>2. CASE Accessing(s) # {}
      <3>1. PICK top \in Top(s) : reported' = [reported EXCEPT ![s] =
                     [a \in App |-> @[a] + IF a \in top THEN behaviour[s][a] ELSE 0]]
        BY <2>2 DEF ReportBehaviour
      <3>2. reported' \in [State -> [App -> Nat]]
        BY <3>1 DEF CountsTyped
      <3>3. overrun' = (overrun \/ Cardinality(Accessing(s)) > TopApps)
        BY <2>2 DEF ReportBehaviour
      <3>4. overrun' \in BOOLEAN
        BY <3>3
      <3> QED  BY <2>0, <3>2, <3>4 DEF CountsTyped
    <2> QED  BY <2>1, <2>2
  <1>2. SleepsBeforeWriting'
    <2>1. CASE Accessing(s) = {}
      BY <2>1 DEF ReportBehaviour, Proceed, SleepsBeforeWriting, Clears
    <2>2. CASE Accessing(s) # {}
      BY <2>2 DEF ReportBehaviour, SleepsBeforeWriting
    <2> QED  BY <2>1, <2>2
  <1>3. BehaviourConserved'
    <2> SUFFICES ASSUME ~overrun', NEW r \in State, NEW a \in App
                 PROVE  accesses[r][a] = Accounted(r, a)'
      BY DEF BehaviourConserved, ReportBehaviour, counts
    <2>1. ~overrun /\ (Accessing(s) # {} => ~(Cardinality(Accessing(s)) > TopApps))
      BY DEF ReportBehaviour
    <2>2. accesses[r][a] = Accounted(r, a)
      BY <2>1 DEF BehaviourConserved
    <2>3. timer = "behaviour" /\ reporting = <<s, "write">> /\ ~Clears(r)
      BY DEF ReportBehaviour, Writes, Clears
    <2>4. accesses[r][a] = reported[r][a] + behaviour[r][a]
      BY <2>2, <2>3 DEF Accounted
    <2>5. CASE Accessing(s) = {}
      <3>1. ~Clears(r)' /\ UNCHANGED <<reported, behaviour>>
        BY <2>5 DEF ReportBehaviour, Proceed, Clears, counts
      <3> QED  BY <2>4, <3>1 DEF Accounted
    <2>6. CASE Accessing(s) # {}
      <3>1. PICK top \in Top(s) : reported' = [reported EXCEPT ![s] =
                     [b \in App |-> @[b] + IF b \in top THEN behaviour[s][b] ELSE 0]]
        BY <2>6 DEF ReportBehaviour
      <3>2. top = Accessing(s)
        <4>1. Cardinality(Accessing(s)) \in Nat
          BY AccessingIsFinite
        <4> QED  BY <2>1, <2>6, <4>1, TopIsAll, AdapterBounds
      <3>3. reporting' = <<s, "clear">> /\ timer' = "behaviour" /\ UNCHANGED behaviour
        BY <2>3, <2>6 DEF ReportBehaviour, counts
      <3>4. CASE r = s
        <4>1. reported'[r][a] = reported[r][a] + behaviour[r][a]
          BY <3>1, <3>2, <3>4 DEF Accessing, CountsTyped
        <4>2. Accounted(r, a)' = reported'[r][a] + 0
          BY <3>3, <3>4 DEF Accounted, Clears
        <4> QED  BY <2>4, <4>1, <4>2 DEF CountsTyped
      <3>5. CASE r # s
        <4>1. reported'[r][a] = reported[r][a]
          BY <3>1, <3>5 DEF CountsTyped
        <4>2. ~Clears(r)'
          BY <3>3, <3>5 DEF Clears
        <4> QED  BY <2>4, <3>3, <4>1, <4>2 DEF Accounted
      <3> QED  BY <3>4, <3>5
    <2> QED  BY <2>5, <2>6
  <1>4. NoTimerBefore'
    BY DEF ReportBehaviour, NoTimerBefore, life
  <1> QED  BY <1>1, <1>2, <1>3, <1>4

LEMMA ClearConserves ==
    ASSUME CountInv, NEW s \in State, ClearBehaviour(s)
    PROVE  CountInv'
  <1> USE DEF CountInv
  <1>1. CountsTyped'
    BY DEF ClearBehaviour, CountsTyped
  <1>2. SleepsBeforeWriting'
    BY DEF ClearBehaviour, Proceed, Clears, SleepsBeforeWriting
  <1>3. BehaviourConserved'
    <2> SUFFICES ASSUME ~overrun', NEW r \in State, NEW a \in App
                 PROVE  accesses[r][a] = Accounted(r, a)'
      BY DEF BehaviourConserved, ClearBehaviour
    <2>1. accesses[r][a] = Accounted(r, a)
      BY DEF BehaviourConserved, ClearBehaviour
    <2>2. timer = "behaviour" /\ reporting = <<s, "clear">> /\ ~Clears(r)' /\ UNCHANGED reported
      BY DEF ClearBehaviour, Proceed, Clears
    <2>3. behaviour' = [behaviour EXCEPT ![s] = [b \in App |-> 0]]
      BY DEF ClearBehaviour
    <2>4. Accounted(r, a)' = reported[r][a] + behaviour'[r][a]
      BY <2>2 DEF Accounted
    <2>5. CASE r = s
      <3>1. behaviour'[r][a] = 0
        BY <2>3, <2>5 DEF CountsTyped
      <3>2. Accounted(r, a) = reported[r][a] + 0
        BY <2>2, <2>5 DEF Accounted, Clears
      <3> QED  BY <2>1, <2>4, <3>1, <3>2
    <2>6. CASE r # s
      <3>1. behaviour'[r][a] = behaviour[r][a]
        BY <2>3, <2>6 DEF CountsTyped
      <3>2. Accounted(r, a) = reported[r][a] + behaviour[r][a]
        BY <2>2, <2>6 DEF Accounted, Clears
      <3> QED  BY <2>1, <2>4, <3>1, <3>2
    <2> QED  BY <2>5, <2>6
  <1>4. NoTimerBefore'
    BY DEF ClearBehaviour, NoTimerBefore, life
  <1> QED  BY <1>1, <1>2, <1>3, <1>4

LEMMA CountConserves ==
    ASSUME CountInv, NEW t \in Thread, ReportPasteboardBehaviour(t)
    PROVE  CountInv'
  <1> USE DEF CountInv
  <1> DEFINE s == serving[t].state
             a == serving[t].app
  <1>1. s \in State /\ a \in App
    BY DEF ReportPasteboardBehaviour, At, CountsTyped
  <1>2. /\ behaviour' = [behaviour EXCEPT ![s][a] = @ + 1]
        /\ accesses' = [accesses EXCEPT ![s][a] = @ + 1]
        /\ UNCHANGED <<timer, reporting, reported, overrun>>
        /\ timer # "behaviour"
    BY DEF ReportPasteboardBehaviour, log
  <1>3. CountsTyped'
    <2>1. \A u \in Thread : serving'[u] # NoAccess =>
              serving'[u].state \in State /\ serving'[u].app \in App
      BY <1>1 DEF ReportPasteboardBehaviour, CountsTyped, At
    <2> QED  BY <1>1, <1>2, <2>1 DEF CountsTyped
  <1>4. SleepsBeforeWriting'
    BY <1>2 DEF SleepsBeforeWriting, Clears
  <1>5. BehaviourConserved'
    <2> SUFFICES ASSUME ~overrun, NEW r \in State, NEW b \in App
                 PROVE  accesses'[r][b] = reported[r][b] + behaviour'[r][b]
      BY <1>2 DEF BehaviourConserved, Accounted
    <2>1. accesses[r][b] = reported[r][b] + behaviour[r][b]
      BY <1>2 DEF BehaviourConserved, Accounted
    <2>2. {accesses[r][b], behaviour[r][b], reported[r][b]} \subseteq Nat
      BY DEF CountsTyped
    <2>3. CASE r = s /\ b = a
      <3>1. accesses'[r][b] = accesses[r][b] + 1 /\ behaviour'[r][b] = behaviour[r][b] + 1
        BY <1>1, <1>2, <2>3 DEF CountsTyped
      <3> QED  BY <2>1, <2>2, <3>1
    <2>4. CASE ~(r = s /\ b = a)
      <3>1. accesses'[r][b] = accesses[r][b] /\ behaviour'[r][b] = behaviour[r][b]
        BY <1>1, <1>2, <2>4 DEF CountsTyped
      <3> QED  BY <2>1, <3>1
    <2> QED  BY <2>3, <2>4
  <1>6. NoTimerBefore'
    BY DEF ReportPasteboardBehaviour, NoTimerBefore, life, log
  <1> QED  BY <1>3, <1>4, <1>5, <1>6

\* Every other step leaves the numbers alone, and does not put the timer thread between
\* the write and the clear of a report.
LEMMA OthersConserve ==
    ASSUME CountInv, UNCHANGED <<behaviour, accesses, reported>>,
           overrun' \in BOOLEAN, overrun => overrun',
           SleepsBeforeWriting', NoTimerBefore',
           \A s \in State : (timer = "behaviour" /\ Clears(s)) <=> (timer' = "behaviour" /\ Clears(s)'),
           \A t \in Thread : serving'[t] # NoAccess =>
              serving'[t].state \in State /\ serving'[t].app \in App
    PROVE  CountInv'
  BY DEF CountInv, CountsTyped, BehaviourConserved, Accounted

LEMMA CountsAreKept == (Init => CountInv) /\ (CountInv /\ [Next]_vars => CountInv')
  <1>1. Init => CountInv
    <2> SUFFICES ASSUME Init PROVE CountInv
      OBVIOUS
    <2>1. behaviour = [s \in State |-> [a \in App |-> 0]] /\ accesses = behaviour /\ reported = behaviour
      BY DEF Init
    <2>2. CountsTyped
      <3>1. [s \in State |-> [a \in App |-> 0]] \in [State -> [App -> Nat]]
        OBVIOUS
      <3>2. overrun \in BOOLEAN /\ serving = [t \in Thread |-> NoAccess]
        BY DEF Init
      <3> QED  BY <2>1, <3>1, <3>2 DEF CountsTyped
    <2>3. \A s \in State : ~Clears(s)
      BY DEF Init, Clears
    <2>4. BehaviourConserved
      BY <2>1, <2>3 DEF BehaviourConserved, Accounted
    <2>5. NoTimerBefore
      BY DEF Init, NoTimerBefore
    <2> QED  BY <2>2, <2>3, <2>4, <2>5 DEF CountInv, SleepsBeforeWriting
  <1>2. CountInv /\ [Next]_vars => CountInv'
    <2> SUFFICES ASSUME CountInv, [Next]_vars PROVE CountInv'
      OBVIOUS
    <2>t. CountsTyped /\ SleepsBeforeWriting /\ NoTimerBefore
      BY DEF CountInv
    <2>1. CASE OnStop \/ \E ok \in BOOLEAN : RetryInit(ok)
      BY <2>1, <2>t, OthersConserve DEF OnStop, RetryInit, counts, log, CountsTyped,
                                        SleepsBeforeWriting, NoTimerBefore, Clears, life
    <2>2. ASSUME NEW ok \in BOOLEAN, OnStart(ok) PROVE CountInv'
      <3>1. UNCHANGED <<behaviour, accesses, reported, reporting, overrun, serving>>
        BY <2>2 DEF OnStart, counts
      <3>2. /\ timer' = timer \/ (timer = "none" /\ timer' = "asleep")
            /\ NoTimerBefore'
        BY <2>2, <2>t DEF OnStart, StartTimerThread, NoTimerBefore
      <3> QED  BY <3>1, <3>2, <2>t, OthersConserve DEF CountsTyped, SleepsBeforeWriting, NoTimerBefore, Clears, life
    <2>3. CASE Wake
      BY <2>3, <2>t, OthersConserve DEF Wake, counts, CountsTyped, SleepsBeforeWriting, NoTimerBefore, Clears, life
    <2>4. ASSUME NEW s \in State, WriteBeyond(s) PROVE CountInv'
      BY <2>4, <2>t, OthersConserve DEF WriteBeyond, counts, CountsTyped, SleepsBeforeWriting, NoTimerBefore, Clears, life
    <2>5. ASSUME NEW s \in State, ReportStatisticEvent(s) PROVE CountInv'
      BY <2>5, <2>t, OthersConserve DEF ReportStatisticEvent, counts, CountsTyped,
                                        SleepsBeforeWriting, NoTimerBefore, Clears, life
    <2>6. ASSUME NEW s \in State, ClearConsuming(s) PROVE CountInv'
      BY <2>6, <2>t, OthersConserve DEF ClearConsuming, Proceed, CountsTyped,
                                        SleepsBeforeWriting, NoTimerBefore, Clears, life
    <2>7. ASSUME NEW t \in Thread, NEW s \in State, NEW a \in App, Begin(t, s, a) PROVE CountInv'
      BY <2>7, <2>t, OthersConserve DEF Begin, counts, log, CountsTyped, SleepsBeforeWriting, NoTimerBefore, Clears, life
    <2>8. ASSUME NEW t \in Thread, NEW size \in Size, NEW time \in Time,
                 ReportTimeConsumingStatistic(t, size, time)
          PROVE  CountInv'
      <3>1. UNCHANGED <<life, behaviour, accesses, log>> /\ serving' = [serving EXCEPT ![t] = NoAccess]
        BY <2>8 DEF ReportTimeConsumingStatistic
      <3> QED  BY <3>1, <2>t, OthersConserve DEF log, CountsTyped, SleepsBeforeWriting, NoTimerBefore, Clears, life
    <2>9. ASSUME NEW t \in Thread, NothingToMeasure(t) PROVE CountInv'
      BY <2>9, <2>t, OthersConserve DEF NothingToMeasure, counts, log, CountsTyped,
                                        SleepsBeforeWriting, NoTimerBefore, Clears, life
    <2>10. CASE UNCHANGED vars
      BY <2>10, <2>t, OthersConserve DEF vars, counts, log, CountsTyped, SleepsBeforeWriting, NoTimerBefore, Clears, life
    <2> QED  BY <2>1, <2>2, <2>3, <2>4, <2>5, <2>6, <2>7, <2>8, <2>9, <2>10,
                ReportConserves, ClearConserves, CountConserves
             DEF Next, Live, TimerThread, Report
  <1> QED  BY <1>1, <1>2

\* Every copy and paste is counted once and reported at most once, whatever the binder
\* threads and the timer thread do, as long as a report has room for all applications.
THEOREM NoAccessIsLost == Spec => []BehaviourConserved
  <1>1. CountInv => BehaviourConserved
    BY DEF CountInv
  <1> QED  BY <1>1, CountsAreKept, PTL DEF Spec

-----------------------------------------------------------------------------
\* Bags, by the copies they have of each element.

Copies(e, B) == IF e \in DOMAIN B THEN B[e] ELSE 0

LEMMA CopiesAreCounted ==
    ASSUME NEW B, IsABag(B)
    PROVE  \A e : Copies(e, B) \in Nat /\ (Copies(e, B) > 0 <=> e \in DOMAIN B)
  BY DEF Copies, IsABag

\* Bags are equal if they have the same copies.
LEMMA BagsAreCopies ==
    ASSUME NEW A, NEW B, IsABag(A), IsABag(B), \A e : Copies(e, A) = Copies(e, B)
    PROVE  A = B
  <1>1. DOMAIN A = DOMAIN B
    BY CopiesAreCounted
  <1>2. \A e \in DOMAIN A : A[e] = B[e]
    BY <1>1 DEF Copies
  <1> QED  BY <1>1, <1>2 DEF IsABag

LEMMA CupAddsCopies ==
    ASSUME NEW A, NEW B, IsABag(A), IsABag(B)
    PROVE  IsABag(A (+) B) /\ \A e : Copies(e, A (+) B) = Copies(e, A) + Copies(e, B)
  <1>1. DOMAIN (A (+) B) = DOMAIN A \cup DOMAIN B
    BY DEF (+)
  <1>2. \A e \in DOMAIN A \cup DOMAIN B : (A (+) B)[e] = Copies(e, A) + Copies(e, B)
    BY DEF (+), Copies
  <1>3. \A e : Copies(e, A) \in Nat /\ Copies(e, B) \in Nat /\ (Copies(e, A) > 0 <=> e \in DOMAIN A)
               /\ (Copies(e, B) > 0 <=> e \in DOMAIN B)
    BY CopiesAreCounted
  <1>4. \A e \in DOMAIN (A (+) B) : (A (+) B)[e] \in Nat /\ (A (+) B)[e] > 0
    BY <1>1, <1>2, <1>3
  <1>5. A (+) B = [e \in DOMAIN (A (+) B) |-> (A (+) B)[e]]
    BY DEF (+)
  <1>6. IsABag(A (+) B)
    BY <1>4, <1>5 DEF IsABag
  <1>7. ASSUME NEW e PROVE Copies(e, A (+) B) = Copies(e, A) + Copies(e, B)
    <2>1. CASE e \in DOMAIN A \cup DOMAIN B
      BY <1>1, <1>2, <2>1 DEF Copies
    <2>2. CASE e \notin DOMAIN A \cup DOMAIN B
      BY <1>1, <2>2 DEF Copies
    <2> QED  BY <2>1, <2>2
  <1> QED  BY <1>6, <1>7

LEMMA EmptyHasNoCopies == IsABag(EmptyBag) /\ \A e : Copies(e, EmptyBag) = 0
  BY DEF EmptyBag, SetToBag, IsABag, Copies

LEMMA SingleIsABag == ASSUME NEW x PROVE IsABag(SetToBag({x})) /\ DOMAIN SetToBag({x}) = {x}
  BY DEF SetToBag, IsABag

-----------------------------------------------------------------------------
\* No measurement is lost between the binder threads and the timer thread.

Cells == {<<CalculateData(size), CalculateTime(time)>> : size \in Size, time \in Time}

\* The tables of an initialised statistic.
Tables == UNION {[cells -> Nat \ {0}] : cells \in SUBSET Cells}

MeasuresTyped ==
    /\ measured = [s \in State |-> measured[s]]
    /\ events = [s \in State |-> events[s]]
    /\ consuming = [s \in State |-> consuming[s]]
    /\ \A s \in State :
        /\ IsABag(measured[s]) /\ IsABag(events[s])
        /\ consuming[s] = NoTable \/ consuming[s] \in Tables
    /\ \A t \in Thread : serving[t] # NoAccess => serving[t].state \in State

\* The timer thread has written the table of state s and has yet to clear it.
Written(s) == timer = "consuming" /\ Clears(s)

\* ConsumingConserved, for each level of its own.
CopiesConserved ==
    \A e : Copies(e, measured["copy"]) + Copies(e, measured["paste"]) =
               Copies(e, events["copy"]) + Copies(e, events["paste"])
                   + Copies(e, Pending("copy")) + Copies(e, Pending("paste"))

MeasureInv == MeasuresTyped /\ CopiesConserved

LEMMA TablesAreBags == \A table \in Tables : IsABag(table) /\ table # NoTable
  <1> SUFFICES ASSUME NEW table \in Tables PROVE IsABag(table) /\ table # NoTable
    OBVIOUS
  <1>1. PICK cells \in SUBSET Cells : table \in [cells -> Nat \ {0}]
    BY DEF Tables
  <1>2. table # NoTable
    BY <1>1, NoTableAssumption DEF Cells
  <1>3. IsABag(table)
    BY <1>1 DEF IsABag
  <1> QED  BY <1>2, <1>3

LEMMA EmptyIsATable == EmptyBag \in Tables
  <1>1. EmptyBag \in [{} -> Nat \ {0}]
    BY DEF EmptyBag, SetToBag
  <1>2. {} \in SUBSET Cells
    OBVIOUS
  <1> QED  BY <1>1, <1>2 DEF Tables

\* A table with one more cell is a table.
LEMMA CountedIsATable ==
    ASSUME NEW table \in Tables, NEW cell \in Cells
    PROVE  table (+) SetToBag({cell}) \in Tables
  <1>1. PICK cells \in SUBSET Cells : table \in [cells -> Nat \ {0}]
    BY DEF Tables
  <1> DEFINE sum == table (+) SetToBag({cell})
  <1>2. sum = [e \in cells \cup {cell} |->
                  (IF e \in cells THEN table[e] ELSE 0) + (IF e = cell THEN 1 ELSE 0)]
    BY <1>1 DEF (+), SetToBag
  <1> HIDE DEF sum
  <1>3. sum \in [cells \cup {cell} -> Nat \ {0}]
    <2>1. ASSUME NEW e \in cells \cup {cell} PROVE sum[e] \in Nat \ {0}
      <3>1. CASE e \in cells
        <4>1. table[e] \in Nat \ {0}
          BY <1>1, <3>1
        <4> QED  BY <1>2, <3>1, <4>1
      <3>2. CASE e \notin cells
        BY <1>2, <3>2
      <3> QED  BY <3>1, <3>2
    <2> QED  BY <1>2, <2>1
  <1>4. cells \cup {cell} \in SUBSET Cells
    OBVIOUS
  <1> QED  BY <1>3, <1>4 DEF Tables, sum

LEMMA PendingIsABag ==
    ASSUME MeasuresTyped, NEW s \in State
    PROVE  IsABag(Pending(s))
  BY TablesAreBags, EmptyHasNoCopies DEF MeasuresTyped, Pending

\* The conservation of bags and that of their copies are the same.
LEMMA ConservedByCopies == ASSUME MeasuresTyped PROVE ConsumingConserved <=> CopiesConserved
  <1>1. "copy" \in State /\ "paste" \in State
    BY DEF State
  <1> DEFINE m == measured["copy"] (+) measured["paste"]
             ev == events["copy"] (+) events["paste"]
             evp == ev (+) Pending("copy")
             all == evp (+) Pending("paste")
  <1>2. /\ IsABag(measured["copy"]) /\ IsABag(measured["paste"])
        /\ IsABag(events["copy"]) /\ IsABag(events["paste"])
        /\ IsABag(Pending("copy")) /\ IsABag(Pending("paste"))
    BY <1>1, PendingIsABag DEF MeasuresTyped
  <1>3. IsABag(m) /\ \A e : Copies(e, m) = Copies(e, measured["copy"]) + Copies(e, measured["paste"])
    BY <1>2, CupAddsCopies
  <1>4. IsABag(ev) /\ \A e : Copies(e, ev) = Copies(e, events["copy"]) + Copies(e, events["paste"])
    BY <1>2, CupAddsCopies
  <1>5. IsABag(evp) /\ \A e : Copies(e, evp) = Copies(e, ev) + Copies(e, Pending("copy"))
    BY <1>2, <1>4, CupAddsCopies
  <1>6. IsABag(all) /\ \A e : Copies(e, all) = Copies(e, evp) + Copies(e, Pending("paste"))
    BY <1>2, <1>5, CupAddsCopies
  <1>7. ConsumingConserved <=> m = all
    BY DEF ConsumingConserved
  <1> HIDE DEF m, ev, evp, all
  <1>8. m = all <=> \A e : Copies(e, m) = Copies(e, all)
    BY <1>3, <1>6, BagsAreCopies
  <1>9. CopiesConserved <=> \A e : Copies(e, m) = Copies(e, all)
    BY <1>3, <1>4, <1>5, <1>6 DEF CopiesConserved
  <1> QED  BY <1>7, <1>8, <1>9

\* A step that leaves the tables, the measurements and the events alone, and does not
\* write or clear a table.
LEMMA MeasuresKept ==
    ASSUME MeasureInv, UNCHANGED <<consuming, measured, events>>,
           \A s \in State : Written(s) <=> Written(s)',
           \A t \in Thread : serving'[t] # NoAccess => serving'[t].state \in State
    PROVE  MeasureInv'
  <1>1. \A s \in State : Pending(s)' = Pending(s)
    BY DEF Pending, Written
  <1>2. "copy" \in State /\ "paste" \in State
    BY DEF State
  <1>3. Pending("copy")' = Pending("copy") /\ Pending("paste")' = Pending("paste")
    BY <1>1, <1>2
  <1>4. MeasuresTyped'
    BY DEF MeasureInv, MeasuresTyped
  <1>5. CopiesConserved'
    BY <1>3 DEF MeasureInv, CopiesConserved
  <1> QED  BY <1>4, <1>5 DEF MeasureInv

LEMMA MeasureInvInit == Init => MeasureInv
  <1> SUFFICES ASSUME Init PROVE MeasureInv
    OBVIOUS
  <1>1. /\ measured = [s \in State |-> EmptyBag] /\ events = [s \in State |-> EmptyBag]
        /\ consuming = [s \in State |-> NoTable] /\ serving = [t \in Thread |-> NoAccess]
    BY DEF Init
  <1>2. MeasuresTyped
    BY <1>1, EmptyHasNoCopies DEF MeasuresTyped
  <1>3. \A s \in State : measured[s] = EmptyBag /\ events[s] = EmptyBag /\ Pending(s) = EmptyBag
    BY <1>1 DEF Pending
  <1>4. CopiesConserved
    BY <1>3, EmptyHasNoCopies DEF CopiesConserved, State
  <1> QED  BY <1>2, <1>4 DEF MeasureInv

\* An access adds its level to the measurements of its state and to a table that has
\* been initialised.
LEMMA MeasuredIsCounted ==
    ASSUME MeasureInv, NEW t \in Thread, NEW size \in Size, NEW time \in Time,
           ReportTimeConsumingStatistic(t, size, time)
    PROVE  MeasureInv'
  <1> DEFINE s == serving[t].state
             cell == <<CalculateData(size), CalculateTime(time)>>
             one == SetToBag({cell})
             table == InitializeTimeConsuming
  <1>1. s \in State /\ TableOf(s) \in State
    BY DEF ReportTimeConsumingStatistic, At, MeasureInv, MeasuresTyped, TableOf, State
  <1>2. cell \in Cells /\ cell \in DataLevel \X TimeLevel
    BY LevelsExist, SizeAssumption, TimeAssumption DEF Cells
  <1>3. \A r \in State : table[r] \in Tables
    BY EmptyIsATable DEF MeasureInv, MeasuresTyped, InitializeTimeConsuming
  <1>4. Counted(table[TableOf(s)], cell) = table[TableOf(s)] (+) one
    BY <1>1, <1>2, <1>3, TablesAreBags DEF Counted
  <1>5. /\ timer # "consuming" /\ UNCHANGED <<events, timer, reporting>>
        /\ measured' = [measured EXCEPT ![s] = @ (+) one]
        /\ consuming' = [table EXCEPT ![TableOf(s)] = Counted(@, cell)]
        /\ serving' = [serving EXCEPT ![t] = NoAccess]
    BY DEF ReportTimeConsumingStatistic, log
  <1>6. table = [r \in State |-> table[r]]
    BY DEF InitializeTimeConsuming
  <1>7. \A r \in State : Pending(r) = table[r]
    BY <1>5 DEF Pending, InitializeTimeConsuming
  <1>8. IsABag(one) /\ \A r \in State : IsABag(measured[r]) /\ IsABag(table[r])
    BY <1>3, SingleIsABag, TablesAreBags DEF MeasureInv, MeasuresTyped
  <1> HIDE DEF cell, one, table
  <1>9. /\ measured' = [r \in State |-> measured'[r]]
        /\ \A r \in State : measured'[r] = IF r = s THEN measured[r] (+) one ELSE measured[r]
    BY <1>1, <1>5 DEF MeasureInv, MeasuresTyped
  <1>10. /\ consuming' = [r \in State |-> consuming'[r]]
         /\ \A r \in State : consuming'[r] = IF r = TableOf(s) THEN table[r] (+) one ELSE table[r]
    BY <1>1, <1>4, <1>5, <1>6
  <1>11. \A r \in State : consuming'[r] \in Tables
    BY <1>2, <1>3, <1>10, CountedIsATable DEF one
  <1>12. \A r \in State : Pending(r)' = consuming'[r]
    BY <1>5, <1>11, TablesAreBags DEF Pending
  <1>13. \A r \in State : IsABag(measured'[r])
    BY <1>8, <1>9, CupAddsCopies
  <1>14. MeasuresTyped'
    <2>1. \A u \in Thread : serving'[u] # NoAccess => serving'[u].state \in State
      BY <1>5 DEF MeasureInv, MeasuresTyped
    <2> QED  BY <1>5, <1>9, <1>10, <1>11, <1>13, <2>1 DEF MeasureInv, MeasuresTyped
  <1>15. ASSUME NEW e
         PROVE  Copies(e, measured'["copy"]) + Copies(e, measured'["paste"]) =
                   Copies(e, events'["copy"]) + Copies(e, events'["paste"])
                       + Copies(e, Pending("copy")') + Copies(e, Pending("paste")')
    <2>1. Copies(e, measured["copy"]) + Copies(e, measured["paste"]) =
             Copies(e, events["copy"]) + Copies(e, events["paste"])
                 + Copies(e, table["copy"]) + Copies(e, table["paste"])
      BY <1>7 DEF MeasureInv, CopiesConserved, State
    <2>2. \A r \in State : /\ Copies(e, measured[r] (+) one) = Copies(e, measured[r]) + Copies(e, one)
                           /\ Copies(e, table[r] (+) one) = Copies(e, table[r]) + Copies(e, one)
      BY <1>8, CupAddsCopies
    <2>3. /\ Copies(e, one) \in Nat
          /\ \A r \in State : /\ Copies(e, measured[r]) \in Nat /\ Copies(e, events[r]) \in Nat
                              /\ Copies(e, table[r]) \in Nat
      BY <1>8, CopiesAreCounted DEF MeasureInv, MeasuresTyped
    <2>4. CASE s = "copy"
      <3>1. /\ measured'["copy"] = measured["copy"] (+) one /\ measured'["paste"] = measured["paste"]
            /\ Pending("copy")' = table["copy"] /\ Pending("paste")' = table["paste"] (+) one
        BY <1>9, <1>10, <1>12, <2>4 DEF TableOf, State
      <3> QED  BY <1>5, <2>1, <2>2, <2>3, <3>1 DEF State
    <2>5. CASE s = "paste"
      <3>1. /\ measured'["paste"] = measured["paste"] (+) one /\ measured'["copy"] = measured["copy"]
            /\ Pending("paste")' = table["paste"] /\ Pending("copy")' = table["copy"] (+) one
        BY <1>9, <1>10, <1>12, <2>5 DEF TableOf, State
      <3> QED  BY <1>5, <2>1, <2>2, <2>3, <3>1 DEF State
    <2> QED  BY <1>1, <2>4, <2>5 DEF State
  <1>16. CopiesConserved'
    BY <1>15 DEF CopiesConserved
  <1> QED  BY <1>14, <1>16 DEF MeasureInv

\* An event takes a table out of what is pending.
LEMMA WrittenIsReported ==
    ASSUME MeasureInv, NEW s \in State, ReportStatisticEvent(s)
    PROVE  MeasureInv'
  <1>1. /\ timer = "consuming" /\ reporting = <<s, "write">>
        /\ timer' = "consuming" /\ reporting' = <<s, "clear">>
        /\ UNCHANGED <<consuming, measured, serving>>
    BY DEF ReportStatisticEvent, Writes, counts
  <1>2. /\ \A r \in State : Pending(r) = IF consuming[r] = NoTable THEN EmptyBag ELSE consuming[r]
        /\ \A r \in State : Pending(r)' = IF r = s THEN EmptyBag ELSE Pending(r)
    BY <1>1 DEF Pending, Clears
  <1>3. /\ events' = [r \in State |-> events'[r]]
        /\ \A r \in State : r # s => events'[r] = events[r]
        /\ events'[s] = IF consuming[s] = NoTable THEN events[s] ELSE events[s] (+) Pending(s)
    BY <1>2 DEF ReportStatisticEvent, MeasureInv, MeasuresTyped
  <1>4. \A r \in State : IsABag(events[r]) /\ IsABag(measured[r]) /\ IsABag(Pending(r))
    BY PendingIsABag DEF MeasureInv, MeasuresTyped
  <1>5. /\ IsABag(events'[s])
        /\ \A e : Copies(e, events'[s]) = Copies(e, events[s]) + Copies(e, Pending(s))
    <2>1. CASE consuming[s] = NoTable
      <3>1. \A e : Copies(e, Pending(s)) = 0
        BY <1>2, <2>1, EmptyHasNoCopies
      <3>2. \A e : Copies(e, events[s]) \in Nat
        BY <1>4, CopiesAreCounted
      <3> QED  BY <1>3, <1>4, <2>1, <3>1, <3>2
    <2>2. CASE consuming[s] # NoTable
      BY <1>3, <1>4, <2>2, CupAddsCopies
    <2> QED  BY <2>1, <2>2
  <1>6. MeasuresTyped'
    BY <1>1, <1>3, <1>4, <1>5 DEF MeasureInv, MeasuresTyped
  <1>7. ASSUME NEW e
         PROVE  Copies(e, measured'["copy"]) + Copies(e, measured'["paste"]) =
                   Copies(e, events'["copy"]) + Copies(e, events'["paste"])
                       + Copies(e, Pending("copy")') + Copies(e, Pending("paste")')
    <2>1. Copies(e, measured["copy"]) + Copies(e, measured["paste"]) =
             Copies(e, events["copy"]) + Copies(e, events["paste"])
                 + Copies(e, Pending("copy")) + Copies(e, Pending("paste"))
      BY DEF MeasureInv, CopiesConserved
    <2>2. \A r \in State : /\ Copies(e, events[r]) \in Nat /\ Copies(e, Pending(r)) \in Nat
      BY <1>4, CopiesAreCounted
    <2>3. Copies(e, EmptyBag) = 0
      BY EmptyHasNoCopies
    <2>4. Copies(e, events'[s]) = Copies(e, events[s]) + Copies(e, Pending(s))
      BY <1>5
    <2>5. CASE s = "copy"
      <3>1. /\ events'["paste"] = events["paste"]
            /\ Pending("copy")' = EmptyBag /\ Pending("paste")' = Pending("paste")
        BY <1>2, <1>3, <2>5 DEF State
      <3> QED  BY <1>1, <2>1, <2>2, <2>3, <2>4, <2>5, <3>1 DEF State
    <2>6. CASE s = "paste"
      <3>1. /\ events'["copy"] = events["copy"]
            /\ Pending("paste")' = EmptyBag /\ Pending("copy")' = Pending("copy")
        BY <1>2, <1>3, <2>6 DEF State
      <3> QED  BY <1>1, <2>1, <2>2, <2>3, <2>4, <2>6, <3>1 DEF State
    <2> QED  BY <2>5, <2>6 DEF State
  <1>8. CopiesConserved'
    BY <1>7 DEF CopiesConserved
  <1> QED  BY <1>6, <1>8 DEF MeasureInv

\* The clear that follows takes nothing out of it.
LEMMA ClearedWasWritten ==
    ASSUME MeasureInv, NEW s \in State, ClearConsuming(s)
    PROVE  MeasureInv'
  <1>1. /\ timer = "consuming" /\ reporting = <<s, "clear">>
        /\ \A r \in State : ~Clears(r)'
        /\ UNCHANGED <<measured, events, serving>>
        /\ consuming' = [consuming EXCEPT ![s] = NoTable]
    BY DEF ClearConsuming, Proceed, Clears
  <1>2. MeasuresTyped'
    BY <1>1 DEF MeasureInv, MeasuresTyped
  <1>3. \A r \in State : Pending(r)' = Pending(r)
    BY <1>1 DEF MeasureInv, MeasuresTyped, Pending, Clears
  <1>4. Pending("copy")' = Pending("copy") /\ Pending("paste")' = Pending("paste")
    BY <1>3 DEF State
  <1>5. CopiesConserved'
    BY <1>1, <1>4 DEF MeasureInv, CopiesConserved
  <1> QED  BY <1>2, <1>5 DEF MeasureInv

LEMMA MeasureInvNext == MeasureInv /\ NoTimerBefore /\ [Next]_vars => MeasureInv'
  <1> SUFFICES ASSUME MeasureInv, NoTimerBefore, [Next]_vars PROVE MeasureInv'
    OBVIOUS
  <1>0. \A t \in Thread : serving[t] # NoAccess => serving[t].state \in State
    BY DEF MeasureInv, MeasuresTyped
  <1>1. CASE OnStop \/ \E ok \in BOOLEAN : RetryInit(ok)
    <2>1. UNCHANGED <<consuming, measured, events, timer, reporting, serving>>
      BY <1>1 DEF OnStop, RetryInit, counts, log
    <2> QED  BY <1>0, <2>1, MeasuresKept DEF Written, Clears
  <1>2. ASSUME NEW ok \in BOOLEAN, OnStart(ok) PROVE MeasureInv'
    <2>1. timer' = timer \/ (timer = "none" /\ timer' = "asleep")
      BY <1>2 DEF OnStart, StartTimerThread, NoTimerBefore
    <2>2. UNCHANGED <<consuming, measured, events, reporting, serving>>
      BY <1>2 DEF OnStart, counts
    <2> QED  BY <1>0, <2>1, <2>2, MeasuresKept DEF Written, Clears
  <1>3. CASE Wake
    BY <1>0, <1>3, MeasuresKept DEF Wake, counts, Written, Clears
  <1>4. ASSUME NEW s \in State, ReportBehaviour(s) \/ WriteBeyond(s) \/ ClearBehaviour(s) PROVE MeasureInv'
    <2>1. UNCHANGED <<consuming, measured, events, serving>> /\ timer = "behaviour"
      BY <1>4 DEF ReportBehaviour, WriteBeyond, ClearBehaviour, counts
    <2>2. timer' = "behaviour" \/ \A r \in State : ~Clears(r)'
      BY <1>4 DEF ReportBehaviour, WriteBeyond, ClearBehaviour, Proceed, Clears
    <2> QED  BY <1>0, <2>1, <2>2, MeasuresKept DEF Written
  <1>5. ASSUME NEW t \in Thread, NEW s \in State, NEW a \in App, Begin(t, s, a) PROVE MeasureInv'
    BY <1>0, <1>5, MeasuresKept DEF Begin, counts, log, Written, Clears
  <1>6. ASSUME NEW t \in Thread, ReportPasteboardBehaviour(t) PROVE MeasureInv'
    <2>1. UNCHANGED <<consuming, measured, events, timer, reporting>>
      BY <1>6 DEF ReportPasteboardBehaviour, log
    <2>2. serving' = [serving EXCEPT ![t].stage = "time"] /\ serving[t] # NoAccess
      BY <1>6 DEF ReportPasteboardBehaviour, At
    <2>3. \A u \in Thread : serving'[u] # NoAccess => serving'[u].state \in State
      BY <1>0, <2>2
    <2> QED  BY <2>1, <2>3, MeasuresKept DEF Written, Clears
  <1>8. ASSUME NEW t \in Thread, NothingToMeasure(t) PROVE MeasureInv'
    BY <1>0, <1>8, MeasuresKept DEF NothingToMeasure, counts, log, Written, Clears
  <1>7. CASE UNCHANGED vars
    BY <1>0, <1>7, MeasuresKept DEF vars, counts, log, Written, Clears
  <1> QED
    BY <1>1, <1>2, <1>3, <1>4, <1>5, <1>6, <1>7, <1>8, MeasuredIsCounted, WrittenIsReported, ClearedWasWritten
    DEF Next, Live, TimerThread, Report

\* Every size and time that is measured is counted in one of the two tables and reported
\* at most once, whatever the binder threads and the timer thread do.
THEOREM NoMeasurementIsLost == Spec => []ConsumingConserved
  <1>1. MeasureInv => ConsumingConserved
    BY ConservedByCopies DEF MeasureInv
  <1>2. CountInv => NoTimerBefore
    BY DEF CountInv
  <1> QED  BY <1>1, <1>2, CountsAreKept, MeasureInvInit, MeasureInvNext, PTL DEF Spec

-----------------------------------------------------------------------------
\* Type correctness, in parts: the service and the timer thread, the binder threads, the
\* tables.  The numbers are typed by CountsTyped.

FlagsTyped ==
    /\ started \in BOOLEAN /\ serviceHandler \in BOOLEAN /\ published \in BOOLEAN
    /\ commands \in BOOLEAN /\ running \in BOOLEAN /\ alive \in BOOLEAN

LifeTyped ==
    /\ FlagsTyped
    /\ state \in {"STATE_NOT_START", "STATE_RUNNING"}
    /\ starts \in 0..MaxStarts /\ retries \in 0..starts /\ timers \in Nat
    /\ timer \in {"none", "asleep", "behaviour", "consuming"}
    /\ reporting \in State \X {"write", "clear"}
    /\ retries > 0 => serviceHandler
    /\ state = "STATE_RUNNING" \/ commands => published
    /\ running <=> timer # "none"
    /\ running <=> commands

ServingTyped == serving \in [Thread -> Access \cup {NoAccess}]

LevelsTyped ==
    \A s \in State :
        /\ consuming[s] # NoTable => BagToSet(consuming[s]) \subseteq DataLevel \X TimeLevel
        /\ BagToSet(measured[s]) \cup BagToSet(events[s]) \subseteq DataLevel \X TimeLevel

LEMMA TypesInParts == LifeTyped /\ ServingTyped /\ LevelsTyped /\ CountsTyped => TypeOK
  BY DEF FlagsTyped, LifeTyped, ServingTyped, LevelsTyped, CountsTyped, TypeOK

LEMMA TypesInit == Init => LifeTyped /\ ServingTyped /\ LevelsTyped
  <1> SUFFICES ASSUME Init PROVE LifeTyped /\ ServingTyped /\ LevelsTyped
    OBVIOUS
  <1>1. LifeTyped
    <2>1. FlagsTyped
      BY DEF Init, FlagsTyped
    <2>2. starts \in 0..MaxStarts
      BY AdapterBounds DEF Init
    <2> QED  BY <2>1, <2>2 DEF Init, LifeTyped, State
  <1>2. ServingTyped
    BY DEF Init, ServingTyped
  <1>3. LevelsTyped
    BY DEF Init, LevelsTyped, EmptyBag, SetToBag, BagToSet
  <1> QED  BY <1>1, <1>2, <1>3

LEMMA FlagsNext == FlagsTyped /\ [Next]_vars => FlagsTyped'
  <1> SUFFICES ASSUME FlagsTyped, [Next]_vars PROVE FlagsTyped'
    OBVIOUS
  <1> USE DEF FlagsTyped, life, log
  <1>1. ASSUME NEW ok \in BOOLEAN, OnStart(ok) \/ RetryInit(ok) PROVE FlagsTyped'
    BY <1>1 DEF OnStart, RetryInit, InitService, StartTimerThread
  <1>2. OnStop \/ Wake => FlagsTyped'
    BY DEF OnStop, Wake
  <1>3. ASSUME NEW s \in State,
               ReportBehaviour(s) \/ WriteBeyond(s) \/ ClearBehaviour(s) \/ ReportStatisticEvent(s) \/ ClearConsuming(s)
        PROVE  FlagsTyped'
    BY <1>3 DEF ReportBehaviour, WriteBeyond, ClearBehaviour, ReportStatisticEvent, ClearConsuming
  <1>4. ASSUME NEW t \in Thread, Report(t) PROVE FlagsTyped'
    BY <1>4 DEF Report, Begin, ReportPasteboardBehaviour, ReportTimeConsumingStatistic, NothingToMeasure
  <1>5. UNCHANGED vars => FlagsTyped'
    BY DEF vars
  <1> QED
    BY <1>1, <1>2, <1>3, <1>4, <1>5 DEF Next, Live, TimerThread

\* The timer thread changes none of the variables of the service.
LEMMA TimerKeepsLife ==
    ASSUME LifeTyped, FlagsTyped', UNCHANGED life,
           timer # "none", timer' \in {"asleep", "behaviour", "consuming"},
           reporting' \in State \X {"write", "clear"}
    PROVE  LifeTyped'
  BY DEF LifeTyped, life

LEMMA LifeNext == LifeTyped /\ [Next]_vars => LifeTyped'
  <1> SUFFICES ASSUME LifeTyped, [Next]_vars PROVE LifeTyped'
    OBVIOUS
  <1>0. FlagsTyped'
    BY FlagsNext DEF LifeTyped
  <1>1. ASSUME NEW ok \in BOOLEAN, OnStart(ok) PROVE LifeTyped'
    <2>1. starts' \in 0..MaxStarts /\ starts' = starts + 1 /\ UNCHANGED reporting
      BY <1>1, AdapterBounds DEF OnStart, LifeTyped
    <2>2. CASE state = "STATE_RUNNING"
      <3>1. UNCHANGED <<state, serviceHandler, retries, published, commands, running, timers, timer>>
        BY <1>1, <2>2 DEF OnStart
      <3> QED  BY <1>0, <2>1, <3>1, AdapterBounds DEF LifeTyped
    <2>3. CASE state # "STATE_RUNNING" /\ ok
      <3>1. state' = "STATE_RUNNING" /\ published' /\ commands' /\ running' /\ serviceHandler'
        BY <1>1, <2>3 DEF OnStart, InitService, StartTimerThread
      <3>2. UNCHANGED retries /\ StartTimerThread
        BY <1>1, <2>3 DEF OnStart
      <3>3. timers' \in Nat /\ timer' \in {"asleep", "behaviour", "consuming"}
        BY <3>2 DEF StartTimerThread, LifeTyped
      <3> QED  BY <1>0, <2>1, <3>1, <3>2, <3>3, AdapterBounds DEF LifeTyped
    <2>4. CASE state # "STATE_RUNNING" /\ ~ok
      <3>1. serviceHandler' /\ retries' = retries + 1 /\ UNCHANGED <<state, commands, running, timers, timer>>
        BY <1>1, <2>4 DEF OnStart, InitService
      <3>2. published => published'
        BY <1>1, <2>4 DEF OnStart, InitService
      <3> QED  BY <1>0, <2>1, <3>1, <3>2, AdapterBounds DEF LifeTyped
    <2> QED  BY <2>2, <2>3, <2>4
  <1>2. ASSUME NEW ok \in BOOLEAN, RetryInit(ok) PROVE LifeTyped'
    <2>1. /\ retries > 0 /\ retries' = retries - 1
          /\ UNCHANGED <<serviceHandler, commands, running, timers, starts, timer, reporting>>
      BY <1>2 DEF RetryInit, log
    <2>2. published' = (published \/ ok)
      BY <1>2 DEF RetryInit, InitService
    <2>3. published => published'
      BY <2>2, Zenon
    <2>4. state' = "STATE_RUNNING" => state = "STATE_RUNNING" \/ published'
      <3>1. CASE ok
        BY <2>2, <3>1, Zenon
      <3>2. CASE ~ok
        BY <1>2, <3>2 DEF RetryInit, InitService
      <3> QED  BY <3>1, <3>2
    <2>5. state' \in {"STATE_NOT_START", "STATE_RUNNING"}
      BY <1>2 DEF RetryInit, InitService, LifeTyped
    <2> QED  BY <1>0, <2>1, <2>3, <2>4, <2>5, AdapterBounds DEF LifeTyped
  <1>3. CASE OnStop
    BY <1>0, <1>3, AdapterBounds DEF OnStop, LifeTyped, log
  <1>4. CASE Wake
    BY <1>0, <1>4, TimerKeepsLife DEF Wake, LifeTyped
  <1>5. ASSUME NEW s \in State,
               ReportBehaviour(s) \/ WriteBeyond(s) \/ ClearBehaviour(s) \/ ReportStatisticEvent(s) \/ ClearConsuming(s)
        PROVE  LifeTyped'
    <2>1. UNCHANGED life /\ timer \in {"behaviour", "consuming"}
      BY <1>5 DEF ReportBehaviour, WriteBeyond, ClearBehaviour, ReportStatisticEvent, ClearConsuming
    <2>2. timer' \in {"asleep", "behaviour", "consuming"}
      BY <1>5, <2>1 DEF ReportBehaviour, WriteBeyond, ClearBehaviour, ReportStatisticEvent, ClearConsuming, Proceed
    <2>3. reporting' \in State \X {"write", "clear"}
      <3>1. \/ Proceed(s)
            \/ reporting' = <<s, "clear">>
            \/ UNCHANGED reporting
        BY <1>5 DEF ReportBehaviour, WriteBeyond, ClearBehaviour, ReportStatisticEvent, ClearConsuming
      <3> QED  BY <3>1 DEF Proceed, State, LifeTyped
    <2> QED  BY <1>0, <2>1, <2>2, <2>3, TimerKeepsLife
  <1>6. ASSUME NEW t \in Thread, Report(t) PROVE LifeTyped'
    <2>1. UNCHANGED <<life, timer, reporting>>
      BY <1>6 DEF Report, Begin, ReportPasteboardBehaviour, ReportTimeConsumingStatistic, NothingToMeasure, log
    <2> QED  BY <1>0, <2>1 DEF LifeTyped, life
  <1>7. CASE UNCHANGED vars
    BY <1>0, <1>7 DEF LifeTyped, vars, life, log
  <1> QED
    BY <1>1, <1>2, <1>3, <1>4, <1>5, <1>6, <1>7 DEF Next, Live, TimerThread

LEMMA ServingNext == ServingTyped /\ [Next]_vars => ServingTyped'
  <1> SUFFICES ASSUME ServingTyped, [Next]_vars PROVE ServingTyped'
    OBVIOUS
  <1> USE DEF ServingTyped, Access
  <1>1. ASSUME UNCHANGED serving PROVE ServingTyped'
    BY <1>1
  <1>2. ASSUME NEW t \in Thread, Report(t) PROVE ServingTyped'
    <2>1. ASSUME NEW s \in State, NEW a \in App, Begin(t, s, a) PROVE ServingTyped'
      BY <2>1 DEF Begin
    <2>2. CASE ReportPasteboardBehaviour(t)
      BY <2>2 DEF ReportPasteboardBehaviour, At
    <2>3. CASE NothingToMeasure(t) \/ \E size \in Size, time \in Time : ReportTimeConsumingStatistic(t, size, time)
      BY <2>3 DEF NothingToMeasure, ReportTimeConsumingStatistic
    <2> QED  BY <1>2, <2>1, <2>2, <2>3 DEF Report
  <1>3. Live \/ TimerThread \/ UNCHANGED vars => UNCHANGED serving
    BY DEF Live, OnStart, OnStop, RetryInit, TimerThread, Wake, ReportBehaviour, WriteBeyond, ClearBehaviour,
           ReportStatisticEvent, ClearConsuming, vars
  <1> QED  BY <1>1, <1>2, <1>3 DEF Next

LEMMA CupOfLevels ==
    ASSUME NEW L, NEW A, NEW B, DOMAIN A \subseteq L, DOMAIN B \subseteq L
    PROVE  DOMAIN (A (+) B) \subseteq L
  BY DEF (+)

LEMMA LevelsNext == MeasureInv /\ LevelsTyped /\ [Next]_vars => LevelsTyped'
  <1> SUFFICES ASSUME MeasuresTyped, LevelsTyped, [Next]_vars PROVE LevelsTyped'
    BY DEF MeasureInv
  <1> USE DEF LevelsTyped, BagToSet
  <1>1. ASSUME UNCHANGED <<consuming, measured, events>> PROVE LevelsTyped'
    BY <1>1
  <1>2. ASSUME NEW t \in Thread, NEW size \in Size, NEW time \in Time,
               ReportTimeConsumingStatistic(t, size, time)
        PROVE  LevelsTyped'
    <2> DEFINE s == serving[t].state
               cell == <<CalculateData(size), CalculateTime(time)>>
    <2>1. cell \in DataLevel \X TimeLevel
      BY LevelsExist, SizeAssumption, TimeAssumption
    <2>2. /\ measured' = [measured EXCEPT ![s] = @ (+) SetToBag({cell})]
          /\ consuming' = [InitializeTimeConsuming EXCEPT ![TableOf(s)] = Counted(@, cell)]
          /\ UNCHANGED events
      BY <1>2 DEF ReportTimeConsumingStatistic, log
    <2> HIDE DEF cell, s
    <2>3. DOMAIN EmptyBag = {} /\ DOMAIN SetToBag({cell}) = {cell}
      BY DEF EmptyBag, SetToBag
    <2>4. DOMAIN SetToBag({cell}) \subseteq DataLevel \X TimeLevel
      BY <2>1, <2>3
    <2>5. \A r \in State : DOMAIN InitializeTimeConsuming[r] \subseteq DataLevel \X TimeLevel
      BY <2>3 DEF InitializeTimeConsuming, DataLevel, TimeLevel
    <2>6. \A r \in State : \/ consuming'[r] = InitializeTimeConsuming[r]
                           \/ consuming'[r] = Counted(InitializeTimeConsuming[r], cell)
      <3>1. DOMAIN InitializeTimeConsuming = State
        BY DEF InitializeTimeConsuming
      <3> HIDE DEF InitializeTimeConsuming
      <3> QED  BY <2>2, <3>1
    <2>7. \A r \in State : DOMAIN consuming'[r] \subseteq DataLevel \X TimeLevel
      <3> SUFFICES ASSUME NEW r \in State PROVE DOMAIN consuming'[r] \subseteq DataLevel \X TimeLevel
        OBVIOUS
      <3> DEFINE table == InitializeTimeConsuming[r]
      <3>1. DOMAIN table \subseteq DataLevel \X TimeLevel
        BY <2>5
      <3>2. consuming'[r] = table \/ consuming'[r] = table (+) SetToBag({cell})
        BY <2>6 DEF Counted
      <3> HIDE DEF table
      <3> QED  BY <2>4, <3>1, <3>2, CupOfLevels
    <2>8. \A r \in State : measured'[r] = measured[r] \/ measured'[r] = measured[r] (+) SetToBag({cell})
      BY <2>2 DEF MeasuresTyped
    <2>9. \A r \in State : DOMAIN measured'[r] \subseteq DataLevel \X TimeLevel
      BY <2>4, <2>8, CupOfLevels
    <2> QED  BY <2>2, <2>7, <2>9
  <1>3. ASSUME NEW s \in State, ReportStatisticEvent(s) PROVE LevelsTyped'
    <2>2. UNCHANGED <<consuming, measured>>
      BY <1>3 DEF ReportStatisticEvent, counts
    <2>3. \A r \in State : \/ events'[r] = events[r]
                           \/ consuming[r] # NoTable /\ events'[r] = events[r] (+) consuming[r]
      BY <1>3 DEF ReportStatisticEvent, MeasuresTyped
    <2>4. \A r \in State : DOMAIN events'[r] \subseteq DataLevel \X TimeLevel
      BY <2>3, CupOfLevels
    <2> QED  BY <2>2, <2>4
  <1>4. ASSUME NEW s \in State, ClearConsuming(s) PROVE LevelsTyped'
    <2>1. UNCHANGED <<measured, events>>
      BY <1>4 DEF ClearConsuming
    <2>2. \A r \in State : consuming'[r] = consuming[r] \/ consuming'[r] = NoTable
      BY <1>4 DEF ClearConsuming, MeasuresTyped
    <2> QED  BY <2>1, <2>2
  <1>5. ASSUME NEW t \in Thread,
               \/ \E s \in State, a \in App : Begin(t, s, a)
               \/ ReportPasteboardBehaviour(t) \/ NothingToMeasure(t)
        PROVE  LevelsTyped'
    BY <1>1, <1>5 DEF Begin, ReportPasteboardBehaviour, NothingToMeasure, counts, log
  <1>6. ASSUME NEW s \in State, ReportBehaviour(s) \/ WriteBeyond(s) \/ ClearBehaviour(s) PROVE LevelsTyped'
    BY <1>1, <1>6 DEF ReportBehaviour, WriteBeyond, ClearBehaviour, counts
  <1>7. CASE Live \/ Wake \/ UNCHANGED vars
    BY <1>1, <1>7 DEF Live, OnStart, OnStop, RetryInit, Wake, counts, log, vars
  <1> QED
    BY <1>2, <1>3, <1>4, <1>5, <1>6, <1>7 DEF Next, TimerThread, Report

\* The states of the service and of the timer thread fit together, every call served has
\* its fields, and no table or event has a level that does not exist.
THEOREM StatisticsTyped == Spec => []TypeOK
  <1>1. CountInv => CountsTyped /\ NoTimerBefore
    BY DEF CountInv
  <1> QED
    BY <1>1, CountsAreKept, MeasureInvInit, MeasureInvNext, TypesInit, LifeNext, ServingNext, LevelsNext,
       TypesInParts, PTL DEF Spec

=============================================================================

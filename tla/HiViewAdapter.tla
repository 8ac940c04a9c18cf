---------------------------- MODULE HiViewAdapter ----------------------------
(***************************************************************************)
(* The start and the stop of the service (OnStart, Init and OnStop of      *)
(* pasteboard_service.cpp) and the statistics a running service keeps      *)
(* (services/dfx/src/hiview_adapter.cpp, calculate_time_consuming.cpp).    *)
(* Binder threads count every copy and paste; a timer thread, started with *)
(* the service, writes the counts to the system's event log once a day and *)
(* clears them.  behaviourMutex_ guards the counts per application,        *)
(* timeConsumingMutex_ those per size and time.                            *)
(*                                                                         *)
(* A count is one step, for it needs one mutex and nothing else; a report  *)
(* writes events while it holds the mutex, and is as many steps.           *)
(***************************************************************************)
EXTENDS Integers, FiniteSets, Bags, Functions

CONSTANTS
    Thread,      \* the binder threads
    App,         \* bundle names
    Size,        \* sizes in bytes of the text of a clipboard's last record
    Time,        \* milliseconds that SetPasteDataDot or GetPasteDataDot measures
    TopApps,     \* TOTAL_APP_NUMBERS, the applications an event has room for
    NoTable,     \* an empty copyTimeConsumingStat_ or pasteTimeConsumingStat_
    NoAccess,    \* what an idle binder thread serves
    MaxStarts,   \* bound of the model: calls of OnStart
    MaxAccesses  \* bound of the model: copies and pastes

ASSUME AppAssumption == IsFiniteSet(App)
ASSUME SizeAssumption == Size \subseteq Nat
ASSUME TimeAssumption == Time \subseteq Nat
ASSUME AdapterBounds == TopApps \in Nat \ {0} /\ MaxStarts \in Nat /\ MaxAccesses \in Nat

State == {"copy", "paste"}
DataLevel == 0..6    \* DataConsumingLevel
TimeLevel == 0..10   \* TimeConsumingLevel

VARIABLES
    \* The service.
    started,         \* the ability manager has called OnStart, and not OnStop since
    state,           \* state_
    serviceHandler,  \* serviceHandler_ is set
    retries,         \* calls of Init posted to it
    published,       \* the service can be called
    commands,        \* the two dump commands are registered
    running,         \* running_
    timers,          \* timer threads started
    alive,           \* the process has not been ended by a write outside a vector
    starts,          \* calls of OnStart
    \* The statistics.
    serving,         \* serving[t]: the access thread t reports
    behaviour,       \* copy- and pastePasteboardBehaviour_
    consuming,       \* copy- and pasteTimeConsumingStat_
    timer,           \* what the timer thread does: nothing, sleep, or a report
    reporting,       \* the table it reports, and whether it writes or clears it
    \* History.
    accesses,        \* accesses[s][a]: those counted by application
    measured,        \* measured[s]: the levels of those counted by size and time
    reported,        \* reported[s][a]: the numbers in behaviour events
    events,          \* events[s]: the numbers in time events of state s
    overrun          \* a report had more applications than it has room for

life == <<started, state, serviceHandler, retries, published, commands, running, timers, starts>>
counts == <<behaviour, consuming, accesses, measured>>
log == <<timer, reporting, reported, events, overrun, alive>>
vars == <<life, serving, counts, log>>

Access == [state : State, app : App, stage : {"behaviour", "time"}]

TypeOK ==
    /\ {started, serviceHandler, published, commands, running, alive, overrun} \subseteq BOOLEAN
    /\ state \in {"STATE_NOT_START", "STATE_RUNNING"}
    /\ starts \in 0..MaxStarts /\ retries \in 0..starts /\ timers \in Nat
    /\ serving \in [Thread -> Access \cup {NoAccess}]
    /\ {behaviour, accesses, reported} \subseteq [State -> [App -> Nat]]
    /\ \A s \in State :
        /\ consuming[s] # NoTable => BagToSet(consuming[s]) \subseteq DataLevel \X TimeLevel
        /\ BagToSet(measured[s]) \cup BagToSet(events[s]) \subseteq DataLevel \X TimeLevel
    /\ timer \in {"none", "asleep", "behaviour", "consuming"}
    /\ reporting \in State \X {"write", "clear"}
    \* A pending retry has a handler, the timer and the commands come with a publication.
    /\ retries > 0 => serviceHandler
    /\ state = "STATE_RUNNING" \/ commands => published
    /\ running <=> timer # "none"
    /\ running <=> commands

Init ==
    /\ started = FALSE /\ state = "STATE_NOT_START" /\ serviceHandler = FALSE /\ retries = 0
    /\ published = FALSE /\ commands = FALSE /\ running = FALSE /\ timers = 0 /\ starts = 0
    /\ serving = [t \in Thread |-> NoAccess]
    /\ behaviour = [s \in State |-> [a \in App |-> 0]]
    /\ consuming = [s \in State |-> NoTable]
    /\ accesses = behaviour /\ reported = behaviour
    /\ measured = [s \in State |-> EmptyBag] /\ events = measured
    /\ timer = "none" /\ reporting = <<"copy", "write">>
    /\ overrun = FALSE /\ alive = TRUE

-----------------------------------------------------------------------------
\* The life of the service.

\* Init: Publish succeeds or fails.
InitService(ok) ==
    /\ published' = (published \/ ok)
    /\ state' = IF ok THEN "STATE_RUNNING" ELSE state

\* Mutant: every start of the service starts a timer thread.
StartTimerAgain ==
    /\ running' = TRUE
    /\ timers' = timers + 1
    /\ timer' = IF timer = "none" THEN "asleep" ELSE timer

\* Mutant: running_ is not set.
StartTimerUnmarked ==
    /\ UNCHANGED running
    /\ timers' = IF running THEN timers ELSE timers + 1
    /\ timer' = IF timer = "none" THEN "asleep" ELSE timer

\* StartTimerThread starts one thread in the life of the process.
StartTimerThread ==
    /\ running' = TRUE
    /\ timers' = IF running THEN timers ELSE timers + 1
    /\ timer' = IF running THEN timer ELSE "asleep"

\* OnStart, called by the ability manager.  If Init fails it is posted to the handler, to
\* be called once more after INIT_INTERVAL, and OnStart returns.
OnStart(ok) ==
    /\ ~started /\ starts < MaxStarts
    /\ started' = TRUE /\ starts' = starts + 1
    /\ IF state = "STATE_RUNNING"
       THEN UNCHANGED <<state, serviceHandler, retries, published, commands, running, timers, timer>>
       ELSE /\ serviceHandler' = TRUE
            /\ InitService(ok)
            /\ IF ok
               THEN /\ commands' = TRUE
                    /\ StartTimerThread
                    /\ UNCHANGED retries
               ELSE /\ retries' = retries + 1
                    /\ UNCHANGED <<commands, running, timers, timer>>
    /\ UNCHANGED <<serving, counts, reporting, reported, events, overrun, alive>>

\* The posted task is Init alone: it registers no command and starts no timer.
RetryInit(ok) ==
    /\ retries > 0
    /\ retries' = retries - 1
    /\ InitService(ok)
    /\ UNCHANGED <<started, serviceHandler, commands, running, timers, starts, serving, counts, log>>

\* OnStop of a running service; with the handler go the tasks posted to it (external).
OnStop ==
    /\ started
    /\ started' = FALSE
    /\ IF state # "STATE_RUNNING"
       THEN UNCHANGED <<state, serviceHandler, retries>>
       ELSE /\ state' = "STATE_NOT_START"
            /\ serviceHandler' = FALSE
            /\ retries' = 0
    /\ UNCHANGED <<published, commands, running, timers, starts, serving, counts, log>>

-----------------------------------------------------------------------------
\* The levels of a size and of a time.

\* CalculateData: the remainder by 1024 decides, not the quotient.
CalculateData(calPasteboardData) ==
    LET dataSize == calPasteboardData % 1024
    IN  IF dataSize = 0
        THEN IF calPasteboardData < 100 THEN 0 ELSE IF calPasteboardData < 500 THEN 1 ELSE 2
        ELSE IF dataSize < 5 THEN 3
             ELSE IF dataSize < 10 THEN 4 ELSE IF dataSize < 50 THEN 5 ELSE 6

\* CalculateTime: the remainder by 500, if it is one of the levels.
CalculateTime(time) ==
    LET timeCosuming == time % 500 IN IF timeCosuming < 10 THEN timeCosuming ELSE 10

\* An empty copy- or pasteTimeConsumingStat_ is not one that was initialised and counts
\* nothing yet, or anything.
ASSUME NoTableAssumption ==
    \A cells \in SUBSET {<<CalculateData(size), CalculateTime(time)>> : size \in Size, time \in Time} :
        NoTable \notin [cells -> Nat \ {0}]

-----------------------------------------------------------------------------
\* SetPasteDataDot and GetPasteDataDot report an access, on a binder thread.

At(t, stage) == serving[t] # NoAccess /\ serving[t].stage = stage

Begun ==
    SumFunction(accesses["copy"]) + SumFunction(accesses["paste"])
        + Cardinality({t \in Thread : At(t, "behaviour")})

Begin(t, s, a) ==
    /\ published
    /\ serving[t] = NoAccess
    /\ Begun < MaxAccesses
    /\ serving' = [serving EXCEPT ![t] = [state |-> s, app |-> a, stage |-> "behaviour"]]
    /\ UNCHANGED <<life, counts, log>>

\* Mutant: ReportPasteboardBehaviour does not take behaviourMutex_.
CountUnlocked(t) ==
    /\ At(t, "behaviour")
    /\ LET s == serving[t].state
           a == serving[t].app
       IN  /\ behaviour' = [behaviour EXCEPT ![s][a] = @ + 1]
           /\ accesses' = [accesses EXCEPT ![s][a] = @ + 1]
    /\ serving' = [serving EXCEPT ![t].stage = "time"]
    /\ UNCHANGED <<life, consuming, measured, log>>

ReportPasteboardBehaviour(t) ==
    /\ At(t, "behaviour")
    /\ timer # "behaviour"
    /\ LET s == serving[t].state
           a == serving[t].app
       IN  /\ behaviour' = [behaviour EXCEPT ![s][a] = @ + 1]
           /\ accesses' = [accesses EXCEPT ![s][a] = @ + 1]
    /\ serving' = [serving EXCEPT ![t].stage = "time"]
    /\ UNCHANGED <<life, consuming, measured, log>>

\* Mutant: only the table of the access is initialised by the first report of a day.
InitializeCopiesOnly ==
    [s \in State |-> IF consuming[s] = NoTable /\ s = "copy" THEN EmptyBag ELSE consuming[s]]

\* InitializeTimeConsuming, for each table that is empty.
InitializeTimeConsuming ==
    [s \in State |-> IF consuming[s] = NoTable THEN EmptyBag ELSE consuming[s]]

\* The table an access is counted in: the two are exchanged.
TableOf(s) == IF s = "paste" THEN "copy" ELSE "paste"

\* CopyTimeConsumingCount and PasteTimeConsumingCount: a level that the table lacks, or
\* a table that is empty, counts nothing.
Counted(table, cell) ==
    IF table # NoTable /\ cell \in DataLevel \X TimeLevel THEN table (+) SetToBag({cell}) ELSE table

\* ~CalculateTimeConsuming and ReportTimeConsumingStatistic.
ReportTimeConsumingStatistic(t, size, time) ==
    /\ At(t, "time")
    /\ timer # "consuming"
    /\ LET s == serving[t].state
           cell == <<CalculateData(size), CalculateTime(time)>>
       IN  /\ consuming' = [InitializeTimeConsuming EXCEPT ![TableOf(s)] = Counted(@, cell)]
           /\ measured' = [measured EXCEPT ![s] = @ (+) SetToBag({cell})]
    /\ serving' = [serving EXCEPT ![t] = NoAccess]
    /\ UNCHANGED <<life, behaviour, accesses, log>>

\* GetPasteDataDot measures nothing if no account has copied data.
NothingToMeasure(t) ==
    /\ At(t, "time")
    /\ serving[t].state = "paste"
    /\ serving' = [serving EXCEPT ![t] = NoAccess]
    /\ UNCHANGED <<life, counts, log>>

-----------------------------------------------------------------------------
\* The timer thread.

\* Seconds the timer thread sleeps at a given time of day.
SleepTime(currentHour, currentMin) ==
    IF 60 - currentMin # 60
    THEN (60 - currentMin) * 60 + (23 - currentHour) * 3600
    ELSE 3600 * (24 - currentHour)

\* Mutant: the thread ends when it finds nothing to report.
WakeOnce ==
    /\ timer = "asleep"
    /\ timer' = IF \A s \in State, a \in App : behaviour[s][a] = 0 THEN "none" ELSE "behaviour"
    /\ UNCHANGED <<life, serving, counts, reporting, reported, events, overrun, alive>>

\* InvokePasteBoardBehaviour takes behaviourMutex_ ...
Wake ==
    /\ timer = "asleep"
    /\ timer' = "behaviour"
    /\ UNCHANGED <<life, serving, counts, reporting, reported, events, overrun, alive>>

Writes(s) == reporting = <<s, "write">>
Clears(s) == reporting = <<s, "clear">>

\* The report goes on to the pastes; after them the mutex is released, and
\* InvokeTimeConsuming takes the other or the thread sleeps again.
Proceed(s) ==
    /\ reporting' = <<IF s = "copy" THEN "paste" ELSE "copy", "write">>
    /\ timer' = IF s = "copy" THEN timer ELSE IF timer = "behaviour" THEN "consuming" ELSE "asleep"

Accessing(s) == {a \in App : behaviour[s][a] > 0}

\* The applications with the largest numbers, as many as there is room for.
Top(s) ==
    {top \in SUBSET Accessing(s) :
        /\ Cardinality(top) =
              IF Cardinality(Accessing(s)) < TopApps THEN Cardinality(Accessing(s)) ELSE TopApps
        /\ \A a \in top, b \in Accessing(s) \ top : behaviour[s][a] >= behaviour[s][b]}

\* ReportBehaviour writes an event, of the first TopApps of the applications it has
\* sorted ...
ReportBehaviour(s) ==
    /\ timer = "behaviour" /\ Writes(s)
    /\ IF Accessing(s) = {}
       THEN /\ Proceed(s)
            /\ UNCHANGED <<reported, overrun>>
       ELSE /\ \E top \in Top(s) :
                 reported' = [reported EXCEPT ![s] =
                     [a \in App |-> @[a] + IF a \in top THEN behaviour[s][a] ELSE 0]]
            /\ overrun' = (overrun \/ Cardinality(Accessing(s)) > TopApps)
            /\ reporting' = <<s, "clear">>
            /\ UNCHANGED timer
    /\ UNCHANGED <<life, serving, counts, events, alive>>

\* ... but it has stored all of them in a vector of TopApps names: with more than that
\* the process may end.
WriteBeyond(s) ==
    /\ timer = "behaviour" /\ Writes(s)
    /\ Cardinality(Accessing(s)) > TopApps
    /\ overrun' = TRUE
    /\ alive' = FALSE
    /\ UNCHANGED <<life, serving, counts, timer, reporting, reported, events>>

ClearBehaviour(s) ==
    /\ timer = "behaviour" /\ Clears(s)
    /\ behaviour' = [behaviour EXCEPT ![s] = [a \in App |-> 0]]
    /\ Proceed(s)
    /\ UNCHANGED <<life, serving, consuming, accesses, measured, reported, events, overrun, alive>>

\* ReportStatisticEvent, and the clear that follows it in InvokeTimeConsuming.
ReportStatisticEvent(s) ==
    /\ timer = "consuming" /\ Writes(s)
    /\ events' = [events EXCEPT ![s] = IF consuming[s] = NoTable THEN @ ELSE @ (+) consuming[s]]
    /\ reporting' = <<s, "clear">>
    /\ UNCHANGED <<life, serving, counts, timer, reported, overrun, alive>>

ClearConsuming(s) ==
    /\ timer = "consuming" /\ Clears(s)
    /\ consuming' = [consuming EXCEPT ![s] = NoTable]
    /\ Proceed(s)
    /\ UNCHANGED <<life, serving, behaviour, accesses, measured, reported, events, overrun, alive>>

-----------------------------------------------------------------------------
Live ==
    \/ OnStop
    \/ \E ok \in BOOLEAN : OnStart(ok) \/ RetryInit(ok)

Report(t) ==
    \/ \E s \in State, a \in App : Begin(t, s, a)
    \/ ReportPasteboardBehaviour(t)
    \/ \E size \in Size, time \in Time : ReportTimeConsumingStatistic(t, size, time)
    \/ NothingToMeasure(t)

TimerThread ==
    \/ Wake
    \/ \E s \in State :
        \/ ReportBehaviour(s) \/ WriteBeyond(s) \/ ClearBehaviour(s)
        \/ ReportStatisticEvent(s) \/ ClearConsuming(s)

Next == alive /\ (Live \/ TimerThread \/ \E t \in Thread : Report(t))

Spec == Init /\ [][Next]_vars

\* The timer thread runs: its sleep ends (SleepTime is at most a day) and the clock
\* can be read again and again.
FairSpec == Spec /\ WF_vars(alive /\ TimerThread)

-----------------------------------------------------------------------------
\* Properties.

\* However often the service is started, stopped and retried, it has at most one timer
\* thread: two would report and clear the same counts (running_ under runMutex_).
OneTimer == timers <= 1

\* The number an event of state s has, or still has to have, of application a; what has
\* been written and not yet been cleared is counted once.
Accounted(s, a) ==
    reported[s][a] + IF timer = "behaviour" /\ Clears(s) THEN 0 ELSE behaviour[s][a]

\* Every copy and paste is counted once and reported at most once, though the timer
\* thread clears the counts that binder threads increase, as long as no more than
\* TopApps applications use the clipboard in a day (behaviourMutex_).
BehaviourConserved ==
    ~overrun => \A s \in State, a \in App : accesses[s][a] = Accounted(s, a)

Pending(s) ==
    IF consuming[s] = NoTable \/ (timer = "consuming" /\ Clears(s)) THEN EmptyBag ELSE consuming[s]

\* Every measured access is counted in one of the tables and reported at most once,
\* also the first one after a report, which has left both tables empty
\* (timeConsumingMutex_; ReportTimeConsumingStatistic initialises before it counts).
ConsumingConserved ==
    measured["copy"] (+) measured["paste"] =
        events["copy"] (+) events["paste"] (+) Pending("copy") (+) Pending("paste")

\* Once the timer thread runs, every copy and paste is reported in a behaviour event: the
\* n-th of an application's is followed by events that name n of them, unless some day's
\* report had more applications than room (ReportBehaviour, then the clear).
EveryAccessReported ==
    \A s \in State, a \in App, n \in 1..MaxAccesses :
        running /\ accesses[s][a] >= n ~> reported[s][a] >= n \/ overrun

\* pasteboardEvent.yaml: PASTEBOARD_STATE of a time event is "Pasteboard state": what an
\* event reports as copies has been measured of copies.
EventsNameState == \A s \in State : events[s] \sqsubseteq measured[s]

=============================================================================

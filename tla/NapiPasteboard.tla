---------------------------- MODULE NapiPasteboard ----------------------------
(***************************************************************************)
(* SystemPasteboardNapi (interfaces/kits/napi/src/napi_pasteboard.cpp):    *)
(* the JavaScript API of an application.  Its methods return at once; the  *)
(* work is done on the threads of the libuv pool, and its completion and   *)
(* the observers' callbacks run on the JavaScript thread, one at a time.   *)
(*                                                                         *)
(* The service is here only what PasteboardService.tla shows of it: calls  *)
(* that take effect one at a time, and a change that is announced to every *)
(* observer before the next call is served.  The JavaScript engine and     *)
(* libuv are external.                                                     *)
(***************************************************************************)
EXTENDS Naturals, Sequences, FiniteSets

CONSTANTS
    Methods,     \* the methods the application calls: setPasteData, clear, ...
    Function,    \* the functions it passes to on and off
    PoolSize,    \* threads of the libuv pool
    MaxCalls,    \* bound of the model: calls of the asynchronous methods
    MaxRefs,     \* bound of the model: calls of on and off
    MaxOther     \* bound of the model: changes by other applications

ASSUME MethodsAssumption == Methods \subseteq {"set", "clear", "has", "get"}
ASSUME BoundsAssumption ==
    MaxCalls \in Nat /\ MaxRefs \in Nat /\ MaxOther \in Nat /\ PoolSize \in Nat \ {0}

Calls == 1..MaxCalls
Refs == 1..MaxRefs
Nobody == 0               \* no call holds the service's mutexes
Other == MaxCalls + 1     \* a call of another application does

VARIABLES
    \* The service.
    filled,      \* the clipboard of the application's user has content
    holder,      \* the call whose change is being announced, or Nobody
    todo,        \* the observers still to be told of it
    registered,  \* the observers, each by its napi_ref
    writes,      \* the calls that changed the clipboard, in order
    \* The application.
    work,        \* the AsyncContext of each call it made, in order
    js,          \* what the JavaScript thread is doing, "idle" when in the event loop
    subject,     \* the call or reference it does that for
    function,    \* function[r]: the function behind napi_ref r, one for each ref created
    observers,   \* observers_: the references with an observer instance
    isOff,       \* the instances with isOff_ set
    queue,       \* queue[r]: the callbacks of r queued to the event loop (PasteboardDataWorker),
                 \* each the isOff_ of the time
    told,        \* told[r]: how many writes there were when r was last called back
    off          \* the functions the application passed to off, and not to on since

service == <<filled, holder, todo, registered, writes>>
observation == <<function, observers, isOff, queue, told, off>>
vars == <<service, work, js, subject, observation>>

\* One call: its method, how far its work is, the calls that were settled when it was
\* issued and, once it has read the clipboard, after how many writes.  How the result is
\* handed over, by a promise or a callback, makes no difference here.
AsyncContext ==
    [method : Methods,
     stage : {"queued", "running", "announcing", "done", "settled"},
     after : SUBSET Calls,
     seen : Nat]

TypeOK ==
    /\ filled \in BOOLEAN
    /\ holder \in Calls \cup {Nobody, Other}
    /\ todo \subseteq registered
    /\ registered \subseteq Refs
    /\ writes \in Seq(Calls \cup {Other})
    /\ work \in Seq(AsyncContext) /\ Len(work) <= MaxCalls
    /\ js \in {"idle", "add", "insert", "get"}
    /\ subject \in Calls \cup Refs \cup {0}
    /\ function \in Seq(Function) /\ Len(function) <= MaxRefs
    /\ observers \subseteq 1..Len(function)
    /\ isOff \subseteq observers
    /\ queue \in [Refs -> Seq(BOOLEAN)]
    /\ told \in [Refs -> Nat]
    /\ off \subseteq Function
    \* A change is announced on the thread of the call that made it, until every observer
    \* is told, and at most PoolSize threads work.
    /\ holder = Nobody => todo = {}
    /\ \A w \in DOMAIN work : work[w].stage = "announcing" <=> holder = w
    /\ Cardinality({w \in DOMAIN work : work[w].stage \in {"running", "announcing"}}) <= PoolSize

Init ==
    /\ filled = FALSE /\ holder = Nobody /\ todo = {} /\ registered = {} /\ writes = <<>>
    /\ work = <<>>
    /\ js = "idle" /\ subject = 0
    /\ function = <<>> /\ observers = {} /\ isOff = {} /\ off = {}
    /\ queue = [r \in Refs |-> <<>>]
    /\ told = [r \in Refs |-> 0]

-----------------------------------------------------------------------------
\* What the application does on the JavaScript thread.

\* setPasteData, clear, hasPasteData or getPasteData: the work is queued and the method
\* returns.
Issue(m) ==
    /\ js = "idle"
    /\ Len(work) < MaxCalls
    /\ work' = Append(work,
          [method |-> m, stage |-> "queued", seen |-> 0,
           after |-> {v \in DOMAIN work : work[v].stage = "settled"}])
    /\ UNCHANGED <<service, js, subject, observation>>

\* On: napi_create_reference makes a new reference, whatever function it is for.  The
\* observer is then added, a call of the service the JavaScript thread waits for ...
On(f) ==
    /\ js = "idle"
    /\ Len(function) < MaxRefs
    /\ function' = Append(function, f)
    /\ off' = off \ {f}
    /\ js' = "add"
    /\ subject' = Len(function) + 1
    /\ UNCHANGED <<service, work, observers, isOff, queue, told>>

AddObserver ==
    /\ js = "add"
    /\ holder = Nobody
    /\ registered' = registered \cup {subject}
    /\ told' = [told EXCEPT ![subject] = Len(writes)]
    /\ js' = "insert"
    /\ UNCHANGED <<filled, holder, todo, writes, work, subject,
                   function, observers, isOff, queue, off>>

\* ... and only then inserted in observers_.
InsertObserver ==
    /\ js = "insert"
    /\ observers' = observers \cup {subject}
    /\ js' = "idle"
    /\ subject' = 0
    /\ UNCHANGED <<service, work, function, isOff, queue, told, off>>

\* GetPasteboardObserverIns: observers_.find(ref).
GetPasteboardObserverIns(ref) == {r \in observers : r = ref}

\* Off looks for the observer by a reference it has just created for the function.  If
\* there is one it is marked and the service asked to remove it.
Off(f) ==
    /\ js = "idle"
    /\ Len(function) < MaxRefs
    /\ function' = Append(function, f)
    /\ off' = off \cup {f}
    /\ LET found == GetPasteboardObserverIns(Len(function) + 1)
       IN  /\ found # {} => holder = Nobody
           /\ isOff' = isOff \cup found
           /\ registered' = registered \ found
    /\ UNCHANGED <<filled, holder, todo, writes, work, js, subject, observers, queue, told>>

-----------------------------------------------------------------------------
\* The libuv pool (external) and the service.

Busy == {w \in DOMAIN work : work[w].stage \in {"running", "announcing"}}

\* A pool thread takes the oldest work queued.
StartWork(w) ==
    /\ work[w].stage = "queued"
    /\ \A v \in 1..(w - 1) : work[v].stage # "queued"
    /\ Cardinality(Busy) < PoolSize
    /\ work' = [work EXCEPT ![w].stage = "running"]
    /\ UNCHANGED <<service, js, subject, observation>>

\* The work of call w is done on its pool thread, and the service is free.
Executes(w, m) ==
    /\ work[w].stage = "running"
    /\ work[w].method = m
    /\ m # "get" => holder = Nobody

\* Mutant: the observers told are those already inserted in observers_.
WriteToInserted(v, content) ==
    /\ filled' = content
    /\ writes' = Append(writes, v)
    /\ holder' = v
    /\ todo' = registered \cap observers

\* Call v fills or empties the clipboard, and the observers are to be told.
Write(v, content) ==
    /\ filled' = content
    /\ writes' = Append(writes, v)
    /\ holder' = v
    /\ todo' = registered

SetPasteData(w) ==
    /\ Executes(w, "set")
    /\ Write(w, TRUE)
    /\ work' = [work EXCEPT ![w].stage = "announcing"]
    /\ UNCHANGED <<registered, js, subject, observation>>

Clear(w) ==
    /\ Executes(w, "clear")
    /\ IF filled
       THEN /\ Write(w, FALSE)
            /\ work' = [work EXCEPT ![w].stage = "announcing"]
       ELSE /\ work' = [work EXCEPT ![w].stage = "done"]
            /\ UNCHANGED <<filled, holder, todo, writes>>
    /\ UNCHANGED <<registered, js, subject, observation>>

HasPasteData(w) ==
    /\ Executes(w, "has")
    /\ work' = [work EXCEPT ![w].stage = "done", ![w].seen = Len(writes)]
    /\ UNCHANGED <<service, js, subject, observation>>

\* The work of getPasteData is empty: its completion does the call.
GetPasteData(w) ==
    /\ Executes(w, "get")
    /\ work' = [work EXCEPT ![w].stage = "done"]
    /\ UNCHANGED <<service, js, subject, observation>>

\* An application of the same user copies, or clears a clipboard that is not empty.
OtherWrites(content) ==
    /\ holder = Nobody
    /\ Cardinality({i \in DOMAIN writes : writes[i] = Other}) < MaxOther
    /\ content \/ filled
    /\ Write(Other, content)
    /\ UNCHANGED <<registered, work, js, subject, observation>>

\* Mutant: the callback runs in OnPasteboardChanged, which waits for the JavaScript thread.
CallBackAtOnce(r) ==
    /\ r \in todo
    /\ js = "idle"
    /\ todo' = todo \ {r}
    /\ told' = [told EXCEPT ![r] = Len(writes)]
    /\ UNCHANGED <<filled, holder, registered, writes, work, js, subject,
                   function, observers, isOff, queue, off>>

\* Mutant: a change is not queued while the application registers an observer.
DropWhileBusy(r) ==
    /\ r \in todo
    /\ todo' = todo \ {r}
    /\ queue' = IF js = "idle" THEN [queue EXCEPT ![r] = Append(@, r \in isOff)] ELSE queue
    /\ UNCHANGED <<filled, holder, registered, writes, work, js, subject,
                   function, observers, isOff, told, off>>

\* OnPasteboardChanged of the observer with reference r, on a binder thread of the
\* application: the callback is queued to the event loop.
OnPasteboardChanged(r) ==
    /\ r \in todo
    /\ todo' = todo \ {r}
    /\ queue' = [queue EXCEPT ![r] = Append(@, r \in isOff)]
    /\ UNCHANGED <<filled, holder, registered, writes, work, js, subject,
                   function, observers, isOff, told, off>>

\* Mutant: the service answers before it has told all observers.
AnnouncedToSome ==
    /\ holder # Nobody
    /\ holder' = Nobody
    /\ work' = IF holder = Other THEN work ELSE [work EXCEPT ![holder].stage = "done"]
    /\ UNCHANGED <<filled, todo, registered, writes, js, subject, observation>>

\* All are told: the service answers the call that changed the clipboard.
Announced ==
    /\ holder # Nobody
    /\ todo = {}
    /\ holder' = Nobody
    /\ work' = IF holder = Other THEN work ELSE [work EXCEPT ![holder].stage = "done"]
    /\ UNCHANGED <<filled, todo, registered, writes, js, subject, observation>>

-----------------------------------------------------------------------------
\* Completions and callbacks, on the JavaScript thread.

\* Mutant: setPasteData settles while its work is still running.
CompleteEarly(w) ==
    /\ js = "idle"
    /\ work[w].stage \in (IF work[w].method = "set" THEN {"running", "done"} ELSE {"done"})
    /\ work[w].method # "get"
    /\ work' = [work EXCEPT ![w].stage = "settled"]
    /\ UNCHANGED <<service, js, subject, observation>>

\* The completion of setPasteData, clear or hasPasteData: the promise is settled, or the
\* callback called.
Complete(w) ==
    /\ js = "idle"
    /\ work[w].stage = "done"
    /\ work[w].method # "get"
    /\ work' = [work EXCEPT ![w].stage = "settled"]
    /\ UNCHANGED <<service, js, subject, observation>>

\* The completion of getPasteData calls the service and waits for it.
CompleteGet(w) ==
    /\ js = "idle"
    /\ work[w].stage = "done"
    /\ work[w].method = "get"
    /\ js' = "get"
    /\ subject' = w
    /\ UNCHANGED <<service, work, observation>>

ReadClip ==
    /\ js = "get"
    /\ holder = Nobody
    /\ work' = [work EXCEPT ![subject].stage = "settled", ![subject].seen = Len(writes)]
    /\ js' = "idle"
    /\ subject' = 0
    /\ UNCHANGED <<service, observation>>

\* Mutant: one callback stands for all that are queued.
CallBackForAll(r) ==
    /\ js = "idle"
    /\ queue[r] # <<>>
    /\ queue' = [queue EXCEPT ![r] = <<>>]
    /\ told' = [told EXCEPT ![r] = Len(writes)]
    /\ observers' = IF Head(queue[r]) THEN observers \ {r} ELSE observers
    /\ isOff' = isOff \cap observers'
    /\ UNCHANGED <<service, work, js, subject, function, off>>

\* A queued callback: the instance is deleted if it was off when it was queued, and the
\* function behind its reference is called.
UvQueueWorkOnPasteboardChanged(r) ==
    /\ js = "idle"
    /\ queue[r] # <<>>
    /\ queue' = [queue EXCEPT ![r] = Tail(@)]
    /\ told' = [told EXCEPT ![r] = Len(writes)]
    /\ observers' = IF Head(queue[r]) THEN observers \ {r} ELSE observers
    /\ isOff' = isOff \cap observers'
    /\ UNCHANGED <<service, work, js, subject, function, off>>

-----------------------------------------------------------------------------
\* What the application chooses to do ...
Use ==
    \/ \E m \in Methods : Issue(m)
    \/ \E f \in Function : On(f) \/ Off(f)

\* ... and what follows.
Execute(w) == SetPasteData(w) \/ Clear(w) \/ HasPasteData(w) \/ GetPasteData(w)
Continue == AddObserver \/ InsertObserver \/ ReadClip

Next ==
    \/ Use
    \/ \E content \in BOOLEAN : OtherWrites(content)
    \/ \E w \in DOMAIN work : StartWork(w) \/ Execute(w) \/ Complete(w) \/ CompleteGet(w)
    \/ \E r \in Refs : OnPasteboardChanged(r) \/ UvQueueWorkOnPasteboardChanged(r)
    \/ Announced
    \/ Continue

Spec == Init /\ [][Next]_vars

\* The threads run; the pool and the event loop are queues, so nothing in them waits
\* for ever; and a call that waits for the service's mutexes gets its turn.
FairSpec ==
    /\ Spec
    /\ WF_vars(Announced)
    /\ SF_vars(Continue)
    /\ \A r \in Refs :
         /\ WF_vars(OnPasteboardChanged(r))
         /\ SF_vars(UvQueueWorkOnPasteboardChanged(r))
    /\ \A w \in Calls :
         /\ WF_vars(w \in DOMAIN work /\ StartWork(w))
         /\ SF_vars(w \in DOMAIN work /\ Execute(w))
         /\ SF_vars(w \in DOMAIN work /\ (Complete(w) \/ CompleteGet(w)))

-----------------------------------------------------------------------------
\* Properties.

\* The calls that have read the clipboard.
HasRead(w) ==
    \/ work[w].method = "get" /\ work[w].stage = "settled"
    \/ work[w].method = "has" /\ work[w].stage \in {"done", "settled"}

\* hasPasteData and getPasteData find what setPasteData wrote, or something newer, if
\* they were called after its promise settled, although each runs on a thread of its own
\* (the work of setPasteData is the synchronous call of the client).
ReadsSeeAwaitedWrites ==
    \A w \in DOMAIN work :
        HasRead(w) => \A v \in work[w].after :
            work[v].method = "set" => \E i \in 1..work[w].seen : writes[i] = v

\* Every asynchronous call settles, also while the JavaScript thread itself waits for
\* the service in on or in a completion, and the service for the application's
\* observers: a callback never makes the service wait for that thread.
EveryCallSettles ==
    \A w \in Calls :
        w \in DOMAIN work ~> w \in DOMAIN work /\ work[w].stage = "settled"

\* A function passed to on is called back after every change made while it is
\* registered, however many changes come in between.
EveryChangeCalledBack ==
    \A r \in Refs :
        r \in registered /\ told[r] < Len(writes) ~> told[r] = Len(writes)

\* No change is lost on the way: an observer that was not called back since the last
\* write has yet to be told of it, or a callback of it is in the event loop's queue.
ChangesAreOnTheirWay ==
    \A r \in registered : told[r] < Len(writes) => r \in todo \/ queue[r] # <<>>

\* README.md, "Off the content changes": a function that was passed to off is not
\* registered any more once off has returned.
OffUnregisters == js = "idle" => \A r \in registered : function[r] \notin off

-----------------------------------------------------------------------------
\* Refinement: threads and queues apart, a call takes effect in one step.

\* The work of getPasteData has no effect; its completion has.
Stage(c) ==
    IF c.stage = "announcing" \/ (c.stage = "done" /\ c.method # "get") THEN "done"
    ELSE IF c.stage = "settled" THEN "settled"
    ELSE "called"

EffectiveCalls ==
    [w \in DOMAIN work |->
        [method |-> work[w].method, stage |-> Stage(work[w]), seen |-> work[w].seen]]

\* A callback is due when OnPasteboardChanged is, or when it is queued.
Due == [r \in Refs |-> IF r \in todo THEN Len(queue[r]) + 1 ELSE Len(queue[r])]

AP == INSTANCE AsyncPasteboard
        WITH Observer <- Refs, changes <- writes, calls <- EffectiveCalls, due <- Due, informed <- told

\* The asynchronous methods are linearizable between their call and their completion, and
\* each observer is called back once, not twice, for a change made while it is registered
\* and only then.
AsyncCallsAreAtomic == AP!Spec

=============================================================================

# Verification of the OpenHarmony pasteboard service

TLA+ modules, TLC configurations and TLAPS proofs for `miscservices_pasteboard`:
the system service that keeps the clipboard, the client library applications
link, the paste data they exchange and the JavaScript API on top. Every
definition is a translation of the code it is listed with in `PROJECT.json`
(`map`); this file says what the parts are, how the models correspond to them,
and what the checks and proofs show.

Run a check with `tlc -config Locks.cfg MCPasteboardService.tla`, a proof with
`tlapm PasteboardServiceProofs.tla`.

## 1. The system and its parts

```
 JavaScript application                       native application
   napi_pasteboard.cpp ---- libuv pool            |
          |   ^  callbacks (event loop)           |
          v   |                                   v
   PasteboardClient (one per process) -- PasteData / PasteDataRecord
          |   ^ OnPasteboardChanged (synchronous IPC, binder threads)
   proxy  v   |  observer stub
  ========|===|======================== process border =================
   stub   v   |  observer proxy
   PasteboardService: clips_, observerMap_, clipMutex_, observerMutex_
          |                         |
   access history, hidumper    statistics (HiViewAdapter, timer thread)
```

| Component | State | Operations | What is hard |
|---|---|---|---|
| **PasteboardService** `services/core/src/pasteboard_service.cpp` | `clips_` (one clipboard per OS account), `observerMap_`, two mutexes | `SetPasteData`, `GetPasteData`, `HasPasteData`, `Clear`, `Add`/`Remove`/`RemoveAll` observers, `NotifyObservers`, `OnStart`, `OnStop` | handlers run on all threads of the binder pool; a change is announced by synchronous calls into other processes, under both mutexes |
| **Access history and dump** (same file) | `dataHistory_`, `uIdForLastCopy_`, `timeForLastCopy_` | `SetPasteDataDot`, `GetPasteDataDot`, `SetPasteboardHistory`, `DumpHistory`, `DunmpData` | no lock protects any of it; owner and data are recorded at different times and for different scopes |
| **PasteboardClient** `framework/innerkits/src/pasteboard_client.cpp` | static `pasteboardServiceProxy_`, `instanceLock_`, death recipient | the seven methods, `ConnectService`, `OnRemoteSaDied` | double-checked connection by several threads; the service dies and is started again at any moment |
| **PasteData, PasteDataRecord** `framework/innerkits/src` | `records_`, `props_.mimeTypes` | add, remove, replace, get, marshal, unmarshal | a list that is rebuilt at each crossing by an operation that reverses and truncates it; null records |
| **IPC proxies and stubs** `services/zidl/src` | none | one request per method | synchronous; failures end in the IPC framework |
| **SystemPasteboard (JavaScript)** `interfaces/kits/napi/src/napi_pasteboard.cpp` | `observers_`, one `AsyncContext` per call, the libuv queues | `on`, `off`, `setPasteData`, `getPasteData`, `hasPasteData`, `clear` | the JavaScript thread, a pool of threads, binder threads and the service all wait for one another |
| **PasteData, PasteDataRecord (JavaScript)** `napi_pastedata.cpp`, `napi_pastedata_record.cpp` | C++ objects wrapped in JavaScript ones | the methods of both objects, constructor, destructor | works on pool threads use the objects through raw pointers while the script edits them and the collector frees them |
| **Statistics** `services/dfx/src` | counters under two mutexes | count, report and clear by a timer thread | bucket arithmetic, more applications than report slots |
| **Dump commands** `command.cpp`, `pasteboard_dump_helper.cpp` | the command map | register, run | registered only when the first `Init` succeeds |
| **PasteboardStorage, permission helper, tracing** | | | not built or not called, or output only |

Interaction: the JavaScript API calls the client, on pool threads and (for `on`
and the completion of `getPasteData`) on the JavaScript thread itself; the
client calls the service through a proxy and blocks until it answers; the
service calls observers through their proxies and blocks until they return; the
death of the service reaches the client through a death recipient on one of its
binder threads. `PasteData` crosses the process border by value, twice per
copy-and-paste.

What makes each part correct, in a sentence: the service's calls are atomic
(linearizable) and no registered observer misses a change, also when other
observers' processes are gone; a connection is made once and its loss noticed;
what is pasted is what was copied; an object is never read in a state that ends
the process, unless the script did one of a few things; an asynchronous call
settles, after its work, and a callback that was turned off stays silent.

## 2. The modules

| Module | Models | Kind |
|---|---|---|
| `PasteboardInterface` | the methods, calls and answers of `IPasteboardService`; `GetUserId` | constants and operators |
| `Pasteboard` | what the service promises: one atomic clipboard and observer set per user | abstract specification |
| `PasteboardService` | the service, handler by handler, from one lock to the next | detailed specification |
| `MCPasteboardService` | small instances of it | TLC |
| `PasteboardServiceProofs` | its invariants, proved | TLAPS |
| `PasteboardRefinement` | that it implements `Pasteboard`, proved | TLAPS |
| `AccessHistory` | access history and `DunmpData`; extends `PasteboardService` | composition |
| `MCAccessHistory` | small instances of it | TLC |
| `AccessHistoryProofs` | that a dump shows data with its owner, and when the history keeps its bound, proved on top of the service's proofs | TLAPS |
| `PasteData` | the operations on a list of records and what a parcel makes of it | operators |
| `NapiPasteData` | the JavaScript objects that hold such lists, the works that use them, the collector | specification |
| `MCNapiPasteData` | a small instance of it | TLC |
| `FoldTheorems` | what a fold over a sequence computes, and induction, for any operator | TLAPS |
| `NapiPasteDataProofs` | what the operations do with every list and every parcel; its invariants, proved | TLAPS |
| `PasteboardClient` | connection and calls of the client, life and death of the service | specification |
| `PasteboardClientProofs` | its invariants, proved | TLAPS |
| `AsyncPasteboard` | what the JavaScript API promises: asynchronous calls that take effect at once, callbacks that are due | abstract specification |
| `NapiPasteboard` | the JavaScript API, its threads and queues | detailed specification |
| `NapiPasteboardProofs` | its invariants, and that it implements `AsyncPasteboard`, proved | TLAPS |
| `HiViewAdapter` | start and stop of the service, its statistics and their timer thread | specification |
| `HiViewAdapterProofs` | its invariants and the ranges of its functions, proved | TLAPS |

### PasteboardService

`clips[u]` and `observerMap[u]` are the two maps, with `NoData` and `{}` where
the code has no entry (the code tells an absent set from an empty one nowhere).
`pc[t]` is where in its handler thread `t` is: a handler is cut at each
acquisition of a mutex, at each callback, and between the erase and the insert
of `SetPasteData`. The scope of each `lock_guard` is a set of control points
(`ClipSection`, `ObserverSection`). Everything between two cuts touches only
data of the mutex that is held, so finer steps would add no behaviour; the
access record and the unprotected reads of `clips_` are not in this module.

`Notify` is one `OnPasteboardChanged`: in the code's order of users and object
addresses, which nothing determines, so any order. An observer in the constant
`Reentrant` calls the service in its callback (`Reenter`); the nested call is
served by a thread `nested[t]`, and the callback returns when it is answered.
The binder driver may hand such a call to the thread that is waiting: `n` in
`inner` then stands for that thread's inner frame. It meets the same mutexes,
which are not recursive, and is stuck in the same way.

The application of an observer in the constant `Mortal` may end at any moment
(`ApplicationEnds`). Nothing links a death recipient to an observer, so
`observerMap_` keeps it and every later `NotifyObservers` calls it, which fails at
once (`CallBack`). A callback in progress fails too, and its thread goes on
(`CallbackFails`), though the call the application made from it is still being
served; but a thread that serves that call in an inner frame cannot go on before
the frame has returned. `HeldUp(n)` says that neither has happened to thread `n`:
it is the exception the liveness properties need.

`stale` is a history variable: the registered observers that have not been
called back since a clipboard last changed. `NotifyObservers` calls the
observers of *all* users, not only of the one whose clipboard changed; the model
does the same.

### AccessHistory

Each access of `dataHistory_`, `uIdForLastCopy_` and `timeForLastCopy_` is a
step of its own, because no lock protects it: the test of the history's size, the
erase and the push are three (`TestHistory`, `EraseOldest`, `PushHistory`). A thread
that is to erase from an empty vector, after as many others have, goes no further,
since that is undefined. Not modelled: that a `vector` or
`string` which is changed on two threads may become unreadable (the data race
proper), or that `rbegin` of a map that has just been emptied crashes; where the
dump reads past the end the model lets it show any data, and no property speaks
of it. `dumps` shows what the order of the steps does guarantee, `historyRace`
what it does not.

### PasteData and NapiPasteData

A record is a MIME type and an opaque payload, or null. `PasteData` has an
operator for each operation on a list: `Added` is `AddRecord`, `Removed` and
`Replaced` are what the two edits do to the vector, `ReadsNull` says whether a
getter that looks for some MIME type meets a null record before it finds one, and
`ReadFromParcel` folds `AddRecord` over the records of a parcel.

`NapiPasteData` holds such lists in the objects of a script. An `Object` is an
address: `live` are those in use, `held` those the script can reach. `Drop` and
`Collect` (external) are the script and the garbage collector; `Collect` is also
`PasteDataNapi::Destructor`, after which an address may be used again. A
`setPasteData` is a record of `works`: it keeps the address, not the object, and
is executed in steps on a pool thread (`WriteLength`, `WriteRecord`, `Serve`),
with the script's steps between them. `fate` says what has happened to the list
since the call: nothing, an edit before it was read, or an edit while it was read
or the collector (`"torn"`). A torn list may be read as it now is or end the
process (`ReadTorn`): the code's behaviour there is undefined, and these are the
outcomes kept. `convertToText` has the same pointer to its record object
(`conversion`). `exposed` is a history variable: whether the script has done one
of the things after which its process may end. A getter that meets no null record
changes nothing, so `GetPrimary` and the others are the steps in which one does.
The string arguments of the add methods are read into a buffer of 255 bytes
(`InBuffer`), those of the create functions are not. Copies the service keeps,
and the object a paste makes, come from `ReadFromParcel`. A record of type
`text/want` always has a payload here; the code also makes one from a null Want,
whose parcel cannot be written.

### PasteboardClient

The service is a number: instance 1, 2, ... of its process. Threads call, find
or lack a proxy, connect under `instanceLock_`, and use the proxy without it,
as the code does. `sawDown[t]` is a history variable for the property about
refused calls. The seven methods of the client have the same control and are one
action sequence. An `invoke` on a dead instance fails with a send error. The system
ability manager itself is always there: a thread that cannot reach it
(`pasteboard_client.cpp:216`) quits `ConnectService`, and its call would be refused
with the service up, which `RefusedOnlyWhenDown` leaves out.

### NapiPasteboard

`work[w]` is the `AsyncContext` of call `w`. The pool takes work in order and
runs `PoolSize` at a time. A `clear` or `setPasteData` keeps its thread until
the service has told every observer (`holder`, `todo`), which is what
`PasteboardService` is proved to do. `js` is what the JavaScript thread waits
for, if it is not in the event loop. Of the clipboard's content only whether
there is any is kept (`filled`), and of its history which call wrote when
(`writes`). N-API and libuv are external: `napi_create_reference` makes a new
reference each time, and queued work runs. A queued callback carries the `isOff_` of
the time it was queued at, as the code's does.

The calls are those that reach the service. In the code a promise settles with status
0 also if the client finds no service or the service turns its account away
(`napi_pasteboard.cpp:752` does not look at the result), so that what
`ReadsSeeAwaitedWrites` and `AsyncPasteboard` say of a settled call holds only for a
call that was served. `Off` is in the run with no observer to find, since one
reference is made in it at most; in `OffCallback.cfg` two are.

`AsyncPasteboard` has none of the threads, queues and waits: a call is *called*, then
takes effect in one step (*done*), then settles; a change of the clipboard, whoever
makes it, is owed to every observer there is (`due`), and a callback pays one of
these. The mapping reads a call's stage off its work (`Stage`: that of `getPasteData`
has no effect before its completion) and counts as due what is still to be announced
or already queued (`Due`).

### HiViewAdapter

`OnStart`, the retry of `Init` and `OnStop` set whether the service runs, can be
called and has a timer thread; that the tasks posted to a handler go with it is
external. An access counts under one mutex and touches nothing else, hence is one
step, taken while the timer thread does not hold that mutex (`timer`). The timer
thread's report holds the mutex over several steps, an event and a clear for each
table (`reporting`). `TableOf` exchanges copies and pastes and `CalculateData`
and `CalculateTime` take remainders because the code does. Where more than ten
applications were counted the code stores names beyond its vector: the process
ends or goes on, and `overrun` remembers it. The clock is left out but for
`SleepTime`; a negative time difference (a clock set back) is, too.
`accesses`, `measured`, `reported` and `events` are history variables that
remember what was counted and what was written to the event log; a clear changes none
of them, so that a count which is cleared unreported is told from one that is reported.

## 3. What the runs check

| Run | Instance | Distinct states | Properties |
|---|---|---|---|
| `locks` | 2 threads, 3 applications in 2 accounts and none, 2 observers, 2 pieces of data, all 7 methods | 572 000 (up to symmetry) | mutexes match control; no missed change; no callback after removal; observers fixed while iterated; users isolated; `HandlersAreAtomic` (refinement of `Pasteboard`) |
| `reentry` | 2 threads, 1 account, 2 observers, one of them reentrant and mortal, the four methods that write | 21 700 | calls answered and changes announced, though applications end, unless a running application's callback calls back; such a callback freezes the service for as long as it lasts |
| `dumps` | 2 threads, 2 accounts | 1 270 000 (up to symmetry) | data shown with owner and time |
| `objects` | 2 objects, a text too long for a record and a want, 2 records (3 with nulls), 5 counted calls, 2 works | 637 000 (up to symmetry) | pasted is copied; nulls stay local; only an exposed process ends |
| `connect` | 2 threads, 3 instances | 4 300 | one connection, watched, no call hangs or is refused without cause |
| `async` | 2 calls of any method, 2 pool threads, 1 reference, 2 foreign changes | 65 000 | reads see awaited writes; no change is lost on its way; calls settle; changes are called back; `AsyncCallsAreAtomic` (refinement of `AsyncPasteboard`) |
| `statistics` | 2 threads, 2 applications, room for 1, 2 sizes, 2 times, 2 starts, 2 accesses | 180 000 | one timer thread; each access is counted once and reported at most once; the *n*-th access of an application is followed by events that name *n*, unless a report had more applications than room |
| `historyRace`, `eventStates`, `removeRecord`, `reconnect`, `offCallback` | | | each one a statement of a document, a comment or a label that the code violates (section 5) |

The liveness properties of `reentry` are stated with the exception they need, a
callback that calls back; in the behaviours where none does (an application may
register `o2` only) they hold without it.

### Bounds

The bounds are constants of the modules, set in the `.cfg` files.

- *Two threads.* The mutexes admit one thread at a time; a third can only wait
  where the second waits. What holds for every number of threads is proved.
- *Two users, and an application of none*: enough for one to be confused with
  another, and for every early return.
- *Two observers* for the loop to have a middle, and one that is well after one
  whose application has ended; two pieces of data where an old
  and a new one must be told apart, one where data is only there or not.
- `HistorySize` 1 (2 in the violation runs) stands for 10; no access begins with
  a history longer than `HistoryCap`, which is as long, so that the bound can be
  reached and broken.
- `MaxRecordNum` 2 stands for 128 and `RecordCap` 3 ends the growth by
  `RemoveRecordAt`: lists longer than the limit, with nulls anywhere, occur, and
  cross. `MaxCalls` 5 counts the calls that make or change an object or queue a
  work; it is enough to fill a list, lengthen it past the limit, set it, edit it
  while it is written and paste it into an address that was used before. The
  other steps (drop, collect, clear, get, the works' own) are not counted.
  `MaxWorks` 2 lets two works of one object, or of two, run at a time.
- `MaxInstance` 3: the service dies before, during and after a connection and
  returns; the fourth instance repeats the third.
- `MaxCalls` 2, `PoolSize` 2: two calls are enough to overtake and to wait for
  one another; `MaxRefs` and `MaxOther` add an observer and a foreign change.
- `TopApps` 1 of two applications stands for ten of eleven; two sizes and two
  times take different branches of the bucket functions; `MaxStarts` 2 has a
  failed start, its retry and a restart in any order; `MaxAccesses` 2 puts one
  access before and one into a report, or both on one application. How counts are
  conserved is proved for any number of them.

`SYMMETRY` permutes threads, data, observers and objects, in runs without liveness
properties only; no constant tells one of them from another there.
`CHECK_DEADLOCK FALSE` is said in `reentry`, where the service really can stop,
in the `NapiPasteboard` and `NapiPasteData` runs, whose applications make finitely
many calls, and in
the `HiViewAdapter` runs, where accesses are finite and the process may end.

### Fairness

- *Weak fairness of each thread's own steps*: the operating system schedules
  runnable threads. It does not cover the arrival of calls.
- *Strong fairness of taking a mutex*: a waiter gets a mutex that is free again
  and again. `std::mutex` promises no order, but its futex wakes waiters, and no
  handler takes a mutex twice in a row without returning to the pool.
- *Weak fairness of a reentrant callback's call*, which binder delivers. None of
  the end of an application: it may live for ever.
- *Weak fairness of the notice of a death*, which the binder driver queues.
- *NapiPasteboard*: libuv's queues are first in, first out, so nothing in them
  waits for ever: strong fairness of completions and callbacks (they need the
  JavaScript thread between its waits) and of work that needs the service.
- *HiViewAdapter*: weak fairness of the timer thread while the process lives. Its
  sleep ends within a day (`SleepsUntilMidnight`), and no one holds its mutexes
  for longer than a step.

## 4. What is proved

The eight proof modules are checked by TLAPS.

### The service

`PasteboardServiceProofs` and `PasteboardRefinement` hold for
every value of the constants: any number of threads, users, observers and data,
and any sets of reentrant observers and of observers whose applications end.
Assumed are only the named assumptions of `PasteboardInterface` and
`PasteboardService`: that the null values differ from
the real ones and that `UserOf` is a function.

| Theorem | Property |
|---|---|
| `TypeCorrect` | `TypeOK` |
| `LocksAreExclusive` | `LocksMatchControl` |
| `NoChangeIsMissed` | `NoMissedChange` |
| `NoLateCallback` | `NoCallbackAfterRemoval` |
| `ObserversStayFixed` | `ObserversFixedWhileIterated` |
| `UsersStayIsolated` | `UsersAreIsolated` |
| `ReentryIsFatal` | `ReentryWedges` |
| `ServiceIsAtomic` | `HandlersAreAtomic` |

The argument goes in three layers.

1. `TypeInv` = `TypeOK` /\ `CallsFitControl` /\ `NestedFitsControl`. `TypeOK`
   alone is not inductive: that a lookup of `clips` at the caller's user is well
   typed needs that a thread past the account check serves a call of a known
   user with an observer that is not null (`CallsFitControl`), and that a reply
   sends only a waiting callback on (`NestedFitsControl`).
2. `LockInv` adds `LocksMatchControl`. It is what makes every later step a case
   about one thread: two threads are never both in `ClipSection`, nor in
   `ObserverSection`.
3. `NotifyInv`: `TodoFitsControl`, only the thread in its loop has observers left
   to call, and these are registered; `StaleIsPending`, an observer that is out
   of date is one that a thread with a changed clipboard has still to call, or
   has yet to collect. When `clipMutex_` is free there is no such thread, hence
   `NoMissedChange`.

The action properties follow from `LockInv` step by step. `ReentryIsFatal` rests
on it as well: the outer thread holds both mutexes, so no step of any thread can
take one or change what they protect, except its own, which waits while the
application it called lives, or for its own inner frame.

The refinement maps a thread's control point to *idle*, *called* or *done*
(`Status`) and the clipboard to `EffectiveClips`: `SetPasteData` takes effect at
its erase, `Clear`, `Get` and `Has` in their critical section, an observer method
in its own, a call that is turned away when it is. Every step is a step of
`Pasteboard` or leaves it unchanged.

### The statistics

`HiViewAdapterProofs` holds for any number of threads, sizes, times and accesses,
any room for applications and any finite set of these (`AppAssumption`).

| Theorem | What it states |
|---|---|
| `TimerIsUnique` | `OneTimer`: no order of starts, retries and stops starts a second timer thread |
| `NoAccessIsLost` | `BehaviourConserved` |
| `NoMeasurementIsLost` | `ConsumingConserved` |
| `StatisticsTyped` | `TypeOK` |
| `SleepsUntilMidnight` | `SleepTime` is positive, at most a day, and ends on midnight |
| `LevelsExist` | the bucket functions give a level that the tables have, for all arguments |

`OneTimer` needs that `running_` is set whenever a thread was started
(`TimerInv`). `NoAccessIsLost` needs the types of the counts, that nobody writes
events before the first timer thread, and that the thread falls asleep with no
clear outstanding (`SleepsBeforeWriting`). With no more applications than room,
the only choice of `Top` is all of them (`TopIsAll`, by the cardinality of finite
sets), so that the write before a clear has written all that it clears. A count and
a clear then both leave the balance as it is, since a count cannot come between an
event and its clear.

`NoMeasurementIsLost` is about bags. Bags are equal if they have the same number of
copies of everything (`BagsAreCopies`) and a union adds the copies
(`CupAddsCopies`), so the conservation of the tables is one equation of numbers for
each level (`CopiesConserved`, `ConservedByCopies`). An access finds both tables
initialised and its level in them (`LevelsExist`), an event moves a table from what
is pending to what is reported (`WrittenIsReported`), the clear then takes nothing
(`ClearedWasWritten`). It assumes that an empty table differs from one that was
initialised (`NoTableAssumption`). `StatisticsTyped` adds that the dump commands and
the timer thread come together and never before a publication (`LifeTyped`).

### The access history

`AccessHistoryProofs` builds on the invariants of the service, for every step of
`AccessHistory` is a step of the service or leaves it alone (`ServiceSteps`).
`DumpShowsOwner` is `ShownDataHasOwner`. It needs that a thread is in a
`Dot` function only where its handler calls it (`DotFitsControl`), that owner and
time are recorded before a copy fills a clipboard, hence are there when one is
filled (`CopiesAreRecorded`), and that a dump that found data finds them too
(`DumpIsOwned`).

| Theorem | What it states |
|---|---|
| `DumpShowsOwner` | `ShownDataHasOwner` |
| `HistoryTyped` | `HistoryTypeOK` |
| `OnlyARaceOutgrows` | `HistoryBounded`, as long as no two threads are between the test of the size and the push at a time (`NoTwoTrimming`) |
| `OutgrownForGood` | a history that is longer than the limit, while no thread has still to erase (`Outgrown`), stays so and never gets shorter |

`HistoryTyped` needs two facts more: a thread that pushes an access has read its time
(`AccessesAreTimed`), and of the filled clipboards there is one with the greatest user
id (`LastClipExists`), for `LastClip` chooses it. No assumption says that there are
finitely many users; the fact is an invariant instead. It has to be stated for every
subset of the filled clipboards, because erasing one must leave a greatest one, and it
is kept because only `SetInsert` fills a clipboard, one at a time
(`LastClipAfterFilling`).

The last two theorems are about finding 1. The run `historyRace` shows that the
history can outgrow its limit; `OnlyARaceOutgrows` shows that the race of two threads
is the only way there, so that a lock over test and push would close it, and
`OutgrownForGood` that there is none back: only a thread that found the history exactly
full before it outgrew can still drop an access from it. `LengthSteps` says what a
step does to the length; with one thread between test and push, what it has tested
still holds (`HistoryLengthInv`).

### The client

`PasteboardClientProofs` holds for any number of threads and of instances of the
service, and has one invariant for all: nothing leads to an instance that was
never started (`InstancesAreOld`); between the check and the store of
`ConnectService` a thread has a remote object and there is no proxy
(`RemoteFitsControl`); the instance in use is linked, and so is a living one that
is about to be stored (`Watched`); and a thread that lacks a service ran while
there was none (`DownIsSeen`).

| Theorem | Property |
|---|---|
| `ClientTypeCorrect` | `TypeOK` |
| `DeathIsNoticed` | `ProxyIsWatched` |
| `NoNeedlessRefusal` | `RefusedOnlyWhenDown` |
| `OneThreadConnects` | `ProxySetOnce` |

### The JavaScript API

`NapiPasteboardProofs` holds for any number of calls, pool threads, functions,
references and changes by other applications.

| Theorem | What it states |
|---|---|
| `AwaitedWritesAreSeen` | `ReadsSeeAwaitedWrites` |
| `NapiTyped` | `TypeOK` |
| `NoChangeIsLost` | `ChangesAreOnTheirWay` |
| `AsyncIsAtomic` | `AsyncCallsAreAtomic`: every step is one of `AsyncPasteboard` or changes nothing of it |
| `OffNeverUnregisters` | no step takes an observer out of the service's set |

The invariant has four parts. `ReadInv` relates each call's stage to the list of
writes: a call that has written is in it (`CopiesAreWritten`), what a call was issued
after has settled (`AwaitedAreSettled`), and no call has seen a write of the future
(`SeenIsPast`). `ObservationOK` types references and callbacks and says that an
observer that has not seen the last write is still to be told or has a callback
queued; that is the safety half of `EveryChangeCalledBack`. `AnnouncingOK` says that
the call being announced is the one that holds the service, and `PoolOK` counts the
threads at work, by the cardinality of finite sets.

The refinement rests on all four. A change is owed to exactly the registered observers
because nobody is left to be told when the next change is made (`AnnouncingOK`). That
`Announced` is no step of the promise needs that the call announced is a copy or a
clear, whose effect is past. `Off` is none because the reference it makes is not among
those of the observers, which also is `OffNeverUnregisters`: what the run
`offCallback` shows for one function happens for every one.

### The objects

`NapiPasteDataProofs` first states what the operations do with every list and parcel,
then the invariants of the objects, for any number of objects, records and works and
any limit on records.

| Theorem | What it states |
|---|---|
| `AddGoesToFront` | `AddRecord` puts a record in front of any list; below the limit the list grows, from there on it keeps its length, so that one which is too long stays so |
| `RemoveNeverRemoves` | `RemoveRecordAt` inserts a null and keeps every record: why `removeRecord` fails, for lists of any length |
| `ReplaceKeepsOthers` | `ReplaceRecordAt` changes the indexed record alone |
| `ReadIsReversal` | `ReadFromParcel` reverses a parcel without its nulls and keeps the last records of it, up to the limit |
| `TwoCrossingsRestore` | two crossings of the border give the list back, without its nulls and up to the limit |
| `CrashNeedsExposure` | `OnlyExposedCrash` |
| `NullsNeverTravel` | `NullsStayLocal` |
| `PasteGivesCopy` | `PastedIsCopied` |
| `ObjectsTyped` | `TypeOK` |

*Induction over a parcel.* `ReadFromParcel` and `NonNull` are folds (`FoldLeft`), and
what a fold does with a list of any length takes an induction over data.
`FoldTheorems` proves it without an induction theorem that has a predicate for a
parameter: induction is stated with a *set* of numbers in place of the predicate and
follows from the well-foundedness of the naturals (`NaturalInduction`), and the same
for sequences that grow by `Append` (`SequenceInduction`). The folded operator is a
*constant* of the module, given its value by `INSTANCE`, so that one proof serves every
fold. `FoldOfEmpty` and `FoldOfAppend` are then the two equations of the loop, and
`ReadIsReversal` is proved with them by `SequenceInduction`.

*The invariants.* They are proved for the four things a step may do
with objects (`ObjectSteps`). `CrashNeedsExposure` rests on `CrashInv`: as long as the
script is not exposed, no list has a null record, no work a torn list and no
conversion a freed object (`Unharmed`); that a paste brings none in is `ReadIsReversal`.
`NullsNeverTravel` is the same fact about what is kept and pasted. `PasteGivesCopy`
needs `PasteInv` besides: a work that no edit has touched writes the list of its
object as it is, record by record (`WorkOK`), so that what is served is its reversal;
`TwoCrossingsRestore` does the rest.

### Only model-checked

Liveness: `EveryCallAnswered`, `EveryChangeAnnounced`, `EveryCallReturns`,
`EveryCallSettles`, `EveryChangeCalledBack`, `EveryAccessReported`. Fairness and
`ENABLED` are out of TLAPS's reach. Every safety property of a passing run is a
theorem: each invariant, each action property and both refinements.

## 5. Where code and documents disagree

Each of these has a run that must find the violation; `PROJECT.json` (`findings`)
quotes the text and the line.

1. Two binder threads make the access history outgrow its ten entries
   (`historyRace`): it is trimmed only at exactly ten, so it then grows with every
   access (`OutgrownForGood`).
2. A daily event that names the state *copy* holds numbers of pastes, and the
   other way round: each is counted in the other's table (`eventStates`).
3. `RemoveRecordAt` inserts a null record (`removeRecord`).
4. After the service died the client keeps the dead proxy; the reconnection
   finds it non-null and returns (`reconnect`).
5. `off` never finds the observer that `on` made (`offCallback`).

Noticed while reading, without a run: removing and replacing lifts a PasteData
over `MAX_RECORD_NUM` (the models allow it, `RecordCap` bounds it); a JavaScript
callback is passed the error but never the result (`SetCallback` passes one
argument); the promise of `hasPasteData` is rejected where it should give false;
`hasPasteData` right after `setPasteData`, as in the README's example, may
overtake it on another pool thread (`ReadsSeeAwaitedWrites` is stated for calls
issued after the write settled); the dump may show
one account's data under the name of an application of another, for owner and
time are those of the last copy of any account while the data shown is that of the
greatest user id that has a clipboard (`clips_.rbegin()`); the bucket
functions take a remainder where a quotient is meant, so that 1 byte and 1025
bytes are of one level; a retried `Init` publishes the service but registers no
dump commands and starts no timer thread, so that such a service never reports
(`EveryAccessReported` is stated for a service that has a timer); the report of a day
with more than ten applications stores the others past the end of its ten names, which
may end the service (`WriteBeyond`), where the event's last field is "top ten calling
pasteboard" (`pasteboardEvent.yaml:66`).

Of the JavaScript objects: `addTextRecord`, `addHtmlRecord` and `addUriRecord` keep
the first 255 bytes of their string where the create functions keep all of it;
`getProperty` returns an object without properties, so that nobody reads
`props_.mimeTypes`, which repeats the type of two records where the declaration says
"non-repeating MIME types of all records" (`@ohos.pasteboard.d.ts:131`);
`getPrimaryText` and the
like return the first record of their type, not the primary record
(`@ohos.pasteboard.d.ts:252`); `removeRecordAt` lifts an object over
`MAX_RECORD_NUM` (`:26`); `createPlainTextRecord` of a text of 500 KB or more
returns an object without a record, which `replaceRecordAt` accepts and the next
getter dereferences; a promise of `setPasteData` or `convertToText` does not keep
its object from the collector (`objects` shows what may follow).

That an observer which calls the service in its callback stops the service is
not a disagreement with any text; `reentry` and `ReentryIsFatal` state it as the
behaviour the code has.

## 6. Not modelled

- **Memory-level effects of data races** in the service (torn strings, a `vector`
  changed on two threads). The models show the interleavings; `GetPasteDataDot`'s
  unlocked read of `clips_` (lines 482-485) is a hazard without a property. For the
  objects of a script `NapiPasteData` keeps the two outcomes that matter, another
  content or the end of the process.
- **The composition of client and service.** The client never connects again once
  its service has died (`reconnect`), so the restart's loss of observers has no
  run of the real system to be seen in; the two are connected by the calls of
  `PasteboardInterface` only.
- **IPC failures** other than a dead remote object: a failed parcel write or a
  wrong descriptor is answered by the framework before any handler runs.
- **Dump commands**: the parsing and printing of `hidumper` arguments. Their
  registration is in `HiViewAdapter`, what `-d` prints in `AccessHistory`.
- **The clock**: only how long the timer thread sleeps at a given time of day.
- **JavaScript argument checks**: a call with arguments of a wrong type is refused
  before it does anything. What conversion does to a string is in `NapiPasteData`;
  the properties of a record object, and those `getProperty` should return, are
  values in JavaScript that no method reads.
- **Which libuv call may be made where**: `OnPasteboardChanged` calls
  `uv_queue_work` on a binder thread, which libuv does not allow; what its queue
  then does is not in this source.
- **PasteboardStorage** is in no build target, the permission helper has no
  caller; logging and tracing only write.

## 7. Plan

Done, in this order: the service and its atomic promise (the core, everything
depends on it), its proofs and refinement, the access history, the paste data,
the client, the JavaScript API, the service's life and statistics with proofs; then
the JavaScript objects with their collector, the end of applications, and the proofs
of the client, the access history, the JavaScript API and the objects; then the
theorems about folds, with them the remaining invariants of the objects, and the
promise of the JavaScript API with the proof that it is kept.

What would come next, most important first:

1. The contents of the clipboard in `AsyncPasteboard`, in place of the one bit
   `filled`, so that it and `Pasteboard` can be composed: what a script reads is what
   the service's order of calls says.
2. The client composed with a service that can die, once the client connects
   again: which clipboard and which observers survive; no callback of a dead
   instance.
3. A promise of the client (one connection, calls that reach a living service or are
   refused) that `PasteboardClient` refines.

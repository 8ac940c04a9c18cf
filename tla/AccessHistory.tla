---------------------------- MODULE AccessHistory ----------------------------
(***************************************************************************)
(* What the service remembers about accesses and what hidumper shows of    *)
(* it: dataHistory_, uIdForLastCopy_ and timeForLastCopy_, written by      *)
(* SetPasteDataDot and GetPasteDataDot on every Set and Get, and read,     *)
(* with clips_, by DumpHistory and DunmpData.  No lock protects any of     *)
(* these accesses, so each of them is a step of its own.                   *)
(*                                                                         *)
(* The module composes with PasteboardService: while a thread is at its    *)
(* step "dot" it takes the steps of this module, and the last of them is   *)
(* the Dot step of that module.                                            *)
(***************************************************************************)
EXTENDS PasteboardService, Naturals, Sequences

CONSTANTS
    Bundle,       \* bundle names, "com.pasteboard.default" among them
    BundleOf,     \* GetBundleNameByUid: the bundle shown for a uid
    Time,         \* readings of GetTime, a formatted wall clock
    NoUid,        \* uIdForLastCopy_ before the first copy (0)
    NoTime,       \* timeForLastCopy_ before the first copy (empty)
    HistorySize,  \* DATA_HISTORY_SIZE
    HistoryCap    \* bound of the model: no access begins with a longer history

ASSUME BundleOfAssumption == BundleOf \in [Uid -> Bundle]
ASSUME UserIdsAreOrdered == UserId \subseteq Nat
ASSUME HistorySizeAssumption == HistorySize \in Nat \ {0} /\ HistoryCap \in Nat
ASSUME NoUidAssumption == NoUid \notin Uid /\ NoTime \notin Time

VARIABLES
    dataHistory,      \* dataHistory_, oldest access first
    uIdForLastCopy,   \* uIdForLastCopy_
    timeForLastCopy,  \* timeForLastCopy_
    dot,              \* dot[t]: where thread t is in SetPasteDataDot or GetPasteDataDot
    now,              \* now[t]: the time it read
    dump,             \* where a running DunmpData is
    shown             \* what it has put in its output so far

historyVars == <<dataHistory, uIdForLastCopy, timeForLastCopy>>
dumpVars == <<dump, shown>>
hvars == <<vars, historyVars, dot, now, dumpVars>>

Access == [time : Time, bundle : Bundle, state : {"Set", "Get"}]

\* The lines of --data: data whose records were counted, data whose MIME types were
\* listed, and the owner and the timestamp of the last copy.
NoOutput == [count |-> NoData, mimeTypes |-> NoData, owner |-> NoUid, timestamp |-> NoTime]

HistoryTypeOK ==
    /\ dataHistory \in Seq(Access)
    /\ uIdForLastCopy \in Uid \cup {NoUid}
    /\ timeForLastCopy \in Time \cup {NoTime}
    /\ dot \in [Thread -> {"begin", "time", "test", "erase", "push", "report"}]
    /\ now \in [Thread -> Time \cup {NoTime}]
    /\ dump \in {"idle", "mimeTypes", "owner", "timestamp", "done"}
    /\ shown \in [count : Data \cup {NoData}, mimeTypes : Data \cup {NoData},
                  owner : Uid \cup {NoUid}, timestamp : Time \cup {NoTime}]

HInit ==
    /\ Init
    /\ dataHistory = <<>>
    /\ uIdForLastCopy = NoUid
    /\ timeForLastCopy = NoTime
    /\ dot = [t \in Thread |-> "begin"]
    /\ now = [t \in Thread |-> NoTime]
    /\ dump = "idle"
    /\ shown = NoOutput

-----------------------------------------------------------------------------
\* SetPasteDataDot and GetPasteDataDot.

AtDot(t, from, to) ==
    /\ pc[t] = "dot"
    /\ dot[t] = from
    /\ dot' = [dot EXCEPT ![t] = to]

RecordOwner(t) ==
    /\ AtDot(t, "begin", "time")
    /\ Method(t) = "Set"
    /\ uIdForLastCopy' = call[t].uid
    /\ UNCHANGED <<vars, dataHistory, timeForLastCopy, now, dumpVars>>

\* Mutant: the time of the copy is read for the history only.
RecordTimeLocally(t) ==
    /\ AtDot(t, "time", "test")
    /\ \E time \in Time : now' = [now EXCEPT ![t] = time]
    /\ UNCHANGED <<vars, historyVars, dumpVars>>

RecordTime(t) ==
    /\ AtDot(t, "time", "test")
    /\ \E time \in Time :
        /\ now' = [now EXCEPT ![t] = time]
        /\ timeForLastCopy' = time
    /\ UNCHANGED <<vars, dataHistory, uIdForLastCopy, dumpVars>>

\* GetPasteDataDot records no copy.
ReadTime(t) ==
    /\ AtDot(t, "begin", "test")
    /\ Method(t) = "Get"
    /\ \E time \in Time : now' = [now EXCEPT ![t] = time]
    /\ UNCHANGED <<vars, historyVars, dumpVars>>

\* SetPasteboardHistory tests whether the size is exactly DATA_HISTORY_SIZE, ...
TestHistory(t) ==
    /\ AtDot(t, "test", IF Len(dataHistory) = HistorySize THEN "erase" ELSE "push")
    /\ UNCHANGED <<vars, historyVars, now, dumpVars>>

\* ... drops the oldest access if it was, whatever the size is by now (an erase from an
\* empty vector, after as many others, is undefined: the thread goes no further) ...
EraseOldest(t) ==
    /\ AtDot(t, "erase", "push")
    /\ dataHistory # <<>>
    /\ dataHistory' = Tail(dataHistory)
    /\ UNCHANGED <<vars, uIdForLastCopy, timeForLastCopy, now, dumpVars>>

\* Mutant: the line of the history names the uid, not the bundle.
PushUid(t) ==
    /\ AtDot(t, "push", "report")
    /\ dataHistory' = Append(dataHistory, [time |-> now[t], bundle |-> call[t].uid,
                                           state |-> Method(t)])
    /\ UNCHANGED <<vars, uIdForLastCopy, timeForLastCopy, now, dumpVars>>

\* ... and appends the new one.
PushHistory(t) ==
    /\ AtDot(t, "push", "report")
    /\ dataHistory' = Append(dataHistory, [time |-> now[t], bundle |-> BundleOf[call[t].uid],
                                           state |-> Method(t)])
    /\ UNCHANGED <<vars, uIdForLastCopy, timeForLastCopy, now, dumpVars>>

\* The behaviour and the time consumed are reported (HiViewAdapter).
Report(t) ==
    /\ AtDot(t, "report", "begin")
    /\ Dot(t)
    /\ now' = [now EXCEPT ![t] = NoTime]
    /\ UNCHANGED <<historyVars, dumpVars>>

Record(t) ==
    \/ RecordOwner(t) \/ RecordTime(t) \/ ReadTime(t)
    \/ TestHistory(t) \/ EraseOldest(t) \/ PushHistory(t) \/ Report(t)

-----------------------------------------------------------------------------
\* DunmpData, on the thread that serves Dump.

Filled == {u \in UserId : clips[u] # NoData}

\* clips_.rbegin(): the clipboard of the greatest user id that has one.
LastClip == clips[CHOOSE u \in Filled : \A v \in Filled : v <= u]

DumpTo(from, to) ==
    /\ dump = from
    /\ dump' = to
    /\ UNCHANGED <<vars, historyVars, dot, now>>

\* With no clip the output is "No copy data.".
DumpCount ==
    /\ DumpTo("idle", IF Filled = {} THEN "done" ELSE "mimeTypes")
    /\ shown' = [NoOutput EXCEPT !.count = IF Filled = {} THEN NoData ELSE LastClip]

\* The map is read again; if it has been emptied meanwhile, rbegin reads past its end
\* and what is shown is anything.
DumpMimeTypes ==
    /\ DumpTo("mimeTypes", "owner")
    /\ \E d \in IF Filled = {} THEN Data ELSE {LastClip} : shown' = [shown EXCEPT !.mimeTypes = d]

DumpOwner ==
    /\ DumpTo("owner", "timestamp")
    /\ shown' = [shown EXCEPT !.owner = uIdForLastCopy]

DumpTimestamp ==
    /\ DumpTo("timestamp", "done")
    /\ shown' = [shown EXCEPT !.timestamp = timeForLastCopy]

DumpEnd ==
    /\ DumpTo("done", "idle")
    /\ shown' = NoOutput

DunmpData == DumpCount \/ DumpMimeTypes \/ DumpOwner \/ DumpTimestamp \/ DumpEnd

-----------------------------------------------------------------------------
\* A call arrives; past HistoryCap none that would extend the history.
HReceive(t, c) ==
    /\ c.method \in {"Set", "Get"} => Len(dataHistory) <= HistoryCap
    /\ Receive(t, c)

HNext ==
    \/ \E t \in Thread :
        \/ Record(t)
        \/ /\ (\E c \in Call : HReceive(t, c)) \/ Serve(t) \/ Lock(t)
           /\ UNCHANGED <<historyVars, dot, now, dumpVars>>
    \/ DunmpData

HSpec == HInit /\ [][HNext]_hvars

-----------------------------------------------------------------------------
\* "Dump access history last ten times" (the help of --copy-history): the history
\* never holds more than DATA_HISTORY_SIZE accesses.
HistoryBounded == Len(dataHistory) <= HistorySize

\* When DunmpData prints data it prints an owner and a timestamp with it, however its
\* reads fall among concurrent copies (SetPasteData records both before it inserts).
ShownDataHasOwner ==
    dump = "done" /\ shown.count # NoData => shown.owner \in Uid /\ shown.timestamp \in Time

=============================================================================

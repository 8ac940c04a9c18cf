---------------------------- MODULE AsyncPasteboard ----------------------------
(***************************************************************************)
(* What the JavaScript API promises an application, without the threads    *)
(* and queues behind it: an asynchronous call takes effect in one step     *)
(* between its start and its completion, all changes of the clipboard, its *)
(* own and those of other applications, are in one order, and an observer  *)
(* is called back once, later, for each change made while it is            *)
(* registered.  NapiPasteboard.tla is the implementation; it is shown to   *)
(* refine this module.                                                     *)
(***************************************************************************)
EXTENDS Naturals, Sequences

CONSTANTS
    Methods,    \* the methods the application calls: setPasteData, clear, ...
    Observer,   \* what it may register
    Other       \* stands for all other applications

VARIABLES
    filled,      \* the clipboard has content
    changes,     \* who changed it, in order: the number of a call, or Other
    calls,       \* the calls of the application, in the order it made them
    registered,  \* its observers
    due,         \* due[o]: how many callbacks o is yet to get
    informed     \* informed[o]: how many changes there were when o last knew of them all

vars == <<filled, changes, calls, registered, due, informed>>

\* A call has a method, a stage ("called", then "done", then "settled") and, if it reads
\* the clipboard, the number of changes it found made.
Init ==
    /\ filled = FALSE
    /\ changes = <<>>
    /\ calls = <<>>
    /\ registered = {}
    /\ due = [o \in Observer |-> 0]
    /\ informed = [o \in Observer |-> 0]

\* The application calls a method.
Invoke(m) ==
    /\ calls' = Append(calls, [method |-> m, stage |-> "called", seen |-> 0])
    /\ UNCHANGED <<filled, changes, registered, due, informed>>

-----------------------------------------------------------------------------
\* Effects.

\* The clipboard is filled or emptied: every observer there is now is owed a callback.
Change(who, content) ==
    /\ filled' = content
    /\ changes' = Append(changes, who)
    /\ due' = [o \in Observer |-> IF o \in registered THEN due[o] + 1 ELSE due[o]]

\* Call w takes effect once, and goes to a later stage.
Moves(w, to) ==
    /\ calls[w].stage = "called"
    /\ calls' = [calls EXCEPT ![w].stage = to]

Set(w) ==
    /\ calls[w].method = "set"
    /\ Moves(w, "done")
    /\ Change(w, TRUE)
    /\ UNCHANGED <<registered, informed>>

\* An empty clipboard is not emptied again.
Clear(w) ==
    /\ calls[w].method = "clear"
    /\ Moves(w, "done")
    /\ IF filled THEN Change(w, FALSE) ELSE UNCHANGED <<filled, changes, due>>
    /\ UNCHANGED <<registered, informed>>

\* A read finds all the changes made so far.
Read(w, to) ==
    /\ calls[w].stage = "called"
    /\ calls' = [calls EXCEPT ![w] = [method |-> @.method, stage |-> to, seen |-> Len(changes)]]
    /\ UNCHANGED <<filled, changes, registered, due, informed>>

Has(w) == calls[w].method = "has" /\ Read(w, "done")

\* getPasteData reads in its completion.
Get(w) == calls[w].method = "get" /\ Read(w, "settled")

\* The promise is settled, or the callback called, after the effect.
Settle(w) ==
    /\ calls[w].stage = "done"
    /\ calls' = [calls EXCEPT ![w].stage = "settled"]
    /\ UNCHANGED <<filled, changes, registered, due, informed>>

\* Another application copies, or clears a clipboard that is not empty.
OtherChange(content) ==
    /\ content \/ filled
    /\ Change(Other, content)
    /\ UNCHANGED <<calls, registered, informed>>

-----------------------------------------------------------------------------
\* Observers.

\* An observer is registered: it is told of changes from now on.
Register(o) ==
    /\ registered' = registered \cup {o}
    /\ informed' = [informed EXCEPT ![o] = Len(changes)]
    /\ UNCHANGED <<filled, changes, calls, due>>

Unregister(o) ==
    /\ registered' = registered \ {o}
    /\ UNCHANGED <<filled, changes, calls, due, informed>>

\* A callback that is due is made; the application may then read all changes so far.
CallBack(o) ==
    /\ due[o] > 0
    /\ due' = [due EXCEPT ![o] = @ - 1]
    /\ informed' = [informed EXCEPT ![o] = Len(changes)]
    /\ UNCHANGED <<filled, changes, calls, registered>>

-----------------------------------------------------------------------------
Effect(w) == Set(w) \/ Clear(w) \/ Has(w) \/ Get(w)

Next ==
    \/ \E m \in Methods : Invoke(m)
    \/ \E w \in DOMAIN calls : Effect(w) \/ Settle(w)
    \/ \E content \in BOOLEAN : OtherChange(content)
    \/ \E o \in Observer : Register(o) \/ Unregister(o) \/ CallBack(o)

Spec == Init /\ [][Next]_vars

=============================================================================

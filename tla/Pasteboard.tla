----------------------------- MODULE Pasteboard -----------------------------
(***************************************************************************)
(* What the pasteboard promises the applications that call it, with every  *)
(* call atomic: one clipboard and one set of registered observers per      *)
(* user, and a call that takes effect in one step between the moment it is *)
(* received and the moment it is answered.                                 *)
(*                                                                         *)
(* The methods are those of IPasteboardService                             *)
(* (services/core/include/i_pasteboard_service.h).  PasteboardService.tla  *)
(* is the threaded implementation; it is shown to refine this module.      *)
(***************************************************************************)

EXTENDS PasteboardInterface

CONSTANT Thread    \* the threads that serve calls

VARIABLES
    clip,        \* clip[u]: the content of user u's clipboard, or NoData
    registered,  \* registered[u]: the observers registered by user u's applications
    status,      \* status[t]: what thread t is doing
    call,        \* call[t]: the call thread t serves
    answer       \* answer[t]: its answer so far

vars == <<clip, registered, status, call, answer>>

TypeOK ==
    /\ clip \in [UserId -> Data \cup {NoData}]
    /\ registered \in [UserId -> SUBSET Observer]
    /\ status \in [Thread -> {"idle", "called", "done"}]
    /\ call \in [Thread -> Call \cup {NoCall}]
    /\ answer \in [Thread -> Answer]

Init ==
    /\ clip = [u \in UserId |-> NoData]
    /\ registered = [u \in UserId |-> {}]
    /\ status = [t \in Thread |-> "idle"]
    /\ call = [t \in Thread |-> NoCall]
    /\ answer = [t \in Thread |-> Failure]

\* Thread t is handed the call c.
Receive(t, c) ==
    /\ status[t] = "idle"
    /\ status' = [status EXCEPT ![t] = "called"]
    /\ call' = [call EXCEPT ![t] = c]
    /\ UNCHANGED <<clip, registered, answer>>

\* The account of the application that made the call thread t serves.
User(t) == GetUserId(call[t])

\* The clipboard of a known user is replaced, emptied or read.
SetClip(t, u) ==
    /\ call[t].method = "Set"
    /\ clip' = [clip EXCEPT ![u] = call[t].data]
    /\ UNCHANGED <<registered, answer>>

ClearClip(t, u) ==
    /\ call[t].method = "Clear"
    /\ clip' = [clip EXCEPT ![u] = NoData]
    /\ UNCHANGED <<registered, answer>>

GetClip(t, u) ==
    /\ call[t].method = "Get"
    /\ answer' = [answer EXCEPT ![t] = [ok |-> clip[u] # NoData, data |-> clip[u]]]
    /\ UNCHANGED <<clip, registered>>

HasClip(t, u) ==
    /\ call[t].method = "Has"
    /\ answer' = [answer EXCEPT ![t] = [ok |-> clip[u] # NoData, data |-> NoData]]
    /\ UNCHANGED <<clip, registered>>

\* An observer is registered or unregistered for a known user.
Add(t, u) ==
    /\ call[t].method = "Add"
    /\ registered' = [registered EXCEPT ![u] = @ \cup ({call[t].observer} \ {NoObserver})]
    /\ UNCHANGED <<clip, answer>>

Remove(t, u) ==
    /\ call[t].method = "Remove"
    /\ registered' = [registered EXCEPT ![u] = @ \ {call[t].observer}]
    /\ UNCHANGED <<clip, answer>>

RemoveAll(t, u) ==
    /\ call[t].method = "RemoveAll"
    /\ registered' = [registered EXCEPT ![u] = {}]
    /\ UNCHANGED <<clip, answer>>

\* A caller without an account changes nothing and is told nothing.
Refuse(t) ==
    /\ User(t) = ErrorUserId
    /\ UNCHANGED <<clip, registered, answer>>

\* The call thread t serves takes effect.
Perform(t) ==
    /\ status[t] = "called"
    /\ status' = [status EXCEPT ![t] = "done"]
    /\ UNCHANGED call
    /\ \/ Refuse(t)
       \/ \E u \in UserId :
            /\ u = User(t)
            /\ \/ SetClip(t, u) \/ ClearClip(t, u) \/ GetClip(t, u) \/ HasClip(t, u)
               \/ Add(t, u) \/ Remove(t, u) \/ RemoveAll(t, u)

\* The call is answered.
Reply(t) ==
    /\ status[t] = "done"
    /\ status' = [status EXCEPT ![t] = "idle"]
    /\ call' = [call EXCEPT ![t] = NoCall]
    /\ answer' = [answer EXCEPT ![t] = Failure]
    /\ UNCHANGED <<clip, registered>>

Next == \E t \in Thread :
            \/ \E c \in Call : Receive(t, c)
            \/ Perform(t)
            \/ Reply(t)

Spec == Init /\ [][Next]_vars

=============================================================================

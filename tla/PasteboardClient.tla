-------------------------- MODULE PasteboardClient --------------------------
(***************************************************************************)
(* PasteboardClient (framework/innerkits/src/pasteboard_client.cpp): how   *)
(* the threads of an application find the pasteboard service, and what     *)
(* becomes of the connection when the service dies and is started again.   *)
(*                                                                         *)
(* The service is a sequence of instances, numbered from 1; its process    *)
(* and the system ability manager are external.  A call is one request on  *)
(* the proxy; what the service does with it is in PasteboardService.tla.   *)
(***************************************************************************)
EXTENDS Naturals

CONSTANTS
    Caller,       \* the application's threads, those of its binder pool included
    Nobody,       \* no thread: instanceLock_ is free
    MaxInstance   \* bound of the model: instances of the service

ASSUME CallerAssumption == Nobody \notin Caller
ASSUME MaxInstanceAssumption == MaxInstance \in Nat \ {0}

Instance == 1..MaxInstance
NoService == 0

VARIABLES
    instance,      \* the latest instance of the service
    published,     \* it runs and the system ability manager knows it
    proxy,         \* pasteboardServiceProxy_: the instance it leads to, or NoService
    instanceLock,  \* the thread that holds instanceLock_
    linked,        \* instances with a death recipient of this process
    deaths,        \* deaths of linked instances still to be reported to it
    pc,            \* pc[t]: where thread t is
    task,          \* task[t]: it serves a call, or the notice of a death
    remote,        \* remote[t]: the remote object it got in ConnectService
    result,        \* result[t]: how its last call ended
    sawDown        \* sawDown[t]: no service was published at some time during the call

service == <<instance, published>>
vars == <<service, proxy, instanceLock, linked, deaths, pc, task, remote, result, sawDown>>

\* In ConnectService, with instanceLock_ held.
Locked == {"locked", "link", "store"}

Control == {"idle", "check", "connect", "recheck", "invoke"} \cup Locked

TypeOK ==
    /\ instance \in Instance \cup {0}
    /\ published \in BOOLEAN
    /\ proxy \in Instance \cup {NoService}
    /\ instanceLock \in Caller \cup {Nobody}
    /\ linked \in SUBSET Instance
    /\ deaths \in SUBSET Instance
    /\ pc \in [Caller -> Control]
    /\ task \in [Caller -> {"call", "notice"}]
    /\ remote \in [Caller -> Instance \cup {NoService}]
    /\ result \in [Caller -> {"none", "served", "refused", "dead"}]
    /\ sawDown \in [Caller -> BOOLEAN]
    \* instanceLock_ is held by the thread inside its lock_guard's scope, and by no other.
    /\ \A t \in Caller : instanceLock = t <=> pc[t] \in Locked

Init ==
    /\ instance = 0
    /\ published = FALSE
    /\ proxy = NoService
    /\ instanceLock = Nobody
    /\ linked = {}
    /\ deaths = {}
    /\ pc = [t \in Caller |-> "idle"]
    /\ task = [t \in Caller |-> "call"]
    /\ remote = [t \in Caller |-> NoService]
    /\ result = [t \in Caller |-> "none"]
    /\ sawDown = [t \in Caller |-> FALSE]

Alive(i) == published /\ instance = i

-----------------------------------------------------------------------------
\* The service, as the system starts and loses it.

ServiceStarts ==
    /\ ~published
    /\ instance < MaxInstance
    /\ instance' = instance + 1
    /\ published' = TRUE
    /\ UNCHANGED <<proxy, instanceLock, linked, deaths, pc, task, remote, result, sawDown>>

ServiceDies ==
    /\ published
    /\ published' = FALSE
    /\ deaths' = deaths \cup (linked \cap {instance})
    /\ sawDown' = [t \in Caller |-> sawDown[t] \/ pc[t] # "idle"]
    /\ UNCHANGED <<instance, proxy, instanceLock, linked, pc, task, remote, result>>

-----------------------------------------------------------------------------
\* A method of the client.

GoTo(t, from, to) ==
    /\ pc[t] = from
    /\ pc' = [pc EXCEPT ![t] = to]

Return(t, from, how) ==
    /\ GoTo(t, from, "idle")
    /\ result' = [result EXCEPT ![t] = how]
    /\ UNCHANGED sawDown

Call(t) ==
    /\ GoTo(t, "idle", "check")
    /\ task' = [task EXCEPT ![t] = "call"]
    /\ result' = [result EXCEPT ![t] = "none"]
    /\ sawDown' = [sawDown EXCEPT ![t] = ~published]
    /\ UNCHANGED <<service, proxy, instanceLock, linked, deaths, remote>>

\* The first look at the proxy, without the lock.
CheckProxy(t) ==
    /\ GoTo(t, "check", IF proxy = NoService THEN "connect" ELSE "recheck")
    /\ UNCHANGED <<service, proxy, instanceLock, linked, deaths, task, remote, result, sawDown>>

\* The second look: still no service, and the call quits.
QuitCall(t) ==
    /\ proxy = NoService
    /\ Return(t, "recheck", "refused")
    /\ UNCHANGED <<service, proxy, instanceLock, linked, deaths, task, remote>>

CallProxy(t) ==
    /\ proxy # NoService
    /\ GoTo(t, "recheck", "invoke")
    /\ UNCHANGED <<service, proxy, instanceLock, linked, deaths, task, remote, result, sawDown>>

\* SendRequest of the proxy: a dead remote object answers with an error.
SendRequest(t) ==
    /\ Return(t, "invoke", IF Alive(proxy) THEN "served" ELSE "dead")
    /\ UNCHANGED <<service, proxy, instanceLock, linked, deaths, task, remote>>

-----------------------------------------------------------------------------
\* ConnectService.

\* ConnectService returns to a method of the client, or is all OnRemoteSaDied does.
LeaveTo(t) == IF task[t] = "call" THEN "recheck" ELSE "idle"

\* Mutant: a thread that finds instanceLock_ taken does not wait for it.
TryLockInstance(t) ==
    /\ GoTo(t, "connect", IF instanceLock = Nobody THEN "locked" ELSE LeaveTo(t))
    /\ instanceLock' = IF instanceLock = Nobody THEN t ELSE instanceLock
    /\ UNCHANGED <<service, proxy, linked, deaths, task, remote, result, sawDown>>

LockInstance(t) ==
    /\ GoTo(t, "connect", "locked")
    /\ instanceLock = Nobody
    /\ instanceLock' = t
    /\ UNCHANGED <<service, proxy, linked, deaths, task, remote, result, sawDown>>

\* Mutant: without a service the thread tries again and again to connect.
RetryConnect(t) ==
    /\ proxy # NoService \/ ~published
    /\ GoTo(t, "locked", IF proxy = NoService THEN "connect" ELSE LeaveTo(t))
    /\ instanceLock' = Nobody
    /\ UNCHANGED <<service, proxy, linked, deaths, task, remote, result, sawDown>>

\* Another thread has connected meanwhile, or the system ability manager knows no
\* pasteboard service.
LeaveConnect(t) ==
    /\ proxy # NoService \/ ~published
    /\ GoTo(t, "locked", LeaveTo(t))
    /\ instanceLock' = Nobody
    /\ UNCHANGED <<service, proxy, linked, deaths, task, remote, result, sawDown>>

\* Mutant: ConnectService does not look at the proxy again under the lock.
CheckAgain(t) ==
    /\ published
    /\ GoTo(t, "locked", "link")
    /\ remote' = [remote EXCEPT ![t] = instance]
    /\ UNCHANGED <<service, proxy, instanceLock, linked, deaths, task, result, sawDown>>

CheckSystemAbility(t) ==
    /\ proxy = NoService
    /\ published
    /\ GoTo(t, "locked", "link")
    /\ remote' = [remote EXCEPT ![t] = instance]
    /\ UNCHANGED <<service, proxy, instanceLock, linked, deaths, task, result, sawDown>>

\* Mutant: no death recipient is added.
AddNoDeathRecipient(t) ==
    /\ GoTo(t, "link", "store")
    /\ UNCHANGED <<service, proxy, instanceLock, linked, deaths, task, remote, result, sawDown>>

\* The new death recipient is added to the remote object, unless that is dead already.
AddDeathRecipient(t) ==
    /\ Alive(remote[t])
    /\ GoTo(t, "link", "store")
    /\ linked' = linked \cup {remote[t]}
    /\ UNCHANGED <<service, proxy, instanceLock, deaths, task, remote, result, sawDown>>

\* Mutant: the way out of a failed AddDeathRecipient leaves instanceLock_ locked.
DeathRecipientFailsLocked(t) ==
    /\ ~ Alive(remote[t])
    /\ GoTo(t, "link", LeaveTo(t))
    /\ remote' = [remote EXCEPT ![t] = NoService]
    /\ UNCHANGED <<service, proxy, instanceLock, linked, deaths, task, result, sawDown>>

DeathRecipientFails(t) ==
    /\ ~ Alive(remote[t])
    /\ GoTo(t, "link", LeaveTo(t))
    /\ instanceLock' = Nobody
    /\ remote' = [remote EXCEPT ![t] = NoService]
    /\ UNCHANGED <<service, proxy, linked, deaths, task, result, sawDown>>

StoreProxy(t) ==
    /\ GoTo(t, "store", LeaveTo(t))
    /\ proxy' = remote[t]
    /\ remote' = [remote EXCEPT ![t] = NoService]
    /\ instanceLock' = Nobody
    /\ UNCHANGED <<service, linked, deaths, task, result, sawDown>>

ConnectService(t) ==
    \/ LeaveConnect(t) \/ CheckSystemAbility(t)
    \/ AddDeathRecipient(t) \/ DeathRecipientFails(t) \/ StoreProxy(t)

\* The binder thread t reports the death of a linked instance: OnRemoteSaDied calls
\* ConnectService.
OnRemoteSaDied(t) ==
    /\ GoTo(t, "idle", "connect")
    /\ \E i \in deaths :
        /\ deaths' = deaths \ {i}
        /\ linked' = linked \ {i}
    /\ task' = [task EXCEPT ![t] = "notice"]
    /\ result' = [result EXCEPT ![t] = "none"]
    /\ sawDown' = [sawDown EXCEPT ![t] = ~published]
    /\ UNCHANGED <<service, proxy, instanceLock, remote>>

-----------------------------------------------------------------------------
Run(t) ==
    \/ CheckProxy(t) \/ QuitCall(t) \/ CallProxy(t) \/ SendRequest(t)
    \/ ConnectService(t)

Next ==
    \/ ServiceStarts \/ ServiceDies
    \/ \E t \in Caller : Call(t) \/ OnRemoteSaDied(t) \/ LockInstance(t) \/ Run(t)

Spec == Init /\ [][Next]_vars

\* The scheduler runs every thread, a waiter gets a mutex that is free again and again,
\* and the binder driver reports a death.
FairSpec ==
    /\ Spec
    /\ \A t \in Caller : WF_vars(Run(t)) /\ SF_vars(LockInstance(t))
    /\ WF_vars(\E t \in Caller : OnRemoteSaDied(t))

-----------------------------------------------------------------------------
\* Properties.

\* However many threads find no proxy at once, one of them connects: a proxy that is
\* in use is never replaced under the calls that use it (the second check of
\* ConnectService, under instanceLock_).
ProxySetOnce == [][proxy # NoService => UNCHANGED proxy]_vars

\* The application hears of the death of the instance it uses: a death recipient is
\* linked to it before the proxy is stored.
ProxyIsWatched == Alive(proxy) => proxy \in linked

\* A call is refused for want of a service only if there was none at some time while
\* it ran; a thread that loses the race for instanceLock_ finds the winner's proxy.
RefusedOnlyWhenDown == \A t \in Caller : result[t] = "refused" => sawDown[t]

\* Every call and every notice of a death ends, whenever the service dies.
EveryCallReturns == \A t \in Caller : pc[t] # "idle" ~> pc[t] = "idle"

\* "Redo ConnectService": once the death of the service has been reported and handled,
\* the client no longer uses the dead instance.
DeadProxyIsDropped ==
    deaths = {} /\ (\A t \in Caller : pc[t] = "idle") => proxy = NoService \/ Alive(proxy)

=============================================================================

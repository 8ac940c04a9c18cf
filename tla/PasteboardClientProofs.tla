------------------------ MODULE PasteboardClientProofs ------------------------
(***************************************************************************)
(* Proofs about PasteboardClient, for every number of threads of the       *)
(* application and of deaths of the service.                               *)
(***************************************************************************)
EXTENDS PasteboardClient, TLAPS

-----------------------------------------------------------------------------
\* The inductive invariant, in parts.

\* Nothing leads to an instance that has not been started, and a death that is to be
\* reported has happened.
InstancesAreOld ==
    /\ proxy <= instance
    /\ \A i \in deaths : i <= instance /\ ~ Alive(i)

\* A thread between CheckSystemAbility and the store of the proxy has a remote object,
\* and while it has, there is no proxy.
RemoteFitsControl ==
    \A t \in Caller :
        pc[t] \in {"link", "store"} =>
            remote[t] \in Instance /\ remote[t] <= instance /\ proxy = NoService

\* The instance in use is linked; so is the one that is about to be.
Watched ==
    /\ ProxyIsWatched
    /\ \A t \in Caller : pc[t] = "store" /\ Alive(remote[t]) => remote[t] \in linked

\* A thread that runs into the lack of a service ran while there was none.
DownIsSeen ==
    \A t \in Caller :
        /\ pc[t] # "idle" /\ ~ published => sawDown[t]
        /\ pc[t] = "link" /\ ~ Alive(remote[t]) => sawDown[t]
        /\ pc[t] = "recheck" /\ proxy = NoService => sawDown[t]

ClientInv ==
    TypeOK /\ InstancesAreOld /\ RemoteFitsControl /\ Watched /\ DownIsSeen /\ RefusedOnlyWhenDown

-----------------------------------------------------------------------------
LEMMA ClientInvInit == Init => ClientInv
  <1> SUFFICES ASSUME Init PROVE ClientInv
    OBVIOUS
  <1> USE CallerAssumption, MaxInstanceAssumption DEF Init, NoService
  <1>1. TypeOK
    BY DEF TypeOK, Instance, Locked, Control
  <1>2. InstancesAreOld /\ RemoteFitsControl /\ Watched /\ DownIsSeen
    BY DEF InstancesAreOld, RemoteFitsControl, Watched, ProxyIsWatched, DownIsSeen, Alive
  <1>3. RefusedOnlyWhenDown
    BY DEF RefusedOnlyWhenDown
  <1> QED BY <1>1, <1>2, <1>3 DEF ClientInv

LEMMA ClientInvNext == ClientInv /\ [Next]_vars => ClientInv'
  <1> SUFFICES ASSUME ClientInv, [Next]_vars PROVE ClientInv'
    OBVIOUS
  <1> USE CallerAssumption, MaxInstanceAssumption
      DEF ClientInv, TypeOK, InstancesAreOld, RemoteFitsControl, Watched, ProxyIsWatched, DownIsSeen,
          RefusedOnlyWhenDown, Instance, NoService, Alive, Locked, Control, service, GoTo
  <1>1. CASE ServiceStarts
    <2>1. TypeOK'
      BY <1>1 DEF ServiceStarts
    <2>2. InstancesAreOld' /\ RemoteFitsControl' /\ Watched'
      BY <1>1 DEF ServiceStarts
    <2>3. DownIsSeen' /\ RefusedOnlyWhenDown'
      BY <1>1 DEF ServiceStarts
    <2> QED BY <2>1, <2>2, <2>3
  <1>2. CASE ServiceDies
    <2>1. TypeOK'
      BY <1>2 DEF ServiceDies
    <2>2. InstancesAreOld' /\ RemoteFitsControl' /\ Watched'
      BY <1>2 DEF ServiceDies
    <2>3. DownIsSeen' /\ RefusedOnlyWhenDown'
      BY <1>2 DEF ServiceDies
    <2> QED BY <2>1, <2>2, <2>3
  <1>3. ASSUME NEW t \in Caller, Call(t) PROVE ClientInv'
    <2>1. TypeOK'
      BY <1>3 DEF Call
    <2>2. InstancesAreOld' /\ RemoteFitsControl' /\ Watched'
      BY <1>3 DEF Call
    <2>3. DownIsSeen' /\ RefusedOnlyWhenDown'
      BY <1>3 DEF Call
    <2> QED BY <2>1, <2>2, <2>3
  <1>4. ASSUME NEW t \in Caller, OnRemoteSaDied(t) PROVE ClientInv'
    <2>1. TypeOK'
      BY <1>4 DEF OnRemoteSaDied
    <2>2. InstancesAreOld' /\ RemoteFitsControl' /\ Watched'
      BY <1>4 DEF OnRemoteSaDied
    <2>3. DownIsSeen' /\ RefusedOnlyWhenDown'
      BY <1>4 DEF OnRemoteSaDied
    <2> QED BY <2>1, <2>2, <2>3
  <1>5. ASSUME NEW t \in Caller, CheckProxy(t) PROVE ClientInv'
    BY <1>5 DEF CheckProxy
  <1>6. ASSUME NEW t \in Caller, CallProxy(t) PROVE ClientInv'
    BY <1>6 DEF CallProxy
  <1>7. ASSUME NEW t \in Caller, QuitCall(t) PROVE ClientInv'
    BY <1>7 DEF QuitCall, Return
  <1>8. ASSUME NEW t \in Caller, SendRequest(t) PROVE ClientInv'
    BY <1>8 DEF SendRequest, Return
  <1>9. ASSUME NEW t \in Caller, LockInstance(t) PROVE ClientInv'
    BY <1>9 DEF LockInstance
  <1>10. ASSUME NEW t \in Caller, LeaveConnect(t) PROVE ClientInv'
    BY <1>10 DEF LeaveConnect, LeaveTo
  <1>11. ASSUME NEW t \in Caller, CheckSystemAbility(t) PROVE ClientInv'
    BY <1>11 DEF CheckSystemAbility
  <1>12. ASSUME NEW t \in Caller, AddDeathRecipient(t) PROVE ClientInv'
    <2>1. TypeOK'
      <3>1. remote[t] \in Instance
        BY <1>12 DEF AddDeathRecipient
      <3>2. linked' \subseteq Instance
        BY <1>12, <3>1 DEF AddDeathRecipient
      <3>3. \A u \in Caller : instanceLock' = u <=> pc'[u] \in Locked
        BY <1>12 DEF AddDeathRecipient
      <3> QED BY <1>12, <3>2, <3>3 DEF AddDeathRecipient
    <2>2. InstancesAreOld' /\ ProxyIsWatched'
      BY <1>12 DEF AddDeathRecipient
    <2>3. RemoteFitsControl'
      BY <1>12 DEF AddDeathRecipient
    <2>4. Watched'
      BY <1>12, <2>2 DEF AddDeathRecipient
    <2>5. DownIsSeen' /\ RefusedOnlyWhenDown'
      BY <1>12 DEF AddDeathRecipient
    <2> QED BY <2>1, <2>2, <2>3, <2>4, <2>5
  <1>13. ASSUME NEW t \in Caller, DeathRecipientFails(t) PROVE ClientInv'
    BY <1>13 DEF DeathRecipientFails, LeaveTo
  <1>14. ASSUME NEW t \in Caller, StoreProxy(t) PROVE ClientInv'
    BY <1>14 DEF StoreProxy, LeaveTo
  <1>15. CASE UNCHANGED vars
    BY <1>15 DEF vars
  <1> QED
    BY <1>1, <1>2, <1>3, <1>4, <1>5, <1>6, <1>7, <1>8, <1>9, <1>10, <1>11, <1>12, <1>13, <1>14, <1>15
       DEF Next, Run, ConnectService

LEMMA ClientInvariant == Spec => []ClientInv
  BY ClientInvInit, ClientInvNext, PTL DEF Spec

-----------------------------------------------------------------------------
\* The client keeps its types, and instanceLock_ is held by exactly the thread inside
\* ConnectService: no way out of it, the failing ones included, leaves it locked.
THEOREM ClientTypeCorrect == Spec => []TypeOK
  BY ClientInvariant, PTL DEF ClientInv

\* The service never dies unnoticed: the death recipient is linked before the proxy is
\* stored, and stays linked as long as that instance lives.
THEOREM DeathIsNoticed == Spec => []ProxyIsWatched
  <1>1. ClientInv => ProxyIsWatched
    BY DEF ClientInv, Watched
  <1> QED BY <1>1, ClientInvariant, PTL

\* No call of any thread is refused while a service runs all along, however the threads
\* race to connect.
THEOREM NoNeedlessRefusal == Spec => []RefusedOnlyWhenDown
  BY ClientInvariant, PTL DEF ClientInv

\* The proxy is stored once: the double-checked locking of ConnectService is correct
\* although the first check takes no lock.
THEOREM OneThreadConnects == Spec => ProxySetOnce
  <1>1. ClientInv /\ [Next]_vars => [proxy # NoService => UNCHANGED proxy]_vars
    <2> SUFFICES ASSUME ClientInv, [Next]_vars, proxy # NoService PROVE UNCHANGED proxy
      OBVIOUS
    <2>1. ASSUME NEW t \in Caller, StoreProxy(t) PROVE FALSE
      BY <2>1 DEF StoreProxy, GoTo, ClientInv, RemoteFitsControl
    <2> QED
      BY <2>1 DEF Next, Run, ConnectService, ServiceStarts, ServiceDies, Call, OnRemoteSaDied, LockInstance,
                  CheckProxy, QuitCall, CallProxy, SendRequest, LeaveConnect, CheckSystemAbility,
                  AddDeathRecipient, DeathRecipientFails, vars
  <1> QED BY <1>1, ClientInvariant, PTL DEF Spec, ProxySetOnce

=============================================================================

------------------------- MODULE NapiPasteboardProofs -------------------------
(***************************************************************************)
(* Proofs about NapiPasteboard, for every number of asynchronous calls,    *)
(* pool threads, functions and changes by other applications.              *)
(***************************************************************************)
EXTENDS NapiPasteboard, FiniteSetTheorems, SequenceTheorems, TLAPS

-----------------------------------------------------------------------------
\* The inductive invariant, in parts.

\* What TypeOK says of the service's half, and of the shape of the work list.
ServiceType ==
    /\ holder \in Calls \cup {Nobody, Other}
    /\ writes \in Seq(Calls \cup {Other})
    /\ work \in Seq(AsyncContext)
    /\ Len(work) <= MaxCalls

\* A copy that has taken effect is among the writes.
CopiesAreWritten ==
    \A v \in DOMAIN work :
        work[v].method = "set" /\ work[v].stage \in {"announcing", "done", "settled"}
            => \E i \in 1..Len(writes) : writes[i] = v

\* What a call was issued after had settled by then, and stays so.
AwaitedAreSettled ==
    \A w \in DOMAIN work : \A v \in work[w].after : v \in DOMAIN work /\ work[v].stage = "settled"

\* The JavaScript thread waits for the service in the completion of a getPasteData; a
\* change that is announced is that of a call that makes one.
ControlFits ==
    /\ js = "get" =>
          subject \in DOMAIN work /\ work[subject].method = "get" /\ work[subject].stage = "done"
    /\ holder \in Calls =>
          holder \in DOMAIN work /\ work[holder].method \in {"set", "clear"} /\ work[holder].stage = "announcing"

\* No call has seen writes that have not happened.
SeenIsPast == \A w \in DOMAIN work : work[w].seen <= Len(writes)

ReadInv ==
    /\ ServiceType /\ CopiesAreWritten /\ AwaitedAreSettled /\ ControlFits /\ SeenIsPast
    /\ ReadsSeeAwaitedWrites

-----------------------------------------------------------------------------
\* The next-state relation, one disjunct per action.
LEMMA NextSteps ==
    ASSUME [Next]_vars
    PROVE  \/ \E m \in Methods : Issue(m)
           \/ \E f \in Function : On(f) \/ Off(f)
           \/ \E content \in BOOLEAN : OtherWrites(content)
           \/ \E w \in DOMAIN work :
                \/ StartWork(w) \/ SetPasteData(w) \/ Clear(w) \/ HasPasteData(w) \/ GetPasteData(w)
                \/ Complete(w) \/ CompleteGet(w)
           \/ \E r \in Refs : OnPasteboardChanged(r) \/ UvQueueWorkOnPasteboardChanged(r)
           \/ Announced \/ AddObserver \/ InsertObserver \/ ReadClip
           \/ UNCHANGED vars
  BY DEF Next, Use, Execute, Continue

\* A call in the list has a number, a stage and a count.
LEMMA WorkFields ==
    ASSUME ServiceType, NEW w \in DOMAIN work
    PROVE  /\ w \in Calls /\ w \in Nat
           /\ work[w] \in AsyncContext
           /\ work[w].seen \in Nat
  <1>1. work[w] \in AsyncContext /\ w \in 1..Len(work) /\ Len(work) \in Nat
    BY LenProperties, ElementOfSeq DEF ServiceType
  <1>2. work[w].seen \in Nat
    BY <1>1 DEF AsyncContext
  <1> QED BY <1>1, <1>2, BoundsAssumption DEF ServiceType, Calls

\* A call that has read the clipboard.
Read(c) ==
    \/ c.method = "get" /\ c.stage = "settled"
    \/ c.method = "has" /\ c.stage \in {"done", "settled"}

Written(c) == c.method = "set" /\ c.stage \in {"announcing", "done", "settled"}

\* The writes of a step are those there were and perhaps one more.
WritesGrow ==
    /\ writes' \in Seq(Calls \cup {Other})
    /\ Len(writes') \in Nat /\ Len(writes) <= Len(writes')
    /\ \A i \in 1..Len(writes) : writes'[i] = writes[i]

LEMMA AppendedWrite ==
    ASSUME ServiceType, NEW v \in Calls \cup {Other}, writes' = Append(writes, v)
    PROVE  WritesGrow /\ \E i \in 1..Len(writes') : writes'[i] = v
  BY AppendProperties, LenProperties DEF ServiceType, WritesGrow

LEMMA SameWrites ==
    ASSUME ServiceType, UNCHANGED writes
    PROVE  WritesGrow
  BY LenProperties DEF ServiceType, WritesGrow

\* What a step may do to the invariant's parts about calls: give one call a new stage,
\* which a settled call has none of, and a count if it reads.
CallsInv == CopiesAreWritten /\ AwaitedAreSettled /\ SeenIsPast /\ ReadsSeeAwaitedWrites

LEMMA CallMoves ==
    ASSUME ReadInv, WritesGrow, NEW w \in DOMAIN work, NEW c \in AsyncContext,
           work' = [work EXCEPT ![w] = c],
           work[w].stage # "settled",
           c.method = work[w].method, c.after = work[w].after, c.seen <= Len(writes'),
           Written(c) => \E i \in 1..Len(writes') : writes'[i] = w,
           Read(c) => c.seen = Len(writes') \/ (Read(work[w]) /\ c.seen = work[w].seen)
    PROVE  /\ work' \in Seq(AsyncContext) /\ Len(work') = Len(work) /\ DOMAIN work' = DOMAIN work
           /\ \A v \in DOMAIN work : work'[v] = IF v = w THEN c ELSE work[v]
           /\ CallsInv'
  <1> USE DEF ReadInv, CopiesAreWritten, AwaitedAreSettled, SeenIsPast
  <1>1. /\ work' \in Seq(AsyncContext) /\ Len(work') = Len(work) /\ DOMAIN work' = DOMAIN work
        /\ work'[w] = c
        /\ \A v \in DOMAIN work : v # w => work'[v] = work[v]
    BY ExceptSeq, LenProperties DEF ServiceType
  <1>2. Len(writes) \in Nat /\ Len(writes') \in Nat /\ Len(writes) <= Len(writes')
    BY LenProperties DEF ServiceType, WritesGrow
  <1>3. CopiesAreWritten'
    BY <1>1, <1>2 DEF Written, WritesGrow
  <1>4. AwaitedAreSettled'
    BY <1>1
  <1>5. SeenIsPast'
    BY <1>1, <1>2, WorkFields
  <1>6. ASSUME NEW u \in DOMAIN work, HasRead(u)', NEW v \in work[u].after, work[v].method = "set"
        PROVE  \E i \in 1..work'[u].seen : writes'[i] = v
    <2>1. \E i \in 1..Len(writes) : writes[i] = v
      BY <1>6
    <2>2. CASE u # w
      BY <1>1, <1>2, <1>6, <2>2, WorkFields DEF HasRead, ReadsSeeAwaitedWrites, WritesGrow
    <2>3. CASE u = w /\ c.seen = Len(writes')
      BY <1>1, <1>2, <2>1, <2>3 DEF WritesGrow
    <2>4. CASE u = w /\ Read(work[w]) /\ c.seen = work[w].seen
      BY <1>1, <1>2, <1>6, <2>4, WorkFields DEF HasRead, Read, ReadsSeeAwaitedWrites, WritesGrow
    <2> QED BY <1>1, <1>6, <2>2, <2>3, <2>4 DEF HasRead, Read
  <1>7. ReadsSeeAwaitedWrites'
    BY <1>1, <1>6 DEF ReadsSeeAwaitedWrites
  <1> QED BY <1>1, <1>3, <1>4, <1>5, <1>7 DEF CallsInv

\* A step that leaves calls and writes alone leaves what is said of them alone.
LEMMA CallsKept ==
    ASSUME ReadInv, UNCHANGED <<work, writes>>
    PROVE  CallsInv'
  BY DEF ReadInv, CallsInv, CopiesAreWritten, AwaitedAreSettled, SeenIsPast, ReadsSeeAwaitedWrites, HasRead

LEMMA ReadInvInit == Init => ReadInv
  BY BoundsAssumption, EmptySeq
     DEF Init, ReadInv, ServiceType, CopiesAreWritten, AwaitedAreSettled, ControlFits, SeenIsPast,
         ReadsSeeAwaitedWrites, Nobody, Calls

LEMMA ReadInvNext == ReadInv /\ [Next]_vars => ReadInv'
  <1> SUFFICES ASSUME ReadInv, [Next]_vars PROVE ReadInv'
    OBVIOUS
  <1> USE BoundsAssumption DEF ReadInv, ServiceType, ControlFits, CallsInv, service, observation
  <1>0. Len(writes) \in Nat /\ Len(work) \in Nat /\ DOMAIN work = 1..Len(work) /\ ServiceType
    BY LenProperties
  <1>1. ASSUME NEW m \in Methods, Issue(m) PROVE ReadInv'
    <2> DEFINE c == [method |-> m, stage |-> "queued", seen |-> 0,
                     after |-> {v \in DOMAIN work : work[v].stage = "settled"}]
    <2>1. c \in AsyncContext
      <3>1. DOMAIN work \subseteq Calls
        BY <1>0 DEF Calls
      <3> QED BY <3>1 DEF AsyncContext
    <2>2. work' = Append(work, c) /\ UNCHANGED <<writes, holder, js, subject>> /\ js = "idle" /\ Len(work) < MaxCalls
      BY <1>1, <1>0 DEF Issue
    <2>3. c.stage = "queued" /\ c.seen = 0 /\ c.after = {v \in DOMAIN work : work[v].stage = "settled"}
      OBVIOUS
    <2> HIDE DEF c
    <2>4. /\ work' \in Seq(AsyncContext) /\ Len(work') = Len(work) + 1
          /\ DOMAIN work' = DOMAIN work \cup {Len(work) + 1}
          /\ \A v \in DOMAIN work : work'[v] = work[v]
          /\ work'[Len(work) + 1] = c
      BY <1>0, <2>1, <2>2, AppendProperties, LenProperties
    <2>5. CopiesAreWritten' /\ AwaitedAreSettled' /\ SeenIsPast'
      BY <1>0, <2>2, <2>3, <2>4 DEF CopiesAreWritten, AwaitedAreSettled, SeenIsPast
    <2>6. ReadsSeeAwaitedWrites'
      BY <1>0, <2>2, <2>3, <2>4 DEF ReadsSeeAwaitedWrites, HasRead, AwaitedAreSettled
    <2> QED BY <1>0, <2>2, <2>4, <2>5, <2>6
  <1>2. ASSUME NEW f \in Function, On(f) \/ Off(f) PROVE ReadInv'
    BY <1>2, CallsKept DEF On, Off
  <1>3. ASSUME NEW content \in BOOLEAN, OtherWrites(content) PROVE ReadInv'
    <2>1. UNCHANGED <<work, js, subject>> /\ holder' = Other /\ writes' = Append(writes, Other)
      BY <1>3 DEF OtherWrites, Write
    <2>2. WritesGrow
      BY <1>0, <2>1, AppendedWrite
    <2>3. CopiesAreWritten' /\ AwaitedAreSettled' /\ SeenIsPast'
      BY <1>0, <2>1, <2>2, WorkFields DEF CopiesAreWritten, AwaitedAreSettled, SeenIsPast, WritesGrow
    <2>4. ReadsSeeAwaitedWrites'
      BY <1>0, <2>1, <2>2, WorkFields DEF ReadsSeeAwaitedWrites, HasRead, SeenIsPast, WritesGrow
    <2> QED BY <1>0, <2>1, <2>2, <2>3, <2>4 DEF WritesGrow, Other, Calls
  <1>4. ASSUME NEW w \in DOMAIN work, SetPasteData(w) PROVE ReadInv'
    <2> DEFINE c == [work[w] EXCEPT !.stage = "announcing"]
    <2>1. /\ work[w].stage = "running" /\ work[w].method = "set" /\ holder' = w
          /\ writes' = Append(writes, w) /\ UNCHANGED <<js, subject>>
      BY <1>4 DEF SetPasteData, Executes, Write
    <2>2. /\ c \in AsyncContext /\ work' = [work EXCEPT ![w] = c]
          /\ c.method = work[w].method /\ c.after = work[w].after
          /\ c.seen = work[w].seen /\ c.stage = "announcing"
      BY <1>0, <1>4, <2>1, WorkFields DEF SetPasteData, Executes, Write, AsyncContext
    <2> HIDE DEF c
    <2>3. w \in Calls /\ WritesGrow /\ (\E i \in 1..Len(writes') : writes'[i] = w)
      BY <1>0, <2>1, WorkFields, AppendedWrite
    <2>4. c.seen <= Len(writes') /\ ~ Read(c)
      BY <1>0, <2>1, <2>2, <2>3, WorkFields DEF SeenIsPast, WritesGrow, Read
    <2>5. /\ work' \in Seq(AsyncContext) /\ Len(work') = Len(work) /\ DOMAIN work' = DOMAIN work
          /\ \A v \in DOMAIN work : work'[v] = IF v = w THEN c ELSE work[v]
          /\ CallsInv'
      BY <2>1, <2>2, <2>3, <2>4, CallMoves
    <2> QED BY <1>0, <2>1, <2>2, <2>3, <2>5 DEF WritesGrow, CallsInv
  <1>5. ASSUME NEW w \in DOMAIN work, Clear(w), filled PROVE ReadInv'
    <2> DEFINE c == [work[w] EXCEPT !.stage = "announcing"]
    <2>1. /\ work[w].stage = "running" /\ work[w].method = "clear" /\ holder' = w
          /\ writes' = Append(writes, w) /\ UNCHANGED <<js, subject>>
      BY <1>5 DEF Clear, Executes, Write
    <2>2. /\ c \in AsyncContext /\ work' = [work EXCEPT ![w] = c]
          /\ c.method = work[w].method /\ c.after = work[w].after
          /\ c.seen = work[w].seen /\ c.stage = "announcing"
      BY <1>0, <1>5, <2>1, WorkFields DEF Clear, Executes, Write, AsyncContext
    <2> HIDE DEF c
    <2>3. w \in Calls /\ WritesGrow /\ (\E i \in 1..Len(writes') : writes'[i] = w)
      BY <1>0, <2>1, WorkFields, AppendedWrite
    <2>4. c.seen <= Len(writes') /\ ~ Read(c)
      BY <1>0, <2>1, <2>2, <2>3, WorkFields DEF SeenIsPast, WritesGrow, Read
    <2>5. /\ work' \in Seq(AsyncContext) /\ Len(work') = Len(work) /\ DOMAIN work' = DOMAIN work
          /\ \A v \in DOMAIN work : work'[v] = IF v = w THEN c ELSE work[v]
          /\ CallsInv'
      BY <2>1, <2>2, <2>3, <2>4, CallMoves
    <2> QED BY <1>0, <2>1, <2>2, <2>3, <2>5 DEF WritesGrow, CallsInv
  <1>6. ASSUME NEW w \in DOMAIN work, Clear(w), ~ filled PROVE ReadInv'
    <2> DEFINE c == [work[w] EXCEPT !.stage = "done"]
    <2>1. work[w].stage = "running" /\ work[w].method = "clear" /\ UNCHANGED <<writes, holder, js, subject>>
      BY <1>6 DEF Clear, Executes
    <2>2. /\ c \in AsyncContext /\ work' = [work EXCEPT ![w] = c]
          /\ c.method = work[w].method /\ c.after = work[w].after
          /\ c.seen = work[w].seen /\ c.stage = "done"
      BY <1>0, <1>6, <2>1, WorkFields DEF Clear, Executes, AsyncContext
    <2> HIDE DEF c
    <2>3. WritesGrow
      BY <1>0, <2>1, SameWrites
    <2>4. /\ c.seen <= Len(writes')
          /\ Written(c) => \E i \in 1..Len(writes') : writes'[i] = w
          /\ Read(c) => c.seen = Len(writes') \/ (Read(work[w]) /\ c.seen = work[w].seen)
      BY <1>0, <2>1, <2>2, WorkFields DEF SeenIsPast, CopiesAreWritten, Read, Written
    <2>5. /\ work' \in Seq(AsyncContext) /\ Len(work') = Len(work) /\ DOMAIN work' = DOMAIN work
          /\ \A v \in DOMAIN work : work'[v] = IF v = w THEN c ELSE work[v]
          /\ CallsInv'
      BY <2>1, <2>2, <2>3, <2>4, CallMoves
    <2> QED BY <1>0, <2>1, <2>2, <2>5 DEF CallsInv
  <1>7. ASSUME NEW w \in DOMAIN work, StartWork(w) PROVE ReadInv'
    <2> DEFINE c == [work[w] EXCEPT !.stage = "running"]
    <2>1. work[w].stage = "queued" /\ UNCHANGED <<writes, holder, js, subject>>
      BY <1>7 DEF StartWork
    <2>2. /\ c \in AsyncContext /\ work' = [work EXCEPT ![w] = c]
          /\ c.method = work[w].method /\ c.after = work[w].after
          /\ c.seen = work[w].seen /\ c.stage = "running"
      BY <1>0, <1>7, <2>1, WorkFields DEF StartWork, AsyncContext
    <2> HIDE DEF c
    <2>3. WritesGrow
      BY <1>0, <2>1, SameWrites
    <2>4. /\ c.seen <= Len(writes')
          /\ Written(c) => \E i \in 1..Len(writes') : writes'[i] = w
          /\ Read(c) => c.seen = Len(writes') \/ (Read(work[w]) /\ c.seen = work[w].seen)
      BY <1>0, <2>1, <2>2, WorkFields DEF SeenIsPast, CopiesAreWritten, Read, Written
    <2>5. /\ work' \in Seq(AsyncContext) /\ Len(work') = Len(work) /\ DOMAIN work' = DOMAIN work
          /\ \A v \in DOMAIN work : work'[v] = IF v = w THEN c ELSE work[v]
          /\ CallsInv'
      BY <2>1, <2>2, <2>3, <2>4, CallMoves
    <2> QED BY <1>0, <2>1, <2>2, <2>5 DEF CallsInv
  <1>8. ASSUME NEW w \in DOMAIN work, HasPasteData(w) PROVE ReadInv'
    <2> DEFINE c == [work[w] EXCEPT !.stage = "done", !.seen = Len(writes)]
    <2>1. work[w].stage = "running" /\ work[w].method = "has" /\ UNCHANGED <<writes, holder, js, subject>>
      BY <1>8 DEF HasPasteData, Executes
    <2>2. /\ c \in AsyncContext /\ work' = [work EXCEPT ![w] = c]
          /\ c.method = work[w].method /\ c.after = work[w].after
          /\ c.seen = Len(writes) /\ c.stage = "done"
      BY <1>0, <1>8, <2>1, WorkFields DEF HasPasteData, Executes, AsyncContext
    <2> HIDE DEF c
    <2>3. WritesGrow
      BY <1>0, <2>1, SameWrites
    <2>4. /\ c.seen <= Len(writes')
          /\ Written(c) => \E i \in 1..Len(writes') : writes'[i] = w
          /\ Read(c) => c.seen = Len(writes') \/ (Read(work[w]) /\ c.seen = work[w].seen)
      BY <1>0, <2>1, <2>2, WorkFields DEF SeenIsPast, CopiesAreWritten, Read, Written
    <2>5. /\ work' \in Seq(AsyncContext) /\ Len(work') = Len(work) /\ DOMAIN work' = DOMAIN work
          /\ \A v \in DOMAIN work : work'[v] = IF v = w THEN c ELSE work[v]
          /\ CallsInv'
      BY <2>1, <2>2, <2>3, <2>4, CallMoves
    <2> QED BY <1>0, <2>1, <2>2, <2>5 DEF CallsInv
  <1>9. ASSUME NEW w \in DOMAIN work, GetPasteData(w) PROVE ReadInv'
    <2> DEFINE c == [work[w] EXCEPT !.stage = "done"]
    <2>1. work[w].stage = "running" /\ work[w].method = "get" /\ UNCHANGED <<writes, holder, js, subject>>
      BY <1>9 DEF GetPasteData, Executes
    <2>2. /\ c \in AsyncContext /\ work' = [work EXCEPT ![w] = c]
          /\ c.method = work[w].method /\ c.after = work[w].after
          /\ c.seen = work[w].seen /\ c.stage = "done"
      BY <1>0, <1>9, <2>1, WorkFields DEF GetPasteData, Executes, AsyncContext
    <2> HIDE DEF c
    <2>3. WritesGrow
      BY <1>0, <2>1, SameWrites
    <2>4. /\ c.seen <= Len(writes')
          /\ Written(c) => \E i \in 1..Len(writes') : writes'[i] = w
          /\ Read(c) => c.seen = Len(writes') \/ (Read(work[w]) /\ c.seen = work[w].seen)
      BY <1>0, <2>1, <2>2, WorkFields DEF SeenIsPast, CopiesAreWritten, Read, Written
    <2>5. /\ work' \in Seq(AsyncContext) /\ Len(work') = Len(work) /\ DOMAIN work' = DOMAIN work
          /\ \A v \in DOMAIN work : work'[v] = IF v = w THEN c ELSE work[v]
          /\ CallsInv'
      BY <2>1, <2>2, <2>3, <2>4, CallMoves
    <2> QED BY <1>0, <2>1, <2>2, <2>5 DEF CallsInv
  <1>10. ASSUME NEW w \in DOMAIN work, Complete(w) PROVE ReadInv'
    <2> DEFINE c == [work[w] EXCEPT !.stage = "settled"]
    <2>1. work[w].stage = "done" /\ work[w].method # "get" /\ js = "idle" /\ UNCHANGED <<writes, holder, js, subject>>
      BY <1>10 DEF Complete
    <2>2. /\ c \in AsyncContext /\ work' = [work EXCEPT ![w] = c]
          /\ c.method = work[w].method /\ c.after = work[w].after
          /\ c.seen = work[w].seen /\ c.stage = "settled"
      BY <1>0, <1>10, <2>1, WorkFields DEF Complete, AsyncContext
    <2> HIDE DEF c
    <2>3. WritesGrow
      BY <1>0, <2>1, SameWrites
    <2>4. /\ c.seen <= Len(writes')
          /\ Written(c) => \E i \in 1..Len(writes') : writes'[i] = w
          /\ Read(c) => c.seen = Len(writes') \/ (Read(work[w]) /\ c.seen = work[w].seen)
      BY <1>0, <2>1, <2>2, WorkFields DEF SeenIsPast, CopiesAreWritten, Read, Written
    <2>5. /\ work' \in Seq(AsyncContext) /\ Len(work') = Len(work) /\ DOMAIN work' = DOMAIN work
          /\ \A v \in DOMAIN work : work'[v] = IF v = w THEN c ELSE work[v]
          /\ CallsInv'
      BY <2>1, <2>2, <2>3, <2>4, CallMoves
    <2> QED BY <1>0, <2>1, <2>2, <2>5 DEF CallsInv
  <1>11. ASSUME NEW w \in DOMAIN work, Announced, holder = w, w \in Calls PROVE ReadInv'
    <2> DEFINE c == [work[w] EXCEPT !.stage = "done"]
    <2>1. /\ work[w].stage = "announcing" /\ work[w].method # "has"
          /\ holder' = Nobody /\ UNCHANGED <<writes, js, subject>>
      BY <1>11 DEF Announced, Other, Calls
    <2>0. holder # Other
      BY <1>11 DEF Other, Calls
    <2>2. /\ c \in AsyncContext /\ work' = [work EXCEPT ![w] = c]
          /\ c.method = work[w].method /\ c.after = work[w].after
          /\ c.seen = work[w].seen /\ c.stage = "done"
      BY <1>0, <1>11, <2>0, <2>1, WorkFields DEF Announced, AsyncContext
    <2> HIDE DEF c
    <2>3. WritesGrow
      BY <1>0, <2>1, SameWrites
    <2>4. /\ c.seen <= Len(writes')
          /\ Written(c) => \E i \in 1..Len(writes') : writes'[i] = w
          /\ Read(c) => c.seen = Len(writes') \/ (Read(work[w]) /\ c.seen = work[w].seen)
      BY <1>0, <2>1, <2>2, WorkFields DEF SeenIsPast, CopiesAreWritten, Read, Written
    <2>5. /\ work' \in Seq(AsyncContext) /\ Len(work') = Len(work) /\ DOMAIN work' = DOMAIN work
          /\ \A v \in DOMAIN work : work'[v] = IF v = w THEN c ELSE work[v]
          /\ CallsInv'
      BY <2>1, <2>2, <2>3, <2>4, CallMoves
    <2> QED BY <1>0, <2>1, <2>2, <2>5 DEF Nobody, Calls
  <1>12. ASSUME NEW w \in DOMAIN work, ReadClip, subject = w PROVE ReadInv'
    <2> DEFINE c == [work[w] EXCEPT !.stage = "settled", !.seen = Len(writes)]
    <2>1. /\ work[w].stage = "done" /\ work[w].method = "get"
          /\ js' = "idle" /\ UNCHANGED <<writes, holder>>
      BY <1>12 DEF ReadClip
    <2>2. /\ c \in AsyncContext /\ work' = [work EXCEPT ![w] = c]
          /\ c.method = work[w].method /\ c.after = work[w].after
          /\ c.seen = Len(writes) /\ c.stage = "settled"
      BY <1>0, <1>12, <2>1, WorkFields DEF ReadClip, AsyncContext
    <2> HIDE DEF c
    <2>3. WritesGrow
      BY <1>0, <2>1, SameWrites
    <2>4. /\ c.seen <= Len(writes')
          /\ Written(c) => \E i \in 1..Len(writes') : writes'[i] = w
          /\ Read(c) => c.seen = Len(writes') \/ (Read(work[w]) /\ c.seen = work[w].seen)
      BY <1>0, <2>1, <2>2, WorkFields DEF SeenIsPast, CopiesAreWritten, Read, Written
    <2>5. /\ work' \in Seq(AsyncContext) /\ Len(work') = Len(work) /\ DOMAIN work' = DOMAIN work
          /\ \A v \in DOMAIN work : work'[v] = IF v = w THEN c ELSE work[v]
          /\ CallsInv'
      BY <2>1, <2>2, <2>3, <2>4, CallMoves
    <2> QED BY <1>0, <2>1, <2>2, <2>5 DEF CallsInv
  <1>13. ASSUME Announced, holder \notin Calls PROVE ReadInv'
    <2>1. holder = Other
      BY <1>13 DEF Announced
    <2> QED BY <1>13, <2>1, CallsKept DEF Announced, Nobody, Calls
  <1>14. ASSUME NEW w \in DOMAIN work, CompleteGet(w) PROVE ReadInv'
    BY <1>14, CallsKept DEF CompleteGet
  <1>15. ASSUME NEW r \in Refs, OnPasteboardChanged(r) \/ UvQueueWorkOnPasteboardChanged(r) PROVE ReadInv'
    BY <1>15, CallsKept DEF OnPasteboardChanged, UvQueueWorkOnPasteboardChanged
  <1>16. CASE AddObserver \/ InsertObserver \/ UNCHANGED vars
    BY <1>16, CallsKept DEF AddObserver, InsertObserver, vars
  <1>17. CASE Announced
    BY <1>11, <1>13, <1>17 DEF ControlFits
  <1>18. CASE ReadClip
    BY <1>12, <1>18 DEF ReadClip
  <1> QED
    BY <1>1, <1>2, <1>3, <1>4, <1>5, <1>6, <1>7, <1>8, <1>9, <1>10, <1>14, <1>15, <1>16, <1>17, <1>18,
       NextSteps

-----------------------------------------------------------------------------
\* hasPasteData and getPasteData see every setPasteData that had settled when they were
\* called, or something newer, on any number of pool threads: the order of completions
\* that the application observes is the order of the effects.
THEOREM AwaitedWritesAreSeen == Spec => []ReadsSeeAwaitedWrites
  <1>1. ReadInv => ReadsSeeAwaitedWrites
    BY DEF ReadInv
  <1> QED BY <1>1, ReadInvInit, ReadInvNext, PTL DEF Spec

-----------------------------------------------------------------------------
\* The parts of TypeOK that ReadInv leaves, and what else the application's half keeps:
\* on has created the reference it adds.
ObservationOK ==
    /\ todo \subseteq registered /\ registered \subseteq Refs
    /\ js \in {"idle", "add", "insert", "get"}
    /\ js \in {"add", "insert"} => subject \in 1..Len(function)
    /\ subject \in Calls \cup Refs \cup {0}
    /\ function \in Seq(Function) /\ Len(function) <= MaxRefs
    /\ observers \subseteq 1..Len(function) /\ isOff \subseteq observers
    /\ queue \in [Refs -> Seq(BOOLEAN)] /\ told \in [Refs -> Nat]
    /\ off \subseteq Function
    /\ ChangesAreOnTheirWay

\* A change is announced on the thread of the call that made it.
AnnouncingOK ==
    /\ holder = Nobody => todo = {}
    /\ \A w \in DOMAIN work : work[w].stage = "announcing" <=> holder = w

PoolOK == Cardinality(Busy) <= PoolSize

LEMMA ObservationOKInit == Init => ObservationOK
  <1> SUFFICES ASSUME Init PROVE ObservationOK
    OBVIOUS
  <1>1. function \in Seq(Function) /\ Len(function) = 0
    BY EmptySeq DEF Init
  <1> QED BY <1>1, BoundsAssumption DEF Init, ObservationOK, ChangesAreOnTheirWay

\* on and off make a new reference.
LEMMA NewReference ==
    ASSUME ObservationOK, NEW f \in Function, Len(function) < MaxRefs,
           function' = Append(function, f)
    PROVE  /\ function' \in Seq(Function)
           /\ Len(function) \in Nat /\ Len(function') = Len(function) + 1
           /\ Len(function') <= MaxRefs /\ Len(function') \in Refs
  BY AppendProperties, LenProperties, BoundsAssumption DEF ObservationOK, Refs

\* A callback more in a queue.
LEMMA QueuedCallback ==
    ASSUME NEW calls \in Seq(BOOLEAN), NEW isOffNow \in BOOLEAN
    PROVE  /\ Append(calls, isOffNow) \in Seq(BOOLEAN) /\ Append(calls, isOffNow) # <<>>
           /\ Len(calls) \in Nat /\ Len(Append(calls, isOffNow)) = Len(calls) + 1
  <1>1. /\ Append(calls, isOffNow) \in Seq(BOOLEAN) /\ Len(calls) \in Nat
        /\ Len(Append(calls, isOffNow)) = Len(calls) + 1
    BY AppendProperties, LenProperties
  <1>2. Len(Append(calls, isOffNow)) # 0
    BY <1>1
  <1>3. \A s \in Seq(BOOLEAN) : Len(s) # 0 => s # <<>>
    BY EmptySeq
  <1> QED BY <1>1, <1>2, <1>3

LEMMA ObservationOKNext ==
    ASSUME ServiceType, AnnouncingOK, ObservationOK, [Next]_vars
    PROVE  ObservationOK'
  <1>1. Len(writes) \in Nat /\ Len(function) \in Nat /\ MaxRefs \in Nat /\ Refs = 1..MaxRefs
    BY LenProperties, BoundsAssumption DEF ServiceType, ObservationOK, Refs
  <1>2. CASE UNCHANGED <<todo, registered, writes, js, subject, observation>>
    BY <1>2 DEF observation, ObservationOK, ChangesAreOnTheirWay
  <1>3. ASSUME NEW v, NEW content, Write(v, content), v \in Calls \cup {Other},
               UNCHANGED <<registered, js, subject, observation>>
        PROVE  ObservationOK'
    BY <1>3 DEF Write, observation, ObservationOK, ChangesAreOnTheirWay
  <1>4. ASSUME NEW f \in Function, On(f)
        PROVE  ObservationOK'
    <2>1. /\ function' = Append(function, f) /\ Len(function) < MaxRefs
          /\ off' = off \ {f} /\ js' = "add" /\ subject' = Len(function) + 1
          /\ UNCHANGED <<todo, registered, writes, observers, isOff, queue, told>>
      BY <1>4 DEF On, service
    <2>2. /\ function' \in Seq(Function)
          /\ Len(function') = Len(function) + 1
          /\ Len(function') <= MaxRefs /\ Len(function') \in Refs
      BY <2>1, NewReference
    <2>3. observers' \subseteq 1..Len(function') /\ subject' \in 1..Len(function')
      BY <1>1, <2>1, <2>2 DEF ObservationOK
    <2> QED BY <2>1, <2>2, <2>3 DEF ObservationOK, ChangesAreOnTheirWay
  <1>5. ASSUME NEW f \in Function, Off(f)
        PROVE  ObservationOK'
    <2>1. GetPasteboardObserverIns(Len(function) + 1) = {}
      BY <1>1 DEF GetPasteboardObserverIns, ObservationOK
    <2>2. /\ function' = Append(function, f) /\ Len(function) < MaxRefs
          /\ off' = off \cup {f} /\ isOff' = isOff /\ registered' = registered
          /\ js = "idle"
          /\ UNCHANGED <<todo, writes, js, subject, observers, queue, told>>
      BY <1>5, <2>1 DEF Off
    <2>3. /\ function' \in Seq(Function)
          /\ Len(function') = Len(function) + 1
          /\ Len(function') <= MaxRefs
      BY <2>2, NewReference
    <2>4. observers' \subseteq 1..Len(function')
      BY <1>1, <2>2, <2>3 DEF ObservationOK
    <2> QED BY <2>2, <2>3, <2>4 DEF ObservationOK, ChangesAreOnTheirWay
  <1>6. CASE AddObserver
    <2>1. /\ js = "add" /\ todo = {} /\ registered' = registered \cup {subject}
          /\ told' = [told EXCEPT ![subject] = Len(writes)] /\ js' = "insert"
          /\ UNCHANGED <<todo, writes, subject, function, observers, isOff, queue, off>>
      BY <1>6 DEF AddObserver, AnnouncingOK
    <2>2. subject \in Refs /\ subject \in 1..Len(function)
      BY <1>1, <2>1 DEF ObservationOK
    <2>3. told' \in [Refs -> Nat] /\ registered' \subseteq Refs
      BY <1>1, <2>1, <2>2 DEF ObservationOK
    <2>4. ASSUME NEW r \in registered', told'[r] < Len(writes')
          PROVE  r \in todo' \/ queue'[r] # <<>>
      <3>1. r # subject
        BY <1>1, <2>1, <2>2, <2>4 DEF ObservationOK
      <3>2. r \in registered /\ told'[r] = told[r]
        BY <2>1, <3>1 DEF ObservationOK
      <3> QED BY <2>1, <2>4, <3>2 DEF ObservationOK, ChangesAreOnTheirWay
    <2> QED BY <2>1, <2>2, <2>3, <2>4 DEF ObservationOK, ChangesAreOnTheirWay
  <1>7. CASE InsertObserver
    BY <1>7 DEF InsertObserver, service, ObservationOK, ChangesAreOnTheirWay
  <1>8. ASSUME NEW r \in Refs, OnPasteboardChanged(r)
        PROVE  ObservationOK'
    <2>1. /\ todo' = todo \ {r} /\ queue' = [queue EXCEPT ![r] = Append(@, r \in isOff)]
          /\ UNCHANGED <<registered, writes, js, subject, function, observers, isOff, told, off>>
      BY <1>8 DEF OnPasteboardChanged
    <2>2. /\ queue' \in [Refs -> Seq(BOOLEAN)] /\ queue'[r] # <<>>
          /\ \A s \in Refs : s # r => queue'[s] = queue[s]
      <3>1. queue \in [Refs -> Seq(BOOLEAN)]
        BY DEF ObservationOK
      <3>2. Append(queue[r], r \in isOff) \in Seq(BOOLEAN) /\ Append(queue[r], r \in isOff) # <<>>
        <4> DEFINE now == r \in isOff
        <4>1. now \in BOOLEAN /\ queue[r] \in Seq(BOOLEAN)
          BY <3>1
        <4> HIDE DEF now
        <4>2. Append(queue[r], now) \in Seq(BOOLEAN) /\ Append(queue[r], now) # <<>>
          BY <4>1, QueuedCallback
        <4> QED BY <4>2 DEF now
      <3> QED BY <2>1, <3>1, <3>2
    <2> QED BY <2>1, <2>2 DEF ObservationOK, ChangesAreOnTheirWay
  <1>9. ASSUME NEW r \in Refs, UvQueueWorkOnPasteboardChanged(r)
        PROVE  ObservationOK'
    <2>1. /\ queue[r] # <<>>
          /\ queue' = [queue EXCEPT ![r] = Tail(@)] /\ told' = [told EXCEPT ![r] = Len(writes)]
          /\ observers' \subseteq observers /\ isOff' = isOff \cap observers'
          /\ UNCHANGED <<todo, registered, writes, js, subject, function, off>>
      BY <1>9 DEF UvQueueWorkOnPasteboardChanged, service
    <2>2. /\ queue' \in [Refs -> Seq(BOOLEAN)] /\ told' \in [Refs -> Nat] /\ told'[r] = Len(writes)
          /\ \A s \in Refs : s # r => queue'[s] = queue[s] /\ told'[s] = told[s]
      <3>1. Tail(queue[r]) \in Seq(BOOLEAN)
        BY <2>1, HeadTailProperties DEF ObservationOK
      <3>2. queue' \in [Refs -> Seq(BOOLEAN)] /\ \A s \in Refs : s # r => queue'[s] = queue[s]
        BY <2>1, <3>1 DEF ObservationOK
      <3>3. /\ told' \in [Refs -> Nat] /\ told'[r] = Len(writes)
            /\ \A s \in Refs : s # r => told'[s] = told[s]
        BY <1>1, <2>1 DEF ObservationOK
      <3> QED BY <3>2, <3>3
    <2>3. isOff' \subseteq observers' /\ observers' \subseteq 1..Len(function')
      BY <2>1 DEF ObservationOK
    <2>4. ChangesAreOnTheirWay'
      BY <1>1, <2>1, <2>2 DEF ObservationOK, ChangesAreOnTheirWay
    <2> QED BY <2>1, <2>2, <2>3, <2>4 DEF ObservationOK
  <1>10. CASE ReadClip
    BY <1>10 DEF ReadClip, service, observation, ObservationOK, ChangesAreOnTheirWay
  <1>11. ASSUME NEW w \in DOMAIN work, CompleteGet(w)
         PROVE  ObservationOK'
    <2>1. w \in Calls
      BY <1>11, WorkFields
    <2> QED BY <1>11, <2>1 DEF CompleteGet, service, observation, ObservationOK, ChangesAreOnTheirWay
  <1>12. ASSUME NEW w \in DOMAIN work, SetPasteData(w) \/ (Clear(w) /\ filled)
         PROVE  ObservationOK'
    <2>1. w \in Calls
      BY <1>12, WorkFields
    <2> QED BY <1>3, <1>12, <2>1 DEF SetPasteData, Clear
  <1>13. ASSUME NEW content, OtherWrites(content)
         PROVE  ObservationOK'
    BY <1>3, <1>13 DEF OtherWrites
  <1>14. ASSUME NEW w, \/ StartWork(w) \/ HasPasteData(w) \/ GetPasteData(w) \/ Complete(w)
                       \/ Clear(w) /\ ~ filled
         PROVE  ObservationOK'
    BY <1>2, <1>14 DEF StartWork, HasPasteData, GetPasteData, Complete, Clear, service
  <1>15. CASE Announced \/ (\E m : Issue(m)) \/ UNCHANGED vars
    BY <1>2, <1>15 DEF Announced, Issue, vars, service
  <1> QED
    BY <1>4, <1>5, <1>6, <1>7, <1>8, <1>9, <1>10, <1>11, <1>12, <1>13, <1>14, <1>15, NextSteps

\* The stages of the calls after one call has another.
LEMMA StageMoves ==
    ASSUME ServiceType, NEW w \in DOMAIN work, NEW stage,
           \/ work' = [work EXCEPT ![w].stage = stage]
           \/ \E seen : work' = [work EXCEPT ![w].stage = stage, ![w].seen = seen]
    PROVE  /\ DOMAIN work' = DOMAIN work
           /\ \A v \in DOMAIN work : work'[v].stage = IF v = w THEN stage ELSE work[v].stage
  <1>1. work[w] \in AsyncContext
    BY WorkFields
  <1>2. CASE work' = [work EXCEPT ![w].stage = stage]
    BY <1>1, <1>2 DEF AsyncContext
  <1>3. ASSUME NEW seen, work' = [work EXCEPT ![w].stage = stage, ![w].seen = seen]
        PROVE  /\ DOMAIN work' = DOMAIN work
               /\ \A v \in DOMAIN work : work'[v].stage = IF v = w THEN stage ELSE work[v].stage
    BY <1>1, <1>3 DEF AsyncContext
  <1> QED BY <1>2, <1>3

LEMMA IssueMoves ==
    ASSUME ServiceType, NEW m, Issue(m)
    PROVE  /\ DOMAIN work' = DOMAIN work \cup {Len(work) + 1}
           /\ \A v \in DOMAIN work : work'[v] = work[v]
           /\ work'[Len(work) + 1].stage = "queued"
           /\ Len(work) + 1 \in Calls
  <1>1. work \in Seq(AsyncContext) /\ DOMAIN work = 1..Len(work) /\ Len(work) \in Nat
    BY LenProperties DEF ServiceType
  <1>2. PICK c : c.stage = "queued" /\ work' = Append(work, c) /\ Len(work) < MaxCalls
    BY DEF Issue
  <1>3. /\ DOMAIN work' = DOMAIN work \cup {Len(work) + 1}
        /\ \A v \in DOMAIN work : work'[v] = work[v]
        /\ work'[Len(work) + 1] = c
    BY <1>1, <1>2
  <1> QED BY <1>1, <1>2, <1>3, BoundsAssumption DEF Calls

LEMMA AnnouncingOKNext ==
    ASSUME ReadInv, ObservationOK, AnnouncingOK, [Next]_vars
    PROVE  AnnouncingOK'
  <1> USE DEF AnnouncingOK
  <1>1. ServiceType /\ Other \notin Calls /\ Nobody \notin Calls /\ DOMAIN work \subseteq Calls /\ Other # Nobody
    BY WorkFields, BoundsAssumption DEF ReadInv, Other, Nobody, Calls
  <1>2. CASE UNCHANGED <<holder, todo, work>>
    BY <1>2
  <1>3. CASE UNCHANGED <<holder, work>> /\ holder # Nobody
    BY <1>3
  <1>4. ASSUME NEW w \in DOMAIN work, NEW stage, stage # "announcing", work[w].stage # "announcing",
               \/ work' = [work EXCEPT ![w].stage = stage]
               \/ \E seen : work' = [work EXCEPT ![w].stage = stage, ![w].seen = seen],
               UNCHANGED <<holder, todo>>
        PROVE  AnnouncingOK'
    <2>1. /\ DOMAIN work' = DOMAIN work
          /\ \A v \in DOMAIN work : work'[v].stage = IF v = w THEN stage ELSE work[v].stage
      BY <1>1, <1>4, StageMoves
    <2> QED BY <1>4, <2>1
  <1>5. ASSUME NEW m, Issue(m)
        PROVE  AnnouncingOK'
    <2>1. /\ DOMAIN work' = DOMAIN work \cup {Len(work) + 1}
          /\ \A v \in DOMAIN work : work'[v] = work[v]
          /\ work'[Len(work) + 1].stage = "queued"
          /\ Len(work) + 1 \in Calls
      BY <1>1, <1>5, IssueMoves
    <2>2. UNCHANGED <<holder, todo>>
      BY <1>5 DEF Issue, service
    <2>3. holder # Len(work) + 1
      <3>1. Len(work) + 1 \notin DOMAIN work
        BY <1>1, LenProperties DEF ServiceType
      <3> QED BY <2>1, <3>1 DEF ReadInv, ControlFits
    <2> QED BY <2>1, <2>2, <2>3
  <1>6. ASSUME NEW w \in DOMAIN work, SetPasteData(w) \/ (Clear(w) /\ filled)
        PROVE  AnnouncingOK'
    <2>1. /\ holder = Nobody /\ holder' = w
          /\ work' = [work EXCEPT ![w].stage = "announcing"]
      BY <1>6 DEF SetPasteData, Clear, Executes, Write
    <2>2. /\ DOMAIN work' = DOMAIN work
          /\ \A v \in DOMAIN work :
               work'[v].stage = IF v = w THEN "announcing" ELSE work[v].stage
      BY <1>1, <2>1, StageMoves
    <2> QED BY <1>1, <2>1, <2>2
  <1>7. ASSUME NEW content, OtherWrites(content)
        PROVE  AnnouncingOK'
    BY <1>1, <1>7 DEF OtherWrites, Write
  <1>8. ASSUME NEW r, OnPasteboardChanged(r)
        PROVE  AnnouncingOK'
    BY <1>8 DEF OnPasteboardChanged
  <1>9. CASE Announced
    <2>1. holder # Nobody /\ todo' = {} /\ holder' = Nobody
      BY <1>9 DEF Announced
    <2>2. CASE holder = Other
      BY <1>1, <1>9, <2>1, <2>2 DEF Announced
    <2>3. CASE holder # Other
      <3>1. holder \in DOMAIN work
        BY <2>1, <2>3 DEF ReadInv, ServiceType, ControlFits
      <3>2. work' = [work EXCEPT ![holder].stage = "done"]
        BY <1>9, <2>3 DEF Announced
      <3>3. /\ DOMAIN work' = DOMAIN work
            /\ \A v \in DOMAIN work :
                 work'[v].stage = IF v = holder THEN "done" ELSE work[v].stage
        BY <1>1, <3>1, <3>2, StageMoves
      <3> QED BY <1>1, <2>1, <3>3
    <2> QED BY <2>2, <2>3
  <1>10. ASSUME NEW w \in DOMAIN work,
                \/ StartWork(w) \/ HasPasteData(w) \/ GetPasteData(w) \/ Complete(w)
                \/ Clear(w) /\ ~ filled
         PROVE  AnnouncingOK'
    <2>1. UNCHANGED <<holder, todo>> /\ work[w].stage \in {"queued", "running", "done"}
      BY <1>10 DEF StartWork, HasPasteData, GetPasteData, Complete, Clear, Executes, service
    <2>2. PICK stage \in {"running", "done", "settled"} :
            \/ work' = [work EXCEPT ![w].stage = stage]
            \/ \E seen : work' = [work EXCEPT ![w].stage = stage, ![w].seen = seen]
      BY <1>10 DEF StartWork, HasPasteData, GetPasteData, Complete, Clear
    <2>3. stage # "announcing" /\ work[w].stage # "announcing"
      BY <2>1
    <2> HIDE DEF AnnouncingOK
    <2>4. CASE work' = [work EXCEPT ![w].stage = stage]
      BY <1>4, <2>1, <2>3, <2>4
    <2>5. CASE \E seen : work' = [work EXCEPT ![w].stage = stage, ![w].seen = seen]
      BY <1>4, <2>1, <2>3, <2>5
    <2> QED BY <2>2, <2>4, <2>5
  <1>11. CASE ReadClip
    <2>1. /\ subject \in DOMAIN work /\ work[subject].stage = "done"
          /\ UNCHANGED <<holder, todo>>
          /\ work' = [work EXCEPT ![subject].stage = "settled", ![subject].seen = Len(writes)]
      BY <1>11 DEF ReadClip, ReadInv, ControlFits, service
    <2> QED BY <1>4, <2>1
  <1>12. ASSUME NEW f, On(f) \/ Off(f)
         PROVE  AnnouncingOK'
    BY <1>2, <1>12 DEF On, Off, service
  <1>13. CASE \/ AddObserver \/ InsertObserver \/ UNCHANGED vars
              \/ \E w : CompleteGet(w)
              \/ \E r : UvQueueWorkOnPasteboardChanged(r)
    BY <1>2, <1>13 DEF AddObserver, InsertObserver, CompleteGet, UvQueueWorkOnPasteboardChanged,
                       vars, service
  <1> QED
    BY <1>5, <1>6, <1>7, <1>8, <1>9, <1>10, <1>11, <1>12, <1>13, NextSteps

\* The pool: a work starts only on a free thread, and every other step keeps the threads
\* that work, or frees one.
LEMMA PoolOKNext ==
    ASSUME ReadInv, AnnouncingOK, PoolOK, [Next]_vars
    PROVE  PoolOK'
  <1>1. ServiceType /\ Len(work) \in Nat /\ DOMAIN work = 1..Len(work) /\ PoolSize \in Nat
    BY LenProperties, BoundsAssumption DEF ReadInv, ServiceType
  <1>2. IsFiniteSet(Busy) /\ Cardinality(Busy) \in Nat
    <2>1. IsFiniteSet(1..Len(work)) /\ Busy \subseteq 1..Len(work)
      BY <1>1, FS_Interval DEF Busy
    <2> QED BY <2>1, FS_Subset, FS_CardinalityType
  <1>3. CASE Busy' \subseteq Busy
    <2>1. IsFiniteSet(Busy') /\ Cardinality(Busy') <= Cardinality(Busy)
      BY <1>2, <1>3, FS_Subset
    <2>2. Cardinality(Busy') \in Nat
      BY <2>1, FS_CardinalityType
    <2> QED BY <1>1, <1>2, <2>1, <2>2 DEF PoolOK
  <1>4. ASSUME NEW w \in DOMAIN work, StartWork(w)
        PROVE  PoolOK'
    <2>1. /\ work[w].stage = "queued" /\ Cardinality(Busy) < PoolSize
          /\ work' = [work EXCEPT ![w].stage = "running"]
      BY <1>4 DEF StartWork
    <2>2. /\ DOMAIN work' = DOMAIN work
          /\ \A v \in DOMAIN work : work'[v].stage = IF v = w THEN "running" ELSE work[v].stage
      BY <1>1, <2>1, StageMoves
    <2>3. Busy' = Busy \cup {w} /\ w \notin Busy
      BY <2>1, <2>2 DEF Busy
    <2>4. Cardinality(Busy') = Cardinality(Busy) + 1
      BY <1>2, <2>3, FS_AddElement
    <2> QED BY <1>1, <1>2, <2>1, <2>4 DEF PoolOK
  <1>5. ASSUME NEW w \in DOMAIN work, NEW stage,
               work[w].stage \in {"running", "announcing"} \/ stage \notin {"running", "announcing"},
               \/ work' = [work EXCEPT ![w].stage = stage]
               \/ \E seen : work' = [work EXCEPT ![w].stage = stage, ![w].seen = seen]
        PROVE  Busy' \subseteq Busy
    <2>1. /\ DOMAIN work' = DOMAIN work
          /\ \A v \in DOMAIN work : work'[v].stage = IF v = w THEN stage ELSE work[v].stage
      BY <1>1, <1>5, StageMoves
    <2> QED BY <1>5, <2>1 DEF Busy
  <1>6. ASSUME NEW m, Issue(m)
        PROVE  Busy' \subseteq Busy
    <2>1. /\ DOMAIN work' = DOMAIN work \cup {Len(work) + 1}
          /\ \A v \in DOMAIN work : work'[v] = work[v]
          /\ work'[Len(work) + 1].stage = "queued"
      BY <1>1, <1>6, IssueMoves
    <2> QED BY <2>1 DEF Busy
  <1>7. ASSUME NEW w \in DOMAIN work,
               \/ SetPasteData(w) \/ Clear(w) \/ HasPasteData(w) \/ GetPasteData(w) \/ Complete(w)
        PROVE  Busy' \subseteq Busy
    <2>1. CASE SetPasteData(w) \/ (Clear(w) /\ filled)
      <3>1. work[w].stage = "running" /\ work' = [work EXCEPT ![w].stage = "announcing"]
        BY <2>1 DEF SetPasteData, Clear, Executes
      <3> QED BY <1>5, <3>1
    <2>2. CASE HasPasteData(w) \/ GetPasteData(w) \/ Complete(w) \/ (Clear(w) /\ ~ filled)
      <3>1. \E stage \in {"done", "settled"} :
              \/ work' = [work EXCEPT ![w].stage = stage]
              \/ \E seen : work' = [work EXCEPT ![w].stage = stage, ![w].seen = seen]
        BY <2>2 DEF HasPasteData, GetPasteData, Complete, Clear
      <3> QED BY <1>5, <3>1
    <2> QED BY <1>7, <2>1, <2>2
  <1>8. ASSUME Announced PROVE Busy' \subseteq Busy
    <2>1. CASE holder = Other
      BY <1>8, <2>1 DEF Announced, Busy
    <2>2. CASE holder # Other
      <3>1. holder \in DOMAIN work /\ work' = [work EXCEPT ![holder].stage = "done"]
        BY <1>8, <2>2 DEF Announced, ReadInv, ServiceType, ControlFits
      <3>2. "done" \notin {"running", "announcing"}
        OBVIOUS
      <3> QED BY <1>5, <3>1, <3>2
    <2> QED BY <2>1, <2>2
  <1>9. ASSUME ReadClip PROVE Busy' \subseteq Busy
    <2>1. /\ subject \in DOMAIN work
          /\ work' = [work EXCEPT ![subject].stage = "settled", ![subject].seen = Len(writes)]
      BY <1>9 DEF ReadClip, ReadInv, ControlFits
    <2>2. "settled" \notin {"running", "announcing"}
      OBVIOUS
    <2> QED BY <1>5, <2>1, <2>2
  <1>10. CASE UNCHANGED work
    BY <1>3, <1>10 DEF Busy
  <1>11. CASE \/ \E f : On(f) \/ Off(f)
              \/ \E content : OtherWrites(content)
              \/ \E w : CompleteGet(w)
              \/ \E r : OnPasteboardChanged(r) \/ UvQueueWorkOnPasteboardChanged(r)
              \/ AddObserver \/ InsertObserver \/ UNCHANGED vars
    BY <1>10, <1>11
       DEF On, Off, OtherWrites, CompleteGet, OnPasteboardChanged, UvQueueWorkOnPasteboardChanged,
           AddObserver, InsertObserver, vars
  <1> QED
    BY <1>3, <1>4, <1>6, <1>7, <1>8, <1>9, <1>11, NextSteps

LEMMA FilledNext ==
    ASSUME filled \in BOOLEAN, [Next]_vars
    PROVE  filled' \in BOOLEAN
  <1>1. CASE UNCHANGED filled
    BY <1>1
  <1>2. ASSUME NEW v, NEW content \in BOOLEAN, Write(v, content)
        PROVE  filled' \in BOOLEAN
    BY <1>2 DEF Write
  <1>3. CASE \/ \E m \in Methods : Issue(m)
             \/ \E f \in Function : On(f) \/ Off(f)
             \/ \E w \in DOMAIN work :
                  StartWork(w) \/ HasPasteData(w) \/ GetPasteData(w) \/ Complete(w) \/ CompleteGet(w)
             \/ \E r \in Refs : OnPasteboardChanged(r) \/ UvQueueWorkOnPasteboardChanged(r)
             \/ Announced \/ AddObserver \/ InsertObserver \/ ReadClip
             \/ UNCHANGED vars
    BY <1>1, <1>3
       DEF Issue, On, Off, StartWork, HasPasteData, GetPasteData, Complete, CompleteGet,
           OnPasteboardChanged, UvQueueWorkOnPasteboardChanged, Announced, AddObserver,
           InsertObserver, ReadClip, vars, service
  <1>4. CASE \E content \in BOOLEAN : OtherWrites(content)
    BY <1>2, <1>4 DEF OtherWrites
  <1>5. CASE \E w \in DOMAIN work : SetPasteData(w) \/ Clear(w)
    BY <1>1, <1>2, <1>5 DEF SetPasteData, Clear
  <1> QED BY <1>3, <1>4, <1>5, NextSteps

NapiInv == ReadInv /\ ObservationOK /\ AnnouncingOK /\ PoolOK /\ filled \in BOOLEAN

LEMMA NapiInvariance == Spec => []NapiInv
  <1>1. Init => NapiInv
    <2> SUFFICES ASSUME Init PROVE NapiInv
      OBVIOUS
    <2>1. DOMAIN work = {} /\ Busy = {}
      BY DEF Init, Busy
    <2>2. PoolOK
      BY <2>1, FS_EmptySet, BoundsAssumption DEF PoolOK
    <2>3. AnnouncingOK
      BY <2>1 DEF Init, AnnouncingOK
    <2>4. filled \in BOOLEAN
      BY DEF Init
    <2> QED BY <2>2, <2>3, <2>4, ReadInvInit, ObservationOKInit DEF NapiInv
  <1>2. NapiInv /\ [Next]_vars => NapiInv'
    <2> SUFFICES ASSUME NapiInv, [Next]_vars PROVE NapiInv'
      OBVIOUS
    <2>1. ServiceType
      BY DEF NapiInv, ReadInv
    <2>2. ReadInv' /\ ObservationOK' /\ AnnouncingOK' /\ PoolOK' /\ filled' \in BOOLEAN
      BY <2>1, ReadInvNext, ObservationOKNext, AnnouncingOKNext, PoolOKNext, FilledNext DEF NapiInv
    <2> QED BY <2>2 DEF NapiInv
  <1> QED BY <1>1, <1>2, PTL DEF Spec

\* Every variable keeps its type; a change is announced by the call that made it, whose
\* thread waits meanwhile, and never more threads work than the pool has.
THEOREM NapiTyped == Spec => []TypeOK
  <1>1. NapiInv => TypeOK
    BY DEF NapiInv, ReadInv, ServiceType, ObservationOK, AnnouncingOK, PoolOK, Busy, TypeOK
  <1> QED BY <1>1, NapiInvariance, PTL

\* No change is lost between the service and the event loop, however many references,
\* changes and applications there are: the safety half of EveryChangeCalledBack.
THEOREM NoChangeIsLost == Spec => []ChangesAreOnTheirWay
  <1>1. NapiInv => ChangesAreOnTheirWay
    BY DEF NapiInv, ObservationOK
  <1> QED BY <1>1, NapiInvariance, PTL

\* off of a function that was passed to on leaves its observer registered, for any number of
\* references: the one off creates is never among those the observers were made with.
THEOREM OffNeverUnregisters == Spec => [][registered \subseteq registered']_vars
  <1>1. NapiInv /\ [Next]_vars => [registered \subseteq registered']_vars
    <2> SUFFICES ASSUME NapiInv, [Next]_vars PROVE registered \subseteq registered'
      OBVIOUS
    <2> USE DEF service, observation, vars
    <2>1. ASSUME NEW f \in Function, Off(f) PROVE registered \subseteq registered'
      <3>1. observers \subseteq 1..Len(function) /\ Len(function) \in Nat
        BY LenProperties DEF NapiInv, ObservationOK
      <3>2. GetPasteboardObserverIns(Len(function) + 1) = {}
        BY <3>1 DEF GetPasteboardObserverIns
      <3> QED BY <2>1, <3>2 DEF Off
    <2>2. ASSUME NEW f \in Function, On(f) PROVE registered \subseteq registered'
      BY <2>2 DEF On
    <2>3. ASSUME NEW w \in DOMAIN work,
                 \/ StartWork(w) \/ SetPasteData(w) \/ Clear(w) \/ HasPasteData(w) \/ GetPasteData(w)
                 \/ Complete(w) \/ CompleteGet(w)
          PROVE  registered \subseteq registered'
      BY <2>3 DEF StartWork, SetPasteData, Clear, HasPasteData, GetPasteData, Complete, CompleteGet
    <2>4. ASSUME \/ \E m \in Methods : Issue(m)
                 \/ \E content \in BOOLEAN : OtherWrites(content)
                 \/ \E r \in Refs : OnPasteboardChanged(r) \/ UvQueueWorkOnPasteboardChanged(r)
                 \/ Announced \/ AddObserver \/ InsertObserver \/ ReadClip
                 \/ UNCHANGED vars
          PROVE  registered \subseteq registered'
      BY <2>4 DEF Issue, OtherWrites, OnPasteboardChanged, UvQueueWorkOnPasteboardChanged, Announced,
                  AddObserver, InsertObserver, ReadClip
    <2> QED BY <2>1, <2>2, <2>3, <2>4, NextSteps
  <1> QED BY <1>1, NapiInvariance, PTL DEF Spec

-----------------------------------------------------------------------------
\* Refinement: every step is one of AsyncPasteboard, or changes nothing of it.

EffectiveCall(c) == [method |-> c.method, stage |-> Stage(c), seen |-> c.seen]

LEMMA EffectiveFields ==
    ASSUME ServiceType
    PROVE  /\ DOMAIN EffectiveCalls = DOMAIN work
           /\ \A w \in DOMAIN work : EffectiveCalls[w] = EffectiveCall(work[w])
  BY DEF EffectiveCalls, EffectiveCall

\* One call has moved on.
LEMMA EffectiveMoves ==
    ASSUME ServiceType, NEW w \in DOMAIN work, NEW c \in AsyncContext,
           work' = [work EXCEPT ![w] = c], c.method = work[w].method
    PROVE  /\ EffectiveCalls' = [EffectiveCalls EXCEPT
                                    ![w] = [method |-> c.method, stage |-> Stage(c), seen |-> c.seen]]
           /\ c.seen = work[w].seen => EffectiveCalls' = [EffectiveCalls EXCEPT ![w].stage = Stage(c)]
           /\ c.seen = work[w].seen /\ Stage(c) = Stage(work[w]) => UNCHANGED EffectiveCalls
  <1>1. /\ DOMAIN work' = DOMAIN work
        /\ \A v \in DOMAIN work : work'[v] = IF v = w THEN c ELSE work[v]
    BY DEF ServiceType
  <1>2. EffectiveCalls' = [v \in DOMAIN work |-> EffectiveCall(work'[v])]
    BY <1>1 DEF EffectiveCalls, EffectiveCall
  <1>3. EffectiveCalls' = [EffectiveCalls EXCEPT ![w] = EffectiveCall(c)]
    BY <1>1, <1>2 DEF EffectiveCalls, EffectiveCall
  <1>4. EffectiveCalls[w] = EffectiveCall(work[w]) /\ w \in DOMAIN EffectiveCalls
    BY EffectiveFields
  <1>6. ASSUME c.seen = work[w].seen PROVE EffectiveCall(c) = [EffectiveCalls[w] EXCEPT !.stage = Stage(c)]
    BY <1>4, <1>6 DEF EffectiveCall
  <1>7. ASSUME c.seen = work[w].seen, Stage(c) = Stage(work[w]) PROVE EffectiveCall(c) = EffectiveCalls[w]
    BY <1>4, <1>7 DEF EffectiveCall
  <1>8. [EffectiveCalls EXCEPT ![w] = EffectiveCalls[w]] = EffectiveCalls
    BY DEF EffectiveCalls
  <1> QED BY <1>3, <1>6, <1>7, <1>8 DEF EffectiveCall

\* A call that keeps its count: the steps with one EXCEPT.
LEMMA StageStep ==
    ASSUME ServiceType, NEW w \in DOMAIN work,
           NEW stage \in {"queued", "running", "announcing", "done", "settled"},
           work' = [work EXCEPT ![w].stage = stage]
    PROVE  /\ EffectiveCalls' = [EffectiveCalls EXCEPT ![w].stage = Stage([work[w] EXCEPT !.stage = stage])]
           /\ Stage([work[w] EXCEPT !.stage = stage]) = Stage(work[w]) => UNCHANGED EffectiveCalls
  <1> DEFINE c == [work[w] EXCEPT !.stage = stage]
  <1>1. work[w] \in AsyncContext
    BY WorkFields
  <1>2. c \in AsyncContext /\ c.method = work[w].method /\ c.seen = work[w].seen
    BY <1>1 DEF AsyncContext
  <1>3. work' = [work EXCEPT ![w] = c]
    OBVIOUS
  <1> HIDE DEF c
  <1>4. /\ EffectiveCalls' = [EffectiveCalls EXCEPT ![w].stage = Stage(c)]
        /\ Stage(c) = Stage(work[w]) => UNCHANGED EffectiveCalls
    BY <1>2, <1>3, EffectiveMoves
  <1> QED BY <1>4 DEF c

LEMMA SeenStep ==
    ASSUME ServiceType, NEW w \in DOMAIN work,
           NEW stage \in {"done", "settled"}, NEW seen \in Nat,
           work' = [work EXCEPT ![w].stage = stage, ![w].seen = seen]
    PROVE  EffectiveCalls' = [EffectiveCalls EXCEPT
                                 ![w] = [method |-> work[w].method, seen |-> seen,
                                         stage |-> Stage([work[w] EXCEPT !.stage = stage])]]
  <1> DEFINE c == [work[w] EXCEPT !.stage = stage, !.seen = seen]
  <1>1. work[w] \in AsyncContext
    BY WorkFields
  <1>2. c \in AsyncContext /\ c.method = work[w].method /\ c.seen = seen /\ c.stage = stage
    BY <1>1 DEF AsyncContext
  <1>3. work' = [work EXCEPT ![w] = c]
    OBVIOUS
  <1>4. Stage(c) = Stage([work[w] EXCEPT !.stage = stage])
    BY <1>1, <1>2 DEF Stage, AsyncContext
  <1> HIDE DEF c
  <1>5. EffectiveCalls' = [EffectiveCalls EXCEPT
                              ![w] = [method |-> c.method, stage |-> Stage(c), seen |-> c.seen]]
    BY <1>2, <1>3, EffectiveMoves
  <1> QED BY <1>2, <1>4, <1>5

\* A new call is "called".
LEMMA IssueStep ==
    ASSUME ServiceType, NEW m \in Methods, Issue(m)
    PROVE  EffectiveCalls' = Append(EffectiveCalls, [method |-> m, stage |-> "called", seen |-> 0])
  <1> DEFINE c == [method |-> m, stage |-> "queued", seen |-> 0,
                   after |-> {v \in DOMAIN work : work[v].stage = "settled"}]
             T == [method : Methods, stage : {"called", "done", "settled"}, seen : Nat]
             n == Len(work)
             e == [method |-> m, stage |-> "called", seen |-> 0]
  <1>1. n \in Nat /\ DOMAIN work = 1..n /\ work \in Seq(AsyncContext)
    BY LenProperties DEF ServiceType
  <1>2. EffectiveCalls \in [1..n -> T]
    <2>1. \A w \in DOMAIN work : EffectiveCall(work[w]) \in T
      BY WorkFields DEF AsyncContext, EffectiveCall, Stage
    <2> QED BY <1>1, <2>1 DEF EffectiveCalls, EffectiveCall
  <1>3. EffectiveCalls \in Seq(T) /\ Len(EffectiveCalls) = n
    <2> HIDE DEF n, T
    <2>1. EffectiveCalls \in Seq(T)
      BY <1>1, <1>2
    <2>2. Len(EffectiveCalls) \in Nat /\ DOMAIN EffectiveCalls = 1..Len(EffectiveCalls)
      BY <2>1, LenProperties
    <2>3. DOMAIN EffectiveCalls = 1..n
      BY <1>2
    <2>4. ASSUME NEW k \in Nat, NEW l \in Nat, 1..k = 1..l PROVE k <= l
      <3>1. k = 0 \/ k \in 1..l
        BY <2>4
      <3> QED BY <3>1
    <2>5. \A k, l \in Nat : k <= l /\ l <= k => k = l
      OBVIOUS
    <2>6. Len(EffectiveCalls) = n
      <3>1. Len(EffectiveCalls) <= n
        BY <1>1, <2>2, <2>3, <2>4
      <3>2. n <= Len(EffectiveCalls)
        BY <1>1, <2>2, <2>3, <2>4
      <3> QED BY <1>1, <2>2, <2>5, <3>1, <3>2
    <2> QED BY <2>1, <2>6
  <1>4. work' = Append(work, c)
    BY DEF Issue
  <1>5. DOMAIN work' = 1..(n + 1) /\ work'[n + 1] = c /\ \A v \in 1..n : work'[v] = work[v]
    BY <1>1, <1>4
  <1>6. EffectiveCall(c) = e
    BY DEF EffectiveCall, Stage
  <1>7. EffectiveCalls' = [v \in 1..(n + 1) |-> EffectiveCall(work'[v])]
    BY <1>5 DEF EffectiveCalls, EffectiveCall
  <1>8. e \in T
    OBVIOUS
  <1> HIDE DEF c, T, e, n
  <1>9. /\ Append(EffectiveCalls, e) \in Seq(T)
        /\ Len(Append(EffectiveCalls, e)) = n + 1
        /\ \A v \in 1..n : Append(EffectiveCalls, e)[v] = EffectiveCalls[v]
        /\ Append(EffectiveCalls, e)[n + 1] = e
    BY <1>1, <1>3, <1>8, AppendProperties
  <1>10. \A v \in 1..(n + 1) : EffectiveCalls'[v] = Append(EffectiveCalls, e)[v]
    <2>1. ASSUME NEW v \in 1..n PROVE EffectiveCalls'[v] = Append(EffectiveCalls, e)[v]
      BY <1>1, <1>5, <1>7, <1>9, EffectiveFields
    <2>2. EffectiveCalls'[n + 1] = Append(EffectiveCalls, e)[n + 1]
      BY <1>1, <1>5, <1>6, <1>7, <1>9
    <2>3. 1..(n + 1) = 1..n \cup {n + 1}
      BY <1>1
    <2> QED BY <2>1, <2>2, <2>3
  <1>11. Append(EffectiveCalls, e) = [v \in 1..(n + 1) |-> Append(EffectiveCalls, e)[v]]
    BY <1>9, LenProperties
  <1>12. EffectiveCalls' = Append(EffectiveCalls, e)
    BY <1>7, <1>10, <1>11
  <1> QED BY <1>12 DEF e

\* A change, when no other is being announced, is owed to every observer.
LEMMA ChangeStep ==
    ASSUME NapiInv, NEW v, NEW content, holder = Nobody, Write(v, content),
           UNCHANGED <<registered, observation>>
    PROVE  AP!Change(v, content)
  <1>1. todo = {} /\ todo' = registered /\ registered \subseteq Refs /\ queue' = queue
    BY DEF NapiInv, AnnouncingOK, ObservationOK, Write, observation
  <1>2. Due' = [r \in Refs |-> IF r \in registered THEN Due[r] + 1 ELSE Due[r]]
    BY <1>1 DEF Due
  <1> QED BY <1>2 DEF AP!Change, Write

LEMMA RefinedInit == Init => AP!Init
  <1> SUFFICES ASSUME Init PROVE AP!Init
    OBVIOUS
  <1>1. EffectiveCalls = <<>>
    BY DEF Init, EffectiveCalls
  <1>2. Due = [r \in Refs |-> 0]
    BY DEF Init, Due
  <1> QED BY <1>1, <1>2 DEF Init, AP!Init

LEMMA RefinedNext == NapiInv /\ [Next]_vars => [AP!Next]_(AP!vars)
  <1> SUFFICES ASSUME NapiInv, [Next]_vars PROVE [AP!Next]_(AP!vars)
    OBVIOUS
  <1> USE DEF service, observation
  <1>0. /\ ServiceType /\ ControlFits /\ ObservationOK /\ AnnouncingOK
        /\ Len(writes) \in Nat
    BY LenProperties DEF NapiInv, ReadInv, ServiceType
  <1>a. ASSUME UNCHANGED <<filled, writes, registered, todo, queue, told>>, UNCHANGED EffectiveCalls
        PROVE  UNCHANGED AP!vars
    BY <1>a DEF AP!vars, Due
  <1>b. ASSUME UNCHANGED work PROVE UNCHANGED EffectiveCalls
    BY <1>b DEF EffectiveCalls
  <1>c. ASSUME UNCHANGED <<todo, queue>> PROVE UNCHANGED Due
    BY <1>c DEF Due
  <1>d. ASSUME NEW w \in DOMAIN work
        PROVE  /\ w \in DOMAIN EffectiveCalls /\ EffectiveCalls[w].stage = Stage(work[w])
               /\ EffectiveCalls[w].method = work[w].method
               /\ work[w] \in AsyncContext
    BY <1>0, EffectiveFields, WorkFields DEF EffectiveCall
  <1>e. ASSUME NEW w \in DOMAIN work, AP!Effect(w) \/ AP!Settle(w) PROVE AP!Next
    BY <1>d, <1>e DEF AP!Next
  <1>1. ASSUME NEW m \in Methods, Issue(m) PROVE AP!Next
    <2>1. AP!Invoke(m)
      BY <1>0, <1>1, <1>c, IssueStep DEF Issue, AP!Invoke
    <2> QED BY <2>1 DEF AP!Next
  <1>2. ASSUME NEW f \in Function, On(f) PROVE UNCHANGED AP!vars
    BY <1>2, <1>a, <1>b DEF On
  <1>3. ASSUME NEW f \in Function, Off(f) PROVE UNCHANGED AP!vars
    <2>1. observers \subseteq 1..Len(function) /\ Len(function) \in Nat
      BY <1>0, LenProperties DEF ObservationOK
    <2>2. GetPasteboardObserverIns(Len(function) + 1) = {}
      BY <2>1 DEF GetPasteboardObserverIns
    <2>3. registered' = registered
      BY <1>3, <2>2 DEF Off
    <2> QED BY <1>3, <2>3, <1>a, <1>b DEF Off
  <1>4. ASSUME NEW content \in BOOLEAN, OtherWrites(content) PROVE AP!Next
    <2>1. AP!Change(Other, content)
      BY <1>4, ChangeStep DEF OtherWrites
    <2>2. AP!OtherChange(content)
      BY <1>4, <1>b, <2>1 DEF OtherWrites, AP!OtherChange
    <2> QED BY <2>2 DEF AP!Next
  <1>5. ASSUME NEW w \in DOMAIN work, StartWork(w) PROVE UNCHANGED AP!vars
    <2>1. work[w].stage = "queued" /\ work' = [work EXCEPT ![w].stage = "running"]
      BY <1>5 DEF StartWork
    <2>2. Stage([work[w] EXCEPT !.stage = "running"]) = Stage(work[w])
      BY <1>d, <2>1 DEF Stage, AsyncContext
    <2>3. UNCHANGED EffectiveCalls
      BY <1>0, <2>1, <2>2, StageStep
    <2> QED BY <1>5, <1>a, <2>3 DEF StartWork
  <1>6. ASSUME NEW w \in DOMAIN work, SetPasteData(w) PROVE AP!Next
    <2>1. /\ work[w].stage = "running" /\ work[w].method = "set"
          /\ work' = [work EXCEPT ![w].stage = "announcing"]
          /\ holder = Nobody /\ Write(w, TRUE)
      BY <1>6 DEF SetPasteData, Executes
    <2>2. AP!Change(w, TRUE)
      BY <1>6, <2>1, ChangeStep DEF SetPasteData
    <2>3. Stage([work[w] EXCEPT !.stage = "announcing"]) = "done" /\ Stage(work[w]) = "called"
      BY <1>d, <2>1 DEF Stage, AsyncContext
    <2>4. AP!Moves(w, "done")
      BY <1>0, <1>d, <2>1, <2>3, StageStep DEF AP!Moves
    <2>5. AP!Set(w)
      BY <1>6, <1>d, <2>1, <2>2, <2>4 DEF SetPasteData, AP!Set
    <2> QED BY <1>e, <2>5 DEF AP!Effect
  <1>7. ASSUME NEW w \in DOMAIN work, Clear(w) PROVE AP!Next
    <2>1. work[w].stage = "running" /\ work[w].method = "clear" /\ holder = Nobody
      BY <1>7 DEF Clear, Executes
    <2>2. AP!Moves(w, "done")
      <3>1. /\ Stage([work[w] EXCEPT !.stage = "announcing"]) = "done"
            /\ Stage([work[w] EXCEPT !.stage = "done"]) = "done"
            /\ Stage(work[w]) = "called"
        BY <1>d, <2>1 DEF Stage, AsyncContext
      <3>2. work' = [work EXCEPT ![w].stage = "announcing"] \/ work' = [work EXCEPT ![w].stage = "done"]
        BY <1>7 DEF Clear
      <3> QED BY <1>0, <1>d, <3>1, <3>2, StageStep DEF AP!Moves
    <2>3. ASSUME filled PROVE AP!Change(w, FALSE)
      BY <1>7, <2>1, <2>3, ChangeStep DEF Clear
    <2>4. ASSUME ~ filled PROVE UNCHANGED <<filled, writes, Due>>
      BY <1>7, <1>c, <2>4 DEF Clear
    <2>5. AP!Clear(w)
      BY <1>7, <1>d, <2>1, <2>2, <2>3, <2>4 DEF Clear, AP!Clear
    <2> QED BY <1>e, <2>5 DEF AP!Effect
  <1>8. ASSUME NEW w \in DOMAIN work, HasPasteData(w) PROVE AP!Next
    <2>1. /\ work[w].stage = "running" /\ work[w].method = "has"
          /\ work' = [work EXCEPT ![w].stage = "done", ![w].seen = Len(writes)]
      BY <1>8 DEF HasPasteData, Executes
    <2>2. Stage([work[w] EXCEPT !.stage = "done"]) = "done" /\ Stage(work[w]) = "called"
      BY <1>d, <2>1 DEF Stage, AsyncContext
    <2>3. EffectiveCalls' = [EffectiveCalls EXCEPT
                ![w] = [method |-> @.method, stage |-> "done", seen |-> Len(writes)]]
      BY <1>0, <1>d, <2>1, <2>2, SeenStep
    <2>4. AP!Has(w)
      BY <1>8, <1>c, <1>d, <2>1, <2>2, <2>3 DEF HasPasteData, AP!Has, AP!Read
    <2> QED BY <1>e, <2>4 DEF AP!Effect
  <1>9. ASSUME NEW w \in DOMAIN work, GetPasteData(w) PROVE UNCHANGED AP!vars
    <2>1. /\ work[w].stage = "running" /\ work[w].method = "get"
          /\ work' = [work EXCEPT ![w].stage = "done"]
      BY <1>9 DEF GetPasteData, Executes
    <2>2. Stage([work[w] EXCEPT !.stage = "done"]) = Stage(work[w])
      BY <1>d, <2>1 DEF Stage, AsyncContext
    <2>3. UNCHANGED EffectiveCalls
      BY <1>0, <2>1, <2>2, StageStep
    <2> QED BY <1>9, <1>a, <2>3 DEF GetPasteData
  <1>10. ASSUME NEW w \in DOMAIN work, Complete(w) PROVE AP!Next
    <2>1. /\ work[w].stage = "done" /\ work[w].method # "get"
          /\ work' = [work EXCEPT ![w].stage = "settled"]
      BY <1>10 DEF Complete
    <2>2. Stage([work[w] EXCEPT !.stage = "settled"]) = "settled" /\ Stage(work[w]) = "done"
      BY <1>d, <2>1 DEF Stage, AsyncContext
    <2>3. AP!Settle(w)
      BY <1>0, <1>10, <1>c, <1>d, <2>1, <2>2, StageStep DEF Complete, AP!Settle
    <2> QED BY <1>e, <2>3
  <1>11. ASSUME NEW w \in DOMAIN work, CompleteGet(w) PROVE UNCHANGED AP!vars
    BY <1>11, <1>a, <1>b DEF CompleteGet
  <1>12. ASSUME NEW r \in Refs, OnPasteboardChanged(r) PROVE UNCHANGED AP!vars
    <2>1. r \in todo /\ todo' = todo \ {r} /\ queue' = [queue EXCEPT ![r] = Append(@, r \in isOff)]
      BY <1>12 DEF OnPasteboardChanged
    <2>2. \A q \in Refs : Due'[q] = Due[q]
      BY <1>0, <2>1, QueuedCallback DEF Due, ObservationOK
    <2>3. UNCHANGED Due
      BY <2>2 DEF Due
    <2> QED BY <1>12, <1>b, <2>3 DEF OnPasteboardChanged, AP!vars
  <1>13. ASSUME NEW r \in Refs, UvQueueWorkOnPasteboardChanged(r) PROVE AP!Next
    <2>1. /\ queue[r] # <<>> /\ queue \in [Refs -> Seq(BOOLEAN)]
          /\ todo' = todo /\ queue' = [queue EXCEPT ![r] = Tail(@)]
      BY <1>0, <1>13 DEF UvQueueWorkOnPasteboardChanged, ObservationOK
    <2>2. Len(queue[r]) \in Nat \ {0} /\ Len(Tail(queue[r])) = Len(queue[r]) - 1
      BY <2>1, HeadTailProperties, LenProperties, EmptySeq
    <2>3. Due[r] > 0
      BY <2>2 DEF Due
    <2>4. \A q \in Refs : Due'[q] = [Due EXCEPT ![r] = @ - 1][q]
      BY <2>1, <2>2 DEF Due
    <2>5. Due' = [Due EXCEPT ![r] = @ - 1]
      BY <2>4 DEF Due
    <2>6. AP!CallBack(r)
      BY <1>13, <1>b, <2>3, <2>5 DEF UvQueueWorkOnPasteboardChanged, AP!CallBack
    <2> QED BY <2>6 DEF AP!Next
  <1>14. ASSUME Announced PROVE UNCHANGED AP!vars
    <2>1. CASE holder = Other
      BY <1>14, <1>a, <1>b, <2>1 DEF Announced
    <2>2. CASE holder # Other
      <3>1. /\ holder \in DOMAIN work /\ work[holder].stage = "announcing"
            /\ work[holder].method \in {"set", "clear"}
            /\ work' = [work EXCEPT ![holder].stage = "done"]
        BY <1>0, <1>14, <2>2 DEF Announced, ServiceType, ControlFits
      <3>2. Stage([work[holder] EXCEPT !.stage = "done"]) = Stage(work[holder])
        BY <1>d, <3>1 DEF Stage, AsyncContext
      <3>3. UNCHANGED EffectiveCalls
        BY <1>0, <3>1, <3>2, StageStep
      <3> QED BY <1>14, <1>a, <3>3 DEF Announced
    <2> QED BY <2>1, <2>2
  <1>15. ASSUME AddObserver PROVE AP!Next
    <2>1. subject \in Refs
      BY <1>0, <1>15, LenProperties, BoundsAssumption DEF AddObserver, ObservationOK, Refs
    <2>2. AP!Register(subject)
      BY <1>15, <1>b, <1>c DEF AddObserver, AP!Register
    <2> QED BY <2>1, <2>2 DEF AP!Next
  <1>16. ASSUME InsertObserver \/ UNCHANGED vars PROVE UNCHANGED AP!vars
    BY <1>16, <1>a, <1>b DEF InsertObserver, vars
  <1>17. ASSUME ReadClip PROVE AP!Next
    <2>1. /\ subject \in DOMAIN work /\ work[subject].stage = "done" /\ work[subject].method = "get"
          /\ work' = [work EXCEPT ![subject].stage = "settled", ![subject].seen = Len(writes)]
      BY <1>0, <1>17 DEF ReadClip, ControlFits
    <2>2. Stage([work[subject] EXCEPT !.stage = "settled"]) = "settled" /\ Stage(work[subject]) = "called"
      BY <1>d, <2>1 DEF Stage, AsyncContext
    <2>3. EffectiveCalls' = [EffectiveCalls EXCEPT
                ![subject] = [method |-> @.method, stage |-> "settled", seen |-> Len(writes)]]
      BY <1>0, <1>d, <2>1, <2>2, SeenStep
    <2>4. AP!Get(subject)
      BY <1>17, <1>c, <1>d, <2>1, <2>2, <2>3 DEF ReadClip, AP!Get, AP!Read
    <2> QED BY <1>e, <2>1, <2>4 DEF AP!Effect
  <1> QED
    BY <1>1, <1>2, <1>3, <1>4, <1>5, <1>6, <1>7, <1>8, <1>9, <1>10, <1>11, <1>12, <1>13, <1>14,
       <1>15, <1>16, <1>17, NextSteps

\* The asynchronous methods are linearizable, and an observer gets one callback for each change
\* made while it is registered and none besides, for any number of calls, pool threads,
\* references and changes by other applications.
THEOREM AsyncIsAtomic == Spec => AsyncCallsAreAtomic
  BY RefinedInit, RefinedNext, NapiInvariance, PTL DEF Spec, AsyncCallsAreAtomic, AP!Spec

=============================================================================

------------------------- MODULE ActorMailboxProofs -------------------------
(***************************************************************************)
(* The mailbox of Actor, for every set of messages, every capacity and     *)
(* every dispatch limit: handlers start in the order of admission, and no  *)
(* slot is ever given out twice or lost.                                   *)
(***************************************************************************)
EXTENDS ActorWorkProofs, FiniteSetTheorems

(***************************************************************************)
(* The queue is the end of the admission history; the envelope in hand is  *)
(* the admission before it; whatever was started was admitted earlier.     *)
(***************************************************************************)

Taken == Len(admitted) - Len(queue)
Past  == IF inhand = {} THEN Taken ELSE Taken - 1

OrderInv ==
  /\ Taken >= 0
  /\ \A i \in DOMAIN queue : queue[i] = admitted[Taken + i]
  /\ \A m \in inhand : Taken > 0 /\ m = admitted[Taken]
  /\ \A i \in DOMAIN started : \E k \in 1..Past : admitted[k] = started[i]
  /\ StartedInAdmissionOrder

\* The sequences the steps build, element by element.
LEMMA Appended ==
  ASSUME NEW s \in Seq(Msgs), NEW m \in Msgs
  PROVE  /\ Append(s, m) \in Seq(Msgs) /\ Len(Append(s, m)) = Len(s) + 1
         /\ DOMAIN Append(s, m) = 1..(Len(s) + 1) /\ DOMAIN s = 1..Len(s) /\ Len(s) \in Nat
         /\ \A i \in 1..Len(s) : Append(s, m)[i] = s[i]
         /\ Append(s, m)[Len(s) + 1] = m
  OBVIOUS

LEMMA Shortened ==
  ASSUME NEW s \in Seq(Msgs), s # <<>>
  PROVE  /\ Tail(s) \in Seq(Msgs) /\ Len(Tail(s)) = Len(s) - 1 /\ Head(s) = s[1]
         /\ DOMAIN Tail(s) = 1..(Len(s) - 1) /\ DOMAIN s = 1..Len(s) /\ Len(s) \in Nat \ {0}
         /\ \A i \in 1..(Len(s) - 1) : Tail(s)[i] = s[i + 1]
  OBVIOUS

\* Admission appends to the queue and to the history.
LEMMA OrderAdmit ==
  ASSUME TypeOK, OrderInv, NEW m \in Msgs, Admit(m)
  PROVE  OrderInv'
<1>1. /\ queue' = Append(queue, m) /\ admitted' = Append(admitted, m)
      /\ UNCHANGED <<inhand, started>>
  BY DEF Admit, Enqueued, workVars, taskVars, frameVars
<1>2. /\ Len(queue) \in Nat /\ Len(admitted) \in Nat /\ Taken' = Taken /\ Taken \in Int
      /\ DOMAIN admitted = 1..Len(admitted) /\ DOMAIN admitted' = 1..(Len(admitted) + 1)
      /\ \A k \in 1..Len(admitted) : admitted'[k] = admitted[k]
      /\ admitted'[Len(admitted) + 1] = m
  BY <1>1, Appended DEF TypeOK, Taken
<1>3. Past' = Past /\ Past \in Int /\ Past <= Len(admitted)
  BY <1>1, <1>2 DEF Past, Taken
<1>4. Taken >= 0 /\ Taken <= Len(admitted)
  BY <1>2 DEF OrderInv, Taken
<1>5. ASSUME NEW i \in DOMAIN queue' PROVE queue'[i] = admitted'[Taken + i]
  <2>1. DOMAIN queue' = 1..(Len(queue) + 1) /\ DOMAIN queue = 1..Len(queue)
    BY <1>1, Appended DEF TypeOK
  <2>2. CASE i = Len(queue) + 1
    BY <1>1, <1>2, <2>2, Appended DEF TypeOK, Taken
  <2>3. CASE i \in 1..Len(queue)
    <3>1. queue'[i] = queue[i] /\ queue[i] = admitted[Taken + i]
      BY <1>1, <2>1, <2>3, Appended DEF TypeOK, OrderInv
    <3>2. Taken + i \in 1..Len(admitted)
      BY <1>2, <1>4, <2>3 DEF Taken
    <3> QED
      BY <1>2, <3>1, <3>2
  <2> QED
    BY <1>2, <2>1, <2>2, <2>3
<1>6. ASSUME NEW n \in inhand' PROVE Taken' > 0 /\ n = admitted'[Taken']
  <2>1. Taken \in 1..Len(admitted)
    BY <1>1, <1>2, <1>4, <1>6 DEF OrderInv
  <2> QED
    BY <1>1, <1>2, <1>6, <2>1 DEF OrderInv
<1>7. ASSUME NEW i \in DOMAIN started' PROVE \E k \in 1..Past' : admitted'[k] = started'[i]
  <2>1. PICK k \in 1..Past : admitted[k] = started[i]
    BY <1>1 DEF OrderInv
  <2> QED
    BY <1>1, <1>2, <1>3, <2>1
<1>8. StartedInAdmissionOrder'
  <2> SUFFICES ASSUME NEW i \in DOMAIN started, NEW j \in DOMAIN started, i < j
               PROVE  \E k, l \in DOMAIN admitted' :
                        k < l /\ admitted'[k] = started[i] /\ admitted'[l] = started[j]
    BY <1>1 DEF StartedInAdmissionOrder
  <2>1. PICK k \in DOMAIN admitted, l \in DOMAIN admitted :
           k < l /\ admitted[k] = started[i] /\ admitted[l] = started[j]
    BY DEF OrderInv, StartedInAdmissionOrder
  <2>2. k \in DOMAIN admitted' /\ l \in DOMAIN admitted'
    BY <1>2
  <2> QED
    BY <1>2, <2>1, <2>2
<1> QED
  BY <1>2, <1>4, <1>5, <1>6, <1>7, <1>8 DEF OrderInv

\* The oldest entry leaves the queue, into the task's hand or not.
LEMMA OrderTail ==
  ASSUME TypeOK, OrderInv, queue # <<>>, queue' = Tail(queue), inhand = {},
         inhand' = {} \/ inhand' = {Head(queue)},
         UNCHANGED <<admitted, started>>
  PROVE  OrderInv'
<1>1. /\ Len(queue) \in Nat \ {0} /\ Len(admitted) \in Nat /\ Taken' = Taken + 1 /\ Taken \in Int
      /\ DOMAIN queue = 1..Len(queue) /\ DOMAIN queue' = 1..(Len(queue) - 1)
      /\ \A i \in 1..(Len(queue) - 1) : queue'[i] = queue[i + 1]
      /\ Head(queue) = queue[1]
  BY Shortened DEF TypeOK, Taken
<1>2. Taken >= 0 /\ Past = Taken
  BY DEF OrderInv, Past
<1>3. Past' \in Int /\ Past' >= Past
  BY <1>1, <1>2 DEF Past
<1>4. ASSUME NEW i \in DOMAIN queue' PROVE queue'[i] = admitted[Taken' + i]
  <2>1. i + 1 \in DOMAIN queue /\ queue'[i] = queue[i + 1]
    BY <1>1
  <2>2. Taken + (i + 1) = Taken' + i
    BY <1>1
  <2> QED
    BY <2>1, <2>2 DEF OrderInv
<1>5. ASSUME NEW n \in inhand' PROVE Taken' > 0 /\ n = admitted[Taken']
  <2>1. n = queue[1] /\ 1 \in DOMAIN queue
    BY <1>1, <1>5
  <2> QED
    BY <1>1, <1>2, <2>1 DEF OrderInv
<1>6. ASSUME NEW i \in DOMAIN started PROVE \E k \in 1..Past' : admitted[k] = started[i]
  <2>1. PICK k \in 1..Past : admitted[k] = started[i]
    BY DEF OrderInv
  <2> QED
    BY <1>1, <1>2, <1>3, <2>1
<1>7. StartedInAdmissionOrder'
  BY DEF OrderInv, StartedInAdmissionOrder
<1> QED
  BY <1>1, <1>2, <1>4, <1>5, <1>6, <1>7 DEF OrderInv

\* A step that touches neither the queue nor the histories.
LEMMA OrderStill ==
  ASSUME OrderInv, UNCHANGED <<queue, inhand, admitted, started>>
  PROVE  OrderInv'
  BY DEF OrderInv, StartedInAdmissionOrder, Taken, Past

\* The envelope in hand is refused, or the queue dropped: both only leave
\* more of the history behind.
LEMMA OrderLeft ==
  ASSUME TypeOK, OrderInv, inhand' = {}, queue' = queue \/ queue' = <<>>,
         UNCHANGED <<admitted, started>>
  PROVE  OrderInv'
<1>1. Len(queue) \in Nat /\ Len(admitted) \in Nat /\ Taken \in Int /\ Taken >= 0
  BY DEF TypeOK, OrderInv, Taken
<1>2. Past \in Int /\ Past <= Taken /\ Taken' \in Int /\ Taken' >= Taken /\ Past' = Taken'
  BY <1>1 DEF Past, Taken
<1>3. ASSUME NEW i \in DOMAIN queue' PROVE queue'[i] = admitted[Taken' + i]
  <2>1. queue' = queue /\ Taken' = Taken
    BY <1>3 DEF Taken
  <2> QED
    BY <1>3, <2>1 DEF OrderInv
<1>4. ASSUME NEW i \in DOMAIN started PROVE \E k \in 1..Past' : admitted[k] = started[i]
  <2>1. PICK k \in 1..Past : admitted[k] = started[i]
    BY DEF OrderInv
  <2> QED
    BY <1>1, <1>2, <2>1
<1>5. StartedInAdmissionOrder'
  BY DEF OrderInv, StartedInAdmissionOrder
<1> QED
  BY <1>1, <1>2, <1>3, <1>4, <1>5 DEF OrderInv

\* The envelope in hand is started: everything started before it was admitted
\* before it.
LEMMA OrderStart ==
  ASSUME TypeOK, OrderInv, NEW m \in Msgs, inhand = {m}, inhand' = {},
         started' = Append(started, m), UNCHANGED <<queue, admitted>>
  PROVE  OrderInv'
<1>1. Len(queue) \in Nat /\ Len(admitted) \in Nat /\ DOMAIN admitted = 1..Len(admitted)
  BY DEF TypeOK
<1>2. /\ Taken \in 1..Len(admitted) /\ Taken' = Taken /\ m = admitted[Taken]
      /\ Past = Taken - 1 /\ Past' = Taken
  <2>1. Taken \in Int /\ Taken <= Len(admitted) /\ Taken' = Taken
    BY <1>1 DEF Taken
  <2>2. Taken > 0 /\ m = admitted[Taken]
    BY DEF OrderInv
  <2> QED
    BY <1>1, <2>1, <2>2 DEF Past
<1>3. /\ DOMAIN started = 1..Len(started) /\ Len(started) \in Nat
      /\ DOMAIN started' = 1..(Len(started) + 1)
      /\ \A i \in 1..Len(started) : started'[i] = started[i]
      /\ started'[Len(started) + 1] = m
  BY Appended DEF TypeOK
<1>4. ASSUME NEW i \in 1..Len(started)
      PROVE  \E k \in 1..(Taken - 1) : admitted[k] = started'[i]
  BY <1>2, <1>3 DEF OrderInv
<1>5. ASSUME NEW i \in DOMAIN started' PROVE \E k \in 1..Past' : admitted[k] = started'[i]
  <2>1. CASE i = Len(started) + 1
    BY <1>2, <1>3, <2>1
  <2>2. CASE i \in 1..Len(started)
    <3>1. PICK k \in 1..(Taken - 1) : admitted[k] = started'[i]
      BY <1>4, <2>2
    <3> QED
      BY <1>2, <3>1
  <2> QED
    BY <1>3, <2>1, <2>2
<1>6. ASSUME NEW i \in DOMAIN started', NEW j \in DOMAIN started', i < j
      PROVE  \E k, l \in DOMAIN admitted :
               k < l /\ admitted[k] = started'[i] /\ admitted[l] = started'[j]
  <2>1. i \in 1..Len(started)
    BY <1>3, <1>6
  <2>2. CASE j = Len(started) + 1
    <3>1. PICK k \in 1..(Taken - 1) : admitted[k] = started'[i]
      BY <1>4, <2>1
    <3>2. k \in DOMAIN admitted /\ Taken \in DOMAIN admitted /\ k < Taken
      BY <1>1, <1>2, <3>1
    <3> QED
      BY <1>2, <1>3, <2>2, <3>1, <3>2
  <2>3. CASE j \in 1..Len(started)
    BY <1>3, <1>6, <2>1, <2>3 DEF OrderInv, StartedInAdmissionOrder
  <2> QED
    BY <1>3, <2>2, <2>3
<1>7. StartedInAdmissionOrder'
  BY <1>6 DEF StartedInAdmissionOrder
<1>8. ASSUME NEW i \in DOMAIN queue PROVE queue[i] = admitted[Taken' + i]
  BY <1>2 DEF OrderInv
<1> QED
  BY <1>1, <1>2, <1>5, <1>7, <1>8 DEF OrderInv

\* Every step keeps the order.
LEMMA OrderNext ==
  ASSUME Known, OrderInv, [Next]_vars
  PROVE  OrderInv'
<1> USE DEF Known, PlaceInv, HandInv
<1>1. CASE UNCHANGED vars
  BY <1>1, OrderStill DEF vars, mailboxVars, workVars, taskVars, frameVars
<1>2. CASE Callers
  <2>1. ASSUME NEW m \in Msgs, \/ TryReserve(m) \/ TryFull(m) \/ TryClosed(m) \/ ReportFull(m)
                               \/ BeginWait(m) \/ WaitClosed(m) \/ AdmitRefused(m)
                               \/ CancelWait(m) \/ Abandon(m)
        PROVE  OrderInv'
    BY <2>1, OrderStill DEF TryReserve, TryFull, TryClosed, ReportFull, BeginWait, WaitClosed,
       AdmitRefused, CancelWait, Abandon, workVars, taskVars, frameVars
  <2> QED
    BY <1>2, <2>1, OrderAdmit DEF Callers
<1>3. ASSUME NEW shutdown \in Shutdowns, RequestShutdown(shutdown)
      PROVE  OrderInv'
  BY <1>3, OrderStill DEF RequestShutdown, mailboxVars, workVars, taskVars, frameVars
<1>4. CASE Starting /\ ~DropUnstartedInbox
  BY <1>4, OrderStill DEF Starting, Spawn, DropSpawner, EnterInit, CheckInit, InitPending,
     InitDone, InitPanics, mailboxVars, workVars, frameVars
<1>5. CASE DropUnstartedInbox \/ DropFrame
  <2>1. inhand' = {} /\ queue' = <<>> /\ UNCHANGED <<admitted, started>>
    BY <1>5 DEF DropUnstartedInbox, DropFrame, frameVars
  <2> QED
    BY <2>1, OrderLeft
<1>6. CASE \/ LoopTop \/ OnDrain \/ OnStop \/ OnShutdownPanics \/ TurnCheck \/ InboxClosed \/ Park
           \/ \E m \in Msgs : ReplyReturns(m) \/ ReplyPanics(m)
  BY <1>6, OrderStill DEF LoopTop, OnDrain, OnStop, OnShutdownPanics, TurnCheck, InboxClosed, Park,
     ReplyReturns, ReplyPanics, mailboxVars, workVars, frameVars
<1>7. CASE Receive
  <2>1. /\ queue # <<>> /\ queue' = Tail(queue) /\ inhand' = {Head(queue)}
        /\ inhand = {} /\ UNCHANGED <<admitted, started>>
    BY <1>7 DEF Receive, workVars
  <2> QED
    BY <2>1, OrderTail
<1>8. CASE DispatchAbandoned \/ DispatchRefused
  <2>1. inhand' = {} /\ queue' = queue /\ UNCHANGED <<admitted, started>>
    BY <1>8 DEF DispatchAbandoned, DispatchRefused, mailboxVars, workVars
  <2> QED
    BY <2>1, OrderLeft
<1>9. CASE Dispatch \/ DispatchPanics
  <2>1. PICK m \in Msgs : inhand = {m}
    BY <1>9 DEF Dispatch, DispatchPanics
  <2>2. started' = Append(started, m) /\ inhand' = {} /\ UNCHANGED <<queue, admitted>>
    BY <1>9, <2>1 DEF Dispatch, DispatchPanics, mailboxVars
  <2> QED
    BY <2>1, <2>2, OrderStart
<1>10. CASE DiscardOne \/ TeardownOne
  <2>1. /\ queue # <<>> /\ queue' = Tail(queue) /\ inhand' = {}
        /\ inhand = {} /\ UNCHANGED <<admitted, started>>
    BY <1>10 DEF DiscardOne, TeardownOne, RejectHead, frameVars
  <2> QED
    BY <2>1, OrderTail
<1>11. CASE \/ DrainTop \/ DiscardCheck \/ DiscardDone \/ FinishRepliesTop
            \/ FinishCheck \/ StopHookCheck \/ StopHookPending \/ StopHookDone \/ StopHookPanics
            \/ Kill \/ Fail \/ TeardownDone \/ Abort \/ Publish
  BY <1>11, OrderStill DEF DrainTop, DiscardCheck, DiscardDone, FinishRepliesTop, FinishCheck,
     StopHookCheck, StopHookPending, StopHookDone, StopHookPanics, Kill, Fail, TeardownDone,
     Abort, Publish, mailboxVars, workVars, frameVars
<1> QED
  BY <1>1, <1>2, <1>3, <1>4, <1>5, <1>6, <1>7, <1>8, <1>9, <1>10, <1>11
  DEF Next, Task, Runtime, UserCode, Starting

\* Handlers start in the order in which their messages were admitted, whatever
\* callers, shutdown and abandoned calls do in between.
THEOREM AdmissionOrder == Safe => []StartedInAdmissionOrder
<1>1. Init => OrderInv
  BY DEF Init, OrderInv, StartedInAdmissionOrder, Taken, Past
<1>2. Known /\ OrderInv /\ [Next]_vars => OrderInv'
  BY OrderNext
<1>3. OrderInv => StartedInAdmissionOrder
  BY DEF OrderInv
<1> QED
  BY <1>1, <1>2, <1>3, WorkAccounted, PTL DEF Safe

----------------------------------------------------------------------------
(***************************************************************************)
(* Slots.  CapacityKept needs one more fact: an envelope is taken in hand  *)
(* only with room for its reply.  From here on ActorAssumption is used.    *)
(***************************************************************************)

SlotsOf(c) == {m \in Msgs : c[m] \in {"permit", "granted"}}

CapacityInv ==
  /\ Len(queue) + Cardinality(SlotsOf(caller)) <= Capacity
  /\ Cardinality(inflight) <= MaxInFlight
  /\ pc = "dispatch" => Cardinality(inflight) < MaxInFlight

\* Sets of messages are finite.
LEMMA Finite ==
  ASSUME NEW S \in SUBSET Msgs
  PROVE  IsFiniteSet(S) /\ Cardinality(S) \in Nat
  BY ActorAssumption, FS_Subset, FS_CardinalityType

\* A caller that leaves its slot makes one free, one that enters takes one.
LEMMA OneSlot ==
  ASSUME NEW c \in [Msgs -> CallerStates], NEW m \in Msgs, NEW x,
         NEW d, d = [c EXCEPT ![m] = x]
  PROVE  /\ Cardinality(SlotsOf(c)) \in Nat /\ Cardinality(SlotsOf(d)) \in Nat
         /\ Cardinality(SlotsOf(d)) <= Cardinality(SlotsOf(c)) + 1
         /\ x \notin {"permit", "granted"} => Cardinality(SlotsOf(d)) <= Cardinality(SlotsOf(c))
         /\ x \notin {"permit", "granted"} /\ m \in SlotsOf(c) =>
              Cardinality(SlotsOf(d)) = Cardinality(SlotsOf(c)) - 1
<1>1. IsFiniteSet(SlotsOf(c)) /\ Cardinality(SlotsOf(c)) \in Nat
  BY Finite DEF SlotsOf
<1>2. /\ Cardinality(SlotsOf(c) \cup {m}) =
           IF m \in SlotsOf(c) THEN Cardinality(SlotsOf(c)) ELSE Cardinality(SlotsOf(c)) + 1
      /\ Cardinality(SlotsOf(c) \ {m}) =
           IF m \in SlotsOf(c) THEN Cardinality(SlotsOf(c)) - 1 ELSE Cardinality(SlotsOf(c))
  BY <1>1, FS_AddElement, FS_RemoveElement
<1>3. Cardinality(SlotsOf(d)) \in Nat
  BY Finite DEF SlotsOf
<1>4. CASE x \in {"permit", "granted"}
  <2>1. SlotsOf(d) = SlotsOf(c) \cup {m}
    BY <1>4 DEF SlotsOf
  <2>2. Cardinality(SlotsOf(d)) = Cardinality(SlotsOf(c) \cup {m})
    BY <2>1, Zenon
  <2> QED
    BY <1>1, <1>2, <1>3, <1>4, <2>2
<1>5. CASE x \notin {"permit", "granted"}
  <2>1. SlotsOf(d) = SlotsOf(c) \ {m}
    BY <1>5 DEF SlotsOf
  <2>2. Cardinality(SlotsOf(d)) = Cardinality(SlotsOf(c) \ {m})
    BY <2>1, Zenon
  <2> QED
    BY <1>1, <1>2, <1>3, <1>5, <2>2
<1> QED
  BY <1>4, <1>5

\* A released slot goes to one waiter at most.
LEMMA RegrantOne ==
  ASSUME NEW c \in [Msgs -> CallerStates], NEW d \in Regrant(c)
  PROVE  Cardinality(SlotsOf(d)) <= Cardinality(SlotsOf(c)) + 1
<1>1. Cardinality(SlotsOf(c)) \in Nat
  BY Finite DEF SlotsOf
<1>2. d = c \/ \E m \in Msgs : c[m] = "waiting" /\ d = [c EXCEPT ![m] = "granted"]
  BY DEF Regrant
<1>3. ASSUME NEW m \in Msgs, d = [c EXCEPT ![m] = "granted"]
      PROVE  Cardinality(SlotsOf(d)) <= Cardinality(SlotsOf(c)) + 1
  BY <1>1, <1>3, OneSlot
<1> QED
  BY <1>1, <1>2, <1>3

\* A caller's step: a slot is taken only while one is free, admission turns a
\* slot into an entry, and a slot given back is given on at most once.
LEMMA CapacityCallers ==
  ASSUME TypeOK, CapacityInv, Callers
  PROVE  CapacityInv'
<1> USE DEF TypeOK
<1>1. /\ Len(queue) \in Nat /\ Cardinality(SlotsOf(caller)) \in Nat /\ Reserved = SlotsOf(caller)
      /\ Capacity \in Nat
  BY Finite, ActorAssumption DEF SlotsOf, Reserved
<1>2. UNCHANGED <<inflight, pc>>
  BY DEF Callers, TryReserve, TryFull, TryClosed, ReportFull, BeginWait, WaitClosed, Admit,
     AdmitRefused, CancelWait, Abandon, workVars, taskVars
<1>3. SUFFICES Len(queue') + Cardinality(SlotsOf(caller')) <= Capacity
  BY <1>2 DEF CapacityInv, SlotsOf
<1>4. ASSUME NEW m \in Msgs, NEW x, caller' = [caller EXCEPT ![m] = x]
      PROVE  /\ Cardinality(SlotsOf(caller')) \in Nat
             /\ Cardinality(SlotsOf(caller')) <= Cardinality(SlotsOf(caller)) + 1
             /\ x \notin {"permit", "granted"} =>
                  Cardinality(SlotsOf(caller')) <= Cardinality(SlotsOf(caller))
             /\ x \notin {"permit", "granted"} /\ m \in SlotsOf(caller) =>
                  Cardinality(SlotsOf(caller')) = Cardinality(SlotsOf(caller)) - 1
  <2>1. caller \in [Msgs -> CallerStates]
    OBVIOUS
  <2> QED
    BY <1>4, <2>1, OneSlot, Zenon
<1>5. ASSUME NEW m \in Msgs, queue' = queue, FreeSlots > 0,
             caller' = [caller EXCEPT ![m] = "permit"]
      PROVE  Len(queue') + Cardinality(SlotsOf(caller')) <= Capacity
  <2>1. Cardinality(SlotsOf(caller')) <= Cardinality(SlotsOf(caller)) + 1
        /\ Cardinality(SlotsOf(caller')) \in Nat
    BY <1>4, <1>5, Zenon
  <2>2. Cardinality(Reserved) = Cardinality(SlotsOf(caller))
    BY <1>1, Zenon
  <2> QED
    BY <1>1, <1>5, <2>1, <2>2 DEF FreeSlots
<1>6. ASSUME NEW m \in Msgs, NEW x, queue' = queue, x \notin {"permit", "granted"},
             caller' = [caller EXCEPT ![m] = x]
      PROVE  Len(queue') + Cardinality(SlotsOf(caller')) <= Capacity
  <2>1. Cardinality(SlotsOf(caller')) <= Cardinality(SlotsOf(caller))
        /\ Cardinality(SlotsOf(caller')) \in Nat
    BY <1>4, <1>6, Zenon
  <2> QED
    BY <1>1, <1>6, <2>1 DEF CapacityInv
<1>7. ASSUME NEW m \in Msgs, NEW c, c = [caller EXCEPT ![m] = c[m]],
             m \in SlotsOf(caller), m \notin SlotsOf(c), c \in [Msgs -> CallerStates],
             queue' = queue, caller' \in Regrant(c)
      PROVE  Len(queue') + Cardinality(SlotsOf(caller')) <= Capacity
  <2>1. c[m] \notin {"permit", "granted"}
    BY <1>7 DEF SlotsOf
  <2>2. Cardinality(SlotsOf(c)) = Cardinality(SlotsOf(caller)) - 1
    <3>1. caller \in [Msgs -> CallerStates]
      OBVIOUS
    <3> QED
      BY <1>7, <2>1, <3>1, OneSlot, Zenon
  <2>3. Cardinality(SlotsOf(caller')) <= Cardinality(SlotsOf(c)) + 1
    BY <1>7, RegrantOne, Zenon
  <2>4. Cardinality(SlotsOf(caller')) \in Nat
    BY Finite DEF SlotsOf
  <2> QED
    BY <1>1, <1>7, <2>2, <2>3, <2>4 DEF CapacityInv
<1>8. ASSUME NEW m \in Msgs, TryReserve(m) \/ BeginWait(m)
      PROVE  Len(queue') + Cardinality(SlotsOf(caller')) <= Capacity
  <2>1. queue' = queue
    BY <1>8 DEF TryReserve, BeginWait
  <2>2. CASE FreeSlots > 0 /\ caller' = [caller EXCEPT ![m] = "permit"]
    BY <1>5, <2>1, <2>2
  <2>3. CASE caller' = [caller EXCEPT ![m] = "waiting"]
    BY <1>6, <2>1, <2>3
  <2> QED
    BY <1>8, <2>2, <2>3 DEF TryReserve, BeginWait
<1>9. ASSUME NEW m \in Msgs, TryFull(m) \/ TryClosed(m) \/ ReportFull(m) \/ WaitClosed(m) \/ Abandon(m)
      PROVE  Len(queue') + Cardinality(SlotsOf(caller')) <= Capacity
  <2>1. /\ queue' = queue
        /\ \E x \in {"full", "refused", "withdrawn", "abandoned"} : caller' = [caller EXCEPT ![m] = x]
    BY <1>9 DEF TryFull, TryClosed, ReportFull, WaitClosed, Abandon
  <2> QED
    BY <1>6, <2>1
<1>10. ASSUME NEW m \in Msgs, Admit(m)
       PROVE  Len(queue') + Cardinality(SlotsOf(caller')) <= Capacity
  <2>1. Len(queue') = Len(queue) + 1 /\ m \in SlotsOf(caller)
    BY <1>1, <1>10, Appended DEF Admit, Enqueued
  <2>2. caller' = [caller EXCEPT ![m] = "admitted"]
    BY <1>10 DEF Admit
  <2>3. Cardinality(SlotsOf(caller')) = Cardinality(SlotsOf(caller)) - 1
    <3>1. "admitted" \notin {"permit", "granted"}
      OBVIOUS
    <3> QED
      BY <1>4, <2>1, <2>2, <3>1, Zenon
  <2> QED
    BY <1>1, <2>1, <2>3 DEF CapacityInv
<1>11. ASSUME NEW m \in Msgs, AdmitRefused(m) \/ (CancelWait(m) /\ caller[m] = "granted")
       PROVE  Len(queue') + Cardinality(SlotsOf(caller')) <= Capacity
  <2>1. PICK x \in {"refused", "withdrawn"} : caller' \in Regrant([caller EXCEPT ![m] = x])
    BY <1>11 DEF AdmitRefused, CancelWait
  <2>2. queue' = queue /\ m \in SlotsOf(caller)
    BY <1>1, <1>11 DEF AdmitRefused, CancelWait, SlotsOf
  <2> DEFINE c == [caller EXCEPT ![m] = x]
  <2>3. /\ c \in [Msgs -> CallerStates] /\ c[m] = x
        /\ c = [caller EXCEPT ![m] = c[m]] /\ m \notin SlotsOf(c)
    BY <2>1 DEF CallerStates, SlotsOf
  <2> HIDE DEF c
  <2>4. caller' \in Regrant(c)
    BY <2>1 DEF c
  <2> QED
    BY <1>7, <2>2, <2>3, <2>4
<1>12. ASSUME NEW m \in Msgs, CancelWait(m), caller[m] # "granted"
       PROVE  Len(queue') + Cardinality(SlotsOf(caller')) <= Capacity
  <2>1. queue' = queue /\ caller' = [caller EXCEPT ![m] = "withdrawn"]
    BY <1>12 DEF CancelWait
  <2> QED
    BY <1>6, <2>1
<1> QED
  BY <1>8, <1>9, <1>10, <1>11, <1>12 DEF Callers

\* An entry leaves the queue; its slot may go to one waiter.
LEMMA CapacityFreed ==
  ASSUME TypeOK, CapacityInv, queue # <<>>, queue' = Tail(queue), caller' \in Regrant(caller)
  PROVE  Len(queue') + Cardinality(SlotsOf(caller')) <= Capacity
<1>1. /\ Len(queue) \in Nat /\ Cardinality(SlotsOf(caller)) \in Nat /\ Capacity \in Nat
      /\ Cardinality(SlotsOf(caller')) \in Nat
  BY Finite, ActorAssumption DEF SlotsOf, TypeOK
<1>2. Len(queue') = Len(queue) - 1
  BY Shortened DEF TypeOK
<1>3. Cardinality(SlotsOf(caller')) <= Cardinality(SlotsOf(caller)) + 1
  BY RegrantOne DEF TypeOK
<1> QED
  BY <1>1, <1>2, <1>3 DEF CapacityInv

\* Nothing else takes a slot, and only Receive takes an envelope in hand.
Roomy ==
  /\ queue' = queue \/ queue' = <<>>
  /\ caller' = caller
  /\ inflight' \subseteq inflight
  /\ pc' # "dispatch" \/ UNCHANGED <<pc, inflight>>

\* Such a step keeps the bounds.
LEMMA CapacityRoomy ==
  ASSUME TypeOK, CapacityInv, Roomy
  PROVE  CapacityInv'
<1>1. /\ Len(queue) \in Nat /\ Cardinality(SlotsOf(caller)) \in Nat /\ Capacity \in Nat
      /\ MaxInFlight \in Nat /\ IsFiniteSet(inflight) /\ Cardinality(inflight) \in Nat
  BY Finite, ActorAssumption DEF SlotsOf, TypeOK
<1>2. Len(queue') \in Nat /\ Len(queue') <= Len(queue) /\ SlotsOf(caller)' = SlotsOf(caller)
  BY <1>1 DEF Roomy, SlotsOf
<1>3. IsFiniteSet(inflight') /\ Cardinality(inflight') <= Cardinality(inflight)
      /\ Cardinality(inflight') \in Nat
  BY <1>1, FS_Subset, FS_CardinalityType DEF Roomy
<1>4. pc' = "dispatch" => Cardinality(inflight') < MaxInFlight
  BY DEF CapacityInv, Roomy
<1> QED
  BY <1>1, <1>2, <1>3, <1>4 DEF CapacityInv

\* Every step keeps the bounds.
LEMMA CapacityNext ==
  ASSUME Known, CapacityInv, [Next]_vars
  PROVE  CapacityInv'
<1> USE DEF Known
<1>1. CASE UNCHANGED vars
  BY <1>1, CapacityRoomy DEF Roomy, vars, mailboxVars, workVars, taskVars
<1>2. CASE Callers
  BY <1>2, CapacityCallers
<1>3. ASSUME NEW shutdown \in Shutdowns, RequestShutdown(shutdown)
      PROVE  CapacityInv'
  BY <1>3, CapacityRoomy DEF Roomy, RequestShutdown, mailboxVars, workVars, taskVars
<1>4. CASE Starting
  <2>1. Roomy
    BY <1>4 DEF Roomy, Starting, Spawn, DropSpawner, EnterInit, CheckInit, InitPending, InitDone,
       InitPanics, DropUnstartedInbox, mailboxVars, workVars
  <2> QED
    BY <2>1, CapacityRoomy
<1>5. CASE \/ LoopTop \/ OnDrain \/ OnStop \/ OnShutdownPanics \/ TurnCheck \/ InboxClosed \/ Park
           \/ DispatchAbandoned \/ DispatchRefused \/ DispatchPanics
           \/ \E m \in Msgs : ReplyReturns(m) \/ ReplyPanics(m)
  <2>1. Roomy
    BY <1>5, LoopHeads DEF Roomy, LoopTop, OnDrain, OnStop, OnShutdownPanics, TurnCheck, InboxClosed,
       Park, DispatchAbandoned, DispatchRefused, DispatchPanics, AfterDispatch, ReplyReturns,
       ReplyPanics, TypeOK, Graceful, mailboxVars, workVars
  <2> QED
    BY <2>1, CapacityRoomy
<1>6. CASE Receive
  <2>1. Len(queue') + Cardinality(SlotsOf(caller')) <= Capacity
    BY <1>6, CapacityFreed DEF Receive
  <2>2. Cardinality(inflight) < MaxInFlight /\ inflight' = inflight
    BY <1>6 DEF Receive, MayReceive, workVars
  <2> QED
    BY <2>1, <2>2 DEF CapacityInv, SlotsOf
<1>7. CASE Dispatch
  <2>1. PICK m \in Msgs : inflight' = inflight \cup {m}
    BY <1>7 DEF Dispatch, PlaceInv, HandInv
  <2>2. /\ IsFiniteSet(inflight) /\ Cardinality(inflight) \in Nat /\ MaxInFlight \in Nat
        /\ Cardinality(inflight) < MaxInFlight
    BY <1>7, Finite, ActorAssumption DEF TypeOK, CapacityInv, Dispatch
  <2>3. Cardinality(inflight') <= MaxInFlight
    <3>1. Cardinality(inflight \cup {m}) =
            IF m \in inflight THEN Cardinality(inflight) ELSE Cardinality(inflight) + 1
      BY <2>2, FS_AddElement
    <3> QED
      BY <2>1, <2>2, <3>1
  <2>4. pc' # "dispatch" /\ UNCHANGED <<queue, caller>>
    BY <1>7, LoopHeads DEF Dispatch, AfterDispatch, TypeOK, Graceful, mailboxVars
  <2> QED
    BY <2>3, <2>4 DEF CapacityInv, SlotsOf
<1>8. CASE DiscardOne \/ TeardownOne
  <2>1. Len(queue') + Cardinality(SlotsOf(caller')) <= Capacity
    BY <1>8, CapacityFreed DEF DiscardOne, TeardownOne, RejectHead
  <2>2. inflight' = inflight /\ pc' # "dispatch"
    BY <1>8 DEF DiscardOne, TeardownOne, RejectHead
  <2> QED
    BY <2>1, <2>2 DEF CapacityInv, SlotsOf
<1>9. CASE \/ DrainTop \/ DiscardCheck \/ DiscardDone \/ FinishRepliesTop
           \/ FinishCheck \/ StopHookCheck \/ StopHookPending \/ StopHookDone \/ StopHookPanics
           \/ Kill \/ Fail \/ TeardownDone \/ Abort \/ DropFrame \/ Publish
  <2>1. Roomy
    BY <1>9 DEF Roomy, DrainTop, DiscardCheck, DiscardDone, FinishRepliesTop, FinishCheck,
       StopHookCheck, StopHookPending, StopHookDone, StopHookPanics, Kill, Fail, TeardownDone,
       Abort, DropFrame, Publish, Graceful, mailboxVars, workVars
  <2> QED
    BY <2>1, CapacityRoomy
<1> QED
  BY <1>1, <1>2, <1>3, <1>4, <1>5, <1>6, <1>7, <1>8, <1>9
  DEF Next, Task, Runtime, UserCode, Starting

\* Reservations, grants and accepted entries never exceed the capacity of the
\* mailbox, and dispatch never exceeds max_in_flight.
THEOREM CapacityRespected == Safe => []CapacityKept
<1>1. Init => CapacityInv
  <2> SUFFICES ASSUME Init PROVE CapacityInv
    OBVIOUS
  <2>1. SlotsOf(caller) = {} /\ inflight = {} /\ Len(queue) = 0 /\ pc = "unstarted"
    BY DEF Init, SlotsOf
  <2> QED
    BY <2>1, FS_EmptySet, ActorAssumption DEF CapacityInv
<1>2. Known /\ CapacityInv /\ [Next]_vars => CapacityInv'
  BY CapacityNext
<1>3. CapacityInv => CapacityKept
  BY DEF CapacityInv, CapacityKept, SlotsOf, Reserved
<1> QED
  BY <1>1, <1>2, <1>3, WorkAccounted, PTL DEF Safe
=============================================================================

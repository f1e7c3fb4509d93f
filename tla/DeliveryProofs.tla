--------------------------- MODULE DeliveryProofs ---------------------------
(***************************************************************************)
(* The actor implements Delivery, for every set of messages, every         *)
(* capacity and every dispatch limit: each of its steps is a step of       *)
(* Delivery or none.                                                       *)
(***************************************************************************)
EXTENDS ActorDelivery, ActorWorkProofs

\* What the actor's gate is to Delivery.
LEMMA GateMap ==
  ASSUME NEW g \in Modes
  PROVE  /\ GateOf[g] = "open" <=> g = "Running"
         /\ GateOf[g] = "draining" <=> g = "Draining"
         /\ GateOf[g] = "stopping" <=> g = "Stopping"
         /\ GateOf[g] = "hard" <=> g \in Hard
         /\ GateOf[g] = "exited" <=> g = "Exited"
         /\ GateOf[g] \in Promise!Graceful <=> g \in Graceful
  BY DEF GateOf, Modes, Graceful, Hard, Promise!Graceful

\* A user value dropped, a panic caught, and a frame dropped by the executor
\* at most turn a graceful gate hard.
LEMMA GateMayFail ==
  ASSUME NEW g \in Modes \ {"Exited"}, NEW h,
         h \in AfterUserDrop(g) \cup {FailureMode(g), AbortMode(g)}
  PROVE  /\ h \in Modes \ {"Exited"}
         /\ GateOf[h] = GateOf[g] \/ (g \in Graceful /\ GateOf[h] = "hard")
         /\ g \in Hard => h \in Hard
  BY DEF GateOf, Modes, Graceful, Hard, AfterUserDrop, FailureMode, AbortMode

(***************************************************************************)
(* Where a message is decides its fate, and it is in one place at a time.  *)
(***************************************************************************)

Waits == Entries(queue) \cup inhand

SamePlace(m) ==
  /\ m \in finished' <=> m \in finished
  /\ m \in inflight' <=> m \in inflight
  /\ m \in Entries(started)' <=> m \in Entries(started)
  /\ m \in Waits' <=> m \in Waits
  /\ m \in Entries(admitted)' <=> m \in Entries(admitted)
  /\ caller'[m] = "refused" <=> caller[m] = "refused"

\* A message that stays in its place keeps its fate.
LEMMA FateSame ==
  ASSUME NEW m \in Msgs, SamePlace(m)
  PROVE  FateOf(m)' = FateOf(m)
  BY DEF SamePlace, FateOf, Waits

\* The fates of messages in the actor, and of messages still outside.
LEMMA Places ==
  ASSUME Known, WorkInv, NEW m \in Msgs
  PROVE  /\ m \in Waits => /\ m \notin finished \cup inflight \cup Entries(started)
                           /\ m \in Entries(admitted) /\ FateOf(m) = "accepted"
         /\ m \in inflight => /\ m \in Entries(started) /\ m \in Entries(admitted)
                              /\ m \notin finished \cup Waits /\ FateOf(m) = "started"
         /\ FateOf(m) = "accepted" => m \in Waits
         /\ FateOf(m) = "started" => m \in inflight
         /\ caller[m] \in Outside =>
              /\ m \notin finished \cup inflight \cup Entries(started) \cup Waits \cup Entries(admitted)
              /\ FateOf(m) = IF caller[m] = "refused" THEN "refused" ELSE "none"
<1>1. PhaseInv /\ Accepted
  BY DEF Known, WorkInv
<1>2. m \in Waits => m \notin finished \cup inflight \cup Entries(started) /\ m \in Entries(admitted)
  BY <1>1 DEF PhaseInv, OnePlace, Accepted, Waits
<1>3. m \in inflight => /\ m \in Entries(started) /\ m \in Entries(admitted)
                        /\ m \notin finished \cup Waits
  BY <1>1 DEF PhaseInv, OnePlace, Accepted, Waits
<1>4. caller[m] \in Outside =>
        m \notin finished \cup inflight \cup Entries(started) \cup Waits \cup Entries(admitted)
  BY <1>1 DEF PhaseInv, OnePlace, CallersApart, Waits
<1> QED
  BY <1>2, <1>3, <1>4 DEF FateOf, Waits

\* One message moves, the others stay.
LEMMA OneFate ==
  ASSUME NEW m \in Msgs, NEW f, FateOf(m)' = f, \A n \in Msgs \ {m} : SamePlace(n)
  PROVE  [n \in Msgs |-> FateOf(n)]' = [[n \in Msgs |-> FateOf(n)] EXCEPT ![m] = f]
<1>1. \A n \in Msgs \ {m} : FateOf(n)' = FateOf(n)
  BY FateSame
<1> QED
  BY <1>1

\* No message moves.
LEMMA NoFate ==
  ASSUME \A n \in Msgs : SamePlace(n)
  PROVE  [n \in Msgs |-> FateOf(n)]' = [n \in Msgs |-> FateOf(n)]
<1>1. \A n \in Msgs : FateOf(n)' = FateOf(n)
  BY FateSame
<1> QED
  BY <1>1

\* A step that moves no message and at most closes the gate.
LEMMA Closes ==
  ASSUME \A n \in Msgs : SamePlace(n) /\ (caller'[n] = "abandoned" <=> caller[n] = "abandoned"),
         exit' = exit, mode \in Modes, mode' \in Modes,
         \/ mode' = mode
         \/ mode = "Running" /\ mode' \in {"Draining", "Stopping"} \cup Hard
         \/ mode \in Graceful /\ mode' \in Hard
         \/ mode \in Hard /\ mode' \in Hard
  PROVE  Promise!Close \/ UNCHANGED Promise!vars
<1>1. [n \in Msgs |-> FateOf(n)]' = [n \in Msgs |-> FateOf(n)]
  BY NoFate
<1>2. {m \in Msgs : caller[m] = "abandoned"}' = {m \in Msgs : caller[m] = "abandoned"}
  OBVIOUS
<1>3. \/ GateOf[mode'] = GateOf[mode]
      \/ GateOf[mode] = "open" /\ GateOf[mode'] \in {"draining", "stopping", "hard"}
      \/ GateOf[mode] \in {"draining", "stopping"} /\ GateOf[mode'] = "hard"
  BY DEF GateOf, Modes, Graceful, Hard
<1> QED
  BY <1>1, <1>2, <1>3 DEF Promise!Close, Promise!vars

----------------------------------------------------------------------------
(* Callers.                                                                *)

\* A caller outside is refused; the others may be handed its slot.
LEMMA RefusedRefines ==
  ASSUME Known, WorkInv, NEW m \in Msgs,
         caller[m] \in Outside \ {"refused"}, caller'[m] = "refused", mode # "Running",
         \A n \in Msgs \ {m} : /\ caller'[n] = "refused" <=> caller[n] = "refused"
                               /\ caller'[n] = "abandoned" <=> caller[n] = "abandoned",
         UNCHANGED <<mode, exit, queue, admitted, inflight, started, finished, inhand>>
  PROVE  Promise!Refuse(m)
<1>1. FateOf(m) = "none" /\ GateOf[mode] # "open"
  BY Places, GateMap DEF Known, TypeOK
<1>2. \A n \in Msgs \ {m} : SamePlace(n)
  BY DEF SamePlace, Waits, Entries
<1>3. FateOf(m)' = "refused"
  <2>1. m \notin finished \cup inflight \cup Entries(started) \cup Waits \cup Entries(admitted)
    BY Places
  <2>2. /\ Waits' = Waits /\ Entries(started)' = Entries(started)
        /\ Entries(admitted)' = Entries(admitted)
    BY DEF Waits, Entries
  <2> QED
    BY <2>1, <2>2 DEF FateOf, Waits
<1>4. {n \in Msgs : caller[n] = "abandoned"}' = {n \in Msgs : caller[n] = "abandoned"}
  BY DEF Outside
<1> QED
  BY <1>1, <1>2, <1>3, <1>4, OneFate DEF Promise!Refuse

\* A caller that moves outside, and is not refused, moves no message.
LEMMA OutsideSilent ==
  ASSUME Known, WorkInv,
         \A n \in Msgs : \/ caller'[n] = caller[n]
                         \/ /\ caller[n] \in Outside \ {"refused"}
                            /\ caller'[n] \in Outside \ {"refused"},
         UNCHANGED <<mode, exit, queue, admitted, inflight, started, finished, inhand>>
  PROVE  Promise!Close \/ UNCHANGED Promise!vars
<1>1. \A n \in Msgs : SamePlace(n) /\ (caller'[n] = "abandoned" <=> caller[n] = "abandoned")
  BY DEF SamePlace, Waits, Entries, Outside
<1> QED
  BY <1>1, Closes DEF Known, TypeOK

\* Admission is acceptance.
LEMMA AdmitRefines ==
  ASSUME Known, WorkInv, NEW m \in Msgs, Admit(m)
  PROVE  Promise!Accept(m)
<1>1. /\ caller[m] \in {"permit", "granted"} /\ mode = "Running"
      /\ queue' = Append(queue, m) /\ admitted' = Append(admitted, m)
      /\ caller' = [caller EXCEPT ![m] = "admitted"]
      /\ UNCHANGED <<mode, exit, inflight, started, finished, inhand>>
  BY DEF Admit, Reserved, MayAdmit, Enqueued, gateVars, workVars, taskVars, frameVars
<1>2. caller \in [Msgs -> CallerStates] /\ queue \in Seq(Msgs) /\ admitted \in Seq(Msgs)
  BY DEF Known, TypeOK
<1>3. /\ FateOf(m) = "none"
      /\ m \notin finished \cup inflight \cup Entries(started) \cup Waits \cup Entries(admitted)
  BY <1>1, Places DEF Outside
<1>4. /\ Entries(queue') = Entries(queue) \cup {m} /\ Entries(admitted') = Entries(admitted) \cup {m}
      /\ Entries(started') = Entries(started)
  BY <1>1, <1>2, EntriesAppend
<1>5. \A n \in Msgs \ {m} : SamePlace(n)
  BY <1>1, <1>2, <1>4 DEF SamePlace, Waits
<1>6. FateOf(m)' = "accepted"
  BY <1>1, <1>3, <1>4 DEF FateOf
<1>7. {n \in Msgs : caller[n] = "abandoned"}' = {n \in Msgs : caller[n] = "abandoned"}
  BY <1>1, <1>2
<1>8. GateOf[mode] = "open"
  BY <1>1 DEF GateOf
<1> QED
  BY <1>1, <1>3, <1>5, <1>6, <1>7, <1>8, OneFate DEF Promise!Accept

\* A caller that drops its Response leaves, having been admitted.
LEMMA AbandonRefines ==
  ASSUME Known, WorkInv, NEW m \in Msgs, Abandon(m)
  PROVE  Promise!Leave(m)
<1>1. /\ m \in Calls /\ caller[m] = "admitted" /\ reply[m] = NoReply
      /\ caller' = [caller EXCEPT ![m] = "abandoned"]
      /\ UNCHANGED <<mode, exit, queue, admitted, inflight, started, finished, inhand>>
  BY DEF Abandon, gateVars, workVars, taskVars, frameVars
<1>2. caller \in [Msgs -> CallerStates]
  BY DEF Known, TypeOK
<1>3. m \in Held
  BY <1>1 DEF WorkInv, Answered
<1>4. FateOf(m) \notin {"none", "refused"}
  BY <1>3, Places DEF Held, Waits
<1>5. \A n \in Msgs : SamePlace(n)
  BY <1>1, <1>2 DEF SamePlace, Waits, Entries
<1>6. {n \in Msgs : caller[n] = "abandoned"}' = {n \in Msgs : caller[n] = "abandoned"} \cup {m}
  BY <1>1, <1>2
<1> QED
  BY <1>1, <1>4, <1>5, <1>6, NoFate DEF Promise!Leave

\* What callers do.
LEMMA CallersRefine ==
  ASSUME Known, WorkInv, Callers
  PROVE  Promise!Next \/ UNCHANGED Promise!vars
<1>1. caller \in [Msgs -> CallerStates]
  BY DEF Known, TypeOK
<1>2. ASSUME NEW m \in Msgs, NEW x, x \in {"permit", "full", "waiting", "withdrawn"},
             caller[m] \in Outside \ {"refused"}, caller' = [caller EXCEPT ![m] = x],
             UNCHANGED <<mode, exit, queue, admitted, inflight, started, finished, inhand>>
      PROVE  Promise!Next \/ UNCHANGED Promise!vars
  <2>1. \A n \in Msgs : \/ caller'[n] = caller[n]
                        \/ /\ caller[n] \in Outside \ {"refused"}
                           /\ caller'[n] \in Outside \ {"refused"}
    BY <1>1, <1>2 DEF Outside
  <2> QED
    BY <1>2, <2>1, OutsideSilent DEF Promise!Next
<1>3. ASSUME NEW m \in Msgs,
             caller[m] \in Outside \ {"refused"}, caller' = [caller EXCEPT ![m] = "refused"],
             mode # "Running",
             UNCHANGED <<mode, exit, queue, admitted, inflight, started, finished, inhand>>
      PROVE  Promise!Next \/ UNCHANGED Promise!vars
  <2>1. \A n \in Msgs \ {m} : caller'[n] = caller[n]
    BY <1>1, <1>3
  <2>2. caller'[m] = "refused"
    BY <1>1, <1>3
  <2> QED
    BY <1>3, <2>1, <2>2, RefusedRefines DEF Promise!Next
<1>4. ASSUME NEW m \in Msgs, TryReserve(m) \/ TryFull(m) \/ BeginWait(m)
      PROVE  Promise!Next \/ UNCHANGED Promise!vars
  <2>1. /\ caller[m] \in Outside \ {"refused"}
        /\ \E x \in {"permit", "full", "waiting"} : caller' = [caller EXCEPT ![m] = x]
        /\ UNCHANGED <<mode, exit, queue, admitted, inflight, started, finished, inhand>>
    BY <1>4 DEF TryReserve, TryFull, BeginWait, Outside, gateVars, workVars, taskVars, frameVars
  <2> QED
    BY <1>2, <2>1
<1>5. ASSUME NEW m \in Msgs, TryClosed(m) \/ ReportFull(m) \/ WaitClosed(m)
      PROVE  Promise!Next \/ UNCHANGED Promise!vars
  <2>1. /\ caller[m] \in Outside \ {"refused"}
        /\ UNCHANGED <<mode, exit, queue, admitted, inflight, started, finished, inhand>>
        /\ \/ caller' = [caller EXCEPT ![m] = "withdrawn"]
           \/ mode # "Running" /\ caller' = [caller EXCEPT ![m] = "refused"]
    BY <1>5 DEF TryClosed, ReportFull, WaitClosed, MayAdmit, Outside, Known, CutoffInv, gateVars,
       workVars, taskVars, frameVars
  <2> QED
    BY <1>2, <1>3, <2>1
<1>6. ASSUME NEW m \in Msgs, AdmitRefused(m)
      PROVE  Promise!Next \/ UNCHANGED Promise!vars
  <2>1. /\ caller[m] \in Outside \ {"refused"} /\ mode # "Running"
        /\ caller' \in Regrant([caller EXCEPT ![m] = "refused"])
        /\ UNCHANGED <<mode, exit, queue, admitted, inflight, started, finished, inhand>>
    BY <1>6 DEF AdmitRefused, Reserved, MayAdmit, Outside, gateVars, workVars, taskVars, frameVars
  <2>2. [caller EXCEPT ![m] = "refused"] \in [Msgs -> CallerStates]
    BY <1>1 DEF CallerStates
  <2>3. /\ caller'[m] = "refused"
        /\ \A n \in Msgs \ {m} : /\ caller'[n] = "refused" <=> caller[n] = "refused"
                                 /\ caller'[n] = "abandoned" <=> caller[n] = "abandoned"
    <3> DEFINE c == [caller EXCEPT ![m] = "refused"]
    <3>1. \A n \in Msgs : caller'[n] = c[n] \/ (c[n] = "waiting" /\ caller'[n] = "granted")
      BY <2>1, <2>2, RegrantOutside
    <3> QED
      BY <1>1, <3>1
  <2> QED
    BY <2>1, <2>3, RefusedRefines DEF Promise!Next
<1>7. ASSUME NEW m \in Msgs, CancelWait(m)
      PROVE  Promise!Next \/ UNCHANGED Promise!vars
  <2> DEFINE c == [caller EXCEPT ![m] = "withdrawn"]
  <2>1. /\ caller[m] \in {"waiting", "granted"} /\ (caller' \in Regrant(c) \/ caller' = c)
        /\ UNCHANGED <<mode, exit, queue, admitted, inflight, started, finished, inhand>>
    BY <1>7 DEF CancelWait, gateVars, workVars, taskVars, frameVars
  <2>2. c \in [Msgs -> CallerStates]
    BY <1>1 DEF CallerStates
  <2>3. \A n \in Msgs : caller'[n] = c[n] \/ (c[n] = "waiting" /\ caller'[n] = "granted")
    BY <2>1, <2>2, RegrantOutside
  <2>4. \A n \in Msgs : \/ caller'[n] = caller[n]
                        \/ /\ caller[n] \in Outside \ {"refused"}
                           /\ caller'[n] \in Outside \ {"refused"}
    BY <1>1, <2>1, <2>3 DEF Outside
  <2> QED
    BY <2>1, <2>4, OutsideSilent DEF Promise!Next
<1>8. ASSUME NEW m \in Msgs, Admit(m) \/ Abandon(m)
      PROVE  Promise!Next
  BY <1>8, AdmitRefines, AbandonRefines DEF Promise!Next
<1> QED
  BY <1>4, <1>5, <1>6, <1>7, <1>8 DEF Callers

----------------------------------------------------------------------------
(* The task.                                                               *)

\* The envelope the task has in hand, or selected from the queue, is given up.
LEMMA GivenUpRefines ==
  ASSUME Known, WorkInv, NEW m \in Msgs, m \in Waits, Waits' = Waits \ {m},
         mode \in Hard \cup {"Stopping"} \/ caller[m] = "abandoned", mode # "Exited",
         \A n \in Msgs : /\ caller'[n] = "refused" <=> caller[n] = "refused"
                         /\ caller'[n] = "abandoned" <=> caller[n] = "abandoned",
         mode' \in AfterUserDrop(mode),
         UNCHANGED <<exit, admitted, inflight, started, finished>>
  PROVE  Promise!GiveUp(m)
<1>1. mode \in Modes \ {"Exited"}
  BY DEF Known, TypeOK
<1>2. /\ m \notin finished \cup inflight \cup Entries(started)
      /\ m \in Entries(admitted) /\ FateOf(m) = "accepted"
  BY Places
<1>3. Entries(started') = Entries(started) /\ Entries(admitted') = Entries(admitted)
  OBVIOUS
<1>4. FateOf(m)' = "unserved"
  BY <1>2, <1>3 DEF FateOf, Waits
<1>5. \A n \in Msgs \ {m} : SamePlace(n)
  BY <1>3 DEF SamePlace
<1>6. {n \in Msgs : caller[n] = "abandoned"}' = {n \in Msgs : caller[n] = "abandoned"}
  OBVIOUS
<1>7. GateOf[mode'] = GateOf[mode] \/ (mode \in Graceful /\ GateOf[mode'] = "hard")
  BY <1>1, GateMayFail
<1>8. /\ mode \in Graceful => GateOf[mode] \in Promise!Graceful
      /\ mode \in Hard \cup {"Stopping"} => GateOf[mode] \in {"stopping", "hard"}
  BY <1>1, GateMap
<1>9. Promise!MayFail
  BY <1>7, <1>8 DEF Promise!MayFail
<1>10. GateOf[mode] \in {"stopping", "hard"} \/ m \in {n \in Msgs : caller[n] = "abandoned"}
  BY <1>8
<1> QED
  BY <1>2, <1>4, <1>5, <1>6, <1>9, <1>10, OneFate DEF Promise!GiveUp

\* The two ways of giving up the envelope in hand.
LEMMA HandRefines ==
  ASSUME Known, WorkInv, DispatchAbandoned \/ DispatchRefused
  PROVE  Promise!Next
<1>1. /\ pc = "dispatch" /\ mode \in Modes \ {"Exited"} /\ PhaseInv
  BY DEF DispatchAbandoned, DispatchRefused, Known, TypeOK, ExitedAtEnd
<1>2. PICK m \in Msgs : inhand = {m}
  BY <1>1 DEF Known, PlaceInv, HandInv
<1>3. /\ inhand' = {} /\ mode' \in AfterUserDrop(mode)
      /\ UNCHANGED <<exit, queue, caller, admitted, inflight, started, finished>>
      /\ caller[m] = "abandoned" \/ mode \notin {"Running", "Draining"}
  BY <1>2 DEF DispatchAbandoned, DispatchRefused, MayDispatch, mailboxVars, workVars
<1>4. m \in Waits /\ Waits' = Waits \ {m}
  <2>1. m \notin Entries(queue) /\ Entries(queue') = Entries(queue)
    BY <1>1, <1>2, <1>3 DEF PhaseInv, OnePlace
  <2> QED
    BY <1>2, <1>3, <2>1 DEF Waits
<1>5. mode \in Hard \cup {"Stopping"} \/ caller[m] = "abandoned"
  BY <1>1, <1>3 DEF Modes, Graceful
<1>6. Promise!GiveUp(m)
  BY <1>1, <1>3, <1>4, <1>5, GivenUpRefines
<1> QED
  BY <1>6 DEF Promise!Next

\* The oldest entry of the queue is rejected, under Stop or a hard mode.
LEMMA RejectRefines ==
  ASSUME Known, WorkInv, DiscardOne \/ TeardownOne
  PROVE  Promise!Next
<1>1. /\ pc \in {"discardPop", "teardown", "teardownYield"} /\ RejectHead
      /\ queue # <<>> /\ queue' = Tail(queue) /\ caller' \in Regrant(caller)
      /\ mode' \in AfterUserDrop(mode)
      /\ UNCHANGED <<exit, admitted, inflight, started, finished, inhand>>
  BY DEF DiscardOne, TeardownOne, RejectHead, frameVars
<1>2. /\ queue \in Seq(Msgs) /\ caller \in [Msgs -> CallerStates] /\ PhaseInv
      /\ mode \in Modes \ {"Exited"} /\ inhand = {}
  BY <1>1 DEF Known, TypeOK, ExitedAtEnd, PlaceInv, HandInv
<1>3. mode \in Hard \cup {"Stopping"}
  BY <1>1, <1>2 DEF Known, PlaceInv, Serves, Gates, Discarding, HardSteps, Modes, Graceful
<1>4. /\ Head(queue) \in Msgs /\ Head(queue) \in Entries(queue)
      /\ Entries(queue) = Entries(Tail(queue)) \cup {Head(queue)}
      /\ Head(queue) \notin Entries(Tail(queue))
  BY <1>1, <1>2, EntriesTail DEF PhaseInv, OnePlace
<1>5. Head(queue) \in Waits /\ Waits' = Waits \ {Head(queue)}
  <2>1. Entries(queue') = Entries(Tail(queue))
    BY <1>1
  <2> QED
    BY <1>1, <1>2, <1>4, <2>1 DEF Waits
<1>6. \A n \in Msgs : /\ caller'[n] = "refused" <=> caller[n] = "refused"
                      /\ caller'[n] = "abandoned" <=> caller[n] = "abandoned"
  BY <1>1, <1>2, RegrantOutside
<1>7. Promise!GiveUp(Head(queue))
  BY <1>1, <1>2, <1>3, <1>4, <1>5, <1>6, GivenUpRefines
<1> QED
  BY <1>4, <1>7 DEF Promise!Next

\* The handler of the envelope in hand starts, or fails as it does.
LEMMA StartRefines ==
  ASSUME Known, WorkInv, Dispatch \/ DispatchPanics
  PROVE  Promise!Next
<1>1. PICK m \in Msgs : inhand = {m}
  BY DEF Dispatch, DispatchPanics, Known, PlaceInv, HandInv
<1>2. /\ inhand' = {} /\ caller[m] = "admitted" /\ started' = Append(started, m)
      /\ mode \in {"Running", "Draining"}
      /\ UNCHANGED <<exit, queue, caller, admitted, finished>>
  BY <1>1 DEF Dispatch, DispatchPanics, MayDispatch, gateVars, mailboxVars
<1>3. /\ m \in Waits /\ FateOf(m) = "accepted"
      /\ m \notin finished \cup inflight \cup Entries(started)
  BY <1>1, Places DEF Waits
<1>4. /\ Entries(started') = Entries(started) \cup {m}
      /\ Entries(admitted') = Entries(admitted) /\ Entries(queue') = Entries(queue)
  BY <1>2, EntriesAppend DEF Known, TypeOK
<1>5. inflight' \in {inflight, inflight \cup {m}}
  BY <1>1 DEF Dispatch, DispatchPanics
<1>6. \A n \in Msgs \ {m} : SamePlace(n)
  BY <1>1, <1>2, <1>4, <1>5 DEF SamePlace, Waits
<1>7. GateOf[mode] \in {"open", "draining"}
  BY <1>2 DEF GateOf
<1>8. m \notin {n \in Msgs : caller[n] = "abandoned"}
  BY <1>2
<1>9. CASE Dispatch
  <2>1. m \in inflight' /\ mode' = mode
    BY <1>1, <1>9 DEF Dispatch, gateVars
  <2>2. FateOf(m)' = "started"
    BY <1>2, <1>3, <2>1 DEF FateOf
  <2>3. Promise!Start(m)
    BY <1>2, <1>3, <1>6, <1>7, <1>8, <2>1, <2>2, OneFate DEF Promise!Start
  <2> QED
    BY <2>3 DEF Promise!Next
<1>10. CASE DispatchPanics
  <2>1. inflight' = inflight /\ mode' = FailureMode(mode)
    BY <1>10 DEF DispatchPanics
  <2>2. FateOf(m)' = "interrupted"
    BY <1>2, <1>3, <1>4, <2>1 DEF FateOf
  <2>3. GateOf[mode'] = "hard"
    BY <1>2, <2>1 DEF FailureMode, Graceful, GateOf
  <2>4. Promise!StartFails(m)
    BY <1>2, <1>3, <1>6, <1>7, <1>8, <2>2, <2>3, OneFate DEF Promise!StartFails
  <2> QED
    BY <2>4 DEF Promise!Next
<1> QED
  BY <1>9, <1>10

\* A hard mode takes back replies, and the whole queue or nothing of it.
LEMMA TearsDown ==
  ASSUME Known, WorkInv, mode \in Hard, mode' \in Hard, inhand = {}, inhand' = {},
         queue' = queue \/ queue' = <<>>, inflight' \subseteq inflight,
         UNCHANGED <<exit, caller, admitted, started, finished>>
  PROVE  Promise!TearDown
<1> DEFINE queued  == IF queue' = queue THEN {} ELSE {m \in Msgs : FateOf(m) = "accepted"}
           running == inflight \ inflight'
<1>1. GateOf[mode] = "hard" /\ GateOf[mode'] = "hard"
  BY DEF GateOf, Hard
<1>2. {n \in Msgs : caller[n] = "abandoned"}' = {n \in Msgs : caller[n] = "abandoned"}
  OBVIOUS
<1>3. running \in SUBSET {m \in Msgs : FateOf(m) = "started"}
  BY Places DEF Known, TypeOK
<1>4. Entries(started') = Entries(started) /\ Entries(admitted') = Entries(admitted)
      /\ Waits = Entries(queue) /\ Waits' = Entries(queue')
  BY DEF Waits
<1>5. queue' # queue => Entries(queue') = {}
  BY DEF Entries
<1>6. ASSUME NEW n \in Msgs
      PROVE  FateOf(n)' = IF n \in queued THEN "unserved"
                          ELSE IF n \in running THEN "interrupted" ELSE FateOf(n)
  <2>1. CASE n \in running
    <3>1. /\ n \in inflight /\ n \notin inflight' /\ n \in Entries(started)
          /\ n \notin finished /\ FateOf(n) = "started"
      BY <2>1, Places
    <3>2. FateOf(n)' = "interrupted"
      BY <1>4, <3>1 DEF FateOf
    <3> QED
      BY <2>1, <3>1, <3>2
  <2>2. CASE n \in queued
    <3>1. FateOf(n) = "accepted" /\ queue' # queue
      BY <2>2
    <3>2. /\ n \notin finished \cup inflight \cup Entries(started) /\ n \in Entries(admitted)
      BY <3>1, Places
    <3>3. FateOf(n)' = "unserved"
      BY <1>4, <1>5, <3>1, <3>2 DEF FateOf
    <3> QED
      BY <2>2, <3>3
  <2>3. CASE n \notin queued \cup running
    <3>1. n \in inflight' <=> n \in inflight
      BY <2>3
    <3>2. n \in Waits' <=> n \in Waits
      <4>1. CASE queue' = queue
        BY <1>4, <4>1
      <4>2. CASE queue' # queue
        BY <1>4, <1>5, <2>3, <4>2, Places
      <4> QED
        BY <4>1, <4>2
    <3>3. SamePlace(n)
      BY <1>4, <3>1, <3>2 DEF SamePlace
    <3> QED
      BY <2>3, <3>3, FateSame
  <2> QED
    BY <2>1, <2>2, <2>3
<1>7. [n \in Msgs |-> FateOf(n)]' =
        [n \in Msgs |-> IF n \in queued THEN "unserved"
                        ELSE IF n \in running THEN "interrupted" ELSE FateOf(n)]
  BY <1>6
<1>8. queued \in {{}, {m \in Msgs : FateOf(m) = "accepted"}}
  OBVIOUS
<1> HIDE DEF queued, running
<1>9. /\ Promise!With("accepted") = {m \in Msgs : FateOf(m) = "accepted"}
      /\ Promise!With("started") = {m \in Msgs : FateOf(m) = "started"}
  BY DEF Promise!With
<1>10. [n \in Msgs |-> FateOf(n)]' =
         [m \in Msgs |-> IF m \in queued THEN "unserved"
                         ELSE IF m \in running THEN "interrupted"
                         ELSE [n \in Msgs |-> FateOf(n)][m]]
  BY <1>7
<1>11. \E q \in {{}, Promise!With("accepted")}, r \in SUBSET Promise!With("started") :
         [n \in Msgs |-> FateOf(n)]' =
           [m \in Msgs |-> IF m \in q THEN "unserved"
                           ELSE IF m \in r THEN "interrupted"
                           ELSE [n \in Msgs |-> FateOf(n)][m]]
  BY <1>3, <1>8, <1>9, <1>10
<1> QED
  BY <1>1, <1>2, <1>11 DEF Promise!TearDown

\* A reply's future returns: a completion, or too late for one.
LEMMA ReturnRefines ==
  ASSUME Known, WorkInv, NEW m \in Msgs, ReplyReturns(m)
  PROVE  Promise!Next
<1>1. /\ pc = "poll" /\ m \in inflight /\ inflight' = inflight \ {m}
      /\ mode \in Modes \ {"Exited"} /\ mode' \in AfterUserDrop(mode) /\ inhand = {}
      /\ UNCHANGED <<exit, queue, caller, admitted, started, inhand>>
  BY DEF ReplyReturns, mailboxVars, frameVars, Known, TypeOK, ExitedAtEnd, PlaceInv, HandInv
<1>2. CASE mode \in Graceful
  <2>1. finished' = finished \cup {m}
    BY <1>2 DEF ReplyReturns, MayComplete
  <2>2. FateOf(m) = "started"
    BY <1>1, Places
  <2>3. FateOf(m)' = "completed"
    BY <2>1 DEF FateOf
  <2>4. \A n \in Msgs \ {m} : SamePlace(n)
    BY <1>1, <2>1 DEF SamePlace, Waits, Entries
  <2>5. GateOf[mode'] = GateOf[mode] \/ GateOf[mode'] = "hard"
    BY <1>1, GateMayFail
  <2>6. GateOf[mode] \in Promise!Graceful
    BY <1>1, <1>2, GateMap
  <2>7. Promise!MayFail
    BY <2>5, <2>6 DEF Promise!MayFail
  <2>8. Promise!Complete(m)
    BY <1>1, <2>2, <2>3, <2>4, <2>6, <2>7, OneFate DEF Promise!Complete
  <2> QED
    BY <2>8 DEF Promise!Next
<1>3. CASE mode \notin Graceful
  <2>1. mode \in Hard /\ mode' \in Hard
    BY <1>1, <1>3, GateMayFail DEF Modes
  <2>2. finished' = finished
    BY <1>3 DEF ReplyReturns, MayComplete
  <2>3. Promise!TearDown
    BY <1>1, <2>1, <2>2, TearsDown
  <2> QED
    BY <2>3 DEF Promise!Next
<1> QED
  BY <1>2, <1>3

\* Teardown: the replies, the queue, or both.
LEMMA TeardownRefines ==
  ASSUME Known, WorkInv, Kill \/ Fail \/ DropFrame \/ DropUnstartedInbox
  PROVE  Promise!Next \/ UNCHANGED Promise!vars
<1>1. /\ pc \in {"kill", "fail", "frame", "spawnerDrop"} /\ inhand = {} /\ inhand' = {}
      /\ mode \in Modes \ {"Exited"}
      /\ UNCHANGED <<exit, caller, admitted, started, finished>>
      /\ queue' = queue \/ queue' = <<>>
      /\ inflight' \subseteq inflight
      /\ mode' \in {mode, FailureMode(mode), AbortMode(mode)}
  BY DEF Kill, Fail, DropFrame, DropUnstartedInbox, gateVars, frameVars, Known, TypeOK, ExitedAtEnd,
     PlaceInv, HandInv
<1>2. CASE mode \in Hard
  <2>1. mode' \in Hard
    BY <1>1, <1>2 DEF Hard, Graceful, FailureMode, AbortMode
  <2> QED
    BY <1>1, <1>2, <2>1, TearsDown DEF Promise!Next
<1>3. CASE mode \notin Hard
  <2>1. mode \in Graceful
    BY <1>1, <1>3 DEF Modes
  <2>2. pc = "frame" /\ stopHook = "returned"
    BY <1>1, <2>1 DEF Known, PlaceInv, Gates, HardSteps
  <2>3. queue = <<>> /\ inflight = {}
    BY <2>2 DEF Known, PlaceInv, Emptied
  <2>4. \A n \in Msgs : SamePlace(n) /\ (caller'[n] = "abandoned" <=> caller[n] = "abandoned")
    BY <1>1, <2>3 DEF SamePlace, Waits, Entries
  <2>5. mode' \in Modes /\ (mode' = mode \/ mode' \in Hard)
    BY <1>1, <2>1 DEF Modes, Hard, Graceful, FailureMode, AbortMode
  <2> QED
    BY <1>1, <2>1, <2>4, <2>5, Closes DEF Promise!Next
<1> QED
  BY <1>2, <1>3

\* The exit is published when every accepted message has its final fate.
LEMMA PublishRefines ==
  ASSUME Known, WorkInv, Publish
  PROVE  Promise!Next
<1>1. /\ pc = "publish" /\ mode \in Modes \ {"Exited"} /\ mode' = "Exited"
      /\ exit' = FinishReason(mode, proposed)
      /\ UNCHANGED <<queue, caller, admitted, inflight, started, finished, inhand>>
  BY DEF Publish, mailboxVars, workVars, frameVars, Known, TypeOK, ExitedAtEnd
<1>2. queue = <<>> /\ inflight = {} /\ inhand = {}
  BY <1>1 DEF Known, PlaceInv, Emptied, HandInv
<1>3. Waits = {} /\ Held = {}
  BY <1>2 DEF Waits, Held, Entries
<1>4. \A n \in Msgs : FateOf(n) \notin {"accepted", "started"}
  BY <1>2, <1>3, Places
<1>5. Promise!With("accepted") \cup Promise!With("started") = {}
  BY <1>4 DEF Promise!With
<1>6. \A n \in Msgs : SamePlace(n)
  BY <1>1 DEF SamePlace, Waits, Entries
<1>7. {n \in Msgs : caller[n] = "abandoned"}' = {n \in Msgs : caller[n] = "abandoned"}
  BY <1>1
<1>8. GateOf[mode'] = "exited"
  BY <1>1 DEF GateOf
<1>9. \/ /\ GateOf[mode] = "draining" /\ exit' = "Drained"
         /\ Promise!With("unserved") \subseteq {n \in Msgs : caller[n] = "abandoned"}
         /\ Promise!With("interrupted") = {}
      \/ GateOf[mode] = "stopping" /\ exit' = "Stopped" /\ Promise!With("interrupted") = {}
      \/ GateOf[mode] = "hard" /\ exit' \in {"Killed", "Panicked", "Aborted"}
  <2>1. CASE mode \in Hard
    <3>1. GateOf[mode] = "hard"
      BY <2>1 DEF GateOf, Hard
    <3>2. exit' \in {"Killed", "Panicked", "Aborted"}
      BY <1>1, <2>1 DEF FinishReason, HardReason, Hard, Graceful
    <3> QED
      BY <3>1, <3>2
  <2>2. CASE mode \in Graceful
    <3>1. proposed \in {"Drained", "Stopped"} /\ exit' = proposed
      BY <1>1, <2>2 DEF FinishReason, Known, PlaceInv, Gates
    <3>2. /\ proposed = "Drained" => mode = "Draining"
          /\ proposed = "Stopped" => mode = "Stopping"
      BY <2>2 DEF Known, PlaceInv, Serves, Gates, Graceful
    <3>3. Entries(started) \subseteq finished
      <4>1. stopHook = "returned"
        BY <1>1, <2>2 DEF Known, PlaceInv, Gates
      <4> QED
        BY <4>1 DEF WorkInv, AtStop
    <3>4. Promise!With("interrupted") = {}
      <4>1. \A n \in Msgs : FateOf(n) # "interrupted"
        BY <3>3 DEF FateOf
      <4> QED
        BY <4>1 DEF Promise!With
    <3>5. ASSUME mode = "Draining", NEW n \in Msgs, FateOf(n) = "unserved"
          PROVE  caller[n] = "abandoned"
      <4>1. n \in Entries(admitted) /\ n \notin finished
        BY <3>5 DEF FateOf
      <4>2. GivenUp(n)
        BY <1>3, <2>2, <4>1 DEF WorkInv, Settled
      <4> QED
        BY <3>5, <4>2 DEF GivenUp
    <3>6. mode = "Draining" =>
            Promise!With("unserved") \subseteq {n \in Msgs : caller[n] = "abandoned"}
      BY <3>5 DEF Promise!With
    <3>7. mode = "Draining" \/ mode = "Stopping"
      BY <3>1, <3>2
    <3>8. /\ mode = "Draining" => GateOf[mode] = "draining"
          /\ mode = "Stopping" => GateOf[mode] = "stopping"
      BY DEF GateOf
    <3>9. /\ mode = "Draining" => exit' = "Drained"
          /\ mode = "Stopping" => exit' = "Stopped"
      BY <3>1, <3>2
    <3> QED
      BY <3>4, <3>6, <3>7, <3>8, <3>9
  <2> QED
    BY <1>1, <2>1, <2>2 DEF Modes
<1>10. Promise!Exit
  BY <1>5, <1>6, <1>7, <1>8, <1>9, NoFate DEF Promise!Exit
<1> QED
  BY <1>10 DEF Promise!Next

\* Every other step moves no message and at most closes the gate.
LEMMA RestRefines ==
  ASSUME Known, WorkInv,
         Waits' = Waits, exit' = exit,
         UNCHANGED <<admitted, inflight, started, finished>>,
         \A n \in Msgs : /\ caller'[n] = "refused" <=> caller[n] = "refused"
                         /\ caller'[n] = "abandoned" <=> caller[n] = "abandoned",
         \/ mode' = mode
         \/ mode # "Exited" /\ mode' \in {FailureMode(mode), AbortMode(mode)}
         \/ \E shutdown \in Shutdowns : mode' = RequestedMode(mode, shutdown)
  PROVE  Promise!Next \/ UNCHANGED Promise!vars
<1>1. mode \in Modes
  BY DEF Known, TypeOK
<1>2. Entries(started') = Entries(started) /\ Entries(admitted') = Entries(admitted)
  OBVIOUS
<1>3. \A n \in Msgs : SamePlace(n) /\ (caller'[n] = "abandoned" <=> caller[n] = "abandoned")
  BY <1>2 DEF SamePlace
<1>4. /\ mode' \in Modes
      /\ \/ mode' = mode
         \/ mode = "Running" /\ mode' \in {"Draining", "Stopping"} \cup Hard
         \/ mode \in Graceful /\ mode' \in Hard
         \/ mode \in Hard /\ mode' \in Hard
  BY <1>1 DEF Modes, Graceful, Hard, Shutdowns, FailureMode, AbortMode, RequestedMode, CutoffMode
<1> QED
  BY <1>1, <1>3, <1>4, Closes DEF Promise!Next

\* Every step of the actor is one of Delivery, or none.
LEMMA NextRefines ==
  ASSUME Known, WorkInv, [Next]_vars
  PROVE  [Promise!Next]_(Promise!vars)
<1> DEFINE Others == UNCHANGED <<queue, caller, exit, admitted, inflight, started, finished, inhand>>
<1>1. ASSUME Others, \/ mode' = mode
                     \/ mode # "Exited" /\ mode' \in {FailureMode(mode), AbortMode(mode)}
                     \/ \E shutdown \in Shutdowns : mode' = RequestedMode(mode, shutdown)
      PROVE  Promise!Next \/ UNCHANGED Promise!vars
  <2>1. Waits' = Waits
    BY <1>1 DEF Waits, Entries
  <2> QED
    BY <1>1, <2>1, RestRefines
<1>2. mode = "Exited" => pc = "exited"
  BY DEF Known, ExitedAtEnd
<1>3. CASE UNCHANGED vars
  BY <1>1, <1>3 DEF vars, gateVars, mailboxVars, workVars, taskVars, frameVars
<1>4. ASSUME NEW shutdown \in Shutdowns, RequestShutdown(shutdown)
      PROVE  Promise!Next \/ UNCHANGED Promise!vars
  BY <1>1, <1>4 DEF RequestShutdown, mailboxVars, workVars, taskVars, frameVars
<1>5. CASE Starting /\ ~DropUnstartedInbox
  <2>1. Others /\ (\/ mode' = mode
                   \/ mode # "Exited" /\ mode' = FailureMode(mode)
                   \/ \E shutdown \in Shutdowns : mode' = RequestedMode(mode, shutdown))
    BY <1>2, <1>5 DEF Starting, Spawn, DropSpawner, EnterInit, CheckInit, InitPending, InitDone,
       InitPanics, Shutdowns, gateVars, mailboxVars, workVars, frameVars
  <2> QED
    BY <1>1, <2>1
<1>6. CASE Receive
  <2>1. /\ queue # <<>> /\ queue' = Tail(queue) /\ inhand' = {Head(queue)} /\ inhand = {}
        /\ caller' \in Regrant(caller)
        /\ UNCHANGED <<mode, exit, admitted, inflight, started, finished>>
    BY <1>6 DEF Receive, gateVars, workVars, Known, PlaceInv, HandInv
  <2>2. queue \in Seq(Msgs) /\ caller \in [Msgs -> CallerStates]
    BY DEF Known, TypeOK
  <2>3. Waits' = Waits
    <3>1. Entries(queue) = Entries(Tail(queue)) \cup {Head(queue)}
      BY <2>1, <2>2, EntriesTail
    <3>2. Entries(queue') = Entries(Tail(queue))
      BY <2>1
    <3> QED
      BY <2>1, <3>1, <3>2 DEF Waits
  <2>4. \A n \in Msgs : /\ caller'[n] = "refused" <=> caller[n] = "refused"
                        /\ caller'[n] = "abandoned" <=> caller[n] = "abandoned"
    BY <2>1, <2>2, RegrantOutside
  <2> QED
    BY <2>1, <2>3, <2>4, RestRefines
<1>7. CASE LoopTop \/ OnDrain \/ OnStop \/ OnShutdownPanics \/ TurnCheck \/ InboxClosed \/ Park
           \/ \E m \in Msgs : ReplyPanics(m)
  <2>1. Others /\ (mode' = mode \/ (mode # "Exited" /\ mode' = FailureMode(mode)))
    BY <1>2, <1>7 DEF LoopTop, OnDrain, OnStop, OnShutdownPanics, TurnCheck, InboxClosed, Park,
       ReplyPanics, gateVars, mailboxVars, workVars, frameVars
  <2> QED
    BY <1>1, <2>1
<1>8. CASE \/ DrainTop \/ DiscardCheck \/ DiscardDone \/ FinishRepliesTop \/ FinishCheck
           \/ StopHookCheck \/ StopHookPending \/ StopHookDone \/ StopHookPanics
           \/ TeardownDone \/ Abort
  <2>1. Others /\ (mode' = mode \/ (mode # "Exited" /\ mode' \in {FailureMode(mode), AbortMode(mode)}))
    BY <1>2, <1>8 DEF DrainTop, DiscardCheck, DiscardDone, FinishRepliesTop, FinishCheck,
       StopHookCheck, StopHookPending, StopHookDone, StopHookPanics, TeardownDone, Abort, Suspended,
       gateVars, mailboxVars, workVars, frameVars
  <2> QED
    BY <1>1, <2>1
<1>9. CASE \/ Callers
           \/ DispatchAbandoned \/ DispatchRefused \/ DiscardOne \/ TeardownOne
           \/ Dispatch \/ DispatchPanics \/ \E m \in Msgs : ReplyReturns(m)
           \/ Kill \/ Fail \/ DropFrame \/ DropUnstartedInbox \/ Publish
  BY <1>9, CallersRefine, HandRefines, RejectRefines, StartRefines, ReturnRefines, TeardownRefines,
     PublishRefines
<1> QED
  BY <1>3, <1>4, <1>5, <1>6, <1>7, <1>8, <1>9
  DEF Next, Task, Runtime, UserCode, Starting

\* The actor keeps what Delivery promises the senders of its messages,
\* whatever callers, shutdown requests, panics and the executor do.
THEOREM Implementation == Safe => PromiseKept
<1>1. Init => Promise!Init
  <2> SUFFICES ASSUME Init PROVE Promise!Init
    OBVIOUS
  <2>1. \A m \in Msgs : FateOf(m) = "none" /\ caller[m] # "abandoned"
    BY DEF Init, FateOf, Entries
  <2>2. GateOf[mode] = "open" /\ exit = "none"
    BY DEF Init, GateOf, NoReason
  <2> QED
    BY <2>1, <2>2 DEF Promise!Init
<1>2. Known /\ WorkInv /\ [Next]_vars => [Promise!Next]_(Promise!vars)
  BY NextRefines
<1> QED
  BY <1>1, <1>2, WorkAccounted, PTL DEF Safe, PromiseKept, Promise!Spec
=============================================================================

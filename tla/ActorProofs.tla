---------------------------- MODULE ActorProofs ----------------------------
(***************************************************************************)
(* Proofs about Actor, for every set of messages, every capacity and every *)
(* dispatch limit.                                                         *)
(***************************************************************************)
EXTENDS Actor, TLAPS

----------------------------------------------------------------------------
(* The transactions of the gate stay among the modes and reasons.          *)

\* Failing, aborting and requesting a shutdown lead from a mode to a mode,
\* and never back to Running (control.rs).
LEMMA GateTransactions ==
  ASSUME NEW g \in Modes
  PROVE  /\ FailureMode(g) \in Modes \ {"Running"}
         /\ AbortMode(g) \in Modes \ {"Running"}
         /\ \A s \in Shutdowns : RequestedMode(g, s) \in Modes \ {"Running"}
         /\ AfterUserDrop(g) \subseteq Modes
         /\ g # "Running" => "Running" \notin AfterUserDrop(g)
  BY DEF Modes, Graceful, Hard, Shutdowns, FailureMode, AbortMode, RequestedMode,
         CutoffMode, AfterUserDrop

\* A failed call carries a reason, in every mode that refuses or interrupts it.
LEMMA ReasonsOfFailure ==
  ASSUME NEW g \in Modes, NEW e \in Reasons \cup {NoReason}, NEW p
  PROVE  FailureReason(g, e, p) \in Reasons \cup {NoReason}
  BY DEF Modes, Graceful, Hard, Reasons, FailureReason, HardReason

\* The published reason is a reason.
LEMMA ReasonsOfExit ==
  ASSUME NEW g \in Modes \ {"Exited"}, NEW r \in Reasons \cup {NoReason}
  PROVE  FinishReason(g, r) \in Reasons \cup {NoReason}
  BY DEF Modes, Graceful, Hard, Reasons, FinishReason, HardReason

\* What a caller is told is an answer, or what it was told before.
LEMMA AnswersTold ==
  ASSUME TypeOK, NEW m \in Calls, NEW g \in Modes
  PROVE  /\ Told(m, BeforeDispatch(g)) \in Answers
         /\ Told(m, DuringDispatch(g)) \in Answers
         /\ Told(m, OkReply) \in Answers
  BY ReasonsOfFailure DEF TypeOK, Told, BeforeDispatch, DuringDispatch, OkReply, Answers,
                          ReplyPhases

\* Handing on a slot keeps every caller in a caller's state.
LEMMA RegrantType ==
  ASSUME NEW c \in [Msgs -> CallerStates], NEW d \in Regrant(c)
  PROVE  d \in [Msgs -> CallerStates]
  BY DEF Regrant, CallerStates

----------------------------------------------------------------------------
(* Type correctness.  FinishReason has no value in an exited mode, so the  *)
(* induction also needs that the exit is published once, by the last step. *)

ExitedAtEnd == mode = "Exited" => pc = "exited"

\* The initial state is well typed.
LEMMA TypeInit == Init => TypeOK
<1> SUFFICES ASSUME Init PROVE TypeOK
  OBVIOUS
<1>1. NoReply \in Answers
  BY DEF NoReply, Answers, ReplyPhases
<1>2. reply \in [Calls -> Answers]
  BY <1>1 DEF Init
<1>3. caller \in [Msgs -> CallerStates]
  BY DEF Init, CallerStates
<1>4. /\ mode \in Modes /\ expected \in Graceful
      /\ exit \in Reasons \cup {NoReason} /\ proposed \in Reasons \cup {NoReason}
  BY DEF Init, Modes, Graceful
<1>5. pc \in Steps
  BY DEF Init, Steps
<1>6. queue \in Seq(Msgs) /\ admitted \in Seq(Msgs) /\ started \in Seq(Msgs)
  BY DEF Init
<1> QED
  BY <1>2, <1>3, <1>4, <1>5, <1>6 DEF Init, TypeOK

\* Steps of callers, and requests for shutdown.
LEMMA TypeCallers ==
  ASSUME TypeOK, Callers \/ \E shutdown \in Shutdowns : RequestShutdown(shutdown)
  PROVE  TypeOK'
<1> USE DEF TypeOK
<1>1. ASSUME NEW m \in Msgs, TryReserve(m) \/ TryFull(m) \/ TryClosed(m) \/ ReportFull(m)
                             \/ BeginWait(m) \/ WaitClosed(m) \/ Abandon(m)
      PROVE  TypeOK'
  BY <1>1, GateTransactions
  DEF TryReserve, TryFull, TryClosed, ReportFull, BeginWait, WaitClosed, Abandon,
      CallerStates, gateVars, workVars, taskVars, frameVars
<1>2. ASSUME NEW m \in Msgs, Admit(m)
      PROVE  TypeOK'
  BY <1>2 DEF Admit, Enqueued, CallerStates, gateVars, workVars, taskVars, frameVars
<1>3. ASSUME NEW m \in Msgs, AdmitRefused(m)
      PROVE  TypeOK'
  <2>1. [caller EXCEPT ![m] = "refused"] \in [Msgs -> CallerStates]
    BY DEF CallerStates
  <2> QED
    BY <1>3, <2>1, RegrantType DEF AdmitRefused, gateVars, workVars, taskVars, frameVars
<1>4. ASSUME NEW m \in Msgs, CancelWait(m)
      PROVE  TypeOK'
  <2>1. [caller EXCEPT ![m] = "withdrawn"] \in [Msgs -> CallerStates]
    BY DEF CallerStates
  <2> QED
    BY <1>4, <2>1, RegrantType DEF CancelWait, gateVars, workVars, taskVars, frameVars
<1>5. ASSUME NEW shutdown \in Shutdowns, RequestShutdown(shutdown)
      PROVE  TypeOK'
  BY <1>5, GateTransactions
  DEF RequestShutdown, mailboxVars, workVars, taskVars, frameVars
<1> QED
  BY <1>1, <1>2, <1>3, <1>4, <1>5 DEF Callers

\* Spawning and initialization.
Starting == \/ Spawn \/ DropSpawner \/ DropUnstartedInbox
            \/ EnterInit \/ CheckInit \/ InitPending \/ InitDone \/ InitPanics

\* Spawning and initialization keep the types.
LEMMA TypeStarting ==
  ASSUME TypeOK, Starting
  PROVE  TypeOK'
<1> USE DEF TypeOK
<1>1. CASE DropUnstartedInbox
  BY <1>1, AnswersTold
  DEF DropUnstartedInbox, gateVars, frameVars, Steps, Suspended
<1>2. CASE Spawn \/ EnterInit \/ CheckInit \/ InitPending \/ InitDone
  BY <1>2 DEF Spawn, EnterInit, CheckInit, InitPending, InitDone,
              gateVars, mailboxVars, workVars, frameVars, Steps, Suspended
<1>3. CASE DropSpawner \/ InitPanics
  BY <1>3, GateTransactions
  DEF DropSpawner, InitPanics, Shutdowns, mailboxVars, workVars, frameVars, Steps, Suspended
<1> QED
  BY <1>1, <1>2, <1>3 DEF Starting

\* The loop and its turns.
Turning == \/ LoopTop \/ OnDrain \/ OnStop \/ OnShutdownPanics \/ TurnCheck
           \/ Receive \/ InboxClosed \/ Park
           \/ DispatchAbandoned \/ DispatchRefused \/ Dispatch \/ DispatchPanics
           \/ \E m \in Msgs : ReplyReturns(m) \/ ReplyPanics(m)

\* So do the loop and its turns: what poll_recv yields is a message, and the
\* loop heads are steps of the task.
LEMMA TypeTurning ==
  ASSUME TypeOK, Turning
  PROVE  TypeOK'
<1> USE DEF TypeOK
<1>1. /\ LoopHead[expected] \in Steps
      /\ LoopTop => pc' \in Steps
  BY DEF LoopHead, LoopTop, Graceful, Steps
<1>2. CASE LoopTop \/ TurnCheck \/ Park
  BY <1>1, <1>2 DEF LoopTop, TurnCheck, Park, gateVars, mailboxVars, workVars, frameVars,
                    Steps, Suspended
<1>3. CASE OnDrain \/ OnStop
  BY <1>3 DEF OnDrain, OnStop, InboxDrained, gateVars, workVars, Steps, Graceful
<1>4. CASE OnShutdownPanics \/ InboxClosed
  BY <1>4, GateTransactions
  DEF OnShutdownPanics, InboxClosed, mailboxVars, workVars, frameVars, Steps
<1>5. CASE Receive
  <2>1. queue # <<>> => Head(queue) \in Msgs /\ Tail(queue) \in Seq(Msgs)
    OBVIOUS
  <2> QED
    BY <1>5, <2>1, RegrantType DEF Receive, gateVars, workVars, Steps
<1>6. CASE DispatchAbandoned
  BY <1>1, <1>6, GateTransactions
  DEF DispatchAbandoned, AfterDispatch, mailboxVars, workVars, Steps
<1>7. CASE DispatchRefused
  BY <1>1, <1>7, GateTransactions, AnswersTold
  DEF DispatchRefused, AfterDispatch, mailboxVars, Steps
<1>8. CASE Dispatch
  BY <1>1, <1>8 DEF Dispatch, AfterDispatch, gateVars, mailboxVars, Steps
<1>9. CASE DispatchPanics
  BY <1>9, GateTransactions, AnswersTold
  DEF DispatchPanics, mailboxVars, Steps
<1>10. ASSUME NEW m \in Msgs, ReplyReturns(m)
       PROVE  TypeOK'
  BY <1>1, <1>10, GateTransactions, AnswersTold DEF ReplyReturns, mailboxVars, frameVars
<1>11. ASSUME NEW m \in Msgs, ReplyPanics(m)
       PROVE  TypeOK'
  BY <1>11, GateTransactions DEF ReplyPanics, mailboxVars, workVars, frameVars, Steps
<1> QED
  BY <1>2, <1>3, <1>4, <1>5, <1>6, <1>7, <1>8, <1>9, <1>10, <1>11 DEF Turning

\* Shutdown, teardown and exit.
ShuttingDown == \/ DrainTop \/ DiscardCheck \/ DiscardOne \/ DiscardDone \/ FinishRepliesTop
           \/ FinishCheck \/ StopHookCheck \/ StopHookPending \/ StopHookDone \/ StopHookPanics
           \/ Kill \/ Fail \/ TeardownOne \/ TeardownDone \/ Abort \/ DropFrame \/ Publish

\* Rejecting the oldest entry keeps the types, wherever the task goes next.
LEMMA TypeRejectHead ==
  ASSUME TypeOK, RejectHead, pc' \in Steps
  PROVE  TypeOK'
<1>1. Head(queue) \in Msgs /\ Tail(queue) \in Seq(Msgs)
  BY DEF TypeOK, RejectHead
<1>2. reply' \in [Calls -> Answers]
  BY AnswersTold DEF TypeOK, RejectHead
<1>3. caller' \in [Msgs -> CallerStates]
  BY RegrantType DEF TypeOK, RejectHead
<1>4. mode' \in Modes
  BY GateTransactions DEF TypeOK, RejectHead
<1> QED
  BY <1>1, <1>2, <1>3, <1>4 DEF TypeOK, RejectHead, frameVars

\* Shutdown, teardown and exit keep the types; a reason is published only by
\* a mode that has one.
LEMMA TypeShuttingDown ==
  ASSUME TypeOK, ExitedAtEnd, ShuttingDown
  PROVE  TypeOK'
<1> USE DEF TypeOK
<1>1. CASE DrainTop \/ FinishRepliesTop
  <2>1. pc' \in {"finish", "turn", "kill", "fail"}
    BY <1>1 DEF DrainTop, FinishRepliesTop, Graceful
  <2>2. proposed' \in Reasons \cup {NoReason} /\ drained' \in BOOLEAN
    BY <1>1 DEF DrainTop, FinishRepliesTop, Reasons, InboxDrained
  <2> QED
    BY <1>1, <2>1, <2>2 DEF DrainTop, FinishRepliesTop, gateVars, mailboxVars, workVars, Steps
<1>2. CASE DiscardCheck \/ DiscardDone \/ FinishCheck \/ StopHookCheck \/ TeardownDone
  BY <1>2 DEF DiscardCheck, DiscardDone, FinishCheck, StopHookCheck, TeardownDone,
              gateVars, mailboxVars, workVars, frameVars, Steps
<1>3. CASE DiscardOne \/ TeardownOne
  BY <1>3, TypeRejectHead DEF DiscardOne, TeardownOne, Steps, Suspended
<1>4. CASE StopHookPending \/ StopHookDone \/ StopHookPanics
  BY <1>4, GateTransactions
  DEF StopHookPending, StopHookDone, StopHookPanics, gateVars, mailboxVars, workVars,
      Steps, Suspended
<1>5. CASE Kill \/ Fail
  <2>1. ASSUME NEW g \in Modes
        PROVE  ClearedReplies(g) \in [Calls -> Answers]
    BY AnswersTold DEF ClearedReplies
  <2> QED
    BY <1>5, <2>1, GateTransactions DEF Kill, Fail, gateVars, Steps, Reasons
<1>6. CASE Abort
  BY <1>6, GateTransactions DEF Abort, mailboxVars, workVars, Steps, Reasons
<1>7. CASE DropFrame
  <2>1. reply' \in [Calls -> Answers]
    BY <1>7, AnswersTold DEF DropFrame, FrameReplies
  <2>2. mode' \in Modes
    BY <1>7, GateTransactions DEF DropFrame
  <2> QED
    BY <1>7, <2>1, <2>2 DEF DropFrame, Steps, Reasons
<1>8. CASE Publish
  <2>1. exit' \in Reasons \cup {NoReason}
    BY <1>8, ReasonsOfExit DEF Publish, ExitedAtEnd
  <2> QED
    BY <1>8, <2>1 DEF Publish, mailboxVars, workVars, frameVars, Modes, Steps
<1> QED
  BY <1>1, <1>2, <1>3, <1>4, <1>5, <1>6, <1>7, <1>8 DEF ShuttingDown

\* Only Publish exits, and no step of the task follows it.
LEMMA ExitedAtEndStep ==
  ASSUME TypeOK, ExitedAtEnd, [Next]_vars
  PROVE  ExitedAtEnd'
<1> USE DEF TypeOK, ExitedAtEnd
<1>1. ASSUME NEW g \in Modes \ {"Exited"}
      PROVE  /\ FailureMode(g) # "Exited" /\ AbortMode(g) # "Exited"
             /\ \A s \in Shutdowns : RequestedMode(g, s) # "Exited"
             /\ "Exited" \notin AfterUserDrop(g)
  BY DEF Modes, Graceful, Hard, Shutdowns, FailureMode, AbortMode, RequestedMode,
         CutoffMode, AfterUserDrop
<1>2. ASSUME NEW m \in Msgs,
             \/ TryReserve(m) \/ TryFull(m) \/ TryClosed(m) \/ ReportFull(m)
             \/ BeginWait(m) \/ WaitClosed(m) \/ Admit(m) \/ AdmitRefused(m)
             \/ CancelWait(m) \/ Abandon(m)
      PROVE  ExitedAtEnd'
  BY <1>1, <1>2 DEF TryReserve, TryFull, TryClosed, ReportFull, BeginWait, WaitClosed, Admit,
                    AdmitRefused, CancelWait, Abandon, gateVars, taskVars
<1>3. ASSUME NEW shutdown \in Shutdowns, RequestShutdown(shutdown)
      PROVE  ExitedAtEnd'
  BY <1>1, <1>3 DEF RequestShutdown, RequestedMode, taskVars
<1>4. CASE Starting
  BY <1>1, <1>4 DEF Starting, Shutdowns, Spawn, DropSpawner, DropUnstartedInbox, EnterInit,
                    CheckInit, InitPending, InitDone, InitPanics, gateVars
<1>5. CASE Turning
  BY <1>1, <1>5 DEF Turning, LoopTop, OnDrain, OnStop, OnShutdownPanics, TurnCheck, Receive,
                    InboxClosed, Park, DispatchAbandoned, DispatchRefused, Dispatch,
                    DispatchPanics, ReplyReturns, ReplyPanics, gateVars
<1>6. CASE ShuttingDown
  <2>1. CASE DrainTop \/ DiscardCheck \/ DiscardOne \/ DiscardDone \/ FinishRepliesTop
             \/ TeardownOne \/ TeardownDone
    BY <1>1, <2>1 DEF DrainTop, DiscardCheck, DiscardOne, DiscardDone, RejectHead,
                      FinishRepliesTop, TeardownOne, TeardownDone, gateVars
  <2>2. CASE FinishCheck \/ StopHookCheck \/ StopHookPending \/ StopHookDone \/ StopHookPanics
    BY <1>1, <2>2 DEF FinishCheck, StopHookCheck, StopHookPending, StopHookDone,
                      StopHookPanics, gateVars
  <2>3. CASE Kill \/ Fail \/ Abort \/ Publish
    BY <1>1, <2>3 DEF Kill, Fail, Abort, Publish, gateVars, Suspended
  <2>4. CASE DropFrame
    BY <1>1, <2>4, GateTransactions DEF DropFrame
  <2> QED
    BY <1>6, <2>1, <2>2, <2>3, <2>4 DEF ShuttingDown
<1>7. CASE UNCHANGED vars
  BY <1>7 DEF vars, gateVars, taskVars
<1> QED
  BY <1>2, <1>3, <1>4, <1>5, <1>6, <1>7
  DEF Next, Callers, Task, Runtime, UserCode, Starting, Turning, ShuttingDown

\* Every step keeps the types.
LEMMA TypeNext ==
  ASSUME TypeOK, ExitedAtEnd, [Next]_vars
  PROVE  TypeOK'
<1>1. CASE UNCHANGED vars
  BY <1>1 DEF vars, gateVars, mailboxVars, workVars, taskVars, frameVars, TypeOK
<1>2. CASE Next
  BY <1>2, TypeCallers, TypeStarting, TypeTurning, TypeShuttingDown
  DEF Next, Task, Runtime, UserCode, Starting, Turning, ShuttingDown
<1> QED
  BY <1>1, <1>2

\* The variables stay in their domains, over every behaviour of the actor.
THEOREM TypeCorrect == Safe => [](TypeOK /\ ExitedAtEnd)
<1>1. Init => TypeOK /\ ExitedAtEnd
  BY TypeInit DEF Init, ExitedAtEnd
<1>2. TypeOK /\ ExitedAtEnd /\ [Next]_vars => (TypeOK /\ ExitedAtEnd)'
  BY TypeNext, ExitedAtEndStep
<1> QED
  BY <1>1, <1>2, PTL DEF Safe

----------------------------------------------------------------------------
(* The transport closes only after the gate.                               *)

\* ClosedAfterCutoff is not inductive: closing steps do not look at the gate.
\* They are reached only by steps that did, which the position of the task
\* and the mode of its loop remember.
AfterCutoff == {"spawnerDrop", "gone", "onDrain", "onStop", "drain", "discard", "discardPop",
                "yield", "finishReplies", "finish", "stopHook", "stopHookPoll",
                "stopHookWait", "kill", "fail", "teardown", "teardownYield", "frame",
                "publish", "exited"}

CutoffInv ==
  mode = "Running" => ~closed /\ expected = "Running" /\ pc \notin AfterCutoff

\* A gate that has left Running never returns to it (control.rs).
LEMMA CutoffStays ==
  ASSUME TypeOK, [Next]_vars, mode # "Running"
  PROVE  mode' # "Running"
<1> USE DEF TypeOK
<1>1. ASSUME NEW m \in Msgs,
             \/ TryReserve(m) \/ TryFull(m) \/ TryClosed(m) \/ ReportFull(m)
             \/ BeginWait(m) \/ WaitClosed(m) \/ Admit(m) \/ AdmitRefused(m)
             \/ CancelWait(m) \/ Abandon(m)
      PROVE  mode' # "Running"
  BY <1>1 DEF TryReserve, TryFull, TryClosed, ReportFull, BeginWait, WaitClosed, Admit,
              AdmitRefused, CancelWait, Abandon, gateVars
<1>2. ASSUME NEW shutdown \in Shutdowns, RequestShutdown(shutdown)
      PROVE  mode' # "Running"
  BY <1>2, GateTransactions DEF RequestShutdown
<1>3. CASE Starting
  BY <1>3, GateTransactions
  DEF Starting, Shutdowns, Spawn, DropSpawner, DropUnstartedInbox, EnterInit,
      CheckInit, InitPending, InitDone, InitPanics, gateVars
<1>4. CASE Turning
  BY <1>4, GateTransactions
  DEF Turning, LoopTop, OnDrain, OnStop, OnShutdownPanics, TurnCheck, Receive,
      InboxClosed, Park, DispatchAbandoned, DispatchRefused, Dispatch,
      DispatchPanics, ReplyReturns, ReplyPanics, gateVars
<1>5. CASE ShuttingDown
  <2>1. CASE DrainTop \/ DiscardCheck \/ DiscardOne \/ DiscardDone \/ FinishRepliesTop
             \/ TeardownOne \/ TeardownDone
    BY <2>1, GateTransactions
    DEF DrainTop, DiscardCheck, DiscardOne, DiscardDone, RejectHead,
        FinishRepliesTop, TeardownOne, TeardownDone, gateVars
  <2>2. CASE FinishCheck \/ StopHookCheck \/ StopHookPending \/ StopHookDone \/ StopHookPanics
    BY <2>2, GateTransactions
    DEF FinishCheck, StopHookCheck, StopHookPending, StopHookDone, StopHookPanics, gateVars
  <2>3. CASE Kill \/ Fail \/ Abort \/ Publish
    BY <2>3, GateTransactions DEF Kill, Fail, Abort, Publish, gateVars
  <2>4. CASE DropFrame
    BY <2>4, GateTransactions DEF DropFrame
  <2> QED
    BY <1>5, <2>1, <2>2, <2>3, <2>4 DEF ShuttingDown
<1>6. CASE UNCHANGED vars
  BY <1>6 DEF vars, gateVars
<1> QED
  BY <1>1, <1>2, <1>3, <1>4, <1>5, <1>6
  DEF Next, Callers, Task, Runtime, UserCode, Starting, Turning, ShuttingDown

\* While the gate says Running, the task stays on this side of every close.
LEMMA CutoffStep ==
  ASSUME TypeOK, CutoffInv, [Next]_vars
  PROVE  CutoffInv'
<1> SUFFICES ASSUME mode' = "Running"
             PROVE  ~closed' /\ expected' = "Running" /\ pc' \notin AfterCutoff
  BY DEF CutoffInv
<1>0. mode = "Running" /\ ~closed /\ expected = "Running" /\ pc \notin AfterCutoff
  BY CutoffStays DEF CutoffInv
<1> USE DEF AfterCutoff
<1>1. ASSUME NEW m \in Msgs,
             \/ TryReserve(m) \/ TryFull(m) \/ TryClosed(m) \/ ReportFull(m)
             \/ BeginWait(m) \/ WaitClosed(m) \/ Admit(m) \/ AdmitRefused(m)
             \/ CancelWait(m) \/ Abandon(m)
      PROVE  ~closed' /\ expected' = "Running" /\ pc' \notin AfterCutoff
  BY <1>0, <1>1 DEF TryReserve, TryFull, TryClosed, ReportFull, BeginWait, WaitClosed, Admit,
                    AdmitRefused, CancelWait, Abandon, taskVars, frameVars
<1>2. ASSUME NEW shutdown \in Shutdowns, RequestShutdown(shutdown)
      PROVE  FALSE
  BY <1>0, <1>2, GateTransactions DEF RequestShutdown
<1>3. CASE Starting
  BY <1>0, <1>3, GateTransactions
  DEF Starting, Shutdowns, Spawn, DropSpawner, DropUnstartedInbox, EnterInit, CheckInit,
      InitPending, InitDone, InitPanics, MayInit, Graceful, gateVars, mailboxVars, frameVars,
      TypeOK
<1>4. CASE Turning
  <2>1. LoopHead[expected] = "loop"
    BY <1>0 DEF LoopHead
  <2>2. CASE LoopTop \/ OnDrain \/ OnStop \/ OnShutdownPanics \/ TurnCheck \/ Receive
             \/ InboxClosed \/ Park
    BY <1>0, <2>1, <2>2
    DEF LoopTop, OnDrain, OnStop, OnShutdownPanics, TurnCheck, Receive, InboxClosed,
        InboxEnds, Park, FailureMode, Graceful, gateVars, mailboxVars, frameVars
  <2>3. CASE DispatchAbandoned \/ DispatchRefused \/ Dispatch
    BY <1>0, <2>1, <2>3
    DEF DispatchAbandoned, DispatchRefused, Dispatch, AfterDispatch, mailboxVars
  <2>4. CASE DispatchPanics
    BY <1>0, <2>4 DEF DispatchPanics, FailureMode, Graceful
  <2>5. ASSUME NEW m \in Msgs, ReplyReturns(m) \/ ReplyPanics(m)
        PROVE  ~closed' /\ expected' = "Running" /\ pc' \notin AfterCutoff
    BY <1>0, <2>1, <2>5
    DEF ReplyReturns, ReplyPanics, FailureMode, Graceful, mailboxVars, frameVars
  <2> QED
    BY <1>4, <2>2, <2>3, <2>4, <2>5 DEF Turning
<1>5. CASE ShuttingDown
  <2>1. ~(DrainTop \/ DiscardCheck \/ DiscardOne \/ DiscardDone \/ FinishRepliesTop
          \/ TeardownOne \/ TeardownDone)
    BY <1>0 DEF DrainTop, DiscardCheck, DiscardOne, DiscardDone, FinishRepliesTop,
                TeardownOne, TeardownDone
  <2>2. ~(FinishCheck \/ StopHookCheck \/ StopHookPending \/ StopHookDone \/ StopHookPanics)
    BY <1>0 DEF FinishCheck, StopHookCheck, StopHookPending, StopHookDone, StopHookPanics
  <2>3. ~(Kill \/ Fail \/ DropFrame \/ Publish)
    BY <1>0 DEF Kill, Fail, DropFrame, Publish
  <2>4. ~Abort
    BY GateTransactions DEF Abort, TypeOK
  <2> QED
    BY <1>5, <2>1, <2>2, <2>3, <2>4 DEF ShuttingDown
<1>6. CASE UNCHANGED vars
  BY <1>0, <1>6 DEF vars, mailboxVars, taskVars, frameVars
<1> QED
  BY <1>1, <1>2, <1>3, <1>4, <1>5, <1>6
  DEF Next, Callers, Task, Runtime, UserCode, Starting, Turning, ShuttingDown

\* No step closes the mailbox under a Running gate: admission, which enqueues
\* while the gate is Running, never meets a closed transport.
THEOREM CutoffBeforeClose == Safe => []ClosedAfterCutoff
<1>1. Init => CutoffInv
  BY DEF Init, CutoffInv, AfterCutoff
<1>2. TypeOK /\ CutoffInv /\ [Next]_vars => CutoffInv'
  BY CutoffStep
<1>3. CutoffInv => ClosedAfterCutoff
  BY DEF CutoffInv, ClosedAfterCutoff
<1> QED
  BY <1>1, <1>2, <1>3, TypeCorrect, PTL DEF Safe

----------------------------------------------------------------------------
(* What callers are told.                                                  *)

Distinct(seq) == \A i, j \in DOMAIN seq : seq[i] = seq[j] => i = j

\* Appending an entry to a queue or a history.
LEMMA EntriesAppend ==
  ASSUME NEW s \in Seq(Msgs), NEW m \in Msgs
  PROVE  /\ Entries(Append(s, m)) = Entries(s) \cup {m}
         /\ Distinct(s) /\ m \notin Entries(s) => Distinct(Append(s, m))
<1> DEFINE t == Append(s, m)
<1>1. /\ DOMAIN s = 1..Len(s) /\ Len(s) \in Nat
      /\ DOMAIN t = 1..(Len(s) + 1)
      /\ \A i \in DOMAIN s : i \in DOMAIN t /\ t[i] = s[i]
      /\ t[Len(s) + 1] = m
      /\ \A i \in DOMAIN t : i \in DOMAIN s \/ i = Len(s) + 1
  OBVIOUS
<1> HIDE DEF t
<1>2. Entries(t) = Entries(s) \cup {m}
  BY <1>1 DEF Entries
<1>3. Distinct(s) /\ m \notin Entries(s) => Distinct(t)
  BY <1>1 DEF Entries, Distinct
<1> QED
  BY <1>2, <1>3 DEF t

\* Removing the oldest entry of a queue.
LEMMA EntriesTail ==
  ASSUME NEW s \in Seq(Msgs), s # <<>>
  PROVE  /\ Head(s) \in Entries(s) /\ Entries(Tail(s)) \subseteq Entries(s)
         /\ Distinct(s) => Distinct(Tail(s)) /\ Head(s) \notin Entries(Tail(s))
         /\ Entries(s) = Entries(Tail(s)) \cup {Head(s)}
<1> DEFINE t == Tail(s)
<1>1. /\ DOMAIN s = 1..Len(s) /\ Len(s) \in Nat \ {0}
      /\ DOMAIN t = 1..(Len(s) - 1)
      /\ \A i \in DOMAIN t : i + 1 \in DOMAIN s /\ t[i] = s[i + 1] /\ i + 1 # 1 /\ i \in Int
      /\ Head(s) = s[1] /\ 1 \in DOMAIN s
      /\ \A i \in DOMAIN s : i = 1 \/ (i - 1 \in DOMAIN t /\ t[i - 1] = s[i])
  OBVIOUS
<1> HIDE DEF t
<1>2. Head(s) \in Entries(s) /\ Entries(t) \subseteq Entries(s)
  BY <1>1 DEF Entries
<1>5. Entries(s) \subseteq Entries(t) \cup {Head(s)}
  <2> SUFFICES ASSUME NEW i \in DOMAIN s PROVE s[i] \in Entries(t) \cup {Head(s)}
    BY DEF Entries
  <2>1. CASE i = 1
    BY <1>1, <2>1
  <2>2. CASE i - 1 \in DOMAIN t /\ t[i - 1] = s[i]
    BY <2>2 DEF Entries
  <2> QED
    BY <1>1, <2>1, <2>2
<1>3. ASSUME Distinct(s) PROVE Distinct(t)
  <2> SUFFICES ASSUME NEW i \in DOMAIN t, NEW j \in DOMAIN t, t[i] = t[j] PROVE i = j
    BY DEF Distinct
  <2> QED
    BY <1>1, <1>3 DEF Distinct
<1>4. ASSUME Distinct(s) PROVE Head(s) \notin Entries(t)
  BY <1>1, <1>4 DEF Entries, Distinct
<1> QED
  BY <1>2, <1>3, <1>4, <1>5 DEF t

\* TruthfulPhase says nothing of where a message is.  A caller can only be
\* told the truth because each message is in one place at a time: still with
\* its caller, queued, in hand, or started, and in flight until it ends.
Outside == {"idle", "full", "permit", "waiting", "granted", "refused", "withdrawn"}
Inside  == {"admitted", "abandoned"}

CallersApart ==
  \A m \in Msgs : caller[m] \in Outside =>
    /\ m \notin Entries(admitted) \cup Entries(queue) \cup inhand \cup Entries(started)
    /\ m \in Calls => reply[m] = NoReply

OnePlace ==
  /\ Distinct(queue)
  /\ Entries(queue) \cap Entries(started) = {}
  /\ inhand \cap Entries(started) = {}
  /\ inhand \cap Entries(queue) = {}
  /\ inflight \subseteq Entries(started) \ finished
  /\ finished \subseteq Entries(started)

RepliesTrue ==
  \A m \in Calls :
    /\ reply[m].phase = "before" => m \notin Entries(started) \cup Entries(queue) \cup inhand
    /\ reply[m].phase = "during" => m \in Entries(started) \ (finished \cup inflight)
    /\ reply[m].phase = "ok"     => m \in finished

PhaseInv == CallersApart /\ OnePlace /\ RepliesTrue

\* Nothing was admitted or answered yet.
LEMMA PhaseInit == Init => PhaseInv
<1> SUFFICES ASSUME Init PROVE PhaseInv
  OBVIOUS
<1>1. Entries(<<>>) = {} /\ Distinct(<<>>)
  BY DEF Entries, Distinct
<1>2. CallersApart /\ OnePlace
  BY <1>1 DEF Init, CallersApart, OnePlace
<1>3. RepliesTrue
  BY <1>1 DEF Init, RepliesTrue, NoReply
<1> QED
  BY <1>2, <1>3 DEF PhaseInv

\* A slot that is handed on moves a caller from outside to outside.
LEMMA RegrantOutside ==
  ASSUME NEW c \in [Msgs -> CallerStates], NEW d \in Regrant(c), NEW m \in Msgs
  PROVE  /\ d[m] \in Outside <=> c[m] \in Outside
         /\ d[m] = c[m] \/ (c[m] = "waiting" /\ d[m] = "granted")
  BY DEF Regrant, Outside

\* A caller's step before admission, or its departure, moves no message.
LEMMA PhaseCallers ==
  ASSUME TypeOK, PhaseInv, NEW m \in Msgs,
         \/ TryReserve(m) \/ TryFull(m) \/ TryClosed(m) \/ ReportFull(m)
         \/ BeginWait(m) \/ WaitClosed(m) \/ AdmitRefused(m) \/ CancelWait(m)
         \/ Abandon(m)
  PROVE  PhaseInv'
<1>1. UNCHANGED <<queue, admitted, inhand, started, inflight, finished, reply>>
  BY DEF TryReserve, TryFull, TryClosed, ReportFull, BeginWait, WaitClosed, AdmitRefused,
         CancelWait, Abandon, workVars, taskVars, frameVars
<1>2. \A n \in Msgs : caller'[n] \in Outside => caller[n] \in Outside
  <2>1. CASE AdmitRefused(m)
    <3> DEFINE c == [caller EXCEPT ![m] = "refused"]
    <3>1. c \in [Msgs -> CallerStates]
      BY DEF TypeOK, CallerStates
    <3>2. caller[m] \in Outside /\ (caller' \in Regrant(c) \/ caller' = c)
      BY <2>1 DEF AdmitRefused, Reserved, Outside, TypeOK
    <3>3. \A n \in Msgs : c[n] \in Outside => caller[n] \in Outside
      BY <3>2 DEF TypeOK
    <3> HIDE DEF c
    <3> QED
      BY <3>1, <3>2, <3>3, RegrantOutside
  <2>2. CASE CancelWait(m)
    <3> DEFINE c == [caller EXCEPT ![m] = "withdrawn"]
    <3>1. c \in [Msgs -> CallerStates]
      BY DEF TypeOK, CallerStates
    <3>2. caller[m] \in Outside /\ (caller' \in Regrant(c) \/ caller' = c)
      BY <2>2 DEF CancelWait, Reserved, Outside, TypeOK
    <3>3. \A n \in Msgs : c[n] \in Outside => caller[n] \in Outside
      BY <3>2 DEF TypeOK
    <3> HIDE DEF c
    <3> QED
      BY <3>1, <3>2, <3>3, RegrantOutside
  <2>3. CASE \/ TryReserve(m) \/ TryFull(m) \/ TryClosed(m) \/ ReportFull(m)
             \/ BeginWait(m) \/ WaitClosed(m) \/ Abandon(m)
    BY <2>3 DEF TryReserve, TryFull, TryClosed, ReportFull, BeginWait, WaitClosed, Abandon,
                Outside, TypeOK
  <2> QED
    BY <2>1, <2>2, <2>3
<1> QED
  BY <1>1, <1>2 DEF PhaseInv, CallersApart, OnePlace, RepliesTrue

\* Admission puts a message nobody had in the queue.
LEMMA PhaseAdmit ==
  ASSUME TypeOK, PhaseInv, NEW m \in Msgs, Admit(m)
  PROVE  PhaseInv'
<1>1. caller[m] \in Outside /\ caller' = [caller EXCEPT ![m] = "admitted"]
  BY DEF Admit, Reserved, Outside
<1>2. /\ m \notin Entries(queue) \cup inhand \cup Entries(started)
      /\ m \in Calls => reply[m] = NoReply
  BY <1>1 DEF PhaseInv, CallersApart
<1>3. /\ Entries(queue)' = Entries(queue) \cup {m} /\ Distinct(queue)'
      /\ Entries(admitted)' = Entries(admitted) \cup {m}
  BY <1>2, EntriesAppend DEF Admit, Enqueued, TypeOK, PhaseInv, OnePlace
<1>4. UNCHANGED <<inhand, started, inflight, finished, reply>>
  BY DEF Admit, workVars, taskVars, frameVars
<1>5. CallersApart'
  BY <1>1, <1>3, <1>4 DEF PhaseInv, CallersApart, Outside, TypeOK
<1>6. OnePlace'
  BY <1>2, <1>3, <1>4 DEF PhaseInv, OnePlace
<1>7. RepliesTrue'
  BY <1>2, <1>3, <1>4 DEF PhaseInv, RepliesTrue, NoReply
<1> QED
  BY <1>5, <1>6, <1>7 DEF PhaseInv

\* The phase an answer names.
LEMMA PhasesTold ==
  ASSUME NEW g
  PROVE  /\ BeforeDispatch(g).phase = "before" /\ DuringDispatch(g).phase = "during"
         /\ OkReply.phase = "ok" /\ NoReply.phase = "none"
  BY DEF BeforeDispatch, DuringDispatch, OkReply, NoReply

\* Steps that move no message and answer nobody.
Still == UNCHANGED <<queue, caller, admitted, reply, inflight, started, finished, inhand>>

\* Such a step keeps every message and every answer where it was.
LEMMA PhaseStill ==
  ASSUME PhaseInv, Still
  PROVE  PhaseInv'
  BY DEF Still, PhaseInv, CallersApart, OnePlace, RepliesTrue

\* poll_recv moves the oldest entry from the queue to the task's hand, and
\* hands its slot on.
LEMMA PhaseReceive ==
  ASSUME TypeOK, PhaseInv, Receive
  PROVE  PhaseInv'
<1> DEFINE h == Head(queue)
<1>1. /\ queue \in Seq(Msgs) /\ queue # <<>>
      /\ inhand' = {h} /\ queue' = Tail(queue) /\ caller' \in Regrant(caller)
      /\ UNCHANGED <<admitted, reply, inflight, started, finished>>
  BY DEF Receive, TypeOK, workVars
<1>2. /\ h \in Entries(queue) /\ Entries(queue)' \subseteq Entries(queue)
      /\ Distinct(queue)' /\ h \notin Entries(queue)'
  BY <1>1, EntriesTail DEF PhaseInv, OnePlace
<1>3. \A n \in Msgs : caller'[n] \in Outside => caller[n] \in Outside
  BY <1>1, RegrantOutside DEF TypeOK
<1> HIDE DEF h
<1>4. CallersApart'
  BY <1>1, <1>2, <1>3 DEF PhaseInv, CallersApart
<1>5. OnePlace'
  BY <1>1, <1>2 DEF PhaseInv, OnePlace
<1>6. RepliesTrue'
  BY <1>1, <1>2 DEF PhaseInv, RepliesTrue
<1> QED
  BY <1>4, <1>5, <1>6 DEF PhaseInv

\* The envelope in hand is rejected before any handler saw it.
LEMMA PhaseRefused ==
  ASSUME TypeOK, PhaseInv, DispatchAbandoned \/ DispatchRefused
  PROVE  PhaseInv'
<1>1. /\ inhand' = {}
      /\ UNCHANGED <<queue, caller, admitted, inflight, started, finished>>
  BY DEF DispatchAbandoned, DispatchRefused, mailboxVars, workVars
<1>2. PICK m \in inhand :
         \/ reply' = reply
         \/ /\ caller[m] = "admitted" /\ m \in Calls
            /\ reply' = [reply EXCEPT ![m] = BeforeDispatch(mode)]
  BY DEF DispatchAbandoned, DispatchRefused, Told, workVars
<1>3. CallersApart'
  BY <1>1, <1>2 DEF PhaseInv, CallersApart, Outside, TypeOK
<1>4. OnePlace'
  BY <1>1 DEF PhaseInv, OnePlace
<1>5. RepliesTrue'
  BY <1>1, <1>2, PhasesTold DEF PhaseInv, OnePlace, RepliesTrue, TypeOK
<1> QED
  BY <1>3, <1>4, <1>5 DEF PhaseInv

\* A handler starts, and its future is scheduled, or its construction panics
\* and the caller is told that dispatch was interrupted.
LEMMA PhaseDispatch ==
  ASSUME TypeOK, PhaseInv, Dispatch \/ DispatchPanics
  PROVE  PhaseInv'
<1>1. inhand' = {} /\ UNCHANGED <<queue, caller, admitted, finished>>
  BY DEF Dispatch, DispatchPanics, mailboxVars
<1>2. PICK m \in inhand :
         /\ caller[m] = "admitted" /\ started' = Append(started, m)
         /\ \/ inflight' = inflight \cup {m} /\ reply' = reply
            \/ inflight' = inflight /\ reply' = reply
            \/ /\ inflight' = inflight /\ m \in Calls
               /\ reply' = [reply EXCEPT ![m] = DuringDispatch(mode')]
  BY DEF Dispatch, DispatchPanics, Told
<1>3. Entries(started)' = Entries(started) \cup {m}
  BY <1>2, EntriesAppend DEF TypeOK
<1>4. /\ m \in Msgs /\ m \notin Entries(started) \cup Entries(queue)
      /\ m \notin inflight \cup finished
  BY <1>2 DEF PhaseInv, OnePlace, TypeOK
<1>5. CallersApart'
  BY <1>1, <1>2, <1>3, <1>4 DEF PhaseInv, CallersApart, Outside, TypeOK
<1>6. OnePlace'
  BY <1>1, <1>2, <1>3, <1>4 DEF PhaseInv, OnePlace
<1>7. RepliesTrue'
  <2> SUFFICES ASSUME NEW n \in Calls
               PROVE  /\ reply'[n].phase = "before" =>
                           n \notin Entries(started)' \cup Entries(queue)' \cup inhand'
                      /\ reply'[n].phase = "during" =>
                           n \in Entries(started)' \ (finished' \cup inflight')
                      /\ reply'[n].phase = "ok" => n \in finished'
    BY DEF RepliesTrue
  <2>1. CASE n = m /\ reply'[n] = DuringDispatch(mode') /\ inflight' = inflight
    BY <1>1, <1>3, <1>4, <2>1, PhasesTold
  <2>2. CASE reply'[n] = reply[n]
    BY <1>1, <1>2, <1>3, <1>4, <2>2 DEF PhaseInv, RepliesTrue
  <2> QED
    BY <1>2, <2>1, <2>2 DEF TypeOK
<1> QED
  BY <1>5, <1>6, <1>7 DEF PhaseInv

\* A reply leaves the scheduler: completed, or interrupted by a hard mode.
LEMMA PhaseReturns ==
  ASSUME TypeOK, PhaseInv, NEW m \in Msgs, ReplyReturns(m)
  PROVE  PhaseInv'
<1>1. /\ m \in inflight /\ inflight' = inflight \ {m}
      /\ UNCHANGED <<queue, caller, admitted, started, inhand>>
  BY DEF ReplyReturns, mailboxVars, frameVars
<1>2. /\ finished' = finished \cup {m}
      /\ reply' = reply \/ (m \in Calls /\ reply' = [reply EXCEPT ![m] = OkReply])
      \/ /\ finished' = finished
         /\ \/ reply' = reply
            \/ m \in Calls /\ reply' = [reply EXCEPT ![m] = DuringDispatch(mode)]
  BY DEF ReplyReturns, Told, TypeOK
<1>3. m \in Entries(started) \ finished /\ m \notin Entries(queue) \cup inhand
  BY <1>1 DEF PhaseInv, OnePlace
<1>4. CallersApart'
  BY <1>1, <1>2, <1>3 DEF PhaseInv, CallersApart, TypeOK
<1>5. OnePlace'
  BY <1>1, <1>2, <1>3 DEF PhaseInv, OnePlace
<1>6. RepliesTrue'
  BY <1>1, <1>2, <1>3, PhasesTold DEF PhaseInv, RepliesTrue, TypeOK
<1> QED
  BY <1>4, <1>5, <1>6 DEF PhaseInv

\* Teardown rejects the oldest entry.
LEMMA PhaseRejectHead ==
  ASSUME TypeOK, PhaseInv, RejectHead
  PROVE  PhaseInv'
<1> DEFINE h == Head(queue)
<1>1. /\ queue \in Seq(Msgs) /\ queue # <<>>
      /\ queue' = Tail(queue) /\ caller' \in Regrant(caller)
      /\ UNCHANGED <<admitted, inhand, inflight, started, finished>>
  BY DEF RejectHead, TypeOK, frameVars
<1>2. /\ h \in Entries(queue) /\ Entries(queue)' \subseteq Entries(queue)
      /\ Distinct(queue)' /\ h \notin Entries(queue)'
  BY <1>1, EntriesTail DEF PhaseInv, OnePlace
<1>3. \/ reply' = reply
      \/ /\ h \in Calls /\ caller[h] = "admitted"
         /\ reply' = [reply EXCEPT ![h] = BeforeDispatch(mode)]
  BY DEF RejectHead, Told, TypeOK
<1>4. \A n \in Msgs : caller'[n] \in Outside => caller[n] \in Outside
  BY <1>1, RegrantOutside DEF TypeOK
<1> HIDE DEF h
<1>5. CallersApart'
  BY <1>1, <1>2, <1>3, <1>4 DEF PhaseInv, CallersApart, Outside, TypeOK
<1>6. OnePlace'
  BY <1>1, <1>2 DEF PhaseInv, OnePlace
<1>7. RepliesTrue'
  BY <1>1, <1>2, <1>3, PhasesTold DEF PhaseInv, OnePlace, RepliesTrue, TypeOK
<1> QED
  BY <1>5, <1>6, <1>7 DEF PhaseInv

\* Dropping the scheduler, the inbox or both answers each call they hold with
\* the phase it reached.
LEMMA PhaseCleared ==
  ASSUME TypeOK, PhaseInv,
         Kill \/ Fail \/ DropFrame \/ DropUnstartedInbox
  PROVE  PhaseInv'
<1>1. UNCHANGED <<caller, admitted, started, finished, inhand>>
  BY DEF Kill, Fail, DropFrame, DropUnstartedInbox, frameVars
<1>2. /\ inflight' = {} \/ inflight' = inflight
      /\ queue' = <<>> \/ queue' = queue
  BY DEF Kill, Fail, DropFrame, DropUnstartedInbox
<1>3. /\ reply' \in [Calls -> Answers]
      /\ \A n \in Calls :
           \/ reply'[n] = reply[n]
           \/ /\ n \in inflight /\ inflight' = {} /\ caller[n] = "admitted"
              /\ \E g : reply'[n] = DuringDispatch(g)
           \/ /\ n \in Entries(queue) /\ queue' = <<>> /\ caller[n] = "admitted"
              /\ \E g : reply'[n] = BeforeDispatch(g)
  <2>1. CASE Kill \/ Fail
    BY <2>1, GateTransactions, AnswersTold DEF Kill, Fail, ClearedReplies, Told, TypeOK
  <2>2. CASE DropFrame
    BY <2>2, GateTransactions, AnswersTold DEF DropFrame, FrameReplies, Told, TypeOK
  <2>3. CASE DropUnstartedInbox
    BY <2>3, AnswersTold DEF DropUnstartedInbox, Told, TypeOK
  <2> QED
    BY <2>1, <2>2, <2>3
<1>4. Entries(<<>>) = {} /\ Distinct(<<>>)
  BY DEF Entries, Distinct
<1>5. /\ Entries(queue)' \subseteq Entries(queue)
      /\ queue' = <<>> => Entries(queue)' = {}
      /\ Distinct(queue) => Distinct(queue)'
  BY <1>2, <1>4
<1>6. CallersApart'
  BY <1>1, <1>3, <1>5 DEF PhaseInv, CallersApart, Outside
<1>7. OnePlace'
  BY <1>1, <1>2, <1>5 DEF PhaseInv, OnePlace
<1>8. RepliesTrue'
  <2> SUFFICES ASSUME NEW n \in Calls
               PROVE  /\ reply'[n].phase = "before" =>
                           n \notin Entries(started)' \cup Entries(queue)' \cup inhand'
                      /\ reply'[n].phase = "during" =>
                           n \in Entries(started)' \ (finished' \cup inflight')
                      /\ reply'[n].phase = "ok" => n \in finished'
    BY DEF RepliesTrue
  <2>1. CASE reply'[n] = reply[n]
    BY <1>1, <1>2, <1>5, <2>1 DEF PhaseInv, RepliesTrue
  <2>2. CASE n \in inflight /\ inflight' = {} /\ \E g : reply'[n] = DuringDispatch(g)
    BY <1>1, <2>2, PhasesTold DEF PhaseInv, OnePlace
  <2>3. CASE n \in Entries(queue) /\ queue' = <<>> /\ \E g : reply'[n] = BeforeDispatch(g)
    BY <1>1, <1>5, <2>3, PhasesTold DEF PhaseInv, OnePlace
  <2> QED
    BY <1>3, <2>1, <2>2, <2>3
<1> QED
  BY <1>6, <1>7, <1>8 DEF PhaseInv

\* Every step keeps each message in one place and each answer true.
LEMMA PhaseNext ==
  ASSUME TypeOK, PhaseInv, [Next]_vars
  PROVE  PhaseInv'
<1>1. CASE UNCHANGED vars
  BY <1>1, PhaseStill DEF Still, vars, mailboxVars, workVars, taskVars, frameVars
<1>2. CASE Callers
  BY <1>2, PhaseCallers, PhaseAdmit DEF Callers
<1>3. ASSUME NEW shutdown \in Shutdowns, RequestShutdown(shutdown)
      PROVE  PhaseInv'
  BY <1>3, PhaseStill DEF RequestShutdown, Still, mailboxVars, workVars, taskVars, frameVars
<1>4. CASE Starting
  <2>1. CASE DropUnstartedInbox
    BY <2>1, PhaseCleared
  <2>2. CASE ~DropUnstartedInbox
    <3>1. Still
      BY <1>4, <2>2 DEF Starting, Spawn, DropSpawner, EnterInit, CheckInit, InitPending,
                        InitDone, InitPanics, Still, mailboxVars, workVars, frameVars
    <3> QED
      BY <3>1, PhaseStill
  <2> QED
    BY <2>1, <2>2
<1>5. CASE Turning
  <2>1. CASE LoopTop \/ OnDrain \/ OnStop \/ OnShutdownPanics \/ TurnCheck
             \/ InboxClosed \/ Park \/ \E m \in Msgs : ReplyPanics(m)
    <3>1. Still
      BY <2>1 DEF LoopTop, OnDrain, OnStop, OnShutdownPanics, TurnCheck, InboxClosed, Park,
                  ReplyPanics, Still, mailboxVars, workVars, frameVars
    <3> QED
      BY <3>1, PhaseStill
  <2> QED
    BY <1>5, <2>1, PhaseReceive, PhaseRefused, PhaseDispatch, PhaseReturns DEF Turning
<1>6. CASE ShuttingDown
  <2>1. CASE Kill \/ Fail \/ DropFrame
    BY <2>1, PhaseCleared
  <2>2. CASE DiscardOne \/ TeardownOne
    BY <2>2, PhaseRejectHead DEF DiscardOne, TeardownOne
  <2>3. CASE \/ DrainTop \/ DiscardCheck \/ DiscardDone \/ FinishRepliesTop
             \/ FinishCheck \/ StopHookCheck \/ StopHookPending \/ StopHookDone
             \/ StopHookPanics \/ TeardownDone \/ Abort \/ Publish
    <3>1. Still
      BY <2>3 DEF DrainTop, DiscardCheck, DiscardDone, FinishRepliesTop, FinishCheck,
                  StopHookCheck, StopHookPending, StopHookDone, StopHookPanics, TeardownDone,
                  Abort, Publish, Still, mailboxVars, workVars, frameVars
    <3> QED
      BY <3>1, PhaseStill
  <2> QED
    BY <1>6, <2>1, <2>2, <2>3 DEF ShuttingDown
<1> QED
  BY <1>1, <1>2, <1>3, <1>4, <1>5, <1>6
  DEF Next, Task, Runtime, UserCode, Starting, Turning, ShuttingDown

\* A caller is told the phase its message really reached: Closed and
\* BeforeDispatch only when no handler started, DuringDispatch only when one
\* did and did not complete, Ok only when completion committed.
THEOREM CallersToldTheTruth == Safe => []TruthfulPhase
<1>1. Init => PhaseInv
  BY PhaseInit
<1>2. TypeOK /\ PhaseInv /\ [Next]_vars => PhaseInv'
  BY PhaseNext
<1>3. PhaseInv => TruthfulPhase
  BY DEF PhaseInv, CallersApart, RepliesTrue, TruthfulPhase, Outside
<1> QED
  BY <1>1, <1>2, <1>3, TypeCorrect, PTL DEF Safe
=============================================================================

--------------------------- MODULE ActorWorkProofs ---------------------------
(***************************************************************************)
(* What becomes of accepted work, for every set of messages, every         *)
(* capacity and every dispatch limit: no call is left without an answer,   *)
(* on_stop runs after the work, a graceful exit keeps what it promises,    *)
(* and errors carry the reason the actor ends for.                         *)
(***************************************************************************)
EXTENDS ActorProofs

(***************************************************************************)
(* The first part of the inductive invariant: what the step of the task,   *)
(* the mode its loop serves, the gate and the transport say of each other. *)
(***************************************************************************)

BeforeLoops == {"unstarted", "spawnerDrop", "gone", "entry", "init", "initPoll", "initWait"}
Discarding  == {"discard", "discardPop", "yield"}
HookSteps   == {"stopHook", "stopHookPoll", "stopHookWait"}
HardSteps   == {"kill", "fail", "teardown", "teardownYield"}

\* An envelope is in hand only between poll_recv and the dispatch gate.
HandInv ==
  /\ pc # "dispatch" => inhand = {}
  /\ pc = "dispatch" => expected # "Stopping" /\ \E m \in Msgs : inhand = {m}

\* Which loop a step belongs to, and what a loop proposes.
Serves ==
  /\ pc \in BeforeLoops \cup {"loop", "onDrain", "onStop"} => expected = "Running"
  /\ pc = "drain" => expected = "Draining"
  /\ pc \in Discarding \cup {"finishReplies"} => expected = "Stopping"
  /\ pc \in HookSteps \cup {"finish"} =>
       /\ expected # "Running"
       /\ proposed = IF expected = "Draining" THEN "Drained" ELSE "Stopped"
  /\ proposed = "Drained" => expected = "Draining"
  /\ proposed = "Stopped" => expected = "Stopping"

\* Which modes the gate can be in at a step.
Gates ==
  /\ expected = "Draining" \/ pc = "onDrain" => mode \notin {"Running", "Stopping"}
  /\ expected = "Stopping" \/ pc = "onStop"  => mode \notin {"Running", "Draining"}
  /\ pc \in HardSteps \cup {"spawnerDrop", "gone"} => mode \notin Graceful
  /\ pc \in {"frame", "publish"} /\ mode \in Graceful =>
       stopHook = "returned" /\ proposed \in {"Drained", "Stopped"}

\* Where the transport is closed, and where nothing is queued or in flight.
Emptied ==
  /\ \/ expected # "Running"
     \/ pc \in {"teardown", "teardownYield", "publish", "exited", "gone"}
     \/ stopHook # "no" \/ drained
     => closed
  /\ \/ drained
     \/ expected = "Stopping" /\ pc \notin Discarding \cup HardSteps \cup {"frame"}
     \/ pc \in HookSteps \cup {"finish", "publish", "exited", "gone"} \/ stopHook # "no"
     => queue = <<>>
  /\ \/ pc \in BeforeLoops \cup HookSteps \cup {"finish", "teardown", "teardownYield", "publish", "exited"}
     \/ stopHook # "no"
     => inflight = {}
  /\ stopHook # "no" => pc \in HookSteps \cup HardSteps \cup {"frame", "publish", "exited"}
  /\ exit # NoReason => mode = "Exited"

PlaceInv == HandInv /\ Serves /\ Gates /\ Emptied

\* What the gate's transactions make of a mode.
LEMMA GateMoves ==
  ASSUME NEW g \in Modes
  PROVE  /\ FailureMode(g) = g \/ (g \in Graceful /\ FailureMode(g) = "Failing")
         /\ FailureMode(g) \notin Graceful
         /\ AbortMode(g) = g \/ AbortMode(g) = "Aborting"
         /\ AbortMode(g) \notin Graceful
         /\ RequestedMode(g, "Kill") \notin Graceful
         /\ \A s \in Shutdowns :
              \/ RequestedMode(g, s) = g
              \/ g = "Running" /\ RequestedMode(g, s) \in {"Stopping", "Draining", "Killing"}
              \/ g \in {"Stopping", "Draining"} /\ RequestedMode(g, s) = "Killing"
         /\ AfterUserDrop(g) = {g, FailureMode(g)}
  BY DEF Modes, Graceful, Hard, Shutdowns, FailureMode, AbortMode, RequestedMode, CutoffMode,
         AfterUserDrop

\* The loop heads.
LEMMA LoopHeads ==
  ASSUME expected \in Graceful
  PROVE  /\ expected = "Running"  => LoopHead[expected] = "loop"
         /\ expected = "Draining" => LoopHead[expected] = "drain"
         /\ expected = "Stopping" => LoopHead[expected] = "finishReplies"
  BY DEF Graceful, LoopHead

\* Nothing has happened yet.
LEMMA PlaceInit == Init => PlaceInv
  BY DEF Init, PlaceInv, HandInv, Serves, Gates, Emptied, BeforeLoops, Discarding, HookSteps,
         HardSteps, NoReason

\* A caller's step: admission needs a Running gate, and so an open transport.
LEMMA PlaceCallers ==
  ASSUME TypeOK, CutoffInv, PlaceInv, NEW m \in Msgs,
         \/ TryReserve(m) \/ TryFull(m) \/ TryClosed(m) \/ ReportFull(m)
         \/ BeginWait(m) \/ WaitClosed(m) \/ Admit(m) \/ AdmitRefused(m)
         \/ CancelWait(m) \/ Abandon(m)
  PROVE  PlaceInv'
<1>1. /\ UNCHANGED <<exit, closed, taskVars, inflight>>
      /\ mode' = mode /\ (queue' = queue \/ mode = "Running")
  BY DEF TryReserve, TryFull, TryClosed, ReportFull, BeginWait, WaitClosed, Admit, AdmitRefused,
         CancelWait, Abandon, MayAdmit, CutoffInv, gateVars, workVars
<1>2. mode = "Running" => ~closed /\ expected = "Running" /\ pc \notin AfterCutoff
  BY DEF CutoffInv
<1> QED
  BY <1>1, <1>2 DEF PlaceInv, HandInv, Serves, Gates, Emptied, AfterCutoff, taskVars, frameVars,
     BeforeLoops, Discarding, HookSteps, HardSteps

\* A request for shutdown.
LEMMA PlaceRequests ==
  ASSUME TypeOK, PlaceInv, NEW shutdown \in Shutdowns, RequestShutdown(shutdown)
  PROVE  PlaceInv'
  BY GateMoves DEF RequestShutdown, PlaceInv, HandInv, Serves, Gates, Emptied, TypeOK, Graceful,
     mailboxVars, workVars, taskVars, frameVars

\* Spawning and initialization.
LEMMA PlaceStarting ==
  ASSUME TypeOK, CutoffInv, PlaceInv, Starting
  PROVE  PlaceInv'
<1> USE DEF TypeOK, PlaceInv, BeforeLoops, Discarding, HookSteps, HardSteps
<1>1. CASE Spawn \/ DropSpawner
  BY <1>1, GateMoves DEF Spawn, DropSpawner, HandInv, Serves, Gates, Emptied, gateVars, mailboxVars,
     workVars, frameVars, Graceful, Shutdowns, RequestedMode
<1>2. CASE DropUnstartedInbox
  BY <1>2 DEF DropUnstartedInbox, HandInv, Serves, Gates, Emptied, gateVars, frameVars
<1>3. CASE EnterInit \/ CheckInit \/ InitPending \/ InitDone
  BY <1>3 DEF EnterInit, CheckInit, InitPending, InitDone, HandInv, Serves, Gates, Emptied, gateVars,
     mailboxVars, workVars, frameVars, MayInit
<1>4. CASE InitPanics
  BY <1>4, GateMoves DEF InitPanics, HandInv, Serves, Gates, Emptied, Graceful, mailboxVars, workVars,
     frameVars
<1> QED
  BY <1>1, <1>2, <1>3, <1>4 DEF Starting

\* The loop and its turns.
LEMMA PlaceTurning ==
  ASSUME TypeOK, CutoffInv, ExitedAtEnd, PlaceInv, Turning
  PROVE  PlaceInv'
<1> USE DEF TypeOK, PlaceInv, BeforeLoops, Discarding, HookSteps, HardSteps
<1>1. CASE LoopTop
  <2>1. \/ mode = "Running" /\ pc' = "turn"
        \/ mode = "Draining" /\ pc' = "onDrain"
        \/ mode = "Stopping" /\ pc' = "onStop"
        \/ mode = "Killing" /\ pc' = "kill"
        \/ mode = "Failing" /\ pc' = "fail"
    BY <1>1 DEF LoopTop, Graceful
  <2> QED
    BY <1>1, <2>1 DEF LoopTop, HandInv, Serves, Gates, Emptied, Graceful, gateVars, mailboxVars,
       workVars, frameVars
<1>2. CASE OnDrain \/ OnStop
  BY <1>2 DEF OnDrain, OnStop, InboxDrained, HandInv, Serves, Gates, Emptied, gateVars, workVars
<1>3. CASE OnShutdownPanics
  BY <1>3, GateMoves DEF OnShutdownPanics, HandInv, Serves, Gates, Emptied, Graceful, mailboxVars,
     workVars, frameVars
<1>4. CASE TurnCheck \/ Park
  BY <1>4, LoopHeads DEF TurnCheck, Park, HandInv, Serves, Gates, Emptied, Graceful, gateVars,
     mailboxVars, workVars, frameVars
<1>5. CASE Receive
  <2>1. Head(queue) \in Msgs
    BY <1>5 DEF Receive
  <2> QED
    BY <1>5, <2>1 DEF Receive, MayReceive, HandInv, Serves, Gates, Emptied, gateVars, workVars
<1>6. CASE InboxClosed
  BY <1>6, GateMoves DEF InboxClosed, InboxEnds, HandInv, Serves, Gates, Emptied, Graceful,
     mailboxVars, workVars
<1>7. CASE DispatchAbandoned \/ DispatchRefused \/ Dispatch
  <2>1. /\ pc = "dispatch" /\ pc' \in {"turn", LoopHead[expected]} /\ inhand' = {}
        /\ mode' = mode \/ mode' = FailureMode(mode)
        /\ UNCHANGED <<exit, closed, queue, expected, drained, proposed, stopHook>>
    BY <1>7, GateMoves DEF DispatchAbandoned, DispatchRefused, Dispatch, AfterDispatch, mailboxVars,
       workVars, gateVars
  <2>2. mode # "Exited"
    BY <2>1 DEF ExitedAtEnd
  <2> QED
    BY <2>1, <2>2, LoopHeads, GateMoves DEF HandInv, Serves, Gates, Emptied, Graceful
<1>8. CASE DispatchPanics
  BY <1>8, GateMoves DEF DispatchPanics, HandInv, Serves, Gates, Emptied, Graceful, mailboxVars,
     ExitedAtEnd
<1>9. ASSUME NEW m \in Msgs, ReplyReturns(m) \/ ReplyPanics(m)
      PROVE  PlaceInv'
  <2>1. /\ pc = "poll" /\ pc' \in {"fail", LoopHead[expected]}
        /\ mode' = mode \/ mode' = FailureMode(mode)
        /\ pc' = "fail" => mode' = FailureMode(mode)
        /\ UNCHANGED <<exit, closed, queue, inhand, expected, drained, proposed, stopHook>>
    BY <1>9, GateMoves, LoopHeads DEF ReplyReturns, ReplyPanics, mailboxVars, workVars, frameVars,
       Graceful
  <2> QED
    BY <2>1, LoopHeads, GateMoves DEF HandInv, Serves, Gates, Emptied, Graceful
<1> QED
  BY <1>1, <1>2, <1>3, <1>4, <1>5, <1>6, <1>7, <1>8, <1>9 DEF Turning

\* Rejecting the oldest entry.
LEMMA PlaceRejectHead ==
  ASSUME TypeOK, PlaceInv, DiscardOne \/ TeardownOne
  PROVE  PlaceInv'
<1>1. /\ pc \in {"discardPop", "teardown", "teardownYield"}
      /\ pc = "discardPop" => pc' \in {"discard", "yield"}
      /\ pc # "discardPop" => pc' \in {"teardown", "teardownYield"}
      /\ queue # <<>> /\ (mode' = mode \/ mode' = FailureMode(mode))
      /\ UNCHANGED <<exit, closed, inflight, inhand, expected, drained, proposed, stopHook>>
  BY GateMoves DEF TypeOK, DiscardOne, TeardownOne, RejectHead, frameVars
<1> QED
  BY <1>1, GateMoves DEF TypeOK, PlaceInv, HandInv, Serves, Gates, Emptied, Graceful, BeforeLoops,
     Discarding, HookSteps, HardSteps

\* Shutdown, teardown and exit.
LEMMA PlaceShuttingDown ==
  ASSUME TypeOK, CutoffInv, ExitedAtEnd, PlaceInv, ShuttingDown
  PROVE  PlaceInv'
<1> USE DEF TypeOK, PlaceInv, BeforeLoops, Discarding, HookSteps, HardSteps
<1>1. CASE DrainTop
  <2>1. /\ pc = "drain" /\ pc' \in {"finish", "turn", "kill", "fail"}
        /\ pc' \in {"kill", "fail"} => mode \notin Graceful /\ UNCHANGED <<drained, proposed>>
        /\ pc' = "finish" => proposed' = "Drained" /\ drained' /\ inflight = {}
        /\ pc' = "turn" => proposed' = proposed
        /\ drained' => drained \/ queue = <<>>
        /\ UNCHANGED <<gateVars, closed, queue, inflight, expected, inhand, stopHook>>
    BY <1>1 DEF DrainTop, InboxDrained, RepliesDone, Graceful, mailboxVars, workVars
  <2> QED
    BY <2>1 DEF HandInv, Serves, Gates, Emptied, Graceful, gateVars
<1>2. CASE FinishRepliesTop
  <2>1. /\ pc = "finishReplies" /\ pc' \in {"finish", "turn", "kill", "fail"}
        /\ pc' \in {"kill", "fail"} => mode \notin Graceful
        /\ pc' = "finish" => proposed' = "Stopped" /\ inflight = {}
        /\ pc' # "finish" => proposed' = proposed
        /\ UNCHANGED <<gateVars, closed, queue, inflight, expected, inhand, drained, stopHook>>
    BY <1>2 DEF FinishRepliesTop, RepliesDone, Graceful, mailboxVars, workVars
  <2> QED
    BY <2>1 DEF HandInv, Serves, Gates, Emptied, Graceful, gateVars
<1>3. CASE DiscardCheck \/ DiscardDone
  BY <1>3 DEF DiscardCheck, DiscardDone, HandInv, Serves, Gates, Emptied, Graceful, gateVars,
     mailboxVars, workVars, frameVars
<1>4. CASE FinishCheck \/ StopHookCheck
  BY <1>4 DEF FinishCheck, StopHookCheck, HandInv, Serves, Gates, Emptied, gateVars, mailboxVars,
     workVars, frameVars
<1>5. CASE StopHookPending \/ StopHookDone
  BY <1>5 DEF StopHookPending, StopHookDone, HandInv, Serves, Gates, Emptied, gateVars, mailboxVars,
     workVars
<1>6. CASE StopHookPanics
  BY <1>6, GateMoves DEF StopHookPanics, HandInv, Serves, Gates, Emptied, Graceful, mailboxVars,
     workVars
<1>7. CASE Kill \/ Fail
  <2>1. /\ pc \in {"kill", "fail"} /\ pc' = "teardown" /\ closed' /\ inflight' = {}
        /\ mode' = mode /\ mode' \notin Graceful /\ proposed' \in {"Killed", "Panicked"}
        /\ UNCHANGED <<exit, queue, expected, inhand, drained, stopHook>>
    BY <1>7, GateMoves DEF Kill, Fail, Gates, gateVars, FailureMode
  <2> QED
    BY <2>1 DEF HandInv, Serves, Gates, Emptied
<1>8. CASE DiscardOne \/ TeardownOne
  BY <1>8, PlaceRejectHead
<1>9. CASE TeardownDone
  BY <1>9 DEF TeardownDone, HandInv, Serves, Gates, Emptied, gateVars, mailboxVars, workVars,
     frameVars
<1>10. CASE Abort
  <2>1. /\ pc \in Suspended /\ pc' = "frame" /\ proposed' = "Aborted"
        /\ mode' = "Aborting" /\ mode' \notin Graceful
        /\ UNCHANGED <<exit, closed, queue, inflight, expected, inhand, drained, stopHook>>
    BY <1>10, GateMoves DEF Abort, AbortMode, ExitedAtEnd, Suspended, mailboxVars, workVars,
       Graceful
  <2>2. exit = NoReason
    BY <2>1 DEF Emptied, ExitedAtEnd, Suspended
  <2> QED
    BY <2>1, <2>2 DEF HandInv, Serves, Gates, Emptied, Suspended
<1>11. CASE DropFrame
  <2>1. /\ pc = "frame" /\ pc' = "publish" /\ closed' /\ queue' = <<>> /\ inflight' = {}
        /\ mode' \in Graceful => mode' = mode /\ proposed' = proposed
        /\ mode' = mode \/ mode' = "Aborting"
        /\ proposed' = proposed \/ proposed' = "Aborted"
        /\ UNCHANGED <<exit, expected, inhand, drained, stopHook>>
    BY <1>11, GateMoves DEF DropFrame, AbortMode, Graceful, ExitedAtEnd
  <2>2. exit = NoReason
    BY <2>1 DEF Emptied, ExitedAtEnd
  <2> QED
    BY <2>1, <2>2 DEF HandInv, Serves, Gates, Emptied
<1>12. CASE Publish
  BY <1>12 DEF Publish, HandInv, Serves, Gates, Emptied, Graceful, mailboxVars, workVars, frameVars
<1> QED
  BY <1>1, <1>2, <1>3, <1>4, <1>5, <1>6, <1>7, <1>8, <1>9, <1>10, <1>11, <1>12 DEF ShuttingDown

\* Every step.
LEMMA PlaceNext ==
  ASSUME TypeOK, CutoffInv, ExitedAtEnd, PlaceInv, [Next]_vars
  PROVE  PlaceInv'
<1>1. CASE UNCHANGED vars
  BY <1>1 DEF vars, gateVars, mailboxVars, workVars, taskVars, frameVars, PlaceInv, HandInv, Serves,
     Gates, Emptied
<1> QED
  BY <1>1, PlaceCallers, PlaceRequests, PlaceStarting, PlaceTurning, PlaceShuttingDown
  DEF Next, Callers, Task, Runtime, UserCode, Starting, Turning, ShuttingDown

----------------------------------------------------------------------------
(***************************************************************************)
(* The second part: where accepted messages are.                           *)
(***************************************************************************)

Held == Entries(queue) \cup inhand \cup inflight

\* A call somebody waits for is answered, or still held by the actor.
Answered == \A m \in Calls : caller[m] = "admitted" /\ reply[m] = NoReply => m \in Held

\* What a graceful mode may do to a message it will not serve.
StoppedReply == [phase |-> "before", reason |-> "Stopped"]
ToldStopped(m) == m \in Calls /\ caller[m] = "admitted" => reply[m] = StoppedReply
GivenUp(m) ==
  /\ m \notin Entries(started)
  /\ IF mode = "Stopping" THEN ToldStopped(m) ELSE caller[m] = "abandoned"

\* Under a graceful mode, each accepted message is held, finished or given up.
Settled ==
  mode \in Graceful => \A m \in Entries(admitted) : m \in Held \cup finished \/ GivenUp(m)

\* Nothing comes from anywhere but an admission.
Accepted == Entries(queue) \cup inhand \cup Entries(started) \subseteq Entries(admitted)

\* From its first look at the mode on, on_stop has nothing unfinished behind it.
AtStop == pc \in HookSteps \/ stopHook # "no" => Entries(started) \subseteq finished

\* TruthfulReason of one answer, and that every error carries a reason.
Fits(r) ==
  r.phase \in {"before", "during"} =>
    /\ r.reason # NoReason
    /\ \/ r.reason = Ending
       \/ Ending = "Aborted"
       \/ /\ r = StoppedReply
          /\ mode \notin {"Running", "Draining"} /\ Ending # "Drained"
ReasonInv == \A m \in Calls : Fits(reply[m])

WorkInv == Answered /\ Settled /\ Accepted /\ AtStop /\ ReasonInv /\ GracefulExitKeepsWork

\* What the others of the proofs rely on.
Known == TypeOK /\ ExitedAtEnd /\ CutoffInv /\ PhaseInv /\ PlaceInv

\* What a caller is told, and where.
LEMMA ToldWhat ==
  ASSUME NEW g
  PROVE  /\ BeforeDispatch(g) # NoReply /\ DuringDispatch(g) # NoReply /\ OkReply # NoReply
         /\ g = "Stopping" => BeforeDispatch(g) = StoppedReply
         /\ g \in Hard => /\ BeforeDispatch(g).reason = HardReason[g]
                          /\ DuringDispatch(g).reason = HardReason[g]
                          /\ HardReason[g] # NoReason
  BY DEF BeforeDispatch, DuringDispatch, OkReply, NoReply, StoppedReply, FailureReason, Hard,
         HardReason, NoReason

\* An error already reported stays true of the actor, whatever the gate does
\* short of publishing.
LEMMA ReasonStays ==
  ASSUME TypeOK, exit' = exit, NEW r, Fits(r),
         \/ mode' = mode
         \/ mode' = FailureMode(mode)
         \/ mode # "Exited" /\ mode' = "Aborting"
         \/ \E s \in Shutdowns : mode' = RequestedMode(mode, s)
  PROVE  /\ r.phase \in {"before", "during"} => r.reason # NoReason
         /\ r.phase \in {"before", "during"} =>
              \/ r.reason = Ending'
              \/ Ending' = "Aborted"
              \/ r = StoppedReply /\ mode' \notin {"Running", "Draining"} /\ Ending' # "Drained"
<1> SUFFICES ASSUME r.phase \in {"before", "during"}, mode' # mode
             PROVE  /\ r.reason # NoReason
                    /\ \/ Ending' = "Aborted"
                       \/ r = StoppedReply /\ mode' \notin {"Running", "Draining"} /\ Ending' # "Drained"
  BY DEF Fits, Ending
<1>1. /\ r.reason # NoReason
      /\ \/ r.reason = Ending
         \/ Ending = "Aborted"
         \/ r = StoppedReply /\ mode \notin {"Running", "Draining"}
  BY DEF Fits
<1>2. mode \in Modes
  BY DEF TypeOK
<1>3. CASE mode' = "Aborting"
  BY <1>1, <1>3 DEF Ending, Hard, HardReason
<1>4. CASE mode \in Graceful /\ mode' \in {"Failing", "Killing"}
  BY <1>1, <1>4 DEF Ending, Graceful, Hard, HardReason, NoReason
<1>5. CASE mode = "Running"
  BY <1>1, <1>5 DEF Ending, Hard, NoReason
<1> QED
  BY <1>2, <1>3, <1>4, <1>5, GateMoves DEF Graceful

\* An error reported now is the one the actor ends for, or Stopped.
LEMMA ReasonTold ==
  ASSUME TypeOK, exit' = exit, NEW r,
         \/ mode' \in Hard /\ (r = BeforeDispatch(mode') \/ r = DuringDispatch(mode'))
         \/ /\ mode \in Hard /\ mode' \in {mode, "Aborting"}
            /\ r = BeforeDispatch(mode) \/ r = DuringDispatch(mode)
         \/ mode = "Stopping" /\ mode' \in {"Stopping", "Failing"} /\ r = BeforeDispatch(mode)
  PROVE  Fits(r)'
<1>1. CASE mode' \in Hard /\ (r = BeforeDispatch(mode') \/ r = DuringDispatch(mode'))
  BY <1>1 DEF Fits, Ending, BeforeDispatch, DuringDispatch, FailureReason, Hard, HardReason, NoReason
<1>2. CASE /\ mode \in Hard /\ mode' \in {mode, "Aborting"}
           /\ r = BeforeDispatch(mode) \/ r = DuringDispatch(mode)
  BY <1>2, ToldWhat DEF Fits, Ending, Hard, HardReason, NoReason
<1>3. CASE mode = "Stopping" /\ mode' \in {"Stopping", "Failing"} /\ r = BeforeDispatch(mode)
  BY <1>3, ToldWhat DEF Fits, Ending, StoppedReply, Hard, HardReason, NoReason
<1> QED
  BY <1>1, <1>2, <1>3

\* Steps that keep every message where it is, but may change the gate.
LEMMA WorkStill ==
  ASSUME Known, WorkInv, Still, exit' = exit,
         AtStop',
         \/ mode' = mode
         \/ mode' = FailureMode(mode)
         \/ mode # "Exited" /\ mode' = "Aborting"
         \/ \E s \in Shutdowns : mode' = RequestedMode(mode, s)
  PROVE  WorkInv'
<1>1. TypeOK /\ mode \in Modes
  BY DEF Known, TypeOK
<1>2. Answered'
  BY DEF WorkInv, Answered, Held, Still
<1>3. Settled'
  <2> SUFFICES ASSUME mode' \in Graceful, NEW m \in Entries(admitted)
               PROVE  m \in Held \cup finished \/ GivenUp(m)'
    BY DEF Settled, Held, Still
  <2>1. \/ mode' = mode
        \/ mode = "Running" /\ mode' \in {"Stopping", "Draining"}
    BY <1>1, GateMoves DEF Graceful
  <2>2. m \in Held \cup finished \/ GivenUp(m)
    BY <2>1 DEF WorkInv, Settled, Graceful
  <2> QED
    BY <2>1, <2>2 DEF GivenUp, ToldStopped, Still
<1>4. Accepted'
  BY DEF WorkInv, Accepted, Still
<1>5. ReasonInv'
  BY <1>1, ReasonStays DEF WorkInv, ReasonInv, Fits, Still
<1>6. GracefulExitKeepsWork'
  BY DEF WorkInv, GracefulExitKeepsWork, Still
<1> QED
  BY <1>2, <1>3, <1>4, <1>5, <1>6 DEF WorkInv

\* A slot that is handed on concerns no caller inside.
LEMMA RegrantInside ==
  ASSUME TypeOK, NEW d \in Regrant(caller), NEW m \in Msgs
  PROVE  /\ d[m] = "admitted"  <=> caller[m] = "admitted"
         /\ d[m] = "abandoned" <=> caller[m] = "abandoned"
  BY RegrantOutside DEF TypeOK

\* Steps of callers, other than admission, let in nobody and bring nobody back.
LEMMA CallersStay ==
  ASSUME TypeOK, NEW m \in Msgs, NEW n \in Msgs,
         \/ TryReserve(m) \/ TryFull(m) \/ TryClosed(m) \/ ReportFull(m)
         \/ BeginWait(m) \/ WaitClosed(m) \/ AdmitRefused(m) \/ CancelWait(m)
         \/ Abandon(m)
  PROVE  /\ caller'[n] = "admitted" => caller[n] = "admitted"
         /\ caller[n] = "abandoned" => caller'[n] = "abandoned"
<1>1. CASE AdmitRefused(m)
  <2> DEFINE c == [caller EXCEPT ![m] = "refused"]
  <2>1. c \in [Msgs -> CallerStates] /\ caller' \in Regrant(c)
    BY <1>1 DEF TypeOK, CallerStates, AdmitRefused
  <2>2. c[n] = caller[n] \/ (caller[n] \in {"permit", "granted"} /\ c[n] = "refused")
    BY <1>1 DEF TypeOK, AdmitRefused, Reserved
  <2> HIDE DEF c
  <2> QED
    BY <2>1, <2>2, RegrantOutside
<1>2. CASE CancelWait(m)
  <2> DEFINE c == [caller EXCEPT ![m] = "withdrawn"]
  <2>1. c \in [Msgs -> CallerStates] /\ (caller' \in Regrant(c) \/ caller' = c)
    BY <1>2 DEF TypeOK, CallerStates, CancelWait
  <2>2. c[n] = caller[n] \/ (caller[n] \in {"waiting", "granted"} /\ c[n] = "withdrawn")
    BY <1>2 DEF TypeOK, CancelWait
  <2> HIDE DEF c
  <2> QED
    BY <2>1, <2>2, RegrantOutside
<1>3. CASE \/ TryReserve(m) \/ TryFull(m) \/ TryClosed(m) \/ ReportFull(m)
           \/ BeginWait(m) \/ WaitClosed(m) \/ Abandon(m)
  BY <1>3 DEF TryReserve, TryFull, TryClosed, ReportFull, BeginWait, WaitClosed, Abandon, TypeOK
<1> QED
  BY <1>1, <1>2, <1>3

\* A caller's step before admission, or its departure.
LEMMA WorkCallers ==
  ASSUME Known, WorkInv, NEW m \in Msgs,
         \/ TryReserve(m) \/ TryFull(m) \/ TryClosed(m) \/ ReportFull(m)
         \/ BeginWait(m) \/ WaitClosed(m) \/ AdmitRefused(m) \/ CancelWait(m)
         \/ Abandon(m)
  PROVE  WorkInv'
<1>1. UNCHANGED <<mode, exit, queue, admitted, workVars, taskVars>>
  BY DEF TryReserve, TryFull, TryClosed, ReportFull, BeginWait, WaitClosed, AdmitRefused,
         CancelWait, Abandon, gateVars, Known, CutoffInv
<1>2. \A n \in Msgs : /\ caller'[n] = "admitted" => caller[n] = "admitted"
                      /\ caller[n] = "abandoned" => caller'[n] = "abandoned"
  BY CallersStay DEF Known
<1>3. Calls \subseteq Msgs /\ Entries(admitted) \subseteq Msgs
  BY DEF Msgs, Entries, Known, TypeOK
<1>4. UNCHANGED <<Held, Entries(queue), Entries(started), Entries(admitted), finished, reply>>
  BY <1>1 DEF Held, workVars, taskVars, frameVars
<1>8. Answered'
  BY <1>2, <1>3, <1>4 DEF WorkInv, Answered
<1>9. Accepted' /\ AtStop'
  BY <1>1, <1>4 DEF WorkInv, Accepted, AtStop, taskVars, frameVars
<1>5. Settled'
  BY <1>1, <1>2, <1>3, <1>4 DEF WorkInv, Settled, GivenUp, ToldStopped
<1>6. ReasonInv'
  BY <1>1 DEF WorkInv, ReasonInv, Fits, Ending, workVars
<1>7. GracefulExitKeepsWork'
  BY <1>1, <1>2, <1>3, <1>4 DEF WorkInv, GracefulExitKeepsWork
<1> QED
  BY <1>5, <1>6, <1>7, <1>8, <1>9 DEF WorkInv

\* Admission, under a Running gate.
LEMMA WorkAdmit ==
  ASSUME Known, WorkInv, NEW m \in Msgs, Admit(m)
  PROVE  WorkInv'
<1>1. /\ mode = "Running" /\ caller' = [caller EXCEPT ![m] = "admitted"]
      /\ caller[m] \in {"permit", "granted"}
      /\ UNCHANGED <<mode, exit, workVars, taskVars>>
  BY DEF Admit, MayAdmit, Reserved, gateVars
<1>2. /\ Entries(queue)' = Entries(queue) \cup {m}
      /\ Entries(admitted)' = Entries(admitted) \cup {m}
  BY EntriesAppend DEF Admit, Enqueued, Known, TypeOK
<1>3. exit = NoReason
  BY <1>1 DEF Known, PlaceInv, Emptied
<1>4. Answered' /\ Accepted' /\ AtStop'
  BY <1>1, <1>2 DEF WorkInv, Answered, Accepted, AtStop, Held, workVars, taskVars, frameVars,
     Known, TypeOK
<1>5. Settled'
  BY <1>1, <1>2 DEF WorkInv, Settled, Held, GivenUp, workVars, taskVars, frameVars,
     Known, TypeOK
<1>6. ReasonInv'
  BY <1>1 DEF WorkInv, ReasonInv, Fits, Ending, workVars
<1>7. GracefulExitKeepsWork'
  BY <1>1, <1>3 DEF GracefulExitKeepsWork, NoReason
<1> QED
  BY <1>4, <1>5, <1>6, <1>7 DEF WorkInv

\* poll_recv puts the oldest entry into the task's hand.
LEMMA WorkReceive ==
  ASSUME Known, WorkInv, Receive
  PROVE  WorkInv'
<1>1. /\ queue \in Seq(Msgs) /\ queue # <<>> /\ inhand = {} /\ pc = "poll" /\ pc' = "dispatch"
      /\ inhand' = {Head(queue)} /\ queue' = Tail(queue) /\ caller' \in Regrant(caller)
      /\ UNCHANGED <<mode, exit, admitted, reply, inflight, started, finished, stopHook>>
  BY DEF Receive, Known, TypeOK, PlaceInv, HandInv, workVars, gateVars
<1>2. Entries(queue) = Entries(queue)' \cup inhand'
  BY <1>1, EntriesTail
<1>3. \A n \in Msgs : /\ caller'[n] = "admitted"  <=> caller[n] = "admitted"
                      /\ caller'[n] = "abandoned" <=> caller[n] = "abandoned"
  BY <1>1, RegrantInside DEF Known
<1>4. Calls \subseteq Msgs /\ Entries(admitted) \subseteq Msgs
  BY DEF Msgs, Entries, Known, TypeOK
<1>9. UNCHANGED <<Held, Entries(started), Entries(admitted)>>
  BY <1>1, <1>2 DEF Held
<1>10. Answered'
  BY <1>1, <1>3, <1>4, <1>9 DEF WorkInv, Answered
<1>5. Accepted' /\ AtStop'
  BY <1>1, <1>2, <1>9 DEF WorkInv, Accepted, AtStop, HookSteps
<1>6. Settled'
  BY <1>1, <1>3, <1>4, <1>9 DEF WorkInv, Settled, GivenUp, ToldStopped
<1>7. ReasonInv'
  BY <1>1 DEF WorkInv, ReasonInv, Fits, Ending
<1>8. GracefulExitKeepsWork'
  BY <1>1, <1>3, <1>4, <1>9 DEF WorkInv, GracefulExitKeepsWork
<1> QED
  BY <1>5, <1>6, <1>7, <1>8, <1>10 DEF WorkInv

\* The envelope in hand is rejected unseen, or by the gate.
LEMMA WorkRefused ==
  ASSUME Known, WorkInv, DispatchAbandoned \/ DispatchRefused
  PROVE  WorkInv'
<1>1. /\ pc = "dispatch" /\ pc' \notin HookSteps /\ inhand' = {} /\ mode # "Exited"
      /\ mode' = mode \/ mode' = FailureMode(mode)
      /\ UNCHANGED <<exit, queue, caller, admitted, inflight, started, finished, stopHook>>
  BY GateMoves, LoopHeads DEF DispatchAbandoned, DispatchRefused, AfterDispatch, mailboxVars,
     workVars, Known, TypeOK, ExitedAtEnd, HookSteps, Graceful
<1>2. PICK m \in Msgs :
         /\ inhand = {m} /\ m \notin Entries(started)
         /\ \/ caller[m] = "abandoned" /\ reply' = reply
            \/ /\ caller[m] = "admitted" /\ mode \notin {"Running", "Draining"}
               /\ m \notin Calls /\ reply' = reply
            \/ /\ caller[m] = "admitted" /\ mode \notin {"Running", "Draining"}
               /\ m \in Calls /\ reply' = [reply EXCEPT ![m] = BeforeDispatch(mode)]
  BY <1>1 DEF DispatchAbandoned, DispatchRefused, Told, workVars, Known, PlaceInv, HandInv,
     PhaseInv, OnePlace, MayDispatch
<1>3. mode \in Modes /\ (mode' \in Graceful => mode' = mode)
  BY <1>1, GateMoves DEF Known, TypeOK
<1>4. \A n \in Calls : reply'[n] = reply[n] \/ (n = m /\ reply'[n] = BeforeDispatch(mode))
  BY <1>2 DEF Known, TypeOK
<1>10. m \in Calls /\ caller[m] = "admitted" =>
         mode \notin {"Running", "Draining"} /\ reply'[m] = BeforeDispatch(mode)
  BY <1>2 DEF Known, TypeOK
<1>5. Answered'
  BY <1>1, <1>2, <1>4, <1>10, ToldWhat DEF WorkInv, Answered, Held
<1>6. Accepted' /\ AtStop'
  BY <1>1 DEF WorkInv, Accepted, AtStop, HookSteps
<1>7. Settled'
  <2> SUFFICES ASSUME mode' = mode, mode \in Graceful, NEW n \in Entries(admitted)
               PROVE  n \in Held' \cup finished \/ GivenUp(n)'
    BY <1>1, <1>3 DEF Settled
  <2>1. CASE n = m
    BY <1>1, <1>2, <1>10, <2>1, ToldWhat DEF GivenUp, ToldStopped, Graceful
  <2>2. CASE n # m
    BY <1>1, <1>2, <1>4, <2>2 DEF WorkInv, Settled, GivenUp, ToldStopped, Held
  <2> QED
    BY <2>1, <2>2
<1>8. ReasonInv'
  <2> SUFFICES ASSUME NEW n \in Calls PROVE Fits(reply[n])'
    BY DEF ReasonInv
  <2>1. CASE reply'[n] = reply[n]
    BY <1>1, <2>1, ReasonStays DEF WorkInv, ReasonInv, Known, Fits
  <2>2. CASE n = m /\ reply'[n] = BeforeDispatch(mode) /\ reply'[n] # reply[n]
    <3>1. mode \in Hard \cup {"Stopping"}
      BY <1>1, <1>2, <1>3, <2>2 DEF Modes, Graceful
    <3>2. \/ mode \in Hard /\ mode' = mode
          \/ mode = "Stopping" /\ mode' \in {"Stopping", "Failing"}
      BY <1>1, <1>3, <3>1, GateMoves DEF Hard, Graceful
    <3> QED
      BY <1>1, <2>2, <3>2, ReasonTold DEF Known, Fits
  <2> QED
    BY <1>4, <2>1, <2>2
<1>9. GracefulExitKeepsWork'
  BY <1>1 DEF GracefulExitKeepsWork, Known, PlaceInv, Emptied, NoReason
<1> QED
  BY <1>5, <1>6, <1>7, <1>8, <1>9 DEF WorkInv

\* A handler starts, or panics as it starts.
LEMMA WorkDispatch ==
  ASSUME Known, WorkInv, Dispatch \/ DispatchPanics
  PROVE  WorkInv'
<1>1. /\ pc = "dispatch" /\ pc' \notin HookSteps /\ inhand' = {}
      /\ mode \in {"Running", "Draining"}
      /\ UNCHANGED <<exit, queue, caller, admitted, finished, stopHook>>
  BY LoopHeads DEF Dispatch, DispatchPanics, AfterDispatch, mailboxVars, gateVars, MayDispatch,
     Known, TypeOK, HookSteps, Graceful
<1>2. PICK m \in Msgs :
         /\ inhand = {m} /\ caller[m] = "admitted" /\ started' = Append(started, m)
         /\ \/ inflight' = inflight \cup {m} /\ reply' = reply /\ mode' = mode
            \/ /\ inflight' = inflight /\ mode' = "Failing"
               /\ m \in Calls \/ reply' = reply
               /\ m \in Calls => reply' = [reply EXCEPT ![m] = DuringDispatch(mode')]
  BY <1>1 DEF Dispatch, DispatchPanics, Told, gateVars, Known, PlaceInv, HandInv, FailureMode,
     Graceful
<1>3. Entries(started)' = Entries(started) \cup {m}
  BY <1>2, EntriesAppend DEF Known, TypeOK
<1>4. \A n \in Calls :
         \/ reply'[n] = reply[n] /\ (mode' = mode \/ n # m)
         \/ n = m /\ mode' = "Failing" /\ reply'[n] = DuringDispatch(mode')
  BY <1>2 DEF Known, TypeOK
<1>5. Answered'
  BY <1>1, <1>2, <1>4, ToldWhat DEF WorkInv, Answered, Held
<1>6. Accepted' /\ AtStop'
  BY <1>1, <1>2, <1>3 DEF WorkInv, Accepted, AtStop, HookSteps, Known, PlaceInv, Emptied, HardSteps
<1>7. Settled'
  <2> SUFFICES ASSUME mode' = mode, mode \in Graceful, NEW n \in Entries(admitted)
               PROVE  n \in Held' \cup finished \/ GivenUp(n)'
    BY <1>1, <1>2 DEF Settled, Graceful
  <2> QED
    BY <1>1, <1>2, <1>3, <1>4 DEF WorkInv, Settled, GivenUp, ToldStopped, Held
<1>8. ReasonInv'
  <2> SUFFICES ASSUME NEW n \in Calls PROVE Fits(reply[n])'
    BY DEF ReasonInv
  <2>1. CASE reply'[n] = reply[n]
    BY <1>1, <1>2, <2>1, ReasonStays DEF WorkInv, ReasonInv, Known, Fits, FailureMode, Graceful
  <2>2. CASE mode' = "Failing" /\ reply'[n] = DuringDispatch(mode')
    BY <1>1, <2>2, ReasonTold DEF Known, Fits, Hard
  <2> QED
    BY <1>4, <2>1, <2>2
<1>9. GracefulExitKeepsWork'
  BY <1>1 DEF GracefulExitKeepsWork, Known, PlaceInv, Emptied, NoReason
<1> QED
  BY <1>5, <1>6, <1>7, <1>8, <1>9 DEF WorkInv

\* A reply leaves the scheduler: completed, or too late.
LEMMA WorkReturns ==
  ASSUME Known, WorkInv, NEW m \in Msgs, ReplyReturns(m)
  PROVE  WorkInv'
<1>1. /\ pc = "poll" /\ pc' \notin HookSteps /\ mode # "Exited"
      /\ inflight' = inflight \ {m} /\ (mode' = mode \/ mode' = FailureMode(mode))
      /\ UNCHANGED <<exit, queue, caller, admitted, inhand, started, stopHook>>
  BY GateMoves, LoopHeads DEF ReplyReturns, mailboxVars, frameVars, Known, TypeOK, HookSteps,
     Graceful, ExitedAtEnd
<1>2. /\ finished \subseteq finished' /\ (mode \in Graceful => m \in finished')
      /\ \A n \in Calls : \/ reply'[n] = reply[n] /\ (n # m \/ caller[n] # "admitted")
                          \/ n = m /\ reply'[n] = OkReply
                          \/ n = m /\ mode \in Hard /\ reply'[n] = DuringDispatch(mode)
  BY <1>1 DEF ReplyReturns, Told, MayComplete, Known, TypeOK, Modes, Graceful
<1>3. mode \in Modes /\ (mode' \in Graceful => mode' = mode)
  BY <1>1, GateMoves DEF Known, TypeOK
<1>4. \A n \in Held : n = m \/ n \in Held'
  BY <1>1 DEF Held
<1>5. Answered'
  BY <1>1, <1>2, <1>4, ToldWhat DEF WorkInv, Answered
<1>6. Accepted' /\ AtStop'
  BY <1>1, <1>2 DEF WorkInv, Accepted, AtStop
<1>7. Settled'
  <2> SUFFICES ASSUME mode' = mode, mode \in Graceful, NEW n \in Entries(admitted)
               PROVE  n \in Held' \cup finished' \/ GivenUp(n)'
    BY <1>1, <1>3 DEF Settled
  <2>1. CASE n \in Held \cup finished
    BY <1>2, <1>4, <2>1
  <2>2. CASE GivenUp(n) /\ n \notin Held
    <3>1. n \notin inflight
      BY <2>2 DEF Held
    <3>2. n \in Calls => reply'[n] = reply[n]
      BY <1>1, <1>2, <3>1 DEF ReplyReturns
    <3> QED
      BY <1>1, <2>2, <3>2 DEF GivenUp, ToldStopped
  <2> QED
    BY <2>1, <2>2 DEF WorkInv, Settled
<1>8. ReasonInv'
  <2> SUFFICES ASSUME NEW n \in Calls PROVE Fits(reply[n])'
    BY DEF ReasonInv
  <2>1. CASE reply'[n] = reply[n]
    BY <1>1, <2>1, ReasonStays DEF WorkInv, ReasonInv, Known, Fits
  <2>2. CASE reply'[n] = OkReply
    BY <2>2, PhasesTold DEF Fits
  <2>3. CASE mode \in Hard /\ reply'[n] = DuringDispatch(mode)
    <3>1. mode' = mode
      BY <1>1, <1>3, <2>3, GateMoves DEF Hard, Graceful
    <3> QED
      BY <1>1, <2>3, <3>1, ReasonTold DEF Known, Fits
  <2> QED
    BY <1>2, <2>1, <2>2, <2>3
<1>9. GracefulExitKeepsWork'
  BY <1>1 DEF GracefulExitKeepsWork, Known, PlaceInv, Emptied, NoReason
<1> QED
  BY <1>5, <1>6, <1>7, <1>8, <1>9 DEF WorkInv

\* Stop, or a teardown, rejects the oldest entry.
LEMMA WorkRejectHead ==
  ASSUME Known, WorkInv, DiscardOne \/ TeardownOne
  PROVE  WorkInv'
<1> DEFINE h == Head(queue)
<1>1. /\ pc \in {"discardPop", "teardown", "teardownYield"} /\ pc' \notin HookSteps
      /\ mode # "Exited" /\ queue # <<>> /\ (mode' = mode \/ mode' = FailureMode(mode))
      /\ queue' = Tail(queue) /\ caller' \in Regrant(caller)
      /\ UNCHANGED <<exit, admitted, inflight, inhand, started, finished, stopHook>>
  BY GateMoves DEF DiscardOne, TeardownOne, RejectHead, frameVars, HookSteps, Known, TypeOK,
     ExitedAtEnd
<1>2. mode \in Hard \cup {"Stopping"}
  BY <1>1 DEF Known, TypeOK, Modes, Graceful, PlaceInv, Gates, Serves, HardSteps, Discarding
<1>3. /\ mode' \in Graceful => mode' = mode
      /\ \/ mode \in Hard /\ mode' = mode
         \/ mode = "Stopping" /\ mode' \in {"Stopping", "Failing"}
  BY <1>1, <1>2, GateMoves DEF Known, TypeOK, Hard, Graceful
<1>4. /\ h \in Msgs /\ h \notin Entries(started) /\ Entries(queue) = Entries(queue)' \cup {h}
      /\ \A n \in Calls : \/ reply'[n] = reply[n] /\ (n # h \/ caller[n] # "admitted")
                          \/ n = h /\ reply'[n] = BeforeDispatch(mode)
  <2>1. h \in Entries(queue) /\ Entries(queue) = Entries(queue)' \cup {h}
    BY <1>1, EntriesTail DEF Known, TypeOK
  <2>2. h \in Msgs
    BY <1>1 DEF Known, TypeOK
  <2>3. h \notin Entries(started)
    BY <2>1 DEF Known, PhaseInv, OnePlace
  <2>4. \/ h \notin Calls /\ reply' = reply
        \/ h \in Calls /\ reply' = [reply EXCEPT ![h] = Told(h, BeforeDispatch(mode))]
    BY DEF DiscardOne, TeardownOne, RejectHead
  <2> QED
    BY <2>1, <2>2, <2>3, <2>4 DEF Told, Known, TypeOK
<1> HIDE DEF h
<1>5. \A n \in Msgs : (caller'[n] = "admitted" <=> caller[n] = "admitted")
                      /\ (caller'[n] = "abandoned" <=> caller[n] = "abandoned")
  BY <1>1, RegrantInside DEF Known
<1>12. Calls \subseteq Msgs /\ Entries(admitted) \subseteq Msgs
  BY DEF Msgs, Known, TypeOK, Entries
<1>6. \A n \in Held : n = h \/ n \in Held'
  BY <1>1, <1>4 DEF Held
<1>7. Answered'
  BY <1>1, <1>4, <1>5, <1>6, <1>12, ToldWhat DEF WorkInv, Answered
<1>8. Accepted' /\ AtStop'
  BY <1>1, <1>4 DEF WorkInv, Accepted, AtStop
<1>9. Settled'
  <2> SUFFICES ASSUME mode' = mode, mode = "Stopping", NEW n \in Entries(admitted)
               PROVE  n \in Held' \cup finished \/ GivenUp(n)'
    BY <1>1, <1>2, <1>3 DEF Settled, Hard, Graceful
  <2>1. CASE n = h
    BY <1>1, <1>4, <1>5, <1>12, <2>1, ToldWhat DEF GivenUp, ToldStopped
  <2>2. CASE n # h
    <3>1. n \in Held \cup finished \/ GivenUp(n)
      BY DEF WorkInv, Settled, Graceful
    <3> QED
      BY <1>1, <1>4, <1>5, <1>6, <1>12, <2>2, <3>1 DEF GivenUp, ToldStopped
  <2> QED
    BY <2>1, <2>2
<1>10. ReasonInv'
  <2> SUFFICES ASSUME NEW n \in Calls PROVE Fits(reply[n])'
    BY DEF ReasonInv
  <2>1. CASE reply'[n] = reply[n]
    BY <1>1, <2>1, ReasonStays DEF WorkInv, ReasonInv, Known, Fits
  <2>2. CASE reply'[n] = BeforeDispatch(mode)
    BY <1>1, <1>3, <2>2, ReasonTold DEF Known, Fits
  <2> QED
    BY <1>4, <2>1, <2>2
<1>11. GracefulExitKeepsWork'
  BY <1>1 DEF GracefulExitKeepsWork, Known, PlaceInv, Emptied, NoReason
<1> QED
  BY <1>7, <1>8, <1>9, <1>10, <1>11 DEF WorkInv

\* The scheduler, the inbox or both are dropped.
LEMMA WorkCleared ==
  ASSUME Known, WorkInv, Kill \/ Fail \/ DropFrame \/ DropUnstartedInbox
  PROVE  WorkInv'
<1>1. /\ pc \in {"kill", "fail", "frame", "spawnerDrop"} /\ pc' \notin HookSteps
      /\ mode # "Exited" /\ inhand = {}
      /\ UNCHANGED <<exit, caller, admitted, started, finished, inhand, stopHook>>
  BY DEF Kill, Fail, DropFrame, DropUnstartedInbox, gateVars, frameVars, HookSteps, Known,
     ExitedAtEnd, PlaceInv, HandInv
<1>2. mode \in Modes /\ (pc # "frame" => mode \in Hard)
  BY <1>1 DEF Known, TypeOK, Modes, Graceful, PlaceInv, Gates, HardSteps
<1>3. mode' \in {mode, "Aborting"}
  BY <1>1, <1>2, GateMoves DEF Kill, Fail, DropFrame, DropUnstartedInbox, gateVars, Hard, Graceful
<1>4. mode \in Graceful => queue = <<>> /\ inflight = {} /\ pc = "frame"
  BY <1>1, <1>2 DEF Known, PlaceInv, Gates, Emptied, Hard, Graceful
<1>5. \A n \in Calls :
        /\ \/ reply'[n] = reply[n]
           \/ n \in Held /\ reply'[n] \in {BeforeDispatch(mode), DuringDispatch(mode)}
        /\ caller[n] = "admitted" /\ n \in Held /\ reply'[n] = NoReply => n \in Held'
  <2>1. CASE Kill \/ Fail
    <3>1. mode' = mode
      BY <2>1, <1>1, <1>2, GateMoves DEF Kill, Fail, gateVars, Hard, Graceful
    <3> QED
      BY <1>1, <2>1, <3>1, ToldWhat DEF Kill, Fail, ClearedReplies, Told, Held
  <2>2. CASE DropFrame
    BY <1>1, <2>2, ToldWhat DEF DropFrame, FrameReplies, Told, Held
  <2>3. CASE DropUnstartedInbox
    BY <1>1, <2>3, ToldWhat DEF DropUnstartedInbox, Told, Held
  <2> QED
    BY <2>1, <2>2, <2>3
<1>6. mode' \in Graceful => Held = {} /\ Held' \subseteq {}
  <2>1. Entries(<<>>) = {}
    BY DEF Entries
  <2>2. CASE DropFrame
    BY <1>1, <1>3, <1>4, <2>1, <2>2 DEF DropFrame, Held, Graceful
  <2> QED
    BY <1>1, <1>2, <1>3, <2>2 DEF Hard, Graceful, Kill, Fail, DropUnstartedInbox
<1>7. Answered'
  BY <1>1, <1>5 DEF WorkInv, Answered
<1>8. Accepted' /\ AtStop'
  <2>1. Entries(queue)' \subseteq Entries(queue)
    BY DEF Kill, Fail, DropFrame, DropUnstartedInbox, Entries
  <2> QED
    BY <1>1, <2>1 DEF WorkInv, Accepted, AtStop
<1>9. Settled'
  <2> SUFFICES ASSUME mode' = mode, mode \in Graceful, NEW n \in Entries(admitted)
               PROVE  n \in Held' \cup finished \/ GivenUp(n)'
    BY <1>1, <1>3 DEF Settled, Graceful
  <2> QED
    BY <1>1, <1>5, <1>6 DEF WorkInv, Settled, GivenUp, ToldStopped
<1>10. ReasonInv'
  <2> SUFFICES ASSUME NEW n \in Calls PROVE Fits(reply[n])'
    BY DEF ReasonInv
  <2>1. CASE reply'[n] = reply[n]
    BY <1>1, <1>3, <2>1, ReasonStays DEF WorkInv, ReasonInv, Known, Fits
  <2>2. CASE n \in Held /\ reply'[n] \in {BeforeDispatch(mode), DuringDispatch(mode)}
    <3>1. mode \in Hard
      BY <1>1, <1>2, <1>4, <2>2 DEF Held, Entries, Modes, Hard, Graceful
    <3> QED
      BY <1>1, <1>3, <2>2, <3>1, ReasonTold DEF Known, Fits
  <2> QED
    BY <1>5, <2>1, <2>2
<1>11. GracefulExitKeepsWork'
  BY <1>1 DEF GracefulExitKeepsWork, Known, PlaceInv, Emptied, NoReason
<1> QED
  BY <1>7, <1>8, <1>9, <1>10, <1>11 DEF WorkInv

\* The exit is published: what a graceful one says was settled before.
LEMMA WorkPublish ==
  ASSUME Known, WorkInv, Publish
  PROVE  WorkInv'
<1>1. /\ pc = "publish" /\ pc' = "exited" /\ mode # "Exited" /\ mode' = "Exited"
      /\ exit' = FinishReason(mode, proposed)
      /\ UNCHANGED <<queue, caller, admitted, reply, inflight, started, finished, inhand, stopHook>>
  BY DEF Publish, mailboxVars, workVars, frameVars, Known, ExitedAtEnd
<1>2. mode \in Modes /\ mode' \notin Graceful
  BY <1>1 DEF Known, TypeOK, Graceful
<1>3. mode \in Graceful =>
        /\ Held = {} /\ exit' = proposed
        /\ \/ exit' = "Drained" /\ mode = "Draining"
           \/ exit' = "Stopped" /\ mode = "Stopping"
  <2> SUFFICES ASSUME mode \in Graceful PROVE /\ Held = {} /\ exit' = proposed
                                              /\ \/ exit' = "Drained" /\ mode = "Draining"
                                                 \/ exit' = "Stopped" /\ mode = "Stopping"
    OBVIOUS
  <2>1. stopHook = "returned" /\ proposed \in {"Drained", "Stopped"}
    BY <1>1 DEF Known, PlaceInv, Gates
  <2>2. queue = <<>> /\ inflight = {} /\ inhand = {}
    BY <1>1 DEF Known, PlaceInv, Emptied, HandInv
  <2>3. Held = {}
    BY <2>2 DEF Held, Entries
  <2>4. /\ proposed = "Drained" => mode = "Draining"
        /\ proposed = "Stopped" => mode = "Stopping"
    BY DEF Known, PlaceInv, Serves, Gates, Graceful
  <2> QED
    BY <1>1, <2>1, <2>3, <2>4 DEF FinishReason
<1>4. mode \in Hard => exit' = HardReason[mode] \/ exit' = "Aborted"
  BY <1>1 DEF FinishReason, Hard, Graceful
<1>5. mode \in Hard => exit' \notin {"Drained", "Stopped"}
  BY <1>4 DEF Hard, HardReason
<1>6. Answered' /\ Accepted' /\ AtStop' /\ Settled'
  BY <1>1, <1>2 DEF WorkInv, Answered, Accepted, AtStop, Settled, Held, HookSteps
<1>7. ReasonInv'
  <2> SUFFICES ASSUME NEW n \in Calls, reply[n].phase \in {"before", "during"}
               PROVE  /\ reply[n].reason # NoReason
                      /\ \/ reply[n].reason = exit'
                         \/ exit' = "Aborted"
                         \/ reply[n] = StoppedReply /\ exit' # "Drained"
    BY <1>1 DEF ReasonInv, Fits, Ending
  <2>1. /\ reply[n].reason # NoReason
        /\ \/ reply[n].reason = Ending
           \/ Ending = "Aborted"
           \/ reply[n] = StoppedReply /\ mode \notin {"Running", "Draining"}
    BY DEF WorkInv, ReasonInv, Fits
  <2>2. CASE mode \in Graceful
    BY <1>3, <2>1, <2>2 DEF Ending, Hard, Graceful, NoReason
  <2>3. CASE mode \in Hard
    BY <1>1, <1>4, <1>5, <2>1, <2>3 DEF Ending, Hard, HardReason
  <2> QED
    BY <1>1, <1>2, <2>2, <2>3 DEF Modes
<1>8. GracefulExitKeepsWork'
  <2>1. CASE mode \in Graceful
    <3>1. \A m \in Entries(admitted) : m \in finished \/ GivenUp(m)
      BY <1>3, <2>1 DEF WorkInv, Settled
    <3> QED
      BY <1>1, <1>3, <2>1, <3>1 DEF GracefulExitKeepsWork, GivenUp, ToldStopped, StoppedReply
  <2>2. CASE mode \in Hard
    BY <1>5, <2>2 DEF GracefulExitKeepsWork
  <2> QED
    BY <1>1, <1>2, <2>1, <2>2 DEF Modes
<1> QED
  BY <1>6, <1>7, <1>8 DEF WorkInv

\* on_stop begins when graceful_finish finds a graceful mode, and then all that
\* was started is finished.
LEMMA AtStopStep ==
  ASSUME Known, WorkInv,
         FinishCheck \/ StopHookCheck \/ StopHookPending \/ StopHookDone \/ StopHookPanics
  PROVE  AtStop'
<1>1. UNCHANGED <<started, finished>>
  BY DEF FinishCheck, StopHookCheck, StopHookPending, StopHookDone, StopHookPanics, workVars
<1>2. CASE pc \in HookSteps
  BY <1>1, <1>2 DEF WorkInv, AtStop
<1>3. CASE FinishCheck /\ mode \in Graceful
  <2>1. queue = <<>> /\ inflight = {} /\ inhand = {}
    BY <1>3 DEF FinishCheck, Known, PlaceInv, Emptied, HandInv
  <2>2. Held = {}
    BY <2>1 DEF Held, Entries
  <2>3. Entries(started) \subseteq finished
    BY <1>3, <2>2 DEF WorkInv, Settled, Accepted, GivenUp
  <2> QED
    BY <1>1, <2>3 DEF AtStop
<1>4. CASE FinishCheck /\ mode \notin Graceful
  BY <1>1, <1>4 DEF FinishCheck, WorkInv, AtStop, HookSteps, frameVars
<1> QED
  BY <1>2, <1>3, <1>4 DEF StopHookCheck, StopHookPending, StopHookDone, StopHookPanics, HookSteps

\* Nothing has happened yet.
LEMMA WorkInit == Init => WorkInv
<1> SUFFICES ASSUME Init PROVE WorkInv
  OBVIOUS
<1>1. Entries(queue) = {} /\ Entries(admitted) = {} /\ Entries(started) = {}
  BY DEF Init, Entries
<1>2. Answered /\ Settled /\ Accepted /\ AtStop
  BY <1>1 DEF Init, Answered, Settled, Accepted, AtStop, HookSteps, Msgs
<1>3. ReasonInv
  BY DEF Init, ReasonInv, Fits, NoReply
<1>4. GracefulExitKeepsWork
  BY DEF Init, GracefulExitKeepsWork, NoReason
<1> QED
  BY <1>2, <1>3, <1>4 DEF WorkInv

\* Every step keeps what is known of accepted work.
LEMMA WorkNext ==
  ASSUME Known, WorkInv, [Next]_vars
  PROVE  WorkInv'
<1>1. CASE UNCHANGED vars
  <2>1. Still /\ UNCHANGED <<mode, exit, pc, stopHook>>
    BY <1>1 DEF Still, vars, gateVars, mailboxVars, workVars, taskVars, frameVars
  <2>2. AtStop'
    BY <2>1 DEF WorkInv, AtStop, Still
  <2> QED
    BY <2>1, <2>2, WorkStill
<1>2. CASE Callers
  BY <1>2, WorkCallers, WorkAdmit DEF Callers
<1>3. ASSUME NEW shutdown \in Shutdowns, RequestShutdown(shutdown)
      PROVE  WorkInv'
  <2>1. /\ Still /\ UNCHANGED <<exit, pc, stopHook>>
        /\ mode' = RequestedMode(mode, shutdown)
    BY <1>3 DEF RequestShutdown, Still, mailboxVars, workVars, taskVars, frameVars
  <2>2. AtStop'
    BY <2>1 DEF WorkInv, AtStop, Still
  <2> QED
    BY <2>1, <2>2, WorkStill
<1>4. CASE Starting /\ ~DropUnstartedInbox
  <2>1. /\ Still /\ UNCHANGED <<exit, stopHook>> /\ pc' \notin HookSteps
        /\ \/ mode' = mode \/ mode' = FailureMode(mode)
           \/ \E s \in Shutdowns : mode' = RequestedMode(mode, s)
    BY <1>4 DEF Starting, Spawn, DropSpawner, EnterInit, CheckInit, InitPending, InitDone,
       InitPanics, Still, Shutdowns, HookSteps, gateVars, mailboxVars, workVars, frameVars
  <2>2. AtStop'
    BY <2>1 DEF WorkInv, AtStop, Still
  <2> QED
    BY <2>1, <2>2, WorkStill
<1>5. CASE LoopTop \/ OnDrain \/ OnStop \/ OnShutdownPanics \/ TurnCheck \/ InboxClosed \/ Park
           \/ \E m \in Msgs : ReplyPanics(m)
  <2>1. /\ Still /\ UNCHANGED <<exit, stopHook>> /\ pc' \notin HookSteps
        /\ mode' = mode \/ mode' = FailureMode(mode)
    BY <1>5, LoopHeads DEF LoopTop, OnDrain, OnStop, OnShutdownPanics, TurnCheck, InboxClosed, Park,
       ReplyPanics, Still, HookSteps, Graceful, Known, TypeOK, gateVars, mailboxVars, workVars,
       frameVars
  <2>2. AtStop'
    BY <2>1 DEF WorkInv, AtStop, Still
  <2> QED
    BY <2>1, <2>2, WorkStill
<1>6. CASE Turning
  BY <1>5, <1>6, WorkReceive, WorkRefused, WorkDispatch, WorkReturns DEF Turning
<1>7. CASE FinishCheck \/ StopHookCheck \/ StopHookPending \/ StopHookDone \/ StopHookPanics
  <2>1. /\ Still /\ exit' = exit
        /\ mode' = mode \/ mode' = FailureMode(mode)
    BY <1>7 DEF FinishCheck, StopHookCheck, StopHookPending, StopHookDone, StopHookPanics, Still,
       gateVars, mailboxVars, workVars, frameVars
  <2> QED
    BY <1>7, <2>1, AtStopStep, WorkStill
<1>8. CASE DrainTop \/ DiscardCheck \/ DiscardDone \/ FinishRepliesTop \/ TeardownDone \/ Abort
  <2>1. /\ Still /\ UNCHANGED <<exit, stopHook>> /\ pc' \notin HookSteps
        /\ mode' = mode \/ (mode # "Exited" /\ mode' = "Aborting")
    BY <1>8 DEF DrainTop, DiscardCheck, DiscardDone, FinishRepliesTop, TeardownDone, Abort,
       AbortMode, Still, HookSteps, Graceful, gateVars, mailboxVars, workVars, frameVars
  <2>2. AtStop'
    BY <2>1 DEF WorkInv, AtStop, Still
  <2> QED
    BY <2>1, <2>2, WorkStill
<1>9. CASE ShuttingDown
  BY <1>7, <1>8, <1>9, WorkCleared, WorkRejectHead, WorkPublish DEF ShuttingDown
<1>10. CASE DropUnstartedInbox
  BY <1>10, WorkCleared
<1> QED
  BY <1>1, <1>2, <1>3, <1>4, <1>6, <1>9, <1>10
  DEF Next, Task, Runtime, UserCode, Starting, Turning, ShuttingDown

\* All of the above is invariant.
THEOREM WorkAccounted == Safe => [](Known /\ WorkInv)
<1>1. Init => Known /\ WorkInv
  BY TypeInit, PhaseInit, PlaceInit, WorkInit
  DEF Known, Init, ExitedAtEnd, CutoffInv, AfterCutoff
<1>2. Known /\ WorkInv /\ [Next]_vars => (Known /\ WorkInv)'
  BY TypeNext, ExitedAtEndStep, CutoffStep, PhaseNext, PlaceNext, WorkNext DEF Known
<1> QED
  BY <1>1, <1>2, PTL DEF Safe

\* The exit leaves nothing queued, in hand or in flight, and no call that
\* somebody waits for without an answer.
THEOREM NothingLeft == Safe => []ExitLeavesNothing
<1>1. Known /\ WorkInv => ExitLeavesNothing
  <2> SUFFICES ASSUME Known, WorkInv, pc \in {"exited", "gone"}
               PROVE  /\ queue = <<>> /\ inflight = {} /\ inhand = {}
                      /\ \A m \in Calls : caller[m] = "admitted" => reply[m] # NoReply
    BY DEF ExitLeavesNothing
  <2>1. queue = <<>> /\ inflight = {} /\ inhand = {}
    BY DEF Known, PlaceInv, Emptied, HandInv, BeforeLoops
  <2>2. Held = {}
    BY <2>1 DEF Held, Entries
  <2> QED
    BY <2>1, <2>2 DEF WorkInv, Answered
<1> QED
  BY <1>1, WorkAccounted, PTL

\* on_stop is entered only when the inbox is closed and empty and every started
\* handler has completed.
THEOREM StopHookLast == Safe => []StopHookAfterWork
<1>1. Known /\ WorkInv => StopHookAfterWork
  BY DEF Known, PlaceInv, Emptied, HandInv, WorkInv, AtStop, StopHookAfterWork, HookSteps, HardSteps
<1> QED
  BY <1>1, WorkAccounted, PTL

\* Drained means that every accepted message was completed or its call
\* abandoned in the queue; Stopped, that every started one was completed and
\* the callers of the others told so.
THEOREM GracefulExits == Safe => []GracefulExitKeepsWork
<1>1. Known /\ WorkInv => GracefulExitKeepsWork
  BY DEF WorkInv
<1> QED
  BY <1>1, WorkAccounted, PTL

\* The reason of every error is the one the actor ends for, or the Stop it was
\* going through.
THEOREM ReasonsTrue == Safe => []TruthfulReason
<1>1. Known /\ WorkInv => TruthfulReason
  BY DEF WorkInv, ReasonInv, Fits, StoppedReply, TruthfulReason
<1> QED
  BY <1>1, WorkAccounted, PTL
=============================================================================

------------------------------- MODULE Actor -------------------------------
(***************************************************************************)
(* One actor of the runtime: the callers that reserve mailbox capacity and *)
(* admit messages, the lifecycle gate, and the actor task that initializes,*)
(* dispatches, polls replies, shuts down and publishes its exit.           *)
(*                                                                         *)
(* Steps of the task are cut at every place where another thread can come  *)
(* between two reads of the gate.  A step that ends in a wait leaves the   *)
(* task suspended; the executor resumes it, or drops it (Abort).  How the  *)
(* task is woken, and which lane a turn polls first, is the subject of     *)
(* Scheduler: here a parked task may always look again.  The      *)
(* actor has no children (the Disabled supervision profile).               *)
(***************************************************************************)
EXTENDS Lifecycle, Integers, Sequences, FiniteSets

CONSTANTS Calls,        \* messages sent by call: a caller waits for the reply
          Sends,        \* one-way messages: nobody waits after admission
          Capacity,     \* slots of the bounded mailbox
          MaxInFlight   \* replies the scheduler holds at once

Msgs == Calls \cup Sends

ASSUME ActorAssumption ==
  /\ IsFiniteSet(Msgs)
  /\ Calls \cap Sends = {}
  /\ Capacity \in Nat \ {0}
  /\ MaxInFlight \in Nat \ {0}

VARIABLES
  mode, exit,          \* Control: the gate and the reason it published
  closed, queue,       \* the transport: closed to reservations; accepted entries
  caller,              \* where the caller of each message stands
  reply,               \* the oneshot of each call: what the caller was told
  inflight,            \* replies the scheduler owns
  pc, expected,        \* the task: its step, and the mode its loop serves
  inhand,              \* the envelope between poll_recv and the dispatch gate
  drained,             \* drain_actor: inbox_drained
  proposed,            \* the reason the final frame returned
  admitted, started,   \* history: order of admissions, order of handler starts
  finished,            \* history: dispatched work whose completion committed
  stopHook             \* history: on_stop not entered, entered, or returned

gateVars    == <<mode, exit>>
mailboxVars == <<closed, queue, caller, admitted>>
workVars    == <<reply, inflight, started, finished>>
frameVars   == <<expected, inhand, drained, proposed, stopHook>>
taskVars    == <<pc, frameVars>>
vars        == <<gateVars, mailboxVars, workVars, taskVars>>

CallerStates == {"idle", "full", "permit", "waiting", "granted", "admitted",
                 "abandoned", "refused", "withdrawn"}
Suspended == {"entry", "initWait", "parked", "yield", "teardownYield", "stopHookWait"}
Steps == Suspended \cup
         {"unstarted", "spawnerDrop", "gone", "init", "initPoll", "loop", "onDrain",
          "onStop", "drain", "turn", "poll", "dispatch", "discard", "discardPop",
          "finishReplies", "finish", "stopHook", "stopHookPoll", "kill", "fail",
          "teardown", "frame", "publish", "exited"}

ReplyPhases == {"none", "ok", "before", "during"}
Answers == [phase : ReplyPhases, reason : Reasons \cup {NoReason}]
NoReply == [phase |-> "none", reason |-> NoReason]
OkReply == [phase |-> "ok", reason |-> NoReason]

Entries(seq) == {seq[i] : i \in DOMAIN seq}

(***************************************************************************)
(* A reservation is a slot some caller holds between try_reserve or        *)
(* reserve_owned and its admission.                                        *)
(***************************************************************************)
Reserved  == {m \in Msgs : caller[m] \in {"permit", "granted"}}
Waiting   == {m \in Msgs : caller[m] = "waiting"}
QueueSlots == Capacity - Len(queue)    \* a mutant: reservations not counted
FreeSlots  == Capacity - Len(queue) - Cardinality(Reserved)

\* Mutants, here and below, are what a plausible bug would make of the
\* definition that follows; nothing uses them.

\* What the caller of m is told when m fails in a mode: nothing when m is a
\* one-way message or its Response was dropped.
Told(m, r) == IF m \in Calls /\ caller[m] = "admitted" THEN r ELSE reply[m]
BeforeAsDuring(gate) == [phase |-> "before", reason |-> FailureReason(gate, exit, "Dispatching")]
BeforeDispatch(gate) == [phase |-> "before", reason |-> FailureReason(gate, exit, "Queued")]
DuringAsBefore(gate) == [phase |-> "before", reason |-> FailureReason(gate, exit, "Queued")]
DuringDispatch(gate) == [phase |-> "during", reason |-> FailureReason(gate, exit, "Dispatching")]

\* A released slot goes to one waiting caller of an open mailbox, if there is
\* one (Tokio serves them in FIFO order, which nothing here relies on).
Regrant(c) ==
  LET asleep == {m \in Msgs : c[m] = "waiting"}
  IN  IF closed \/ asleep = {} THEN {c}
      ELSE {[c EXCEPT ![m] = "granted"] : m \in asleep}

\* A user value dropped by the runtime may panic, which fails the actor.
AfterUserDrop(gate) == {gate, FailureMode(gate)}

----------------------------------------------------------------------------
Init ==
  /\ mode = "Running" /\ exit = NoReason
  /\ closed = FALSE /\ queue = <<>>
  /\ caller = [m \in Msgs |-> "idle"]
  /\ reply = [m \in Calls |-> NoReply]
  /\ inflight = {} /\ inhand = {}
  /\ pc = "unstarted" /\ expected = "Running"
  /\ drained = FALSE /\ proposed = NoReason
  /\ admitted = <<>> /\ started = <<>> /\ finished = {}
  /\ stopHook = "no"

----------------------------------------------------------------------------
(* Callers: ActorRef::call, send, try_call, try_send.                      *)

\* try_reserve finds a slot.
TryReserve(m) ==
  /\ caller[m] = "idle" /\ ~closed /\ FreeSlots > 0
  /\ caller' = [caller EXCEPT ![m] = "permit"]
  /\ UNCHANGED <<gateVars, closed, queue, admitted, workVars, taskVars>>

TryFull(m) ==
  /\ caller[m] = "idle" /\ ~closed /\ FreeSlots <= 0
  /\ caller' = [caller EXCEPT ![m] = "full"]
  /\ UNCHANGED <<gateVars, closed, queue, admitted, workVars, taskVars>>

\* try_reserve finds the transport closed.  While the gate says Running that
\* is a broken law of the transport, and fails the actor.
TryClosed(m) ==
  /\ caller[m] = "idle" /\ closed
  /\ caller' = [caller EXCEPT ![m] = "refused"]
  /\ mode' = IF mode = "Running" THEN FailureMode(mode) ELSE mode
  /\ UNCHANGED <<exit, closed, queue, admitted, workVars, taskVars>>

\* try_call and try_send report Full, or Closed when the gate has closed.
ReportFull(m) ==
  /\ caller[m] = "full"
  /\ caller' = [caller EXCEPT ![m] = IF MayAdmit(mode) THEN "withdrawn" ELSE "refused"]
  /\ UNCHANGED <<gateVars, closed, queue, admitted, workVars, taskVars>>

\* call and send go on to reserve_owned_capacity, whose first poll may find a
\* slot that was freed since.
BeginWait(m) ==
  /\ caller[m] = "full" /\ MayAdmit(mode)
  /\ caller' = [caller EXCEPT ![m] = IF ~closed /\ FreeSlots > 0 THEN "permit" ELSE "waiting"]
  /\ UNCHANGED <<gateVars, closed, queue, admitted, workVars, taskVars>>

WaitClosedByTransport(m) ==    \* a mutant: the waiter does not watch the gate
  /\ caller[m] = "waiting" /\ closed
  /\ caller' = [caller EXCEPT ![m] = "refused"]
  /\ UNCHANGED <<gateVars, closed, queue, admitted, workVars, taskVars>>

\* A waiter without a slot that sees the mode change reports Closed.
WaitClosed(m) ==
  /\ caller[m] = "waiting" /\ ~MayAdmit(mode)
  /\ caller' = [caller EXCEPT ![m] = "refused"]
  /\ UNCHANGED <<gateVars, closed, queue, admitted, workVars, taskVars>>

\* The transport is a FIFO queue.
EnqueuedInFront(m) == <<m>> \o queue    \* a mutant
Enqueued(m) == Append(queue, m)

\* ActorInner::admit commits the message while the gate is Running ...
Admit(m) ==
  /\ m \in Reserved /\ MayAdmit(mode)
  /\ queue' = Enqueued(m)
  /\ admitted' = Append(admitted, m)
  /\ caller' = [caller EXCEPT ![m] = "admitted"]
  /\ UNCHANGED <<gateVars, closed, workVars, taskVars>>

\* ... and otherwise hands the reservation back, which frees its slot.
AdmitRefused(m) ==
  /\ m \in Reserved /\ ~MayAdmit(mode)
  /\ caller' \in Regrant([caller EXCEPT ![m] = "refused"])
  /\ UNCHANGED <<gateVars, closed, queue, admitted, workVars, taskVars>>

\* The caller drops its future while it waits for a slot or, once the slot is
\* granted, before it is polled again.
CancelWait(m) ==
  /\ caller[m] \in {"waiting", "granted"}
  /\ caller' \in IF caller[m] = "granted"
                 THEN Regrant([caller EXCEPT ![m] = "withdrawn"])
                 ELSE {[caller EXCEPT ![m] = "withdrawn"]}
  /\ UNCHANGED <<gateVars, closed, queue, admitted, workVars, taskVars>>

\* The caller drops its Response after admission.
Abandon(m) ==
  /\ m \in Calls /\ caller[m] = "admitted" /\ reply[m] = NoReply
  /\ caller' = [caller EXCEPT ![m] = "abandoned"]
  /\ UNCHANGED <<gateVars, closed, queue, admitted, workVars, taskVars>>

\* ActorRef::request_shutdown, ActorOwner::shutdown and ActorOwner's Drop.
RequestShutdown(shutdown) ==
  /\ RequestedMode(mode, shutdown) # mode
  /\ mode' = RequestedMode(mode, shutdown)
  /\ UNCHANGED <<exit, mailboxVars, workVars, taskVars>>

----------------------------------------------------------------------------
(* Spawning and initialization.                                            *)

\* ActorSpawner::spawn hands the frame to the executor.
Spawn ==
  /\ pc = "unstarted"
  /\ pc' = "entry"
  /\ UNCHANGED <<gateVars, mailboxVars, workVars, frameVars>>

DropSpawnerOnly ==    \* a mutant: Drop requests nothing
  /\ pc = "unstarted"
  /\ pc' = "spawnerDrop"
  /\ UNCHANGED <<gateVars, mailboxVars, workVars, frameVars>>

\* Dropping an unstarted ActorSpawner requests Kill ...
DropSpawner ==
  /\ pc = "unstarted"
  /\ mode' = RequestedMode(mode, "Kill")
  /\ pc' = "spawnerDrop"
  /\ UNCHANGED <<exit, mailboxVars, workVars, frameVars>>

DropUnstartedSilently ==    \* a mutant: the inbox has no Drop
  /\ pc = "spawnerDrop"
  /\ closed' = TRUE /\ queue' = <<>>
  /\ pc' = "gone"
  /\ UNCHANGED <<gateVars, caller, admitted, workVars, frameVars>>

\* ... and then drops the inbox, which rejects what it had accepted.
DropUnstartedInbox ==
  /\ pc = "spawnerDrop"
  /\ closed' = TRUE /\ queue' = <<>>
  /\ reply' = [m \in Calls |-> IF m \in Entries(queue)
                               THEN Told(m, BeforeDispatch(mode)) ELSE reply[m]]
  /\ pc' = "gone"
  /\ UNCHANGED <<gateVars, caller, admitted, inflight, started, finished,
                 frameVars>>

\* run_actor: begin_initialization decides whether Actor::init is entered.
EnterInit ==
  /\ pc = "entry"
  /\ pc' = IF MayInit(mode) THEN "init" ELSE "kill"
  /\ UNCHANGED <<gateVars, mailboxVars, workVars, frameVars>>

\* await_actor_work rereads the mode before every poll of the future.
CheckInit ==
  /\ pc \in {"init", "initWait"}
  /\ pc' = IF mode \in Graceful THEN "initPoll" ELSE "kill"
  /\ UNCHANGED <<gateVars, mailboxVars, workVars, frameVars>>

InitPending ==
  /\ pc = "initPoll"
  /\ pc' = "initWait"
  /\ UNCHANGED <<gateVars, mailboxVars, workVars, frameVars>>

InitDone ==
  /\ pc = "initPoll"
  /\ pc' = "loop"
  /\ UNCHANGED <<gateVars, mailboxVars, workVars, frameVars>>

\* init panics, or its frame does when it is dropped (DropPanicked).
InitPanics ==
  /\ pc = "initPoll"
  /\ mode' = FailureMode(mode)
  /\ pc' = "fail"
  /\ UNCHANGED <<exit, mailboxVars, workVars, frameVars>>
----------------------------------------------------------------------------
(* The actor loop (run_actor) and its turns (actor_turn, poll_turn).       *)

\* Where a turn returns to: the head of the loop that serves each mode.
LoopHead == [Running |-> "loop", Draining |-> "drain", Stopping |-> "finishReplies"]

\* run_actor rereads the mode before every turn.
LoopTop ==
  /\ pc = "loop"
  /\ mode \in Graceful \cup {"Killing", "Failing"}
  /\ pc' = CASE mode = "Running"  -> "turn"
             [] mode = "Draining" -> "onDrain"
             [] mode = "Stopping" -> "onStop"
             [] mode = "Killing"  -> "kill"
             [] mode = "Failing"  -> "fail"
  /\ UNCHANGED <<gateVars, mailboxVars, workVars, frameVars>>

\* What drain_actor and finish_replies wait for.
AlwaysDrained  == TRUE            \* a mutant
InboxDrained   == queue = <<>>
RepliesIgnored == TRUE            \* a mutant
RepliesDone    == inflight = {}

OnDrainRereads ==    \* a mutant: the drain loop serves whatever mode it finds
  /\ pc = "onDrain"
  /\ closed' = TRUE
  /\ drained' = InboxDrained
  /\ expected' = mode
  /\ pc' = "drain"
  /\ UNCHANGED <<gateVars, queue, caller, admitted, workVars, inhand, proposed, stopHook>>

\* on_shutdown(Drain) returns; drain_actor closes the inbox.
OnDrain ==
  /\ pc = "onDrain"
  /\ closed' = TRUE
  /\ drained' = InboxDrained
  /\ expected' = "Draining"
  /\ pc' = "drain"
  /\ UNCHANGED <<gateVars, queue, caller, admitted, workVars, inhand, proposed, stopHook>>

\* on_shutdown(Stop) returns; stop_actor closes the inbox and discards it.
OnStop ==
  /\ pc = "onStop"
  /\ closed' = TRUE
  /\ expected' = "Stopping"
  /\ pc' = "discard"
  /\ UNCHANGED <<gateVars, queue, caller, admitted, workVars, inhand, drained, proposed, stopHook>>

OnShutdownPanics ==
  /\ pc \in {"onDrain", "onStop"}
  /\ mode' = FailureMode(mode)
  /\ pc' = "fail"
  /\ UNCHANGED <<exit, mailboxVars, workVars, frameVars>>

TurnUnchecked ==    \* a mutant: the turn does not look at the mode
  /\ pc \in {"turn", "parked"}
  /\ pc' = "poll"
  /\ UNCHANGED <<gateVars, mailboxVars, workVars, frameVars>>

\* poll_turn begins only while the mode is still the one its loop serves.
TurnCheck ==
  /\ pc \in {"turn", "parked"}
  /\ pc' = IF mode = expected THEN "poll" ELSE LoopHead[expected]
  /\ UNCHANGED <<gateVars, mailboxVars, workVars, frameVars>>

\* The mailbox lane is open to receive.
MayReceive == /\ \/ expected = "Running"
                 \/ expected = "Draining" /\ ~drained
              /\ Cardinality(inflight) < MaxInFlight

\* poll_recv yields the oldest entry and frees its slot.
Receive ==
  /\ pc = "poll" /\ MayReceive /\ queue # <<>>
  /\ inhand' = {Head(queue)}
  /\ queue' = Tail(queue)
  /\ caller' \in Regrant(caller)
  /\ pc' = "dispatch"
  /\ UNCHANGED <<gateVars, closed, admitted, workVars, expected, drained, proposed, stopHook>>

\* poll_recv reports the end of the inbox: closed, empty, and no reservation
\* outstanding.
InboxEnds == MayReceive /\ closed /\ queue = <<>> /\ Reserved = {}

InboxClosed ==
  /\ pc = "poll" /\ InboxEnds
  /\ IF expected = "Draining"
     THEN mode' = mode /\ drained' = TRUE /\ pc' = "drain"
     ELSE mode' = FailureMode(mode) /\ drained' = drained /\ pc' = "fail"
  /\ UNCHANGED <<exit, mailboxVars, workVars, expected, inhand, proposed, stopHook>>

\* Every lane is pending: the task waits to be woken.
Park ==
  /\ pc = "poll"
  /\ ~(MayReceive /\ queue # <<>>) /\ ~InboxEnds
  /\ pc' = "parked"
  /\ UNCHANGED <<gateVars, mailboxVars, workVars, frameVars>>

\* After one envelope the mailbox lane goes on, or has spent its budget.
AfterDispatch == pc' \in {"turn", LoopHead[expected]}

\* The Response of a queued call was dropped: it is rejected unseen.
DispatchAbandoned ==
  /\ pc = "dispatch"
  /\ \E m \in inhand : m \in Calls /\ caller[m] = "abandoned"
  /\ mode' \in AfterUserDrop(mode)
  /\ inhand' = {}
  /\ AfterDispatch
  /\ UNCHANGED <<exit, mailboxVars, workVars, expected, drained, proposed, stopHook>>

\* begin_dispatch refuses the envelope: shutdown won.
DispatchRefused ==
  /\ pc = "dispatch" /\ ~MayDispatch(mode)
  /\ \E m \in inhand :
       /\ caller[m] = "admitted"
       /\ reply' = IF m \in Calls THEN [reply EXCEPT ![m] = Told(m, BeforeDispatch(mode))]
                   ELSE reply
  /\ mode' \in AfterUserDrop(mode)
  /\ inhand' = {}
  /\ AfterDispatch
  /\ UNCHANGED <<exit, mailboxVars, inflight, started, finished,
                 expected, drained, proposed, stopHook>>

\* begin_dispatch commits and the handler's future is scheduled.
Dispatch ==
  /\ pc = "dispatch" /\ MayDispatch(mode)
  /\ \E m \in inhand :
       /\ caller[m] = "admitted"
       /\ started' = Append(started, m)
       /\ inflight' = inflight \cup {m}
  /\ inhand' = {}
  /\ AfterDispatch
  /\ UNCHANGED <<gateVars, mailboxVars, reply, finished, expected, drained, proposed, stopHook>>

\* Building the handler's future panics: DispatchReply reports the failure
\* as it unwinds, and nothing is scheduled.
DispatchPanics ==
  /\ pc = "dispatch" /\ MayDispatch(mode)
  /\ mode' = FailureMode(mode)
  /\ \E m \in inhand :
       /\ caller[m] = "admitted"
       /\ started' = Append(started, m)
       /\ reply' = IF m \in Calls THEN [reply EXCEPT ![m] = Told(m, DuringDispatch(mode'))]
                   ELSE reply
  /\ inhand' = {}
  /\ pc' = "fail"
  /\ UNCHANGED <<exit, mailboxVars, inflight, finished, expected, drained, proposed, stopHook>>

\* A reply's future returns.  begin_completion decides what the caller is
\* told; the finished future leaves the scheduler and is dropped.
ReplyReturns(m) ==
  /\ pc = "poll" /\ m \in inflight
  /\ inflight' = inflight \ {m}
  /\ finished' = IF MayComplete(mode) THEN finished \cup {m} ELSE finished
  /\ reply' = IF m \in Calls
              THEN [reply EXCEPT ![m] =
                      Told(m, IF MayComplete(mode) THEN OkReply ELSE DuringDispatch(mode))]
              ELSE reply
  /\ mode' \in AfterUserDrop(mode)
  /\ pc' = LoopHead[expected]
  /\ UNCHANGED <<exit, mailboxVars, started, frameVars>>

\* Polling a reply panics.  The scheduler keeps it until fail_actor clears it.
ReplyPanics(m) ==
  /\ pc = "poll" /\ m \in inflight
  /\ mode' = FailureMode(mode)
  /\ pc' = "fail"
  /\ UNCHANGED <<exit, mailboxVars, workVars, frameVars>>

----------------------------------------------------------------------------
(* Shutdown: drain_actor, stop_actor, graceful_finish.                     *)

DrainTop ==
  /\ pc = "drain"
  /\ mode \in Graceful \cup {"Killing", "Failing"}
  /\ IF mode \in Graceful
     THEN LET empty == drained \/ InboxDrained
          IN  /\ drained' = empty
              /\ IF empty /\ RepliesDone
                 THEN pc' = "finish" /\ proposed' = "Drained"
                 ELSE pc' = "turn" /\ proposed' = proposed
     ELSE /\ pc' = IF mode = "Killing" THEN "kill" ELSE "fail"
          /\ UNCHANGED <<drained, proposed>>
  /\ UNCHANGED <<gateVars, mailboxVars, workVars, expected, inhand, stopHook>>

\* close_and_discard rereads the mode before it selects an entry ...
DiscardCheck ==
  /\ pc \in {"discard", "yield"}
  /\ mode \in {"Stopping", "Killing", "Failing"}
  /\ pc' = CASE mode = "Stopping" -> "discardPop"
             [] mode = "Killing"  -> "kill"
             [] mode = "Failing"  -> "fail"
  /\ UNCHANGED <<gateVars, mailboxVars, workVars, frameVars>>

\* The oldest queued entry is rejected with the reason of the mode of that
\* moment, and its message dropped.
RejectHead ==
  /\ queue # <<>>
  /\ queue' = Tail(queue)
  /\ reply' = IF Head(queue) \in Calls
              THEN [reply EXCEPT ![Head(queue)] = Told(Head(queue), BeforeDispatch(mode))]
              ELSE reply
  /\ caller' \in Regrant(caller)
  /\ mode' \in AfterUserDrop(mode)
  /\ UNCHANGED <<exit, closed, admitted, inflight, started, finished, frameVars>>

\* ... and yields after every TEARDOWN_DROP_BUDGET of them.
DiscardOne ==
  /\ pc = "discardPop"
  /\ RejectHead
  /\ pc' \in {"discard", "yield"}

DiscardDone ==
  /\ pc = "discardPop" /\ queue = <<>>
  /\ pc' = "finishReplies"
  /\ UNCHANGED <<gateVars, mailboxVars, workVars, frameVars>>

FinishRepliesTop ==
  /\ pc = "finishReplies"
  /\ IF RepliesDone
     THEN pc' = "finish" /\ proposed' = "Stopped"
     ELSE /\ mode \in Graceful \cup {"Killing", "Failing"}
          /\ pc' = CASE mode = "Killing"   -> "kill"
                     [] mode = "Failing"   -> "fail"
                     [] mode \in Graceful  -> "turn"
          /\ proposed' = proposed
  /\ UNCHANGED <<gateVars, mailboxVars, workVars, expected, inhand, drained, stopHook>>

\* graceful_finish waits for the children (here none) unless a hard mode won.
FinishCheck ==
  /\ pc = "finish"
  /\ pc' = IF mode \in Graceful THEN "stopHook" ELSE "kill"
  /\ UNCHANGED <<gateVars, mailboxVars, workVars, frameVars>>

\* Before every poll of on_stop the mode is read again.
StopHookCheck ==
  /\ pc \in {"stopHook", "stopHookWait"}
  /\ pc' = IF mode \in Graceful THEN "stopHookPoll" ELSE "kill"
  /\ UNCHANGED <<gateVars, mailboxVars, workVars, frameVars>>

StopHookPending ==
  /\ pc = "stopHookPoll"
  /\ stopHook' = "entered"
  /\ pc' = "stopHookWait"
  /\ UNCHANGED <<gateVars, mailboxVars, workVars, expected, inhand, drained, proposed>>

StopHookDone ==
  /\ pc = "stopHookPoll"
  /\ stopHook' = "returned"
  /\ pc' = "frame"
  /\ UNCHANGED <<gateVars, mailboxVars, workVars, expected, inhand, drained, proposed>>

StopHookPanics ==
  /\ pc = "stopHookPoll"
  /\ stopHook' = "entered"
  /\ mode' = FailureMode(mode)
  /\ pc' = "fail"
  /\ UNCHANGED <<exit, mailboxVars, workVars, expected, inhand, drained, proposed>>
----------------------------------------------------------------------------
(* Hard teardown (kill_actor, fail_actor and their uninitialized forms),   *)
(* the end of the frame, and publication (ActorTask, ExitGuard).           *)

\* What clearing the scheduler in a mode tells the callers of its replies.
ClearedReplies(gate) ==
  [m \in Calls |-> IF m \in inflight THEN Told(m, DuringDispatch(gate)) ELSE reply[m]]

\* kill_actor: close, drop every reply, propose Killed.
Kill ==
  /\ pc = "kill"
  /\ closed' = TRUE
  /\ reply' = ClearedReplies(mode)
  /\ inflight' = {}
  /\ proposed' = "Killed"
  /\ pc' = "teardown"
  /\ UNCHANGED <<gateVars, queue, caller, admitted, started, finished,
                 expected, inhand, drained, stopHook>>

\* fail_actor: commit the failure unless Kill won, then the same teardown.
Fail ==
  /\ pc = "fail"
  /\ mode' = FailureMode(mode)
  /\ closed' = TRUE
  /\ reply' = ClearedReplies(mode')
  /\ inflight' = {}
  /\ proposed' = IF mode' = "Killing" THEN "Killed" ELSE "Panicked"
  /\ pc' = "teardown"
  /\ UNCHANGED <<exit, queue, caller, admitted, started, finished,
                 expected, inhand, drained, stopHook>>

TeardownOne ==
  /\ pc \in {"teardown", "teardownYield"}
  /\ RejectHead
  /\ pc' \in {"teardown", "teardownYield"}

TeardownDone ==
  /\ pc \in {"teardown", "teardownYield"} /\ queue = <<>>
  /\ pc' = "frame"
  /\ UNCHANGED <<gateVars, mailboxVars, workVars, frameVars>>

\* The executor drops the suspended task: ActorTask::drop marks the abort.
Abort ==
  /\ pc \in Suspended
  /\ mode' = AbortMode(mode)
  /\ proposed' = "Aborted"
  /\ pc' = "frame"
  /\ UNCHANGED <<exit, mailboxVars, workVars, expected, inhand, drained, stopHook>>

\* What dropping the frame tells callers: the scheduler drops the replies in
\* it, the inbox rejects what is left there.
FrameNoInbox(gate) ==    \* a mutant: the inbox has no Drop
  [m \in Calls |-> IF m \in inflight THEN Told(m, DuringDispatch(gate)) ELSE reply[m]]
FrameReplies(gate) ==
  [m \in Calls |-> IF m \in inflight THEN Told(m, DuringDispatch(gate))
                   ELSE IF m \in Entries(queue) THEN Told(m, BeforeDispatch(gate))
                   ELSE reply[m]]

\* The frame is dropped before the exit is published: the scheduler first,
\* then the actor, then the inbox.  ActorTask::drop contains a panic in it.
\* A frame that returned dropped its values within its last poll, where
\* nothing contains a panic of the actor's own Drop: the poll unwinds, the
\* executor drops the task, and that aborts the actor.
DropFrame ==
  /\ pc = "frame"
  /\ \/ UNCHANGED <<mode, proposed>>
     \/ mode' = AbortMode(mode) /\ proposed' = "Aborted"
  /\ reply' = FrameReplies(mode)
  /\ inflight' = {} /\ queue' = <<>> /\ closed' = TRUE
  /\ pc' = "publish"
  /\ UNCHANGED <<exit, caller, admitted, started, finished, expected, inhand, drained, stopHook>>

\* ExitGuard::publish commits the terminal mode and its reason.
Publish ==
  /\ pc = "publish"
  /\ mode' = "Exited"
  /\ exit' = FinishReason(mode, proposed)
  /\ pc' = "exited"
  /\ UNCHANGED <<mailboxVars, workVars, frameVars>>

----------------------------------------------------------------------------
Callers ==
  \E m \in Msgs : \/ TryReserve(m) \/ TryFull(m) \/ TryClosed(m) \/ ReportFull(m)
                  \/ BeginWait(m) \/ WaitClosed(m) \/ Admit(m) \/ AdmitRefused(m)
                  \/ CancelWait(m) \/ Abandon(m)

\* What user code does in a step of the task: it returns, waits or panics.
UserCode ==
  \/ InitPending \/ InitDone \/ InitPanics \/ OnDrain \/ OnStop \/ OnShutdownPanics
  \/ DispatchPanics \/ \E m \in Msgs : ReplyReturns(m) \/ ReplyPanics(m)
  \/ StopHookPending \/ StopHookDone \/ StopHookPanics

\* What the runtime does.
Runtime ==
  \/ EnterInit \/ CheckInit \/ LoopTop \/ TurnCheck \/ Receive \/ InboxClosed \/ Park
  \/ DispatchAbandoned \/ DispatchRefused \/ Dispatch \/ DrainTop
  \/ DiscardCheck \/ DiscardOne \/ DiscardDone \/ FinishRepliesTop \/ FinishCheck
  \/ StopHookCheck \/ Kill \/ Fail \/ TeardownOne \/ TeardownDone \/ DropFrame \/ Publish

Task == Runtime \/ UserCode

Next ==
  \/ Callers
  \/ \E shutdown \in Shutdowns : RequestShutdown(shutdown)
  \/ Spawn \/ DropSpawner \/ DropUnstartedInbox
  \/ Task
  \/ Abort

Safe == Init /\ [][Next]_vars

\* The executor keeps polling the task it was given, and a single poll of user
\* code returns.  Before a hard mode commits, user futures that are polled
\* again and again finish, and a lane with ready work is reached again and
\* again (Scheduler shows the rotation); a hard mode may count on neither.
Healthy == mode \in Graceful

RuntimeFairness ==
  /\ WF_vars(Task) /\ WF_vars(DropUnstartedInbox)
  /\ SF_vars(Healthy /\ InitDone) /\ SF_vars(Healthy /\ StopHookDone)
  /\ SF_vars(Healthy /\ Receive)
  /\ \A m \in Msgs : SF_vars(Healthy /\ ReplyReturns(m))

\* Callers poll the futures they keep.
CallerFairness ==
  \A m \in Msgs : WF_vars(ReportFull(m) \/ WaitClosed(m) \/ Admit(m) \/ AdmitRefused(m))

Spec == Safe /\ RuntimeFairness /\ CallerFairness

\* The same system with callers that may stop polling a future they keep: only
\* the call that holds a slot and admits with it, which never waits, goes on.
UnattendedSpec ==
  /\ Safe /\ RuntimeFairness
  /\ \A m \in Msgs : WF_vars(caller[m] = "permit" /\ (Admit(m) \/ AdmitRefused(m)))

----------------------------------------------------------------------------
(* Correctness.                                                            *)

\* Every variable stays in its domain.
TypeOK ==
  /\ mode \in Modes /\ exit \in Reasons \cup {NoReason}
  /\ closed \in BOOLEAN
  /\ queue \in Seq(Msgs) /\ admitted \in Seq(Msgs) /\ started \in Seq(Msgs)
  /\ caller \in [Msgs -> CallerStates]
  /\ reply \in [Calls -> Answers]
  /\ inflight \subseteq Msgs /\ finished \subseteq Msgs /\ inhand \subseteq Msgs
  /\ pc \in Steps /\ expected \in Graceful
  /\ drained \in BOOLEAN /\ proposed \in Reasons \cup {NoReason}
  /\ stopHook \in {"no", "entered", "returned"}

\* Reservations, grants to waiters and accepted entries together never exceed
\* the mailbox capacity, and dispatch never exceeds max_in_flight
\* (transport.rs, ReplyState::has_dispatch_capacity).
CapacityKept ==
  /\ Len(queue) + Cardinality(Reserved) <= Capacity
  /\ Cardinality(inflight) <= MaxInFlight

\* The transport closes only after the gate has left Running, which is what
\* lets admit enqueue without ever meeting a closed transport, and what makes
\* fail_transport_closed unreachable (control.rs, "The actor task leaves
\* Running before inbox destruction").
ClosedAfterCutoff == closed => mode # "Running"

\* The phase a caller is told is the phase its message really reached:
\* Closed and BeforeDispatch only when no handler ever started,
\* DuringDispatch only when one started and did not complete, Ok only when
\* completion committed (error.rs, CallError).
TruthfulPhase ==
  /\ \A m \in Msgs : caller[m] \in {"refused", "withdrawn"} =>
       m \notin Entries(admitted) /\ m \notin Entries(started)
  /\ \A m \in Calls :
       /\ reply[m].phase = "before" => m \notin Entries(started)
       /\ reply[m].phase = "during" => m \in Entries(started) \ finished
       /\ reply[m].phase = "ok"     => m \in finished

\* The reason a failed call carries is the one the actor is ending for, or the
\* Stop it was going through; a later abort is the only other ending.  A call
\* somebody waits for is never told Panicked by a healthy actor, although
\* call_failure_for falls through to it.
Ending == IF mode = "Exited" THEN exit ELSE IF mode \in Hard THEN HardReason[mode] ELSE NoReason

TruthfulReason ==
  \A m \in Calls : reply[m].phase \in {"before", "during"} =>
    \/ reply[m].reason = Ending
    \/ Ending = "Aborted"
    \/ /\ reply[m] = [phase |-> "before", reason |-> "Stopped"]
       /\ mode \notin {"Running", "Draining"} /\ Ending # "Drained"

\* Handlers start in the order in which their messages were admitted, over
\* every interleaving of callers, shutdown and abandoned calls.
StartedInAdmissionOrder ==
  \A i, j \in DOMAIN started : i < j =>
    \E k, l \in DOMAIN admitted :
      k < l /\ admitted[k] = started[i] /\ admitted[l] = started[j]

\* An actor that exits Drained completed every message it accepted, but for
\* calls abandoned in the queue; one that exits Stopped completed every
\* handler it started, and told the other waiting callers so.
GracefulExitKeepsWork ==
  /\ exit = "Drained" =>
       \A m \in Entries(admitted) :
         m \in finished \/ (caller[m] = "abandoned" /\ m \notin Entries(started))
  /\ exit = "Stopped" =>
       \A m \in Entries(admitted) :
         \/ m \in finished
         \/ /\ m \notin Entries(started)
            /\ m \in Calls /\ caller[m] = "admitted" =>
                 reply[m] = [phase |-> "before", reason |-> "Stopped"]

\* When the exit is visible nothing is queued or in flight, and every call
\* still waited for has been answered: no response is lost (ResponseLost is
\* never reported), whichever way the actor ended.
ExitLeavesNothing ==
  pc \in {"exited", "gone"} =>
    /\ queue = <<>> /\ inflight = {} /\ inhand = {}
    /\ \A m \in Calls : caller[m] = "admitted" => reply[m] # NoReply

\* on_stop is entered only after retained work has finished: the inbox closed
\* and empty, no reply left, every started handler complete or dead with the
\* actor (actor.rs, on_stop).
StopHookAfterWork ==
  stopHook # "no" =>
    /\ closed /\ queue = <<>> /\ inflight = {} /\ inhand = {}
    /\ Entries(started) \subseteq finished

\* Every shutdown of a started actor ends in a published exit: a graceful one
\* if user futures finish, a hard one whether they do or not (Shutdown::Kill,
\* ActorRef::closed).
Started == pc \notin {"unstarted", "spawnerDrop", "gone"}
ShutdownExits == (mode # "Running" /\ Started) ~> (mode = "Exited")

\* drain_actor says of reservations that never reached admission that they
\* "are not accepted work and must not extend graceful shutdown": a Drain of
\* a started actor ends although a caller sits on its slot.
DrainNeedsNoCaller == (mode = "Draining" /\ Started) ~> (mode # "Draining")

\* A caller asleep for capacity is never left asleep by a shutdown
\* (reserve_owned_capacity selects the gate beside the transport).
WaitersReleased ==
  \A m \in Msgs : (caller[m] = "waiting" /\ mode # "Running") ~> (caller[m] # "waiting")

\* Every accepted call is eventually answered, unless its caller leaves or
\* the actor is never started.
CallsAnswered ==
  \A m \in Calls : (caller[m] = "admitted") ~>
    (reply[m] # NoReply \/ caller[m] = "abandoned" \/ pc = "unstarted")

\* What actor.rs says of on_stop: "This hook never runs after Kill, panic, or
\* executor cancellation."  It is not entered once a hard mode has committed.
StopHookNotAfterKill ==
  [][stopHook = "no" /\ stopHook' # "no" => mode \in Graceful]_vars
=============================================================================

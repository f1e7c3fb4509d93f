------------------------------ MODULE Streams ------------------------------
(***************************************************************************)
(* Streamed replies (reply.rs, writer.rs, the stream envelopes of          *)
(* mailbox.rs and address.rs).  A handler writes items into a bounded      *)
(* channel and returns a final value.  With `call' the runtime makes the   *)
(* channel: the caller is answered when the handler is dispatched, and its *)
(* StreamReply then reads the items and the final value, which no gate     *)
(* guards.  With `call_to' and `send_to' the caller brings the writer, and *)
(* the final value is an ordinary reply, or nobody's.                      *)
(*                                                                         *)
(* The actor task runs one step at a time; callers and readers run beside  *)
(* it, and see every intermediate state of the channels.  How a message    *)
(* gets its slot in the mailbox, and its turn, is in Actor and Scheduler.  *)
(***************************************************************************)
EXTENDS Lifecycle, Naturals, FiniteSets

CONSTANTS Messages, Nothing,
          Kinds,      \* which call each message may be
          Capacity,   \* of an item channel (8 where the runtime makes it)
          MaxItems    \* that a handler gets written: a bound

ASSUME StreamsAssumption ==
  /\ IsFiniteSet(Messages) /\ Nothing \notin Messages
  /\ Kinds \subseteq [Messages -> {"call", "call_to", "send_to"}]
  /\ Capacity \in Nat \ {0} /\ MaxItems \in Nat

VARIABLES
  kind,                  \* of each message; it does not change
  mode,                  \* the gate
  phase, polling,        \* the envelope or future of a message; what the task is at
  open, items, final,    \* the writer exists; the item channel; the final oneshot
  caller, answer,        \* who awaits the reply, and what it was told
  reader, result,        \* who reads the items, and what finish returned
  written, got           \* items: accepted by the channel, and read

actorVars   == <<mode, phase, polling>>
channelVars == <<open, items, final>>
callerVars  == <<caller, answer>>
readerVars  == <<reader, result>>
countVars   == <<written, got>>
vars == <<kind, actorVars, channelVars, callerVars, readerVars, countVars>>

Phases == {"idle", "queued", "dispatching", "handling", "writing", "returned",
           "cancelled", "gone"}

Own(m)       == kind[m] = "call"    \* the runtime made the channel
Idle         == polling = Nothing
StillExpected(m) == reader[m] # "done"    \* a mutant
Listening(m) == reader[m] \notin {"left", "done"}
Move(m, to)  == phase' = [phase EXCEPT ![m] = to]
LeftOpen(m)  == UNCHANGED open    \* a mutant
Close(m)     == open' = [open EXCEPT ![m] = FALSE]
Writing(m)   == phase[m] = "writing" \/ (phase[m] = "handling" /\ written[m] < MaxItems)
Resolve(m, f) == final' = [final EXCEPT ![m] = f]

\* notify_response: whoever still waits is told.
Tell(m, a) ==
  /\ answer' = [answer EXCEPT ![m] = IF caller[m] = "asked" THEN a ELSE @]
  /\ caller' = [caller EXCEPT ![m] = IF @ = "asked" THEN "answered" ELSE @]

Init ==
  /\ kind \in Kinds
  /\ mode = "Running" /\ polling = Nothing
  /\ phase = [m \in Messages |-> "idle"]
  /\ open = [m \in Messages |-> ~Own(m)]
  /\ items = [m \in Messages |-> 0]
  /\ final = [m \in Messages |-> "none"]
  /\ caller = [m \in Messages |-> "idle"]
  /\ answer = [m \in Messages |-> "none"]
  /\ reader = [m \in Messages |-> IF Own(m) THEN "none" ELSE "reading"]
  /\ result = [m \in Messages |-> "none"]
  /\ written = [m \in Messages |-> 0]
  /\ got = [m \in Messages |-> 0]

\* StillExpected, LeftOpen and the mutants below are what a plausible bug would make
\* of the definition that follows; nothing uses them.

----------------------------------------------------------------------------
(* Callers.                                                                *)

\* Admission; send_to does not wait for more.
Ask(m) ==
  /\ caller[m] = "idle" /\ MayAdmit(mode)
  /\ Move(m, "queued")
  /\ caller' = [caller EXCEPT ![m] = IF kind[m] = "send_to" THEN "left" ELSE "asked"]
  /\ UNCHANGED <<kind, mode, polling, channelVars, answer, readerVars, countVars>>

\* The gate has closed.  call_to drops the writer with the message; send_to
\* hands both back.
HandedBack(m) == kind[m] = "send_to"
Refused(m) ==
  /\ caller[m] = "idle" /\ ~MayAdmit(mode)
  /\ caller' = [caller EXCEPT ![m] = "answered"]
  /\ answer' = [answer EXCEPT ![m] = "Closed"]
  /\ open' = [open EXCEPT ![m] = HandedBack(m)]
  /\ UNCHANGED <<kind, actorVars, items, final, readerVars, countVars>>

\* The Response, or the future of call_to, is dropped.
LeaveCall(m) ==
  /\ caller[m] = "asked"
  /\ caller' = [caller EXCEPT ![m] = "left"]
  /\ UNCHANGED <<kind, actorVars, channelVars, answer, readerVars, countVars>>

RequestShutdown(shutdown) ==
  /\ mode' = RequestedMode(mode, shutdown)
  /\ UNCHANGED <<kind, phase, polling, channelVars, callerVars, readerVars, countVars>>

----------------------------------------------------------------------------
(* The actor's task.                                                       *)

Abandoned(m) == kind[m] # "send_to" /\ caller[m] = "left"

\* An envelope that is not dispatched: its caller has left, or the mode has no
\* use for it (dispatch, or the discarding of the inbox).
Reject(m) ==
  /\ Idle /\ phase[m] = "queued"
  /\ Abandoned(m) \/ ~MayDispatch(mode)
  /\ Tell(m, "BeforeDispatch") /\ Close(m) /\ Move(m, "gone")
  /\ UNCHANGED <<kind, mode, polling, items, final, readerVars, countVars>>

\* begin_dispatch grants the permit.
Dispatch(m) ==
  /\ Idle /\ phase[m] = "queued"
  /\ ~Abandoned(m) /\ MayDispatch(mode)
  /\ Move(m, "dispatching") /\ polling' = m
  /\ UNCHANGED <<kind, mode, channelVars, callerVars, readerVars, countVars>>

\* What the caller gets before its handler has run.  Only a call is answered
\* then, with the StreamReply, and through the gate; when the gate refuses, or
\* nobody waits, the StreamReply is dropped and the handler runs all the same.
EveryKindEarly(m) ==    \* a mutant
  IF MayComplete(mode) THEN Tell(m, "Stream") ELSE Tell(m, "DuringDispatch")
AnswerEarly(m) ==
  IF ~Own(m) THEN UNCHANGED callerVars
  ELSE IF MayComplete(mode) THEN Tell(m, "Stream") ELSE Tell(m, "DuringDispatch")

Opened(m) ==
  /\ AnswerEarly(m)
  /\ reader' = [reader EXCEPT ![m] =
       IF ~Own(m) THEN @ ELSE IF MayComplete(mode) /\ caller[m] = "asked" THEN "reading" ELSE "left"]

Schedule(m) ==
  /\ polling = m /\ phase[m] = "dispatching"
  /\ Opened(m)
  /\ open' = [open EXCEPT ![m] = TRUE]
  /\ Resolve(m, IF Own(m) THEN "pending" ELSE "none")
  /\ Move(m, "handling") /\ polling' = Nothing
  /\ UNCHANGED <<kind, mode, items, result, countVars>>

\* StreamHandler::handle itself panics: the writer, the final sender or the
\* reply, and the future that never was, unwind.
HandlePanics(m) ==
  /\ polling = m /\ phase[m] = "dispatching"
  /\ IF Own(m) THEN Opened(m) /\ Resolve(m, "lost")
     ELSE Tell(m, "DuringDispatch") /\ UNCHANGED <<reader, final>>
  /\ Close(m) /\ Move(m, "gone") /\ polling' = Nothing
  /\ mode' = FailureMode(mode)
  /\ UNCHANGED <<kind, items, result, countVars>>

\* The mode is read before the poll; a Kill during it is not seen.
Poll(m) ==
  /\ Idle /\ phase[m] \in {"handling", "writing"} /\ mode \in Graceful
  /\ polling' = m
  /\ UNCHANGED <<kind, mode, phase, channelVars, callerVars, readerVars, countVars>>

\* The handler awaits something else.
Pend(m) ==
  /\ polling = m /\ phase[m] = "handling"
  /\ polling' = Nothing
  /\ UNCHANGED <<kind, mode, phase, channelVars, callerVars, readerVars, countVars>>

\* Writer::write, from the handler or where it was blocked: accepted, pending
\* while the channel is full, or handed back because nobody listens.
RoomForOneMore(m) == items[m] <= Capacity    \* a mutant
HasRoom(m) == items[m] < Capacity

WriteAccepted(m) ==
  /\ polling = m /\ Writing(m) /\ Listening(m) /\ HasRoom(m)
  /\ items' = [items EXCEPT ![m] = @ + 1]
  /\ written' = [written EXCEPT ![m] = @ + 1]
  /\ Move(m, "handling")
  /\ UNCHANGED <<kind, mode, polling, open, final, callerVars, readerVars, got>>

WriteBlocks(m) ==
  /\ polling = m /\ Writing(m) /\ Listening(m) /\ ~HasRoom(m)
  /\ Move(m, "writing") /\ polling' = Nothing
  /\ UNCHANGED <<kind, mode, channelVars, callerVars, readerVars, countVars>>

WriteFails(m) ==
  /\ polling = m /\ phase[m] = "writing" /\ ~Listening(m)
  /\ Move(m, "handling")
  /\ UNCHANGED <<kind, mode, polling, channelVars, callerVars, readerVars, countVars>>

\* The handler returns; its locals, the writer among them, are dropped ...
Return(m) ==
  /\ polling = m /\ phase[m] = "handling"
  /\ Close(m) /\ Move(m, "returned")
  /\ UNCHANGED <<kind, mode, polling, items, final, callerVars, readerVars, countVars>>

\* ... and FinishStream sends the final value, or CompleteReply asks the gate.
Complete(m) ==
  /\ polling = m /\ phase[m] = "returned"
  /\ IF Own(m) THEN Resolve(m, "sent") /\ UNCHANGED callerVars
     ELSE /\ Tell(m, IF MayComplete(mode) THEN "Ok" ELSE "DuringDispatch")
          /\ UNCHANGED final
  /\ Move(m, "gone") /\ polling' = Nothing
  /\ UNCHANGED <<kind, mode, open, items, readerVars, countVars>>

Panic(m) ==
  /\ polling = m /\ phase[m] = "handling"
  /\ mode' = FailureMode(mode) /\ polling' = Nothing
  /\ UNCHANGED <<kind, phase, channelVars, callerVars, readerVars, countVars>>

\* Queue::clear drops a future field by field.  FinishStream holds the user's
\* future and then the final sender; CompleteReply the reply and then the
\* future.
Cancel(m) ==
  /\ Idle /\ mode \in Hard /\ phase[m] \in {"handling", "writing"}
  /\ IF Own(m) THEN Close(m) /\ UNCHANGED callerVars
     ELSE Tell(m, "DuringDispatch") /\ UNCHANGED open
  /\ Move(m, "cancelled") /\ polling' = m
  /\ UNCHANGED <<kind, mode, items, final, readerVars, countVars>>

SenderForgotten(m) == UNCHANGED <<open, final>>    \* a mutant
DropSender(m) ==
  IF Own(m) THEN Resolve(m, "lost") /\ UNCHANGED open ELSE Close(m) /\ UNCHANGED final

Cancelled(m) ==
  /\ polling = m /\ phase[m] = "cancelled"
  /\ DropSender(m)
  /\ Move(m, "gone") /\ polling' = Nothing
  /\ UNCHANGED <<kind, mode, items, callerVars, readerVars, countVars>>

\* The executor drops the suspended task, which drops the futures as above.
Abort ==
  /\ Idle /\ mode \notin {"Aborting", "Exited"}
  /\ mode' = AbortMode(mode)
  /\ UNCHANGED <<kind, phase, polling, channelVars, callerVars, readerVars, countVars>>

\* Nothing is left that the mode keeps (children and hooks: Supervision).
Over == \A m \in Messages : phase[m] \in {"idle", "gone"}
Exit ==
  /\ Idle /\ Over /\ mode \notin {"Running", "Exited"}
  /\ mode' = "Exited"
  /\ UNCHANGED <<kind, phase, polling, channelVars, callerVars, readerVars, countVars>>

----------------------------------------------------------------------------
(* Readers of the items: StreamReply, or whoever has the other end of the  *)
(* writer that came with the message.                                      *)

EndOfWriter(m) == ~open[m]    \* a mutant
EndOfItems(m)  == ~open[m] /\ items[m] = 0

Recv(m) ==
  /\ reader[m] = "reading" /\ items[m] > 0
  /\ items' = [items EXCEPT ![m] = @ - 1]
  /\ got' = [got EXCEPT ![m] = @ + 1]
  /\ UNCHANGED <<kind, actorVars, open, final, callerVars, readerVars, written>>

\* recv returns None.
RecvEnds(m) ==
  /\ reader[m] = "reading" /\ EndOfItems(m)
  /\ reader' = [reader EXCEPT ![m] = "ended"]
  /\ UNCHANGED <<kind, actorVars, channelVars, callerVars, result, countVars>>

\* StreamReply::finish, from before or after the end of the items.
Finish(m) ==
  /\ Own(m) /\ reader[m] \in {"reading", "ended"}
  /\ reader' = [reader EXCEPT ![m] = "finishing"]
  /\ UNCHANGED <<kind, actorVars, channelVars, callerVars, result, countVars>>

\* finish throws items away, so that the handler can go on.
DiscardsNothing(m) == FALSE    \* a mutant
MayDiscard(m) == items[m] > 0

FinishDiscards(m) ==
  /\ reader[m] = "finishing" /\ MayDiscard(m)
  /\ items' = [items EXCEPT ![m] = @ - 1]
  /\ UNCHANGED <<kind, actorVars, open, final, callerVars, readerVars, countVars>>

FinishSeesEnd(m) ==
  /\ reader[m] = "finishing" /\ EndOfItems(m)
  /\ reader' = [reader EXCEPT ![m] = "awaiting"]
  /\ UNCHANGED <<kind, actorVars, channelVars, callerVars, result, countVars>>

KnownAtEnd(m) == final[m] # "pending" \/ reader[m] = "awaiting"    \* a mutant
FinalKnown(m) == final[m] # "pending"

FinishReturns(m) ==
  /\ reader[m] \in {"finishing", "awaiting"} /\ FinalKnown(m)
  /\ result' = [result EXCEPT ![m] = IF final[m] = "sent" THEN "Final" ELSE "ResponseLost"]
  /\ reader' = [reader EXCEPT ![m] = "done"]
  /\ items' = [items EXCEPT ![m] = 0]
  /\ UNCHANGED <<kind, actorVars, open, final, callerVars, countVars>>

LeaveReader(m) ==
  /\ reader[m] \in {"reading", "ended", "finishing", "awaiting"}
  /\ reader' = [reader EXCEPT ![m] = "left"]
  /\ items' = [items EXCEPT ![m] = 0]
  /\ UNCHANGED <<kind, actorVars, open, final, callerVars, result, countVars>>

----------------------------------------------------------------------------
\* A turn of the task that starts with m, and the rest of that turn.
Turn(m) == Reject(m) \/ Dispatch(m) \/ Poll(m) \/ Cancel(m)
Rest(m) ==
  \/ Schedule(m) \/ HandlePanics(m) \/ Pend(m) \/ WriteAccepted(m) \/ WriteBlocks(m)
  \/ WriteFails(m) \/ Return(m) \/ Complete(m) \/ Panic(m) \/ Cancelled(m)
Finishing(m) == FinishDiscards(m) \/ FinishSeesEnd(m) \/ FinishReturns(m)
Callers(m) == Ask(m) \/ Refused(m) \/ LeaveCall(m)
Readers(m) == Recv(m) \/ RecvEnds(m) \/ Finish(m) \/ LeaveReader(m) \/ Finishing(m)

Next ==
  \/ \E m \in Messages : Turn(m) \/ Rest(m) \/ Callers(m) \/ Readers(m)
  \/ \E shutdown \in Shutdowns : RequestShutdown(shutdown)
  \/ Abort \/ Exit

\* The executor polls the task, which comes to every message again and again
\* (Scheduler); a handler that is polled again and again outside a write ends;
\* a future of finish is polled.  Nobody else needs to do anything.
Fairness ==
  /\ WF_vars(Exit)
  /\ \A m \in Messages :
       /\ SF_vars(Turn(m)) /\ WF_vars(Rest(m))
       /\ SF_vars(mode \in Graceful /\ Return(m))
       /\ WF_vars(Finishing(m))

Spec == Init /\ [][Next]_vars /\ Fairness

----------------------------------------------------------------------------
(* Correctness.                                                            *)

\* Every variable stays in its domain; the channel holds no more than fits.
TypeOK ==
  /\ kind \in Kinds /\ mode \in Modes
  /\ phase \in [Messages -> Phases] /\ polling \in Messages \cup {Nothing}
  /\ open \in [Messages -> BOOLEAN] /\ items \in [Messages -> 0..Capacity]
  /\ final \in [Messages -> {"none", "pending", "sent", "lost"}]
  /\ caller \in [Messages -> {"idle", "asked", "answered", "left"}]
  /\ answer \in [Messages -> {"none", "Closed", "BeforeDispatch", "DuringDispatch", "Stream", "Ok"}]
  /\ reader \in [Messages -> {"none", "reading", "ended", "finishing", "awaiting", "done", "left"}]
  /\ result \in [Messages -> {"none", "Final", "ResponseLost"}]
  /\ written \in [Messages -> 0..MaxItems] /\ got \in [Messages -> 0..MaxItems]

\* However a stream ends (return, panic, Kill, abort), a reader that reads to
\* the end has every item the handler was told it had written.
NothingLost == \A m \in Messages : reader[m] = "ended" => got[m] = written[m] /\ ~open[m]

\* finish reports the value of a handler that returned, and ResponseLost only
\* for one that never will, also when it saw the end of the items before the
\* value was sent (reply.rs: finish; CallError::ResponseLost).
FinalTruthful ==
  \A m \in Messages :
    /\ result[m] = "Final" => final[m] = "sent"
    /\ result[m] = "ResponseLost" => final[m] = "lost" /\ phase[m] = "gone"

\* An exit leaves nobody hanging, whatever its kind and whenever it came: no
\* caller waits for an answer, no final value is outstanding, and no reader for
\* a writer that was admitted (drop order of FinishStream and CompleteReply;
\* Control::finish comes last).
ExitClosesStreams ==
  mode = "Exited" => \A m \in Messages :
    /\ caller[m] # "asked" /\ final[m] # "pending"
    /\ open[m] => phase[m] = "idle"

\* With call_to the reply ends the stream: once a caller has its answer,
\* whichever it is, no further item reaches the writer it brought; and nothing
\* follows a final value or its loss (address.rs: call_to).
SilentAfterReply ==
  [][\A m \in Messages : written'[m] # written[m] =>
       IF Own(m) THEN final[m] = "pending" ELSE answer[m] = "none"]_vars

\* finish does not depend on the caller's reading: a handler that waits for
\* room is released by the items finish throws away.
FinishComes == \A m \in Messages : reader[m] = "finishing" ~> reader[m] \in {"done", "left"}

\* After Kill, a panic or an abort no reader is left waiting: every stream that
\* was admitted is closed and its final value resolved.
ReadersReleased ==
  mode \in Hard ~> \A m \in Messages : phase[m] # "idle" => ~open[m] /\ final[m] # "pending"

\* Stop and Drain end, unless a reader never reads, leaves or finishes, and its
\* handler waits for room for ever.
Stalled == \E m \in Messages : reader[m] = "reading" /\ phase[m] = "writing"
GracefulEnds == [](mode \in {"Stopping", "Draining"} => <>(mode = "Exited" \/ []Stalled))
=============================================================================

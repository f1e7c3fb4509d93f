--------------------------- MODULE StreamsProofs ----------------------------
(***************************************************************************)
(* Proofs about Streams, for every set of messages of every kind, every    *)
(* channel capacity and every number of items: a reader that reads to the  *)
(* end has everything, the final value is reported truthfully, and nothing *)
(* is written after the reply.                                             *)
(***************************************************************************)
EXTENDS Streams, TLAPS

(***************************************************************************)
(* What holds of one message at a time.                                    *)
(***************************************************************************)

Fresh  == {"idle", "queued", "dispatching"}
AtWork == {"handling", "writing"}

\* While the handler may write, the writer is open; the writer that a message
\* brought is open before that too.
OpenInv(m) ==
  /\ caller[m] = "idle" => phase[m] = "idle" /\ open[m] = ~Own(m) /\ answer[m] = "none"
  /\ phase[m] \in AtWork => open[m]
  /\ ~Own(m) /\ phase[m] \in {"queued", "dispatching"} => open[m]

\* What was accepted is in the channel or was read, as long as its reader
\* reads, and a channel that has ended stays empty.
CountInv(m) ==
  /\ reader[m] \in {"reading", "ended"} => got[m] + items[m] = written[m]
  /\ reader[m] = "ended" => ~open[m] /\ items[m] = 0
  /\ reader[m] = "none" => Own(m) /\ got[m] = 0 /\ items[m] = 0 /\ written[m] = 0
  /\ Own(m) => /\ phase[m] \in Fresh => reader[m] = "none"
               /\ phase[m] \in AtWork => reader[m] # "none"
  /\ phase[m] = "writing" => written[m] < MaxItems

\* The final value is pending exactly while the future lives.
FinalInv(m) ==
  /\ final[m] \in {"sent", "lost"} => phase[m] = "gone"
  /\ Own(m) => /\ reader[m] # "none" => final[m] # "none"
               /\ phase[m] \in AtWork => final[m] = "pending"
  /\ reader[m] \in {"finishing", "awaiting"} => Own(m)
  /\ result[m] = "Final" => final[m] = "sent"
  /\ result[m] = "ResponseLost" => final[m] = "lost"

\* The caller that brought a writer has no answer while it may be written to.
AnswerInv(m) ==
  ~Own(m) /\ phase[m] \notin {"idle", "cancelled", "gone"} => answer[m] = "none"

StreamInv(m) == OpenInv(m) /\ CountInv(m) /\ FinalInv(m) /\ AnswerInv(m)
IInv == TypeOK /\ \A m \in Messages : StreamInv(m)

\* A step that leaves a message alone.
Untouched(m) ==
  /\ phase'[m] = phase[m] /\ open'[m] = open[m] /\ items'[m] = items[m] /\ final'[m] = final[m]
  /\ caller'[m] = caller[m] /\ answer'[m] = answer[m]
  /\ reader'[m] = reader[m] /\ result'[m] = result[m]
  /\ written'[m] = written[m] /\ got'[m] = got[m]

\* It keeps what holds of that message.
LEMMA StreamKept ==
  ASSUME NEW m \in Messages, StreamInv(m), Untouched(m), kind' = kind
  PROVE  StreamInv(m)'
  BY DEF StreamInv, OpenInv, CountInv, FinalInv, AnswerInv, Untouched, Own

\* Every step of a message leaves the others alone.
LEMMA Alone ==
  ASSUME TypeOK, NEW m \in Messages, Turn(m) \/ Rest(m) \/ Callers(m) \/ Readers(m)
  PROVE  kind' = kind /\ \A n \in Messages \ {m} : Untouched(n)
<1> USE DEF TypeOK, Untouched, Move, Close, Resolve, Tell
<1>1. CASE Callers(m)
  BY <1>1 DEF Callers, Ask, Refused, LeaveCall, actorVars, channelVars, readerVars, countVars
<1>2. CASE Readers(m)
  BY <1>2 DEF Readers, Finishing, Recv, RecvEnds, Finish, LeaveReader, FinishDiscards, FinishSeesEnd,
     FinishReturns, actorVars, channelVars, callerVars, readerVars, countVars
<1>3. CASE Turn(m)
  BY <1>3 DEF Turn, Reject, Dispatch, Poll, Cancel, channelVars, callerVars, readerVars, countVars
<1>4. CASE Schedule(m) \/ HandlePanics(m)
  BY <1>4 DEF Schedule, HandlePanics, Opened, AnswerEarly, callerVars, countVars
<1>5. CASE \/ Pend(m) \/ WriteAccepted(m) \/ WriteBlocks(m) \/ WriteFails(m) \/ Return(m)
           \/ Complete(m) \/ Panic(m) \/ Cancelled(m)
  BY <1>5 DEF Pend, WriteAccepted, WriteBlocks, WriteFails, Return, Complete, Panic, Cancelled,
     DropSender, channelVars, callerVars, readerVars, countVars
<1> QED
  BY <1>1, <1>2, <1>3, <1>4, <1>5 DEF Rest

\* Steps of callers: admission, refusal and departure.
LEMMA CallerSteps ==
  ASSUME TypeOK, NEW m \in Messages, StreamInv(m), Callers(m)
  PROVE  TypeOK' /\ StreamInv(m)'
<1> USE DEF TypeOK, Phases, StreamInv
<1>1. CASE Ask(m)
  BY <1>1 DEF Ask, Move, OpenInv, CountInv, FinalInv, AnswerInv, Own, Fresh, AtWork,
     channelVars, readerVars, countVars
<1>2. CASE Refused(m)
  BY <1>2 DEF Refused, HandedBack, OpenInv, CountInv, FinalInv, AnswerInv, Own, Fresh, AtWork,
     actorVars, readerVars, countVars
<1>3. CASE LeaveCall(m)
  BY <1>3 DEF LeaveCall, OpenInv, CountInv, FinalInv, AnswerInv, Own, actorVars, channelVars,
     readerVars, countVars
<1> QED
  BY <1>1, <1>2, <1>3 DEF Callers

\* Steps of readers.
LEMMA ReaderSteps ==
  ASSUME TypeOK, NEW m \in Messages, StreamInv(m), Readers(m)
  PROVE  TypeOK' /\ StreamInv(m)'
<1> USE DEF TypeOK, StreamInv
<1>0. Capacity \in Nat \ {0} /\ MaxItems \in Nat
  BY StreamsAssumption
<1>1. CASE Recv(m)
  <2>1. got[m] + items[m] = written[m] /\ items[m] > 0
    BY <1>1 DEF Recv, CountInv
  <2>2. got[m] + 1 \in 0..MaxItems /\ items[m] - 1 \in 0..Capacity
    BY <1>0, <2>1
  <2> QED
    BY <1>1, <2>1, <2>2 DEF Recv, OpenInv, CountInv, FinalInv, AnswerInv, Own, actorVars, callerVars,
       readerVars
<1>2. CASE RecvEnds(m) \/ Finish(m)
  BY <1>2 DEF RecvEnds, Finish, EndOfItems, OpenInv, CountInv, FinalInv, AnswerInv, Own, Fresh,
     actorVars, channelVars, callerVars, countVars
<1>3. CASE FinishDiscards(m)
  <2>1. items[m] - 1 \in 0..Capacity
    BY <1>0, <1>3 DEF FinishDiscards, MayDiscard
  <2> QED
    BY <1>3, <2>1 DEF FinishDiscards, OpenInv, CountInv, FinalInv, AnswerInv, Own, actorVars,
       callerVars, readerVars, countVars
<1>4. CASE FinishSeesEnd(m)
  BY <1>4 DEF FinishSeesEnd, OpenInv, CountInv, FinalInv, AnswerInv, Own, Fresh, actorVars,
     channelVars, callerVars, countVars
<1>5. CASE FinishReturns(m)
  <2>1. final[m] \in {"sent", "lost"}
    BY <1>5 DEF FinishReturns, FinalKnown, FinalInv
  <2> QED
    BY <1>0, <1>5, <2>1 DEF FinishReturns, OpenInv, CountInv, FinalInv, AnswerInv, Own, Fresh,
       actorVars, callerVars, countVars
<1>6. CASE LeaveReader(m)
  BY <1>0, <1>6 DEF LeaveReader, OpenInv, CountInv, FinalInv, AnswerInv, Own, Fresh,
     actorVars, callerVars, countVars
<1> QED
  BY <1>1, <1>2, <1>3, <1>4, <1>5, <1>6 DEF Readers, Finishing

\* A turn begins: rejection, dispatch, a poll, a cancellation.
LEMMA TurnSteps ==
  ASSUME TypeOK, NEW m \in Messages, StreamInv(m), Turn(m)
  PROVE  TypeOK' /\ StreamInv(m)'
<1> USE DEF TypeOK, Phases, StreamInv, Move, Close, Tell
<1>1. CASE Reject(m)
  BY <1>1 DEF Reject, OpenInv, CountInv, FinalInv, AnswerInv, Own, Fresh, AtWork, readerVars, countVars
<1>2. CASE Dispatch(m)
  BY <1>2 DEF Dispatch, OpenInv, CountInv, FinalInv, AnswerInv, Own, Fresh, AtWork, channelVars,
     callerVars, readerVars, countVars
<1>3. CASE Poll(m)
  BY <1>3 DEF Poll, OpenInv, CountInv, FinalInv, AnswerInv, Own, channelVars, callerVars, readerVars,
     countVars
<1>4. CASE Cancel(m)
  BY <1>4 DEF Cancel, OpenInv, CountInv, FinalInv, AnswerInv, Own, Fresh, AtWork, callerVars,
     readerVars, countVars
<1> QED
  BY <1>1, <1>2, <1>3, <1>4 DEF Turn

\* The future is scheduled, or is never made.
LEMMA ScheduleSteps ==
  ASSUME TypeOK, NEW m \in Messages, StreamInv(m), Schedule(m) \/ HandlePanics(m)
  PROVE  TypeOK' /\ StreamInv(m)'
<1> USE DEF TypeOK, Phases, StreamInv, Move, Close, Resolve, Tell
<1>1. mode' \in Modes
  BY DEF Schedule, HandlePanics, FailureMode, Modes, Hard
<1>2. phase[m] = "dispatching" /\ caller[m] # "idle"
  BY DEF Schedule, HandlePanics, OpenInv
<1>3. CASE Own(m) /\ Schedule(m)
  BY <1>1, <1>2, <1>3 DEF Schedule, Opened, AnswerEarly, OpenInv, CountInv, FinalInv, AnswerInv, Own,
     Fresh, AtWork, countVars
<1>4. CASE ~Own(m) /\ Schedule(m)
  BY <1>1, <1>2, <1>4 DEF Schedule, Opened, AnswerEarly, OpenInv, CountInv, FinalInv, AnswerInv, Own,
     Fresh, AtWork, callerVars, countVars
<1>5. CASE Own(m) /\ HandlePanics(m)
  BY <1>1, <1>2, <1>5 DEF HandlePanics, Opened, AnswerEarly, OpenInv, CountInv, FinalInv, AnswerInv,
     Own, Fresh, AtWork, countVars
<1>6. CASE ~Own(m) /\ HandlePanics(m)
  BY <1>1, <1>2, <1>6 DEF HandlePanics, OpenInv, CountInv, FinalInv, AnswerInv, Own, Fresh, AtWork,
     countVars
<1> QED
  BY <1>3, <1>4, <1>5, <1>6

\* The rest of a turn: the handler writes, waits, returns, panics or is dropped.
LEMMA RestSteps ==
  ASSUME TypeOK, NEW m \in Messages, StreamInv(m), Rest(m), ~Schedule(m), ~HandlePanics(m)
  PROVE  TypeOK' /\ StreamInv(m)'
<1> USE DEF TypeOK, Phases, StreamInv, Move, Close, Resolve, Tell
<1>0. Capacity \in Nat \ {0} /\ MaxItems \in Nat
  BY StreamsAssumption
<1>1. CASE Pend(m) \/ Panic(m)
  <2>1. mode' \in Modes
    BY <1>1 DEF Pend, Panic, FailureMode, Modes, Hard
  <2> QED
    BY <1>1, <2>1 DEF Pend, Panic, OpenInv, CountInv, FinalInv, AnswerInv, Own, channelVars,
       callerVars, readerVars, countVars
<1>2. CASE WriteAccepted(m)
  <2>1. /\ items[m] + 1 \in 0..Capacity /\ written[m] + 1 \in 0..MaxItems /\ open[m]
        /\ reader[m] # "ended" /\ (Own(m) => reader[m] # "none")
    BY <1>0, <1>2 DEF WriteAccepted, Writing, HasRoom, OpenInv, CountInv, AtWork
  <2>2. TypeOK'
    BY <1>2, <2>1 DEF WriteAccepted, callerVars, readerVars
  <2>3. /\ items'[m] = items[m] + 1 /\ written'[m] = written[m] + 1 /\ phase'[m] = "handling"
        /\ UNCHANGED <<kind, mode, polling, open, final, callerVars, readerVars, got>>
    BY <1>2 DEF WriteAccepted
  <2>4. phase[m] \in AtWork
    BY <1>2 DEF WriteAccepted, Writing, AtWork
  <2>5. CountInv(m)'
    <3>1. items[m] \in Nat /\ written[m] \in Nat /\ got[m] \in Nat
      BY <1>0
    <3>2. reader[m] = "reading" => got[m] + items[m] = written[m]
      BY DEF CountInv
    <3>3. reader[m] = "reading" => got[m] + (items[m] + 1) = written[m] + 1
      BY <3>1, <3>2
    <3> QED
      BY <2>1, <2>3, <2>4, <3>1, <3>3 DEF CountInv, Own, Fresh, AtWork, callerVars, readerVars
  <2>6. OpenInv(m)' /\ FinalInv(m)' /\ AnswerInv(m)'
    BY <2>1, <2>3, <2>4 DEF OpenInv, FinalInv, AnswerInv, Own, Fresh, AtWork, callerVars, readerVars
  <2> QED
    BY <2>2, <2>5, <2>6
<1>3. CASE WriteBlocks(m)
  BY <1>3 DEF WriteBlocks, Writing, OpenInv, CountInv, FinalInv, AnswerInv, Own, Fresh, AtWork,
     channelVars, callerVars, readerVars, countVars
<1>4. CASE WriteFails(m)
  BY <1>4 DEF WriteFails, OpenInv, CountInv, FinalInv, AnswerInv, Own, Fresh, AtWork,
     channelVars, callerVars, readerVars, countVars
<1>5. CASE Return(m)
  BY <1>5 DEF Return, OpenInv, CountInv, FinalInv, AnswerInv, Own, Fresh, AtWork, callerVars,
     readerVars, countVars
<1>6. CASE Complete(m)
  BY <1>6 DEF Complete, OpenInv, CountInv, FinalInv, AnswerInv, Own, Fresh, AtWork, callerVars,
     readerVars, countVars
<1>7. CASE Cancelled(m)
  BY <1>7 DEF Cancelled, DropSender, OpenInv, CountInv, FinalInv, AnswerInv, Own, Fresh, AtWork,
     callerVars, readerVars, countVars
<1> QED
  BY <1>1, <1>2, <1>3, <1>4, <1>5, <1>6, <1>7 DEF Rest

\* Requests, the end of the task, and the executor's abort touch only the gate.
LEMMA GateSteps ==
  ASSUME IInv, Abort \/ Exit \/ \E shutdown \in Shutdowns : RequestShutdown(shutdown)
  PROVE  IInv'
<1>1. /\ UNCHANGED <<kind, phase, polling, open, items, final, caller, answer, reader, result,
                     written, got>>
      /\ mode' \in Modes
  BY DEF IInv, TypeOK, Abort, Exit, RequestShutdown, AbortMode, RequestedMode, CutoffMode, Modes,
     Graceful, Hard, Shutdowns, channelVars, callerVars, readerVars, countVars
<1>2. \A m \in Messages : StreamInv(m)'
  BY <1>1, StreamKept DEF IInv, Untouched
<1> QED
  BY <1>1, <1>2 DEF IInv, TypeOK

\* The initial state.
LEMMA InvInit == Init => IInv
<1> SUFFICES ASSUME Init PROVE IInv
  OBVIOUS
<1>1. Capacity \in Nat \ {0} /\ MaxItems \in Nat
  BY StreamsAssumption
<1>2. TypeOK
  BY <1>1 DEF Init, TypeOK, Phases, Modes, Graceful
<1>3. \A m \in Messages : StreamInv(m)
  BY DEF Init, StreamInv, OpenInv, CountInv, FinalInv, AnswerInv, Own, AtWork, Fresh
<1> QED
  BY <1>2, <1>3 DEF IInv

\* Every step.
LEMMA InvNext == IInv /\ [Next]_vars => IInv'
<1> SUFFICES ASSUME IInv, [Next]_vars PROVE IInv'
  OBVIOUS
<1>1. CASE UNCHANGED vars
  <2>1. \A m \in Messages : StreamInv(m)'
    BY <1>1, StreamKept DEF IInv, Untouched, vars, actorVars, channelVars, callerVars, readerVars,
       countVars
  <2> QED
    BY <1>1, <2>1 DEF IInv, TypeOK, vars, actorVars, channelVars, callerVars, readerVars, countVars
<1>2. ASSUME NEW m \in Messages, Turn(m) \/ Rest(m) \/ Callers(m) \/ Readers(m)
      PROVE  IInv'
  <2>1. TypeOK' /\ StreamInv(m)'
    BY <1>2, CallerSteps, ReaderSteps, TurnSteps, ScheduleSteps, RestSteps DEF IInv
  <2>2. \A n \in Messages \ {m} : StreamInv(n)'
    BY <1>2, Alone, StreamKept DEF IInv
  <2> QED
    BY <2>1, <2>2 DEF IInv
<1> QED
  BY <1>1, <1>2, GateSteps DEF Next

\* All of it is invariant.
THEOREM Invariance == Spec => []IInv
  BY InvInit, InvNext, PTL DEF Spec

\* Channels, futures, readers and callers stay in their states: the item channel
\* never holds more than its capacity, a handler never writes more than it has.
THEOREM TypeCorrect == Spec => []TypeOK
  BY Invariance, PTL DEF IInv

\* However a stream ends, a reader that reads to its end has every item the
\* handler was told it had written.
THEOREM EverythingRead == Spec => []NothingLost
<1>1. IInv => NothingLost
  <2> SUFFICES ASSUME IInv, NEW m \in Messages, reader[m] = "ended"
               PROVE  got[m] = written[m] /\ ~open[m]
    BY DEF NothingLost
  <2>1. got[m] + items[m] = written[m] /\ ~open[m] /\ items[m] = 0
    BY DEF IInv, StreamInv, CountInv
  <2>2. got[m] \in Nat /\ MaxItems \in Nat
    BY StreamsAssumption DEF IInv, TypeOK
  <2> QED
    BY <2>1, <2>2
<1> QED
  BY <1>1, Invariance, PTL

\* finish reports the value of a handler that returned, and ResponseLost only
\* for one that never will.
THEOREM FinishTellsTheTruth == Spec => []FinalTruthful
<1>1. IInv => FinalTruthful
  BY DEF IInv, StreamInv, FinalInv, FinalTruthful
<1> QED
  BY <1>1, Invariance, PTL

\* Nothing is written behind a reply, a final value or the loss of one.
THEOREM NothingBehindReply == Spec => SilentAfterReply
<1>1. IInv /\ [Next]_vars =>
        \A m \in Messages : written'[m] # written[m] =>
          IF Own(m) THEN final[m] = "pending" ELSE answer[m] = "none"
  <2> SUFFICES ASSUME IInv, [Next]_vars, NEW m \in Messages, written'[m] # written[m]
               PROVE  IF Own(m) THEN final[m] = "pending" ELSE answer[m] = "none"
    OBVIOUS
  <2>1. \/ UNCHANGED written
        \/ \E n \in Messages : WriteAccepted(n)
    BY DEF Next, Turn, Rest, Callers, Readers, Finishing, vars, countVars, Ask, Refused, LeaveCall,
       Recv, RecvEnds, Finish, LeaveReader, FinishDiscards, FinishSeesEnd, FinishReturns, Reject,
       Dispatch, Poll, Cancel, Schedule, HandlePanics, Pend, WriteBlocks, WriteFails, Return,
       Complete, Panic, Cancelled, Abort, Exit, RequestShutdown
  <2>2. PICK n \in Messages : WriteAccepted(n)
    BY <2>1
  <2>3. n = m
    BY <2>2 DEF WriteAccepted, IInv, TypeOK
  <2>4. phase[m] \in AtWork
    BY <2>2, <2>3 DEF WriteAccepted, Writing, AtWork
  <2> QED
    BY <2>4 DEF IInv, StreamInv, FinalInv, AnswerInv, AtWork
<1> QED
  BY <1>1, Invariance, PTL DEF Spec, SilentAfterReply

(***************************************************************************)
(* What an exit leaves behind.                                             *)
(***************************************************************************)

\* On its way out a message loses its writer, its final sender and its caller,
\* in an order that depends on who made the channel.
EndInv(m) ==
  /\ final[m] = "pending" => Own(m) /\ phase[m] \in AtWork \cup {"returned", "cancelled"}
  /\ phase[m] \in {"returned", "gone"} => ~open[m]
  /\ phase[m] = "cancelled" => IF Own(m) THEN ~open[m] ELSE caller[m] # "asked"
  /\ Own(m) /\ phase[m] \in AtWork \cup {"returned", "cancelled"} => caller[m] # "asked"
  /\ phase[m] \in {"idle", "gone"} => caller[m] # "asked"

\* Nothing is left to lose, and nothing comes.
Emptied == mode = "Exited" => Over

EndsInv == Emptied /\ \A m \in Messages : EndInv(m)

LEMMA EndKept ==
  ASSUME NEW m \in Messages, EndInv(m), Untouched(m), kind' = kind
  PROVE  EndInv(m)'
  BY DEF EndInv, Untouched, Own

\* The message of a step keeps it, callers and readers first ...
LEMMA OutsideEnds ==
  ASSUME TypeOK, NEW m \in Messages, StreamInv(m), EndInv(m), Callers(m) \/ Readers(m)
  PROVE  EndInv(m)'
<1> USE DEF TypeOK, EndInv, Own, AtWork
<1>1. CASE Callers(m)
  BY <1>1 DEF Callers, Ask, Refused, LeaveCall, Move, StreamInv, OpenInv, HandedBack, channelVars,
     actorVars
<1>2. CASE Readers(m)
  BY <1>2 DEF Readers, Finishing, Recv, RecvEnds, Finish, LeaveReader, FinishDiscards, FinishSeesEnd,
     FinishReturns, actorVars, channelVars, callerVars
<1> QED
  BY <1>1, <1>2

\* ... and then the task.
LEMMA TaskEnds ==
  ASSUME TypeOK, NEW m \in Messages, StreamInv(m), EndInv(m), Turn(m) \/ Rest(m)
  PROVE  EndInv(m)'
<1> USE DEF TypeOK, EndInv, Own, AtWork, Move, Close, Resolve, Tell
<1>1. CASE Turn(m)
  BY <1>1 DEF Turn, Reject, Dispatch, Poll, Cancel, channelVars, callerVars
<1>2. CASE Schedule(m)
  BY <1>2 DEF Schedule, Opened, AnswerEarly, callerVars
<1>3. CASE HandlePanics(m)
  BY <1>3 DEF HandlePanics, Opened, AnswerEarly, callerVars
<1>4. CASE Pend(m) \/ Panic(m) \/ WriteAccepted(m) \/ WriteBlocks(m) \/ WriteFails(m)
  BY <1>4 DEF Pend, Panic, WriteAccepted, WriteBlocks, WriteFails, Writing, channelVars, callerVars
<1>5. CASE Return(m) \/ Complete(m) \/ Cancelled(m)
  BY <1>5 DEF Return, Complete, Cancelled, DropSender, callerVars
<1> QED
  BY <1>1, <1>2, <1>3, <1>4, <1>5 DEF Rest

\* After the exit no message moves.
LEMMA StaysEmptied ==
  ASSUME IInv, Emptied, NEW m \in Messages, Turn(m) \/ Rest(m) \/ Callers(m) \/ Readers(m)
  PROVE  Emptied'
<1>1. SUFFICES ASSUME mode' = "Exited"
               PROVE  Over'
  BY DEF Emptied
<1>2. mode = "Exited"
  BY <1>1 DEF Turn, Rest, Callers, Readers, Finishing, Ask, Refused, LeaveCall, Recv, RecvEnds, Finish,
     LeaveReader, FinishDiscards, FinishSeesEnd, FinishReturns, Reject, Dispatch, Poll, Cancel,
     Schedule, HandlePanics, Pend, WriteAccepted, WriteBlocks, WriteFails, Return, Complete, Panic,
     Cancelled, FailureMode, actorVars
<1>3. phase[m] \in {"idle", "gone"} /\ Over
  BY <1>2 DEF Emptied, Over
<1>4. CASE Callers(m) \/ Readers(m)
  <2>1. phase' = phase
    BY <1>2, <1>4 DEF Callers, Readers, Finishing, Ask, MayAdmit, Refused, LeaveCall, Recv, RecvEnds,
       Finish, LeaveReader, FinishDiscards, FinishSeesEnd, FinishReturns, actorVars
  <2> QED
    BY <1>3, <2>1 DEF Over
<1>5. CASE Turn(m) \/ Rest(m)
  BY <1>3, <1>5 DEF Turn, Rest, Reject, Dispatch, Poll, Cancel, Schedule, HandlePanics, Pend,
     WriteAccepted, WriteBlocks, WriteFails, Writing, Return, Complete, Panic, Cancelled
<1> QED
  BY <1>4, <1>5

\* When the exit is published every caller has been told, every final value is
\* known, and every writer that was admitted is gone.
THEOREM ExitSettles == Spec => []ExitClosesStreams
<1>1. Init => EndsInv
  BY DEF Init, EndsInv, Emptied, EndInv, AtWork
<1>2. IInv /\ EndsInv /\ [Next]_vars => EndsInv'
  <2> SUFFICES ASSUME IInv, EndsInv, [Next]_vars PROVE EndsInv'
    OBVIOUS
  <2>1. CASE UNCHANGED vars
    BY <2>1 DEF vars, actorVars, channelVars, callerVars, EndsInv, Emptied, Over, EndInv, Own
  <2>2. ASSUME NEW m \in Messages, Turn(m) \/ Rest(m) \/ Callers(m) \/ Readers(m)
        PROVE  EndsInv'
    <3>1. EndInv(m)'
      BY <2>2, OutsideEnds, TaskEnds DEF IInv, EndsInv
    <3>2. \A n \in Messages \ {m} : EndInv(n)'
      BY <2>2, Alone, EndKept DEF IInv, EndsInv
    <3>3. Emptied'
      BY <2>2, StaysEmptied DEF EndsInv
    <3> QED
      BY <3>1, <3>2, <3>3 DEF EndsInv
  <2>3. CASE Abort \/ Exit \/ \E shutdown \in Shutdowns : RequestShutdown(shutdown)
    <3>1. /\ UNCHANGED <<kind, phase, open, final, caller>>
          /\ mode' = "Exited" => Over
      BY <2>3 DEF Abort, Exit, RequestShutdown, AbortMode, RequestedMode, CutoffMode, Shutdowns,
         channelVars, callerVars, EndsInv, Emptied
    <3> QED
      BY <3>1 DEF EndsInv, Emptied, Over, EndInv, Own
  <2> QED
    BY <2>1, <2>2, <2>3 DEF Next
<1>3. IInv /\ EndsInv => ExitClosesStreams
  <2> SUFFICES ASSUME EndsInv, mode = "Exited", NEW m \in Messages
               PROVE  caller[m] # "asked" /\ final[m] # "pending" /\ (open[m] => phase[m] = "idle")
    BY DEF ExitClosesStreams
  <2>1. phase[m] \in {"idle", "gone"} /\ EndInv(m)
    BY DEF EndsInv, Emptied, Over
  <2> QED
    BY <2>1 DEF EndInv, AtWork
<1> QED
  BY <1>1, <1>2, <1>3, Invariance, PTL DEF Spec
=============================================================================

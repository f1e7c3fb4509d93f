----------------------------- MODULE Lifecycle -----------------------------
(***************************************************************************)
(* The lifecycle gate of one actor: the modes of mailbox/control.rs and    *)
(* the transactions that read or change them.  Every transaction runs      *)
(* under the lock of one watch value, so each is a function of the mode    *)
(* it finds.  Rust's Mode::Exited(status) is the mode "Exited" and, beside *)
(* it, the reason that was published (NoReason until then).                *)
(***************************************************************************)

Graceful == {"Running", "Draining", "Stopping"}
Hard     == {"Killing", "Failing", "Aborting"}
Modes    == Graceful \cup Hard \cup {"Exited"}

Shutdowns == {"Stop", "Drain", "Kill"}

Reasons  == {"Stopped", "Drained", "Killed", "Panicked", "Aborted"}
NoReason == "none"

\* The mode a shutdown request commits when it wins.
CutoffMode == [Stop |-> "Stopping", Drain |-> "Draining", Kill |-> "Killing"]

\* Control::request: the first request wins, and only Kill may upgrade it.
RequestedMode(mode, shutdown) ==
  IF \/ mode = "Running"
     \/ mode \in {"Draining", "Stopping"} /\ shutdown = "Kill"
  THEN CutoffMode[shutdown]
  ELSE mode

\* Control::begin_failure: Kill, abort and exit keep precedence over a panic.
FailureMode(mode) == IF mode \in Graceful THEN "Failing" ELSE mode

\* Control::begin_abort.
AbortMode(mode) == IF mode = "Exited" THEN mode ELSE "Aborting"

\* What an actor that left the graceful modes reports of itself.
HardReason == [Killing |-> "Killed", Failing |-> "Panicked", Aborting |-> "Aborted"]

\* Control::finish: the local reason published for a proposed one.
FinishReason(mode, proposed) ==
  IF proposed = "Aborted" \/ mode \in Graceful THEN proposed ELSE HardReason[mode]

\* Control::call_failure_for: the reason a failed call carries in a mode.
\* exit is the published reason, which only an exited actor has.
FailureReason(mode, exit, phase) ==
  IF mode = "Stopping" /\ phase = "Queued" THEN "Stopped"
  ELSE IF mode = "Exited" THEN exit
  ELSE IF mode \in Hard THEN HardReason[mode]
  ELSE "Panicked"

\* The gates: which modes let a message in, a handler start, a reply
\* complete, and initialization begin.
DispatchLate(mode) == mode \in Graceful    \* a mutant of MayDispatch
MayAdmit(mode)    == mode = "Running"
MayDispatch(mode) == mode \in {"Running", "Draining"}
MayComplete(mode) == mode \in Graceful
MayInit(mode)     == mode \in Graceful
=============================================================================

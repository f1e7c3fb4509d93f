----------------------------- MODULE Delivery ------------------------------
(***************************************************************************)
(* What an actor promises the senders of its messages, without mailbox,    *)
(* scheduler or task: the phases that error.rs and lifecycle.rs name.      *)
(* A message is accepted, then a handler is started for it, then it        *)
(* completes; shutdown and failure decide which of those steps may still   *)
(* happen, and the exit is published only when every accepted message has  *)
(* its final fate.  Actor implements this module (see ActorDelivery).      *)
(***************************************************************************)
CONSTANT Msgs

VARIABLES gate,   \* "open", "draining", "stopping", "hard" or "exited"
          fate,   \* how far each message got
          left,   \* messages whose caller stopped waiting
          exit    \* the published reason

vars == <<gate, fate, left, exit>>

Gates == {"open", "draining", "stopping", "hard", "exited"}
Fates == {"none", "refused", "accepted", "unserved", "started", "interrupted", "completed"}

With(f) == {m \in Msgs : fate[m] = f}

\* Any step that runs user code or drops a user value may also fail the actor.
Graceful == {"open", "draining", "stopping"}
MayFail  == gate' = gate \/ (gate \in Graceful /\ gate' = "hard")

Init == /\ gate = "open" /\ exit = "none"
        /\ fate = [m \in Msgs |-> "none"] /\ left = {}

\* The first shutdown wins; only a hard one follows a graceful one.
Close ==
  /\ \/ gate = "open" /\ gate' \in {"draining", "stopping", "hard"}
     \/ gate \in {"draining", "stopping"} /\ gate' = "hard"
  /\ UNCHANGED <<fate, left, exit>>

Accept(m) ==
  /\ gate = "open" /\ fate[m] = "none"
  /\ fate' = [fate EXCEPT ![m] = "accepted"]
  /\ UNCHANGED <<gate, left, exit>>

\* A refused message was never accepted and never will be.
Refuse(m) ==
  /\ gate # "open" /\ fate[m] = "none"
  /\ fate' = [fate EXCEPT ![m] = "refused"]
  /\ UNCHANGED <<gate, left, exit>>

Leave(m) ==
  /\ fate[m] \notin {"none", "refused"}
  /\ left' = left \cup {m}
  /\ UNCHANGED <<gate, fate, exit>>

\* A handler starts only for a sender that is still there, before any cutoff.
Start(m) ==
  /\ gate \in {"open", "draining"} /\ fate[m] = "accepted" /\ m \notin left
  /\ fate' = [fate EXCEPT ![m] = "started"]
  /\ UNCHANGED <<gate, left, exit>>

\* A handler fails as it starts, and the actor with it.
StartFails(m) ==
  /\ gate \in {"open", "draining"} /\ fate[m] = "accepted" /\ m \notin left
  /\ fate' = [fate EXCEPT ![m] = "interrupted"]
  /\ gate' = "hard"
  /\ UNCHANGED <<left, exit>>

Complete(m) ==
  /\ gate \in Graceful /\ fate[m] = "started"
  /\ fate' = [fate EXCEPT ![m] = "completed"]
  /\ MayFail
  /\ UNCHANGED <<left, exit>>

\* An accepted message is given up before a handler starts: because Stop or
\* a hard mode cut it off, or because its caller left.
GiveUp(m) ==
  /\ fate[m] = "accepted" /\ (gate \in {"stopping", "hard"} \/ m \in left)
  /\ fate' = [fate EXCEPT ![m] = "unserved"]
  /\ MayFail
  /\ UNCHANGED <<left, exit>>

\* A hard mode takes back what was started, and possibly what was accepted.
TearDown ==
  /\ gate = "hard"
  /\ \E queued \in {{}, With("accepted")}, running \in SUBSET With("started") :
       fate' = [m \in Msgs |-> IF m \in queued THEN "unserved"
                               ELSE IF m \in running THEN "interrupted" ELSE fate[m]]
  /\ UNCHANGED <<gate, left, exit>>

\* The exit is published once nothing accepted is without a final fate.
Exit ==
  /\ With("accepted") \cup With("started") = {}
  /\ \/ /\ gate = "draining" /\ exit' = "Drained"
        /\ With("unserved") \subseteq left /\ With("interrupted") = {}
     \/ gate = "stopping" /\ exit' = "Stopped" /\ With("interrupted") = {}
     \/ gate = "hard" /\ exit' \in {"Killed", "Panicked", "Aborted"}
  /\ gate' = "exited"
  /\ UNCHANGED <<fate, left>>

Next ==
  \/ Close \/ TearDown \/ Exit
  \/ \E m \in Msgs : \/ Accept(m) \/ Refuse(m) \/ Leave(m) \/ Start(m)
                     \/ StartFails(m) \/ Complete(m) \/ GiveUp(m)

Spec == Init /\ [][Next]_vars
=============================================================================

--------------------------- MODULE ActorDelivery ---------------------------
(***************************************************************************)
(* The actor implements Delivery: what its queue, scheduler and histories  *)
(* say of a message is the fate Delivery gives it.                         *)
(***************************************************************************)
EXTENDS Actor

GateOf == [Running |-> "open", Draining |-> "draining", Stopping |-> "stopping",
           Killing |-> "hard", Failing |-> "hard", Aborting |-> "hard", Exited |-> "exited"]

FateOf(m) ==
  IF m \in finished THEN "completed"
  ELSE IF m \in inflight THEN "started"
  ELSE IF m \in Entries(started) THEN "interrupted"
  ELSE IF m \in Entries(queue) \cup inhand THEN "accepted"
  ELSE IF m \in Entries(admitted) THEN "unserved"
  ELSE IF caller[m] = "refused" THEN "refused"
  ELSE "none"

Promise == INSTANCE Delivery WITH
  gate <- GateOf[mode],
  fate <- [m \in Msgs |-> FateOf(m)],
  left <- {m \in Msgs : caller[m] = "abandoned"}

\* Every behaviour of the actor is one of Delivery: whatever the callers, the
\* shutdown requests, panics and the executor do, senders are told the truth
\* and nothing accepted is forgotten.
PromiseKept == Promise!Spec
=============================================================================

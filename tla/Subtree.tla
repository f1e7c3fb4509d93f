------------------------------ MODULE Subtree ------------------------------
(***************************************************************************)
(* What SubtreeStatus promises of a tree of actors, without modes, tasks   *)
(* or channels (lifecycle.rs).  An actor ends in one of three ways: with   *)
(* its subtree confirmed, without the confirmation because some descendant *)
(* lost it, or aborted, which loses it.  Supervision implements this       *)
(* module.                                                                 *)
(***************************************************************************)
CONSTANTS Actors, Root, Nobody

VARIABLES state,    \* of each actor
          parent    \* who spawned it

vars == <<state, parent>>

Ended  == {"confirmed", "tainted", "aborted"}
States == {"unborn", "alive"} \cup Ended

Children(p) == {c \in Actors : parent[c] = p}

\* The actors of every set that contains the children of a and, with an actor,
\* its children.
Descendants(a) ==
  {d \in Actors : \A heirs \in SUBSET Actors :
     (Children(a) \subseteq heirs /\ \A h \in heirs : Children(h) \subseteq heirs) => d \in heirs}

Init == /\ state = [a \in Actors |-> IF a = Root THEN "alive" ELSE "unborn"]
        /\ parent = [a \in Actors |-> Nobody]

Spawn(p, c) ==
  /\ state[p] = "alive" /\ state[c] = "unborn"
  /\ state' = [state EXCEPT ![c] = "alive"]
  /\ parent' = [parent EXCEPT ![c] = p]

\* An actor that ends by itself has outlived its children; it confirms its
\* subtree exactly when each of them did.
Finish(a) ==
  /\ state[a] = "alive"
  /\ \A c \in Children(a) : state[c] \in Ended
  /\ state' = [state EXCEPT ![a] =
       IF \A c \in Children(a) : state[c] = "confirmed" THEN "confirmed" ELSE "tainted"]
  /\ UNCHANGED parent

\* The executor may drop an actor at any time; its children may go on.
Abort(a) ==
  /\ state[a] = "alive"
  /\ state' = [state EXCEPT ![a] = "aborted"]
  /\ UNCHANGED parent

Next == \E a \in Actors : Finish(a) \/ Abort(a) \/ \E c \in Actors : Spawn(a, c)

Spec == Init /\ [][Next]_vars

\* A confirmed actor has no descendant that is still alive, or that ended
\* without its own confirmation.
Confirmed ==
  \A a \in Actors : state[a] = "confirmed" =>
    \A d \in Descendants(a) : state[d] = "confirmed"
=============================================================================

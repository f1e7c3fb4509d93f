-------------------------------- MODULE Pool --------------------------------
(***************************************************************************)
(* What the scheduler promises the handlers of one actor, without turns,   *)
(* ready keys, flags or wakers: which messages become running replies, and *)
(* how many; which of them may be polled, and when; and when one leaves.   *)
(* Scheduler implements this module.                                       *)
(***************************************************************************)
EXTENDS Naturals, FiniteSets

CONSTANTS Replies, Leasing, MaxInFlight, Free

VARIABLES gate,       \* "Running", then "Draining" or "Stopping"
          waiting,    \* messages not dispatched
          running,    \* replies in flight
          returned,   \* replies whose future has returned
          holder,     \* the reply under Cx::exclusive, or Free
          begun,      \* replies polled at all
          view        \* what the last poll of each reply saw of its events

vars == <<gate, waiting, running, returned, holder, begun, view>>

Init == /\ gate = "Running" /\ holder = Free
        /\ waiting = {} /\ running = {} /\ returned = {} /\ begun = {}

Close ==
  /\ gate = "Running" /\ gate' \in {"Draining", "Stopping"}
  /\ UNCHANGED <<waiting, running, returned, holder, begun, view>>

Arrive(r) ==
  /\ gate = "Running" /\ r \notin waiting \cup running \cup returned
  /\ waiting' = waiting \cup {r}
  /\ UNCHANGED <<gate, running, returned, holder, begun, view>>

\* Only Stop throws messages away.
Discard ==
  /\ gate = "Stopping" /\ waiting' \subseteq waiting
  /\ UNCHANGED <<gate, running, returned, holder, begun, view>>

\* A message becomes a reply only within the limit of the profile, and not
\* while somebody holds the lease.
Dispatch(r) ==
  /\ gate # "Stopping" /\ r \in waiting
  /\ holder = Free /\ Cardinality(running) < MaxInFlight
  /\ waiting' = waiting \ {r} /\ running' = running \cup {r}
  /\ UNCHANGED <<gate, returned, holder, begun, view>>

\* A poll concerns one reply, which no other pauses and which has not returned
\* before (but for one that may hold the lease, after a shutdown: see
\* Scheduler!NoPollAfterReturn).  The poll may take the lease or give it up; a
\* reply that leaves with it gives it up too.
Poll(r) ==
  /\ r \in running /\ holder \in {r, Free}
  /\ r \notin returned \/ (r \in Leasing /\ gate # "Running")
  /\ begun' = begun \cup {r}
  /\ \A q \in Replies \ {r} : view'[q] = view[q]
  /\ holder' \in IF r \in Leasing THEN {r, Free} ELSE {Free}
  /\ \/ UNCHANGED <<running, returned>>
     \/ /\ returned' = returned \cup {r}
        /\ running' = running \/ (running' = running \ {r} /\ holder' = Free)
  /\ UNCHANGED <<gate, waiting>>

\* A reply leaves after it has returned, and its lease with it.
Leave(r) ==
  /\ r \in running \cap returned
  /\ running' = running \ {r}
  /\ holder' = IF holder = r THEN Free ELSE holder
  /\ UNCHANGED <<gate, waiting, returned, begun, view>>

Next ==
  \/ Close \/ Discard
  \/ \E r \in Replies : Arrive(r) \/ Dispatch(r) \/ Poll(r) \/ Leave(r)

Spec == Init /\ [][Next]_vars
=============================================================================

--------------------------- MODULE MCSupervision ---------------------------
(***************************************************************************)
(* A small instance of Supervision for TLC: the root and two more actors,  *)
(* which makes a chain, siblings, and a replacement for an exited child.   *)
(***************************************************************************)
EXTENDS Supervision, TLC

CONSTANTS root, first, second

\* The shutdowns that come from outside.  Children get more of them from their
\* parents; Kill comes from teardown and from owners that are dropped.
RootAndChild == (root :> {"Drain"}) @@ (first :> {"Stop"}) @@ (second :> {})

\* The root may have one child or two.
OneOrTwo == {(root :> n) @@ (first :> 1) @@ (second :> 1) : n \in {1, 2}}

\* The least in which a destructor spawns a child: one parent and its child.
OneChild == {[a \in {root, first} |-> 1]}
KillRoot == (root :> {"Kill"}) @@ (first :> {})
=============================================================================

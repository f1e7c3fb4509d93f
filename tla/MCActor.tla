------------------------------ MODULE MCActor ------------------------------
(***************************************************************************)
(* Small instances of Actor, with the promise it implements, for TLC.      *)
(* Messages of one kind are interchangeable, so the safety run permutes    *)
(* them.                                                                   *)
(***************************************************************************)
EXTENDS ActorDelivery, TLC

Symmetry == Permutations(Calls) \cup Permutations(Sends)
=============================================================================

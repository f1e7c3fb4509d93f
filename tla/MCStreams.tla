----------------------------- MODULE MCStreams -----------------------------
(***************************************************************************)
(* A small instance of Streams for TLC: one stream the runtime made, beside *)
(* one whose writer the caller brought.                                    *)
(***************************************************************************)
EXTENDS Streams, TLC

CONSTANTS own, brought

OwnAndBrought == {(own :> "call") @@ (brought :> k) : k \in {"call_to", "send_to"}}
=============================================================================

---------------------------- MODULE MCScheduler ----------------------------
(* Scheduler for TLC. *)
EXTENDS Scheduler, TLC

\* Replies are interchangeable while none of them, or all, may take the lease.
ReplySymmetry == Permutations(Replies)

\* So are the threads of one reply, if every reply's are permuted alike.
WakerSymmetry == Permutations(Wakers)
=============================================================================

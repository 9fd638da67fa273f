------------------------- MODULE MCRetainedOperations -------------------------
(****************************************************************************)
(* Two threads and three operations: one is done or outstanding for ever,   *)
(* one is listed and one is under way. Two tickets, for rows of two of them,*)
(* of which another owner may take one; the FIFO is full before the ledger. *)
(****************************************************************************)
EXTENDS RetainedOperations, TLC

Symmetry == Permutations(Threads)
=============================================================================

----------------------------- MODULE MCDialogUnwind -----------------------------
(* Two threads: one inside a body or in its entry or tail, one that meets   *)
(* an error outside of any; two attempts, so that a claim and a release may *)
(* be lost, be retried and run out; six stock frames, so that a dialog is   *)
(* open beside the longest chain there is.                                  *)
EXTENDS DialogUnwind, TLC

ThreadSymmetry == Permutations(Threads)
=============================================================================

--------------------------- MODULE MCMutationGuard ---------------------------
(* Three threads, two tickets and two attempts per call: enough for a       *)
(* reservation to be lost to a finish, a begin or a fault store, for an     *)
(* attempt to be retried and to run out, and for the revision to run out.   *)
EXTENDS MutationGuard
=============================================================================

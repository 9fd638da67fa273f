------------------------- MODULE PlaybackPublication -------------------------
(****************************************************************************)
(* folderfollow_reveal_playback.PlaybackPublication: the identity of the    *)
(* playing track, published only by the END of a uniquely paired mutation.  *)
(* A publication is a record and each method an operator from the one before*)
(* the call to the one after it.                                            *)
(****************************************************************************)
EXTENDS RevealTypes

NewPlayback ==
    [revision |-> 0, identity |-> None, ready |-> FALSE, ticket |-> None,
     pending |-> None, deferred |-> FALSE, error |-> FALSE]

(* _fail, and invalidate: the first error is permanent.                     *)
FailPlayback(p) ==
    [p EXCEPT !.identity = None, !.pending = None, !.ticket = None,
              !.deferred = FALSE, !.ready = FALSE, !.error = TRUE]

(* Mutant: a BEGIN during a mutation replaces it instead of failing.        *)
OverlapAllowed(p) == FALSE

Overlaps(p) == p.ticket # None

(* _begin: every attempt withdraws the identity first and, below the limit, *)
(* advances the revision, whether or not the attempt then succeeds.         *)
BeginPlayback(p, identity, deferred) ==
    LET withdrawn == [p EXCEPT !.identity = None, !.ready = FALSE]
        advanced == [withdrawn EXCEPT !.revision = @ + 1]
    IN  CASE p.revision = Limit -> FailPlayback(withdrawn)
          [] p.revision # Limit /\ p.error -> advanced
          [] p.revision # Limit /\ ~p.error ->
               IF Overlaps(p) \/ identity = Unsupported
               THEN FailPlayback(advanced)
               ELSE [advanced EXCEPT !.pending = identity, !.deferred = deferred,
                                     !.ticket = advanced.revision]

(* _finish: only the outstanding ticket, in the mode it began with. The     *)
(* deferred mode publishes the final sample, the other the BEGIN's copy.    *)
FinishPlayback(p, ticket, identity, deferred) ==
    IF \/ p.error
       \/ p.ticket = None \/ ticket # p.ticket
       \/ p.deferred # deferred
       \/ deferred /\ identity = Unsupported
    THEN FailPlayback(p)
    ELSE [p EXCEPT !.identity = IF deferred THEN identity ELSE p.pending,
                   !.ready = TRUE, !.pending = None, !.ticket = None,
                   !.deferred = FALSE]
=============================================================================

----------------------------- MODULE RevealModel -----------------------------
(****************************************************************************)
(* folderfollow_reveal_model.RevealModel: baseline, confirm a change with a *)
(* second equal sample, then propose at most one reveal. The model is a     *)
(* record and each method an operator from the one before the call to the   *)
(* one after it; Observe also returns the proposed action.                  *)
(****************************************************************************)
EXTENDS RevealTypes

NewModel ==
    [committed |-> None, last_seen |-> None, candidate |-> None,
     pending |-> None, previous |-> None]

(* cancel_pending: consume the work, keep the playback baseline.            *)
CancelPending(m) ==
    [m EXCEPT !.candidate = IF @ = None THEN None ELSE [@ EXCEPT !.view = None],
              !.pending = None]

Eligible(identity) == identity # None /\ Folder[identity] # None

ResetBaseline(m, identity) ==
    LET base == IF Eligible(identity) THEN identity ELSE None
    IN  [NewModel EXCEPT !.committed = base, !.last_seen = base]

(* CompletedRows.locate: entries are distinct.                              *)
Locate(rows, identity) ==
    (CHOOSE i \in DOMAIN rows.entries : rows.entries[i] = identity) - 1

Listed(rows, identity) == identity \in Range(rows.entries)

(* The reveal the ready rows ask for, or None: stale rows, a missing row, an*)
(* unsupported geometry and a row already in view propose nothing.          *)
Proposal(view, s) ==
    LET row == Locate(s.rows, s.playback)
        target == MinimalReveal(row, Len(s.rows.entries), s.geometry)
    IN  IF \/ s.rows.generation # view
           \/ ~Listed(s.rows, s.playback)
           \/ target \in {Unrevealed, s.geometry.scroll_y}
        THEN None
        ELSE [identity |-> s.playback, rows |-> s.rows, manual_epoch |-> s.manual_epoch,
              geometry |-> s.geometry, row |-> row, target_y |-> target]

(* Mutant: an evaluation with rows and geometry leaves the work pending.    *)
EvaluateRepeatedly(m, s) ==
    IF \/ m.pending = None
       \/ m.pending.view # s.view \/ m.pending.manual_epoch # s.manual_epoch
       \/ s.rows = None \/ s.geometry = None
    THEN [model |-> m, action |-> None]
    ELSE [model |-> m, action |-> Proposal(m.pending.view, s)]

(* A change that has been seen twice: the pending transition is looked at   *)
(* once per sample, waits a bounded number of them for rows and geometry,   *)
(* and is consumed by its first evaluation.                                 *)
Evaluate(m, s) ==
    LET work == m.pending
        left == work.ticks_left - 1
        consumed == [m EXCEPT !.pending = None]
    IN  CASE work = None ->
               [model |-> m, action |-> None]
          [] work # None /\ (work.view = None \/ work.view # s.view
                             \/ work.manual_epoch # s.manual_epoch) ->
               [model |-> consumed, action |-> None]
          [] OTHER ->
               IF s.rows = None \/ s.geometry = None
               THEN [model |-> IF left <= 0 THEN consumed
                               ELSE [m EXCEPT !.pending.ticks_left = left],
                     action |-> None]
               ELSE [model |-> consumed, action |-> Proposal(work.view, s)]

(* observe(snapshot): s has playback, view, manual_epoch, rows, geometry and*)
(* manual_active.                                                           *)
Observe(m, s) ==
    LET context == <<s.view, s.manual_epoch>>
        interaction == m.previous # None /\ context # m.previous
        seen == [m EXCEPT !.previous = context]
        quiet == IF interaction \/ s.manual_active THEN CancelPending(seen) ELSE seen
        eligible == /\ ~interaction /\ ~s.manual_active
                    /\ s.view # None
                    /\ Folder[s.playback] = s.view.folder
        candidate == [view |-> IF eligible THEN s.view ELSE None,
                      manual_epoch |-> s.manual_epoch, ticks_left |-> MaxWaitTicks]
    IN  CASE ~Eligible(s.playback) ->
               [model |-> [NewModel EXCEPT !.previous = context], action |-> None]
          [] Eligible(s.playback) /\ m.committed = None ->
               [model |-> [quiet EXCEPT !.committed = s.playback, !.last_seen = s.playback],
                action |-> None]
          [] Eligible(s.playback) /\ m.committed # None /\ s.playback # m.last_seen ->
               [model |-> [quiet EXCEPT !.last_seen = s.playback, !.pending = None,
                             !.candidate = IF s.playback = m.committed THEN None
                                                                        ELSE candidate],
                action |-> None]
          [] OTHER ->
               Evaluate(IF quiet.candidate = None THEN quiet
                        ELSE [quiet EXCEPT !.committed = s.playback,
                                           !.pending = quiet.candidate, !.candidate = None],
                        s)

(* validate_action(action, current): the last check before the action.      *)
ValidAction(a, s) ==
    /\ a.target_y = MinimalReveal(a.row, Len(a.rows.entries), a.geometry)
    /\ a.target_y \notin {Unrevealed, a.geometry.scroll_y}
    /\ s.playback = a.identity
    /\ s.view = a.rows.generation
    /\ s.rows = a.rows
    /\ s.manual_epoch = a.manual_epoch
    /\ ~s.manual_active
    /\ s.geometry = a.geometry
    /\ Folder[a.identity] = a.rows.generation.folder
    /\ Listed(a.rows, a.identity) /\ Locate(a.rows, a.identity) = a.row
=============================================================================

---------------------------- MODULE RowPublication ----------------------------
(****************************************************************************)
(* folderfollow_reveal_publication.RowPublication: one bounded fill of rows *)
(* per externally established content generation. A publication is a record *)
(* and each method an operator from the publication before the call to the  *)
(* one after it; RevealCoordinator holds two of them.                       *)
(*                                                                          *)
(* The numbers a producer reports beside a row (ordinal, append result, list*)
(* count) are one Boolean: they confirm the collector's own count or do not.*)
(****************************************************************************)
EXTENDS RevealTypes

(* RowPublication(): nothing is published and no epoch has been seen.       *)
NewPublication ==
    [view |-> None, epoch |-> -1, serial |-> 0, ticket |-> None, fill |-> None,
     rows |-> None, started |-> FALSE, error |-> FALSE]

(* What a method's caller sees as success: the call changed the publication *)
(* and left it free of errors. A stale call changes nothing.                *)
Accepted(before, after) == after # before /\ ~after.error

(* _fail, and lost_event: this generation publishes nothing any more.       *)
Poison(p) == [p EXCEPT !.fill = None, !.rows = None, !.error = TRUE]

(* Content epochs strictly increase, across view replacement too.           *)
FreshEpoch(p, g) == g.contents_epoch > p.epoch

(* activate(generation); None deactivates. The path rules of a generation   *)
(* are the coordinator's own, applied before it builds one.                 *)
ActivateRows(p, g) ==
    LET idle == [p EXCEPT !.view = None, !.ticket = None, !.fill = None,
                          !.rows = None, !.started = FALSE, !.error = FALSE]
    IN  CASE g = None -> idle
          [] g # None /\ ~FreshEpoch(p, g) -> Poison(idle)
          [] OTHER -> [idle EXCEPT !.epoch = g.contents_epoch, !.view = g]

(* begin(generation, metadata): a late begin of another generation changes  *)
(* nothing; a second one of this generation poisons it.                     *)
BeginFill(p, g, total, supported) ==
    LET started == [p EXCEPT !.started = TRUE]
    IN  CASE p.view = None \/ g # p.view \/ p.error -> p
          [] p.view # None /\ g = p.view /\ ~p.error /\ p.started -> Poison(p)
          [] OTHER ->
               IF ~supported \/ total > MaxRows \/ p.serial = Limit
               THEN Poison(started)
               ELSE [started EXCEPT !.serial = @ + 1, !.ticket = p.serial + 1,
                       !.fill = [total |-> total, rows |-> <<>>, terminal |-> FALSE]]

(* _current(ticket) and what each event does with its answer: the event of  *)
(* an old ticket is ignored, one outside a fill or a wrong one poisons.     *)
FillEvent(p, ticket, correct, next) ==
    CASE ticket # p.ticket -> p
      [] ticket = p.ticket /\ (p.fill = None \/ ~correct) -> Poison(p)
      [] OTHER -> next

AppendRow(p, ticket, identity, confirmed) ==
    FillEvent(p, ticket,
        /\ confirmed
        /\ p.fill # None => /\ ~p.fill.terminal
                            /\ Len(p.fill.rows) < p.fill.total
                            /\ identity \notin Range(p.fill.rows),
        [p EXCEPT !.fill.rows = Append(@, identity)])

TerminalRow(p, ticket, confirmed) ==
    FillEvent(p, ticket,
        confirmed /\ (p.fill # None => ~p.fill.terminal),
        [p EXCEPT !.fill.terminal = TRUE])

(* finish: CompletedRows.from_fill over the copied rows.                    *)
FinishFill(p, ticket, confirmed) ==
    FillEvent(p, ticket,
        /\ confirmed
        /\ p.fill # None => p.fill.terminal /\ Len(p.fill.rows) = p.fill.total,
        [p EXCEPT !.fill = None,
                  !.rows = [generation |-> p.view, entries |-> p.fill.rows]])
=============================================================================

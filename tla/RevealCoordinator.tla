-------------------------- MODULE RevealCoordinator --------------------------
(****************************************************************************)
(* folderfollow_reveal_coordinator.RevealCoordinator: it serialises the     *)
(* events of views, row producers, playback and input, and hands out one-use*)
(* reveal proposals that any intervening event withdraws.                   *)
(*                                                                          *)
(* The coordinator is the record co. The helpers of the class are operators *)
(* from the coordinator before a call to the one after it, the public       *)
(* methods are actions. Handles are objects compared by identity; each is   *)
(* issued under a serial or ticket that is never reused, which names it.    *)
(*                                                                          *)
(* The attribute _geometry is written and never read, and the reasons of    *)
(* decisions only reach the caller: both are left out.                      *)
(****************************************************************************)
EXTENDS RowPublication, PlaybackPublication, RevealModel

CONSTANTS
    Interactions,   \* the recognised input states of interaction()
    Settled,        \* (contact, animation, settled) = (False, False, True)
    Totals,         \* the row counts producers announce
    Scopes,         \* the folders of views; None is one the coordinator refuses
    Identities,     \* the identities playback reports, None and Unsupported too
    Samples,        \* the geometries callers sample; None is no Geometry
    Outcomes,       \* the outcomes of contents changes and playback updates
    Confirmations,  \* whether producers' numbers agree with the collectors
    Stale           \* handles that are never in force: 0 stands for all of them

ASSUME InputAssumption ==
    /\ Settled \in Interactions /\ None \notin Interactions
    /\ Scopes \subseteq Folders \cup {None}
    /\ Identities \subseteq Tracks \cup {None, Unsupported}
    /\ Outcomes \subseteq {"succeeded", "failed", "unknown"}
    /\ Totals \subseteq Nat
    /\ Samples \subseteq {None} \cup [scroll_y : Int, pitch : Int, height : Int]
    /\ Confirmations \subseteq BOOLEAN
    /\ Stale \subseteq {0}

(* What a caller or a part finds in place of None is never taken for it.    *)
ASSUME NoneAssumption ==
    /\ None \notin Int
    /\ None \notin Generations
    /\ None \notin [view : Tickets, epoch : Tickets]
    /\ None \notin [total : Nat, rows : Seq(Tracks), terminal : BOOLEAN]
    /\ None \notin [generation : Generations, entries : Seq(Tracks)]
    /\ None \notin {"staged-row-transfer-failed"}

VARIABLES
    co,             \* the coordinator
    undisturbed,    \* history: no event since the last playback BEGIN
    proposals,      \* history: proposals made for the current revision
    reveals         \* history: proposals of it that consume accepted

vars == <<co, undisturbed, proposals, reveals>>

NoStage ==
    [started |-> FALSE, scope |-> None, fill |-> None, promoted |-> None, error |-> FALSE]

Init ==
    /\ co = [serial |-> 0, fatal |-> None, model |-> NewModel,
             publication |-> NewPublication, staging |-> NewPublication,
             playback |-> NewPlayback, view |-> None, generation |-> None,
             fill |-> None, change |-> None, stage |-> NoStage, issued |-> None,
             interaction |-> None, manual_epoch |-> 0, playback_fence |-> None]
    /\ undisturbed = FALSE
    /\ proposals = 0
    /\ reveals = 0

-------------------------------------------------------------------------------
(* The helpers of the class.                                                *)

(* The property error: any of the five stops proposals.                     *)
Erroneous(c) ==
    \/ c.fatal # None
    \/ c.playback.error
    \/ c.stage.error
    \/ c.publication.error
    \/ c.staging.error

ManualActive(c) == c.interaction # Settled

(* _discard_staging: the collector keeps its ticket counter and last epoch. *)
DiscardStaging(c) ==
    [c EXCEPT !.staging = ActivateRows(@, None), !.stage = NoStage]

(* Mutant: what was issued before an uncertain event stays good.            *)
DisableKeepingIssued(c, reason) ==
    [DiscardStaging(c) EXCEPT
        !.fatal = IF @ = None THEN reason ELSE @,
        !.view = None, !.generation = None, !.fill = None,
        !.change = None, !.playback_fence = None,
        !.model = CancelPending(@),
        !.publication = ActivateRows(@, None),
        !.playback = FailPlayback(@)]

(* _disable(reason)                                                         *)
Disable(c, reason) ==
    [DiscardStaging(c) EXCEPT
        !.fatal = IF @ = None THEN reason ELSE @,
        !.issued = None, !.view = None, !.generation = None, !.fill = None,
        !.change = None, !.playback_fence = None,
        !.model = CancelPending(@),
        !.publication = ActivateRows(@, None),
        !.playback = FailPlayback(@)]

(* _change: every event withdraws the proposal and the pending work, and    *)
(* takes a serial; the last one disables the coordinator.                   *)
Change(c) ==
    LET withdrawn == [c EXCEPT !.issued = None, !.model = CancelPending(@)]
    IN  CASE c.fatal # None -> withdrawn
          [] c.fatal = None /\ c.serial = Limit ->
               Disable(withdrawn, "coordinator-epoch-exhausted")
          [] OTHER -> [withdrawn EXCEPT !.serial = @ + 1]

(* What _change returns.                                                    *)
MayChange(c) == c.fatal = None /\ c.serial # Limit

(* _baseline: a transition that was published is consumed unrevealed.       *)
Baseline(c) ==
    [c EXCEPT !.model =
        ResetBaseline(@, IF c.playback.ready THEN c.playback.identity ELSE None)]

(* Public authority is withdrawn: no owner, no generation, no rows.         *)
Deactivate(c) ==
    [c EXCEPT !.publication = ActivateRows(@, None), !.view = None,
              !.generation = None, !.fill = None]

(* Mutant: the public collector is not told of the generation.              *)
PublishUnactivated(c, g) == [c EXCEPT !.generation = g]

(* A generation becomes public; its one fill is still to come.              *)
Publish(c, g) ==
    [c EXCEPT !.generation = g, !.publication = ActivateRows(@, g)]

(* A call whose failure is an event of its own.                             *)
OrChange(before, after) ==
    IF Accepted(before.publication, after.publication) THEN after ELSE Change(after)

(* _current_stage(fill): its change is still in progress, or its rows are   *)
(* the ones that were promoted into the current generation.                 *)
Promoted(c) == c.generation # None /\ c.stage.promoted = c.generation

CurrentStage(c, ticket) ==
    /\ c.fatal = None
    /\ c.stage.fill # None /\ c.stage.fill.ticket = ticket
    /\ c.stage.fill.view = c.view
    /\ \/ c.change # None /\ c.stage.fill.change = c.change.epoch
       \/ Promoted(c)

(* Mutant: an extra event of a promoted producer leaves its rows public.    *)
PoisonPrivately(c) ==
    [c EXCEPT !.stage.error = TRUE, !.staging = Poison(@)]

(* _poison_staging: extra events of a promoted producer revoke its rows.    *)
PoisonStaging(c) ==
    LET poisoned == [c EXCEPT !.stage.error = TRUE, !.staging = Poison(@)]
    IN  IF Promoted(c)
        THEN Change([poisoned EXCEPT !.publication = Poison(@)])
        ELSE poisoned

(* A staged call: the collector's answer, poisoned unless it accepted.      *)
Staged(c, staging) ==
    LET answered == [c EXCEPT !.staging = staging]
    IN  IF Accepted(c.staging, staging) THEN answered ELSE PoisonStaging(answered)

(* The checks of finish_contents_change on a staged fill's receipt.         *)
StageConfirmed(c, e) ==
    /\ ~c.stage.error
    /\ ~c.staging.error
    /\ c.stage.fill # None
    /\ c.staging.rows # None
    /\ c.stage.fill.change = e
    /\ c.staging.rows.generation = c.stage.fill.generation

(* _promote_staged: the public collector checks the staged rows once more.  *)
Replay(begun, entries) ==
    LET replayed[n \in 0 .. Len(entries)] ==
            IF n = 0 THEN begun
            ELSE AppendRow(replayed[n - 1], begun.ticket, entries[n], TRUE)
    IN  replayed[Len(entries)]

Promote(c) ==
    LET entries == c.staging.rows.entries
        begun == BeginFill(c.publication, c.generation, Len(entries), TRUE)
        filled == Replay(begun, entries)
        done == FinishFill(TerminalRow(filled, begun.ticket, TRUE), begun.ticket, TRUE)
        promoted == [c EXCEPT !.publication = done,
                       !.fill = [generation |-> c.generation, ticket |-> begun.ticket]]
    IN  IF begun.fill = None \/ done.rows = None
        THEN Disable(promoted, "staged-row-transfer-failed")
        ELSE [promoted EXCEPT !.stage.promoted = c.generation]

-------------------------------------------------------------------------------
(* The public methods.                                                      *)

Current(v) == co.view # None /\ v = co.view

(* activate(folder); None is a folder the coordinator refuses.              *)
Activate(folder) ==
    LET c == Change(co)
        ownerless == Baseline(DiscardStaging([Deactivate(c) EXCEPT !.change = None]))
    IN  co' = CASE ~MayChange(co) -> c
                [] MayChange(co) /\ folder = None -> ownerless
                [] OTHER ->
                     [Publish(ownerless, ViewGeneration(folder, c.serial, c.serial))
                         EXCEPT !.view = c.serial]

ReplaceContents(v, folder) ==
    LET c == Change(co)
        empty == Baseline([DiscardStaging(c) EXCEPT !.fill = None])
    IN  /\ Current(v)
        /\ co' = CASE co.change # None -> Disable(co, "mixed-contents-change-protocol")
                   [] co.change = None /\ ~MayChange(co) -> c
                   [] co.change = None /\ MayChange(co) /\ folder = None ->
                        Deactivate(empty)
                   [] OTHER -> Publish(empty, ViewGeneration(folder, v, c.serial))

BeginContentsChange(v) ==
    LET c == Change(co)
    IN  /\ Current(v)
        /\ co' = CASE co.change # None -> Disable(co, "overlapping-contents-change")
                   [] co.change = None /\ ~MayChange(co) -> c
                   [] OTHER ->
                        Baseline([DiscardStaging(c) EXCEPT
                            !.publication = ActivateRows(@, None),
                            !.generation = None, !.fill = None,
                            !.change = [view |-> v, epoch |-> c.serial]])

(* The handle of a change is the one of the change in progress.             *)
CurrentChange(e) ==
    /\ co.change # None /\ co.change.epoch = e
    /\ co.change.view = co.view
    /\ co.fatal = None

FinishContentsChange(e, folder, outcome) ==
    LET ended == [co EXCEPT !.change = None]
        c == Baseline(Change(ended))
        public == Publish(c, ViewGeneration(folder, c.view, c.serial))
    IN  /\ CurrentChange(e)
        /\ co' = CASE ~MayChange(ended) -> Change(ended)
                   [] MayChange(ended) /\ outcome = "unknown" ->
                        Disable(c, "unknown-contents-change-outcome")
                   [] MayChange(ended) /\ outcome # "unknown"
                                       /\ (outcome = "failed" \/ folder = None) ->
                        Deactivate(DiscardStaging(c))
                   [] OTHER ->
                        IF ~c.stage.started THEN public
                        ELSE IF ~StageConfirmed(c, e)
                        THEN Disable(c, "unconfirmed-staged-rows")
                        ELSE IF folder # c.stage.scope
                        THEN Disable(c, "staged-scope-mismatch")
                        ELSE Promote(public)

BeginStagedFill(e, folder, total, supported) ==
    LET c == [co EXCEPT !.stage.started = TRUE]
        scoped == [c EXCEPT !.stage.scope = folder]
        g == ViewGeneration(folder, co.view, e)
        active == ActivateRows(co.staging, g)
        begun == BeginFill(active, g, total, supported)
        opened == [scoped EXCEPT
                     !.staging = begun,
                     !.stage.fill = [change |-> e, view |-> co.view, generation |-> g,
                                     ticket |-> begun.ticket]]
    IN  /\ CurrentChange(e)
        /\ co' = CASE co.stage.started -> PoisonStaging(co)
                   [] ~co.stage.started /\ folder = None -> PoisonStaging(c)
                   [] OTHER -> IF Accepted(active, begun) THEN opened
                               ELSE PoisonStaging([scoped EXCEPT !.staging = begun])

AppendStaged(t, identity, confirmed) ==
    /\ CurrentStage(co, t)
    /\ co' = IF Folder[identity] # co.stage.scope
             THEN PoisonStaging(co)
             ELSE Staged(co, AppendRow(co.staging, t, identity, confirmed))

TerminalStaged(t, confirmed) ==
    /\ CurrentStage(co, t)
    /\ co' = Staged(co, TerminalRow(co.staging, t, confirmed))

FinishStagedFill(t, confirmed) ==
    /\ CurrentStage(co, t)
    /\ co' = Staged(co, FinishFill(co.staging, t, confirmed))

InvalidateStagedFill(e) ==
    /\ co.stage.started
    /\ \/ co.change # None /\ co.change.epoch = e
       \/ /\ co.stage.fill # None /\ co.stage.fill.change = e
          /\ CurrentStage(co, co.stage.fill.ticket)
    /\ co' = PoisonStaging(co)

(* close(view): even when the change it makes exhausts the serials.         *)
Close(v) ==
    /\ Current(v)
    /\ co' = Baseline(DiscardStaging([Deactivate(Change(co)) EXCEPT !.change = None]))

(* The public fill of the current generation.                               *)
BeginPublicFill(e, total, supported) ==
    LET begun == BeginFill(co.publication, co.generation, total, supported)
        answered == [co EXCEPT !.publication = begun]
    IN  /\ co.fatal = None
        /\ co.generation # None /\ co.generation.contents_epoch = e
        /\ co' = IF Accepted(co.publication, begun)
                 THEN [answered EXCEPT
                         !.fill = [generation |-> co.generation, ticket |-> begun.ticket]]
                 ELSE Change(answered)

PublicFillEvent(t, publication) ==
    /\ co.fatal = None
    /\ co.fill # None /\ co.fill.ticket = t /\ co.fill.generation = co.generation
    /\ co' = OrChange(co, [co EXCEPT !.publication = publication])

AppendPublic(t, identity, confirmed) ==
    PublicFillEvent(t, AppendRow(co.publication, t, identity, confirmed))
TerminalPublic(t, confirmed) ==
    PublicFillEvent(t, TerminalRow(co.publication, t, confirmed))
FinishPublic(t, confirmed) ==
    PublicFillEvent(t, FinishFill(co.publication, t, confirmed))

(* playback_begin(identity) and, deferred, playback_update_begin().         *)
PlaybackBegin(identity, deferred) ==
    LET c == Change(co)
        begun == BeginPlayback(c.playback, identity, deferred)
        fence == IF begun.ticket # None THEN c.serial ELSE None
    IN  co' = IF ~MayChange(co) THEN c
              ELSE [c EXCEPT !.playback = begun, !.playback_fence = fence]

(* _playback_finished: a publication that found the view gone, the user     *)
(* active, or any event since its BEGIN only moves the baseline.            *)
PlaybackFinished(c, playback, succeeded) ==
    LET answered == [c EXCEPT !.playback = playback, !.playback_fence = None]
    IN  CASE ~playback.ready -> Change(answered)
          [] playback.ready /\ (\/ playback.identity = None
                                \/ c.view = None
                                \/ c.generation = None
                                \/ ManualActive(c)
                                \/ c.playback_fence # c.serial
                                \/ ~succeeded) -> Baseline(answered)
          [] OTHER -> answered

PlaybackFinish(t) ==
    /\ co.fatal = None
    /\ co' = PlaybackFinished(co, FinishPlayback(co.playback, t, None, FALSE), TRUE)

PlaybackUpdateFinish(t, identity, outcome) ==
    /\ co.fatal = None
    /\ co' = IF outcome = "unknown"
             THEN Disable(co, "unknown-playback-update-outcome")
             ELSE PlaybackFinished(co, FinishPlayback(co.playback, t, identity, TRUE),
                                   outcome = "succeeded")

(* interaction(state): a repeated state is not an event.                    *)
Interaction(state) ==
    LET c == Change(co)
    IN  /\ co.fatal = None
        /\ state # co.interaction
        /\ co' = IF ~MayChange(co) THEN c
                 ELSE Baseline([c EXCEPT !.manual_epoch = c.serial, !.interaction = state])

(* uncertain(), which also answers an input state that is not Boolean.      *)
Uncertain ==
    /\ co' = Disable(co, "lost-or-uncertain-event")

Snapshot(c, geometry) ==
    [playback |-> c.playback.identity, view |-> c.generation,
     manual_epoch |-> c.manual_epoch, rows |-> c.publication.rows,
     geometry |-> geometry, manual_active |-> ManualActive(c)]

Blocked(c, v) ==
    \/ Erroneous(c) \/ ~Current(v)
    \/ c.generation = None \/ ~c.playback.ready

(* observe(view, geometry); None is a value that is not a Geometry.         *)
Observation(c, v, geometry) ==
    IF Blocked(c, v) \/ geometry = None
    THEN [model |-> IF Blocked(c, v) THEN c.model ELSE Baseline(c).model, action |-> None]
    ELSE Observe(c.model, Snapshot(c, geometry))

ObserveView(v, geometry) ==
    LET seen == Observation(co, v, geometry)
    IN  co' = [co EXCEPT
                 !.model = seen.model,
                 !.issued = IF seen.action = None THEN None
                            ELSE [action |-> seen.action, fence |-> co.serial,
                                  revision |-> co.playback.revision]]

(* consume's checks before the caller may act.                              *)
Consumable(r, v, geometry) ==
    /\ co.issued # None /\ co.issued.revision = r
    /\ ~Erroneous(co)
    /\ Current(v)
    /\ co.generation # None /\ co.change = None
    /\ co.playback.ready
    /\ ~ManualActive(co)
    /\ geometry # None
    /\ co.issued.fence = co.serial
    /\ co.issued.revision = co.playback.revision
    /\ ValidAction(co.issued.action, Snapshot(co, geometry))

(* consume(proposal, view, geometry): every attempt uses the proposal up.   *)
Consume(r, v, geometry) == co' = [co EXCEPT !.issued = None]

(* The handles callers present. A method that ignores a stale handle only   *)
(* stutters on it, so it is called with those in force; where a stale or    *)
(* forged handle does have an effect, Stale stands for all of them.         *)
InForce(handles) == handles \ {None}
Presented(handles) == Stale \cup InForce(handles)

Views == InForce({co.view})
Changes == InForce({IF co.change = None THEN None ELSE co.change.epoch,
                    IF co.stage.fill = None THEN None ELSE co.stage.fill.change})
StagedFills == InForce({IF co.stage.fill = None THEN None ELSE co.stage.fill.ticket})
Fills == InForce({IF co.fill = None THEN None ELSE co.fill.ticket})
OpenGenerations ==
    InForce({IF co.generation = None THEN None ELSE co.generation.contents_epoch})
Proposals == IF co.issued = None THEN {} ELSE Presented({co.issued.revision})

ViewStep ==
    \/ \E folder \in Scopes : Activate(folder)
    \/ \E v \in Views :
          \/ \E folder \in Scopes : ReplaceContents(v, folder)
          \/ BeginContentsChange(v)
          \/ Close(v)
    \/ \E e \in Changes, folder \in Scopes, outcome \in Outcomes :
          FinishContentsChange(e, folder, outcome)

StagedStep ==
    \/ \E e \in Changes, folder \in Scopes, total \in Totals, supported \in Confirmations :
          BeginStagedFill(e, folder, total, supported)
    \/ \E t \in StagedFills, confirmed \in Confirmations :
          \/ \E identity \in Tracks : AppendStaged(t, identity, confirmed)
          \/ TerminalStaged(t, confirmed)
          \/ FinishStagedFill(t, confirmed)
    \/ \E e \in Changes : InvalidateStagedFill(e)

FillStep ==
    \/ \E e \in OpenGenerations, total \in Totals, supported \in Confirmations :
          BeginPublicFill(e, total, supported)
    \/ \E t \in Fills, confirmed \in Confirmations :
          \/ \E identity \in Tracks : AppendPublic(t, identity, confirmed)
          \/ TerminalPublic(t, confirmed)
          \/ FinishPublic(t, confirmed)

PlaybackStep ==
    \/ \E identity \in Identities : PlaybackBegin(identity, FALSE)
    \/ PlaybackBegin(None, TRUE)
    \/ \E t \in Presented({co.playback.ticket}) :
          \/ PlaybackFinish(t)
          \/ \E identity \in Identities, outcome \in Outcomes :
                PlaybackUpdateFinish(t, identity, outcome)

(* The histories: counts start over with a new playback revision.           *)
Record(proposed, revealed) ==
    LET fresh == co'.playback.revision # co.playback.revision
    IN  /\ undisturbed' = \/ co'.playback.ticket \notin {None, co.playback.ticket}
                          \/ undisturbed /\ co'.serial = co.serial
        /\ proposals' = IF fresh THEN 0 ELSE proposals + proposed
        /\ reveals' = IF fresh THEN 0 ELSE reveals + revealed

Next ==
    \/ /\ \/ ViewStep
          \/ StagedStep
          \/ FillStep
          \/ PlaybackStep
          \/ \E state \in Interactions : Interaction(state)
          \/ Uncertain
       /\ Record(0, 0)
    \/ \E v \in Presented(Views), geometry \in Samples :
          /\ ObserveView(v, geometry)
          /\ Record(IF Observation(co, v, geometry).action = None THEN 0 ELSE 1, 0)
    \/ \E r \in Proposals, v \in Presented(Views), geometry \in Samples :
          /\ Consume(r, v, geometry)
          /\ Record(0, IF Consumable(r, v, geometry) THEN 1 ELSE 0)

Spec == Init /\ [][Next]_vars

-------------------------------------------------------------------------------

(* A proposal that is still issued is one that consume would accept for the *)
(* geometry it was computed from: every event that could make it wrong also *)
(* withdrew it. Nothing at all happened since the BEGIN of the playback     *)
(* mutation that published its track - not even an event that was undone.   *)
IssuedIsCurrent ==
    co.issued # None =>
        /\ Consumable(co.issued.revision, co.view, co.issued.action.geometry)
        /\ undisturbed

(* Each playback publication is proposed for at most once, however often it *)
(* is observed, and a proposal is accepted at most once, however often it is*)
(* presented: what was acted on cannot be acted on again.                   *)
OneRevealPerPublication ==
    /\ reveals <= proposals /\ proposals <= 1
    /\ co.issued # None => proposals = 1 /\ reveals = 0

(* Rows are public only for the current generation of the current owner:    *)
(* none during a contents change, and none of a poisoned producer. An owner *)
(* without a change in progress always has a generation (replace_contents   *)
(* reads its folder), and the public collector agrees on which.             *)
RowsFollowGeneration ==
    /\ co.publication.rows # None =>
         /\ co.generation # None
         /\ co.publication.rows.generation = co.generation
         /\ ~co.stage.error
    /\ co.view # None => (co.generation = None <=> co.change # None)
    /\ co.generation # None =>
         /\ co.generation.view_epoch = co.view
         /\ co.publication.view = co.generation
    /\ co.view = None => co.generation = None /\ co.change = None

(* A staged fill that passed all the checks of the change's END is always   *)
(* promoted: the replay through the public collector cannot fail, and the   *)
(* collectors' tickets never run out before the serials do.                 *)
PromotionNeverFails == co.fatal # "staged-row-transfer-failed"

(* The playback publication is a bracket of mutations too: the guard's      *)
(* counterpart on the host, under the coordinator's events.                 *)
Bracket == INSTANCE MutationBracket WITH
    last <- IF co.playback.error THEN 0 ELSE co.playback.revision,
    open <- co.playback.ticket # None,
    failed <- co.playback.error

PlaybackBrackets == Bracket!Spec
=============================================================================

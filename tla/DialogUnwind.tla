------------------------------ MODULE DialogUnwind ------------------------------
(****************************************************************************)
(* What happens between the retention gate and the failures it quarantines: *)
(* the stock frames of a dialog (native 47C740), its callback, the wrapper, *)
(* the refresh and the destructor it reaches, and of an explorer and its    *)
(* constructor. Stock code ignores the results of these calls; each gate    *)
(* file rewrites saved return addresses so that a failure leaves a frame by *)
(* its epilogue instead of by the code behind the call.                     *)
(*                                                                          *)
(* calls[p] holds the stock frames of p, innermost last. They are p's own,  *)
(* so a helper that touches nothing shared is one action. Calls of guarded  *)
(* entries from inside these frames are left out: the word refuses them, or *)
(* they are those of a thread that has no such frames.                      *)
(****************************************************************************)
EXTENDS RetentionGate, FiniteSets

CONSTANT MaxFrames      \* bound: the stock frames of all threads together

VARIABLES
    calls,          \* calls[p]: the stock frames of p above those of the gate
    strayed,        \* history: the frames that went on behind a call although a
                    \* failure was on its way to them, or stopped without one
    retained        \* history: the threads that left a dialog without cleanup

unwindVars == <<calls, strayed, retained>>
dialogVars == <<vars, unwindVars>>

(* The frame a helper expects below each frame, by its saved return address.*)
Caller == [callback |-> "dialog", wrapper |-> "callback", refresh |-> "wrapper",
           destructor |-> "refresh", constructor |-> "explorer"]

(* Bound: stock frames nest in these orders, from any of them on.           *)
Orders == {<<"dialog", "callback", "wrapper", "refresh", "destructor">>,
           <<"explorer", "constructor">>}

Nested(below, above) ==
    \E order \in Orders : \E i \in 2 .. Len(order) :
        order[i - 1] = below /\ order[i] = above

(* Frames that wait for a raw service and its witness.                      *)
Witnessed == {"dialog", "destructor"}

FrameCount == Cardinality(UNION {{q} \X DOMAIN calls[q] : q \in Threads})

Inner(p) == calls[p][Len(calls[p])]
Outside(p) == calls[p] = <<>>

(* p executes the stock code of its innermost frame, which waits for nothing.*)
InFrame(p, kind) ==
    /\ pc[p] = "native"
    /\ ~Outside(p)
    /\ Inner(p).kind = kind

(* A native call: from the place whose return address the helpers know, or  *)
(* from any other code. The tag of a fresh witness is ARMED.                *)
Call(p, kind, ra) ==
    /\ FrameCount < MaxFrames
    /\ RunsFreely(p)
    /\ ~Outside(p) => /\ Inner(p).at = "body"
                      /\ Inner(p).tag \in {"none", "admitted"}
                      /\ Nested(Inner(p).kind, kind)
    /\ ra = "known" => IF kind \in DOMAIN Caller
                       THEN ~Outside(p) /\ Inner(p).kind = Caller[kind]
                       ELSE /\ kind = "dialog" /\ Outside(p)
                            /\ frames[p] # <<>> /\ Top(p).kind \in {"poll", "close"}
    /\ calls' = [calls EXCEPT ![p] = Append(@,
           [kind |-> kind, ra |-> ra, at |-> "body", raw |-> "none", doomed |-> FALSE,
            tag |-> IF kind \in Witnessed THEN "armed" ELSE "none"])]
    /\ UNCHANGED <<vars, strayed, retained>>

(* A failure in the innermost frame concerns it and every frame it reaches  *)
(* through calls the helpers know.                                          *)
Doom(stack) ==
    [i \in DOMAIN stack |->
        IF \A j \in i + 1 .. Len(stack) : stack[j].ra = "known"
        THEN [stack[i] EXCEPT !.doomed = TRUE] ELSE stack[i]]

(* CAPTURED and raw zero, which the gate behind a raw service asks for.     *)
Captured(f) == f.tag = "captured" /\ f.raw = "zero"

(* A raw service answers; a bridge that does not recognise its frame, the   *)
(* argument or the service clears the tag.                                  *)
Serviced(p) ==
    /\ Inner(p).tag = "armed"
    /\ \E raw \in {"zero", "error"}, seen \in BOOLEAN :
        LET after == [calls[p] EXCEPT ![Len(calls[p])] =
                          [@ EXCEPT !.tag = IF seen THEN "captured" ELSE "cleared",
                                    !.raw = raw]]
        IN  calls' = [calls EXCEPT ![p] =
                          IF raw = "zero" /\ seen THEN after ELSE Doom(after)]
    /\ UNCHANGED <<vars, strayed, retained>>

(* raw_call and raw_return of the dialog's acquisition.                     *)
RawAcquire(p) == InFrame(p, "dialog") /\ Serviced(p)

(* release_select, raw_release_call and raw_release_return of the deletion, *)
(* whose own frame is gone by then: the witness is in the destructor's.     *)
RawRelease(p) == InFrame(p, "destructor") /\ Serviced(p)

Answered(f) == f.tag \in {"captured", "cleared"}

(* gate_admitted of the dialog, gate_forward of the destructor.             *)
Admitted(p, kind) ==
    /\ InFrame(p, kind)
    /\ Answered(Inner(p)) /\ Captured(Inner(p))
    /\ calls' = [calls EXCEPT ![p][Len(calls[p])] =
                     [@ EXCEPT !.tag = "admitted", !.raw = "none"]]
    /\ UNCHANGED <<vars, strayed, retained>>

DialogAdmitted(p) == Admitted(p, "dialog")
DestructorForwards(p) == Admitted(p, "destructor")

-------------------------------------------------------------------------------

(* A rewritten return address leads to an abort thunk.                      *)
Retarget(ra) == IF ra = "known" THEN "abort" ELSE ra

(* Where the frame below goes on when the innermost one returns: behind the *)
(* known call, in the abort thunk, or in code that is not modelled.         *)
Return(stack, behind) ==
    LET rest == SubSeq(stack, 1, Len(stack) - 1)
        ra == stack[Len(stack)].ra
    IN  IF ra = "other" \/ rest = <<>>
        THEN rest
        ELSE [rest EXCEPT ![Len(rest)].at = IF ra = "abort" THEN "abort" ELSE behind]

(* The innermost frame leaves by its epilogue, skipping what follows.       *)
Stops(p, stack, behind) ==
    /\ calls' = [calls EXCEPT ![p] = Return(stack, behind)]
    /\ strayed' = strayed \cup {k \in {stack[Len(stack)].kind} : ~stack[Len(stack)].doomed}
    /\ UNCHANGED <<vars, retained>>

(* The registry's acquire gate refused the deletion: nothing was released,  *)
(* and the destructor's gate_stopped skips the remaining cleanup.           *)
DeleteRefused(p) ==
    /\ InFrame(p, "destructor")
    /\ Inner(p).tag = "armed"
    /\ Stops(p, Doom(calls[p]), "error")

(* complete_denied: raw error, or no witness of a raw zero.                 *)
DestructorStops(p) ==
    /\ InFrame(p, "destructor")
    /\ Answered(Inner(p)) /\ ~Captured(Inner(p))
    /\ Stops(p, calls[p], "error")

(* Mutant: the wrapper's return is left alone.                              *)
RewriteOne(stack) ==
    [stack EXCEPT ![Len(stack)].ra = Retarget(@)]

(* The wrapper helper rewrites the refresh's return; when that was the      *)
(* wrapper's, the callback helper rewrites the wrapper's as well.           *)
Rewrite(stack) ==
    LET last == Len(stack)
    IN  [i \in DOMAIN stack |->
            IF i = last \/ (i = last - 1 /\ stack[last].ra = "known")
            THEN [stack[i] EXCEPT !.ra = Retarget(@)] ELSE stack[i]]

(* gate_stopped behind the destructor: no view is created again.            *)
RefreshStops(p) ==
    /\ InFrame(p, "refresh")
    /\ Inner(p).at = "error"
    /\ Stops(p, Rewrite(calls[p]), "body")

(* abort_return: the epilogue alone.                                        *)
Aborts(p, kind) ==
    /\ InFrame(p, kind)
    /\ Inner(p).at = "abort"
    /\ Stops(p, calls[p], "body")

WrapperAborts(p) == Aborts(p, "wrapper")
ExplorerAborts(p) == Aborts(p, "explorer")

(* The abort thunk of a callback: first_scope or second_scope rewrites the  *)
(* return into the dialog before the epilogue.                              *)
CallbackAborts(p) ==
    /\ InFrame(p, "callback")
    /\ Inner(p).at = "abort"
    /\ Stops(p, [calls[p] EXCEPT ![Len(calls[p])].ra = Retarget(@)], "body")

(* A nonzero registration: the constructor gate skips the work behind it,   *)
(* and the explorer helper rewrites the constructor's return.               *)
RegistrationFails(p) ==
    /\ InFrame(p, "constructor")
    /\ Stops(p, [Doom(calls[p]) EXCEPT ![Len(calls[p])].ra = Retarget(@)], "body")

-------------------------------------------------------------------------------

(* A failed dialog skips its cleanup; the retarget of its return makes poll *)
(* or close skip the unlink and the free behind the call.                   *)
LeavesRetained(p) ==
    /\ LET back == Retarget(Inner(p).ra)
       IN  /\ IF back = "abort"
              THEN InnerReturns(p, frames[p], "error")
              ELSE UNCHANGED frames
           /\ strayed' = strayed \cup {k \in {"dialog"} : ~Inner(p).doomed}
                                 \cup {k \in {"consumer"} : back = "known"}
    /\ calls' = [calls EXCEPT ![p] = Return(@, "body")]
    /\ retained' = retained \cup {p}
    /\ UNCHANGED <<pc, entering, left, masked>>

(* Mutant: a route leaves the word to the consumer that claimed it.         *)
StoreUnlessBusy == IF word = "BUSY" THEN UNCHANGED <<word, link>> ELSE Store("QUARANTINED")

(* quarantine, the plain store of both routes.                              *)
Quarantines == Store("QUARANTINED")

(* gate_denied, continued by deny_entry.                                    *)
DialogDenied(p) ==
    /\ InFrame(p, "dialog")
    /\ Answered(Inner(p)) /\ ~Captured(Inner(p))
    /\ Quarantines
    /\ LeavesRetained(p)

(* error_return, which callback_entry replaces: nothing is unlocked.        *)
DialogAborts(p) ==
    /\ InFrame(p, "dialog")
    /\ Inner(p).at = "abort"
    /\ Quarantines
    /\ LeavesRetained(p)

(* The stock code behind the last call of a frame: the cleanup, destruction *)
(* and free of a dialog and its consumer, the new view of a refresh, the    *)
(* overwritten result of a wrapper, the freed context of a callback.        *)
Finishes(p) ==
    /\ pc[p] = "native"
    /\ ~Outside(p)
    /\ Inner(p).at = "body"
    /\ Inner(p).tag \in {"none", "admitted"}
    /\ calls' = [calls EXCEPT ![p] = Return(@, "body")]
    /\ strayed' = strayed \cup {k \in {Inner(p).kind} : Inner(p).doomed}
    /\ UNCHANGED <<vars, retained>>

DialogInit ==
    /\ Init
    /\ calls = [p \in Threads |-> <<>>]
    /\ strayed = {}
    /\ retained = {}

(* The gate's own steps; its error routes are the two above.                *)
GateStep(p) ==
    /\ \/ Outside(p) /\ \E kind \in Kinds : Enter(p, kind)
       \/ EnterLL(p)
       \/ EnterSC(p)
       \/ EnterSCFails(p)
       \/ Outside(p) /\ InnerClose(p)
       \/ Outside(p) /\ LeaveBorrowed(p)
       \/ Outside(p) /\ Leave(p)
       \/ LeaveLL(p)
       \/ LeaveSC(p)
       \/ LeaveSCFails(p)
       \/ LeaveQuarantined(p)
    /\ UNCHANGED unwindVars

FrameKinds == {"dialog", "explorer"} \cup DOMAIN Caller

DialogNext ==
    \E p \in Threads :
        \/ GateStep(p)
        \/ \E kind \in FrameKinds, ra \in {"known", "other"} : Call(p, kind, ra)
        \/ RawAcquire(p)
        \/ RawRelease(p)
        \/ DialogAdmitted(p)
        \/ DestructorForwards(p)
        \/ DeleteRefused(p)
        \/ DestructorStops(p)
        \/ RefreshStops(p)
        \/ WrapperAborts(p)
        \/ ExplorerAborts(p)
        \/ CallbackAborts(p)
        \/ RegistrationFails(p)
        \/ DialogDenied(p)
        \/ DialogAborts(p)
        \/ Finishes(p)

DialogSpec == DialogInit /\ [][DialogNext]_dialogVars

-------------------------------------------------------------------------------

(* "skips" of the seven gates, taken together: a frame goes on behind its   *)
(* call, cleaning up, freeing or creating, unless a failure is on its way   *)
(* to it through known calls, however many frames the failure has crossed;  *)
(* and a frame that none is on its way to is never cut short.               *)
StopsTheWholeChain == strayed = {}

(* "permanently quarantine": once a dialog was left with a mutex nobody can *)
(* vouch for, no consumer is admitted to the list it is still on.           *)
RetainedIsQuarantined == retained # {} => word = "QUARANTINED"
=============================================================================

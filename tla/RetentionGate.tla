----------------------------- MODULE RetentionGate -----------------------------
(****************************************************************************)
(* The control word that reveal_dialog_retention_gate_mips.py and           *)
(* reveal_factory_admission_gate_mips.py put in front of the dialog's two   *)
(* consumers (poll, close), of the close facade and of the factories.       *)
(*                                                                          *)
(* Every access to the shared word is an action; what a thread does with    *)
(* its own registers and frame belongs to the access before it. frames[p]   *)
(* holds the native frames of admitted bodies, innermost last; a body may   *)
(* call any guarded entry again, and any native code may meet the error     *)
(* that quarantines the word.                                               *)
(****************************************************************************)
EXTENDS Naturals, Sequences

CONSTANTS
    Threads,        \* the threads that run native code
    Retries         \* retry_limit, the LL/SC attempts of one entry or leave

ASSUME RetriesAssumption == Retries \in Nat \ {0}

VARIABLES
    word,           \* the guard word: READY, BUSY or QUARANTINED
    link,           \* link[p]: p's LL reservation still stands
    pc,             \* pc[p]: native code, or p's next access to the word
    entering,       \* entering[p]: the entry whose claim p attempts
    left,           \* left[p]: register t4, the attempts p has left
    frames,         \* frames[p]: the admitted frames of p
    masked          \* history: what the native V0 = 0 of the facade replaced

vars == <<word, link, pc, entering, left, frames, masked>>

Kinds == {"poll", "close", "factory", "facade"}
Labels == {"native", "enter_ll", "enter_sc", "leave_ll", "leave_sc", "quarantine"}
Results == {"pending", "native", "error"}
Frames == [kind : Kinds, stamp : {"own", "borrowed"}, result : Results]

(* A fresh frame: the facade still has to run its inner close.              *)
Frame(kind, stamp) ==
    [kind |-> kind, stamp |-> stamp,
     result |-> IF kind = "facade" THEN "pending" ELSE "native"]

Top(p) == frames[p][Len(frames[p])]
Pop(p) == SubSeq(frames[p], 1, Len(frames[p]) - 1)

Init ==
    /\ word = "READY"
    /\ link = [p \in Threads |-> FALSE]
    /\ pc = [p \in Threads |-> "native"]
    /\ entering = [p \in Threads |-> "poll"]
    /\ left = [p \in Threads |-> 0]
    /\ frames = [p \in Threads |-> <<>>]
    /\ masked = {}

(* Native code that may call anything: outside the gate, or in a body. The  *)
(* facade's body calls its inner close only, and a body whose return was    *)
(* retargeted by an error goes straight to its epilogue.                    *)
RunsFreely(p) ==
    /\ pc[p] = "native"
    /\ frames[p] # <<>> => Top(p).kind # "facade" /\ Top(p).result # "error"

(* A store to the word ends every reservation on it.                        *)
Store(w) ==
    /\ word' = w
    /\ link' = [p \in Threads |-> FALSE]

(* The registers of the helper are dead once it returns to native code.     *)
ToNative(p) ==
    /\ pc' = [pc EXCEPT ![p] = "native"]
    /\ entering' = [entering EXCEPT ![p] = "poll"]
    /\ left' = [left EXCEPT ![p] = 0]

(* poll_enter, close_enter on its own behalf, facade_enter, enter.          *)
Enter(p, kind) ==
    /\ RunsFreely(p)
    /\ pc' = [pc EXCEPT ![p] = "enter_ll"]
    /\ entering' = [entering EXCEPT ![p] = kind]
    /\ left' = [left EXCEPT ![p] = Retries]
    /\ UNCHANGED <<word, link, frames, masked>>

(* Any nonzero word refuses: the caller gets -1, or NULL from a factory.    *)
Denied(w) == w # "READY"

EnterLL(p) ==
    /\ pc[p] = "enter_ll"
    /\ IF Denied(word)
       THEN /\ ToNative(p)
            /\ UNCHANGED link
       ELSE /\ link' = [link EXCEPT ![p] = TRUE]
            /\ pc' = [pc EXCEPT ![p] = "enter_sc"]
            /\ UNCHANGED <<entering, left>>
    /\ UNCHANGED <<word, frames, masked>>

(* The claim, and the stamp in the frame the native prologue is to build.   *)
EnterSC(p) ==
    /\ pc[p] = "enter_sc"
    /\ link[p]
    /\ Store("BUSY")
    /\ frames' = [frames EXCEPT ![p] = Append(@, Frame(entering[p], "own"))]
    /\ ToNative(p)
    /\ UNCHANGED masked

(* The last failed attempt is refused like a busy word.                     *)
EnterSCFails(p) ==
    /\ pc[p] = "enter_sc"
    /\ link' = [link EXCEPT ![p] = FALSE]
    /\ IF left[p] = 1
       THEN ToNative(p)
       ELSE /\ left' = [left EXCEPT ![p] = @ - 1]
            /\ pc' = [pc EXCEPT ![p] = "enter_ll"]
            /\ UNCHANGED entering
    /\ UNCHANGED <<word, frames, masked>>

-------------------------------------------------------------------------------

(* What the inner close returns to the facade's frame.                      *)
InnerReturns(p, rest, result) ==
    frames' = [frames EXCEPT ![p] = [rest EXCEPT ![Len(rest)].result = result]]

(* Mutant: the inner close marks its frame as the owner of the claim.       *)
BorrowedStampOwn == "own"

(* The stamp of a close that runs on its facade's claim.                    *)
BorrowedStamp == "borrowed"

(* close_enter called by the facade: NULL returns at once; a word that is   *)
(* still BUSY is borrowed; any other refuses with an error.                 *)
InnerClose(p) ==
    /\ pc[p] = "native"
    /\ frames[p] # <<>>
    /\ Top(p).kind = "facade" /\ Top(p).result = "pending"
    /\ \/ InnerReturns(p, frames[p], "native")
       \/ /\ word = "BUSY"
          /\ frames' = [frames EXCEPT ![p] = Append(@, Frame("close", BorrowedStamp))]
       \/ /\ word # "BUSY"
          /\ InnerReturns(p, frames[p], "error")
    /\ UNCHANGED <<word, link, pc, entering, left, masked>>

(* close_leave on a borrowed stamp touches its own frame only.              *)
LeaveBorrowed(p) ==
    /\ pc[p] = "native"
    /\ frames[p] # <<>>
    /\ Top(p).stamp = "borrowed"
    /\ InnerReturns(p, Pop(p), Top(p).result)
    /\ UNCHANGED <<word, link, pc, entering, left, masked>>

(* The tails of poll, close, factory and facade on their own stamp. The     *)
(* frame counts as admitted until the tail returns.                         *)
Leave(p) ==
    /\ pc[p] = "native"
    /\ frames[p] # <<>>
    /\ Top(p).stamp = "own"
    /\ Top(p).result # "pending"
    /\ pc' = [pc EXCEPT ![p] = "leave_ll"]
    /\ left' = [left EXCEPT ![p] = Retries]
    /\ UNCHANGED <<word, link, entering, frames, masked>>

(* The facade's normal tail: stock code then clears V0.                     *)
Mask(p) ==
    masked' = IF Top(p).kind = "facade" THEN masked \cup {Top(p).result} ELSE masked

(* Mutant: the facade's tail handles a lost word as the other tails do.     *)
NeverFaults(p) == FALSE

(* facade_leave takes a word that is not BUSY for a fault.                  *)
Faults(p) == Top(p).kind = "facade"

LeaveLL(p) ==
    /\ pc[p] = "leave_ll"
    /\ IF word = "BUSY"
       THEN /\ link' = [link EXCEPT ![p] = TRUE]
            /\ pc' = [pc EXCEPT ![p] = "leave_sc"]
            /\ UNCHANGED <<entering, left, frames, masked>>
       ELSE IF Faults(p)
       THEN /\ pc' = [pc EXCEPT ![p] = "quarantine"]
            /\ UNCHANGED <<link, entering, left, frames, masked>>
       ELSE /\ ToNative(p)
            /\ frames' = [frames EXCEPT ![p] = Pop(p)]
            /\ Mask(p)
            /\ UNCHANGED link
    /\ UNCHANGED word

LeaveSC(p) ==
    /\ pc[p] = "leave_sc"
    /\ link[p]
    /\ Store("READY")
    /\ frames' = [frames EXCEPT ![p] = Pop(p)]
    /\ Mask(p)
    /\ ToNative(p)

(* Mutant: a tail that runs out of attempts returns without a quarantine.   *)
GiveUpSilently(p) ==
    /\ ToNative(p)
    /\ frames' = [frames EXCEPT ![p] = Pop(p)]

(* A tail that runs out of attempts still owns BUSY and quarantines it.     *)
GiveUp(p) ==
    /\ pc' = [pc EXCEPT ![p] = "quarantine"]
    /\ UNCHANGED <<entering, left, frames>>

LeaveSCFails(p) ==
    /\ pc[p] = "leave_sc"
    /\ link' = [link EXCEPT ![p] = FALSE]
    /\ IF left[p] = 1
       THEN GiveUp(p)
       ELSE /\ left' = [left EXCEPT ![p] = @ - 1]
            /\ pc' = [pc EXCEPT ![p] = "leave_ll"]
            /\ UNCHANGED <<entering, frames>>
    /\ UNCHANGED <<word, masked>>

(* The plain store of a tail that could not release; the facade then skips  *)
(* the native V0 = 0.                                                       *)
LeaveQuarantined(p) ==
    /\ pc[p] = "quarantine"
    /\ Store("QUARANTINED")
    /\ frames' = [frames EXCEPT ![p] = Pop(p)]
    /\ ToNative(p)
    /\ UNCHANGED masked

-------------------------------------------------------------------------------

(* callback_entry and deny_entry, on any thread that runs native code. When *)
(* the dialog's caller is poll or close, its return goes to that caller's   *)
(* epilogue with the error; any other caller keeps its return.              *)
ErrorRoute(p) ==
    /\ RunsFreely(p)
    /\ Store("QUARANTINED")
    /\ \/ UNCHANGED frames
       \/ /\ frames[p] # <<>>
          /\ Top(p).kind \in {"poll", "close"}
          /\ InnerReturns(p, frames[p], "error")
    /\ UNCHANGED <<pc, entering, left, masked>>

Next ==
    \E p \in Threads :
        \/ \E kind \in Kinds : Enter(p, kind)
        \/ EnterLL(p)
        \/ EnterSC(p)
        \/ EnterSCFails(p)
        \/ InnerClose(p)
        \/ LeaveBorrowed(p)
        \/ Leave(p)
        \/ LeaveLL(p)
        \/ LeaveSC(p)
        \/ LeaveSCFails(p)
        \/ LeaveQuarantined(p)
        \/ ErrorRoute(p)

Spec == Init /\ [][Next]_vars

-------------------------------------------------------------------------------

(* Reentry never piles frames up: a thread has at most one claim, and above *)
(* it at most the close that its facade's claim admits.                     *)
TypeOK ==
    /\ word \in {"READY", "BUSY", "QUARANTINED"}
    /\ link \in [Threads -> BOOLEAN]
    /\ pc \in [Threads -> Labels]
    /\ entering \in [Threads -> Kinds]
    /\ left \in [Threads -> 0 .. Retries]
    /\ frames \in [Threads -> Seq(Frames)]
    /\ \A p \in Threads : Len(frames[p]) <= 2
    /\ masked \subseteq Results

(* The threads whose body was admitted.                                     *)
Owners == {p \in Threads : frames[p] # <<>>}

(* A word that stays BUSY refuses the dialog for ever, so BUSY always has a *)
(* thread that will leave: no claim is lost by a refusal or a failed tail.  *)
BusyHasOwner == word = "BUSY" => Owners # {}

(* Bodies exclude each other, a borrowed claim is not given back before its *)
(* facade is done, and nothing enters once the word was quarantined.        *)
Lock == INSTANCE RetentionLock WITH
    owners <- Owners,
    quarantined <- word = "QUARANTINED"

LockSpec == Lock!Spec

(* "it cannot ... mask a quarantined child's error result": stock code      *)
(* clears the facade's result, but never one that carries an error.         *)
ErrorsAreReported == "error" \notin masked
=============================================================================

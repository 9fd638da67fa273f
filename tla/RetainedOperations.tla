-------------------------- MODULE RetainedOperations --------------------------
(****************************************************************************)
(* The ledger of reveal_retained_operations_mips.py: every operation that   *)
(* enters its FIFO stays outstanding until its paint work was acknowledged, *)
(* and only a closed ledger without outstanding operations may ask the paint*)
(* queue whether the owner is drained, and reserve the one cleanup intent.  *)
(*                                                                          *)
(* Its mutex M is never held across a call into the paint queue, so each    *)
(* entry is a chain of steps: a body under M, the release, a paint call,    *)
(* and for some a second body that writes the answer down. A body is atomic *)
(* under M. Every service may fail: M, the native list, the paint queue.    *)
(*                                                                          *)
(* Copied records, captures and addresses are left out: a packet is the     *)
(* token of its operation. A raw status ends a call; its caller is told, and*)
(* has to isolate the instance, but the model lets everybody go on.         *)
(****************************************************************************)
EXTENDS PaintContract, Sequences, FiniteSets

CONSTANTS
    Threads,        \* the threads that call the entries
    Operations,     \* operation_capacity, of the ledger
    Capacity        \* retained_capacity, of the native FIFO

ASSUME OperationsAssumption == Operations \in Nat \ {0} /\ Capacity \in Nat \ {0}
ASSUME ThreadsAssumption == "free" \notin Threads /\ "stuck" \notin Threads
ASSUME TicketsAssumption == TicketLimit \in Nat \ {0}

VARIABLES
    bound,          \* BIND_STATE
    fault,          \* FAULT
    ledger,         \* the rows: token -> [state, nonce]
    fifo,           \* the retained native list, of tokens
    intent,         \* the cleanup intent word
    mutex,          \* M: "free", its holder, or "stuck" after a failed service
    pc,             \* pc[t]: where the call of t is between two steps
    next,           \* next[t]: where it goes when it has released M
    token,          \* token[t]: PRIVATE_TOKEN, or 0
    nonce,          \* nonce[t]: PRIVATE_NONCE, or 0
    preparing,      \* preparing[t]: the barrier is called by prepare_cleanup
    failed,         \* history: a service of the ledger failed
    quiet,          \* history: a caller was told that all is quiescent
    exported        \* history: how many intents were exported

words == <<bound, fault, ledger, fifo, intent>>
locals == <<token, nonce, preparing>>
history == <<failed, quiet, exported>>
vars == <<paint, words, mutex, pc, next, locals, history>>

Init ==
    /\ NewPaint
    /\ bound = "unbound"
    /\ fault = FALSE
    /\ ledger = <<>>
    /\ fifo = <<>>
    /\ intent = FALSE
    /\ mutex = "free"
    /\ pc = [t \in Threads |-> "outside"]
    /\ next = [t \in Threads |-> "outside"]
    /\ token = [t \in Threads |-> 0]
    /\ nonce = [t \in Threads |-> 0]
    /\ preparing = [t \in Threads |-> FALSE]
    /\ failed = FALSE
    /\ quiet = FALSE
    /\ exported = 0

-------------------------------------------------------------------------------
(* The call of a thread, from step to step.                                 *)

Goes(t, label) == pc' = [pc EXCEPT ![t] = label] /\ UNCHANGED <<next, locals>>

(* restore: back to the caller, whose thread forgets the frame.             *)
Returns(t) ==
    /\ pc' = [pc EXCEPT ![t] = "outside"]
    /\ next' = [next EXCEPT ![t] = "outside"]
    /\ token' = [token EXCEPT ![t] = 0]
    /\ nonce' = [nonce EXCEPT ![t] = 0]
    /\ preparing' = [preparing EXCEPT ![t] = FALSE]

(* acquire, in front of a body; the body says what follows its release.     *)
Acquires(t, from, to) ==
    /\ mutex = "free"
    /\ pc[t] = from
    /\ mutex' = t
    /\ pc' = [pc EXCEPT ![t] = "release"]
    /\ next' = [next EXCEPT ![t] = to]

Keeps == UNCHANGED locals

(* The labels at which a call takes M.                                      *)
Acquiring == {"outside", "rebind", "acked", "barrier"}

(* validate_locked: what every body requires of the ledger. The header of   *)
(* the native list is the list's own and only wrong when the list failed.   *)
NoncesMatchStates ==
    \A k \in DOMAIN ledger :
        /\ ledger[k].state \in {"published", "acking"} => ledger[k].nonce # 0
        /\ ledger[k].state \in {"reserved", "queued", "extracted"} => ledger[k].nonce = 0

NoncesDiffer ==
    \A k, l \in DOMAIN ledger :
        ledger[k].nonce # 0 /\ ledger[k].nonce = ledger[l].nonce => k = l

Valid ==
    /\ Len(fifo) <= Capacity
    /\ Len(ledger) <= Operations
    /\ bound = "unbound" => fifo = <<>> /\ ledger = <<>>
    /\ NoncesMatchStates
    /\ NoncesDiffer

Body(t, from, to) == Acquires(t, from, to) /\ Valid /\ ~fault

(* Mutant: an empty list is taken for the end of all operations.            *)
NothingListed == fifo = <<>>

(* All that was ever accepted is over: nothing listed, every operation done.*)
Idle == fifo = <<>> /\ \A k \in DOMAIN ledger : ledger[k].state = "done"

(* What quiescent and prepare_cleanup require under M.                      *)
Quiescible == bound = "closed" /\ Idle

(* A body that changes nothing. Called anew, some entry is refused in every *)
(* state of the words; a call under way (whose barrier stays quiescible) is *)
(* refused only by a fault, an earlier one or that of an invalid ledger.    *)
Refused(t) ==
    \E from \in Acquiring :
        /\ Acquires(t, from, "outside")
        /\ from # "outside" => fault \/ ~Valid
        /\ fault' = (fault \/ ~Valid)
        /\ Keeps
        /\ UNCHANGED <<paint, bound, ledger, fifo, intent, history>>

(* The fault handlers: the latch, and a release that returns nothing.       *)
Faults(t, from, sound) ==
    /\ Acquires(t, from, "outside")
    /\ fault' = TRUE
    /\ failed' = (failed \/ sound)
    /\ Keeps
    /\ UNCHANGED <<paint, bound, intent, quiet, exported>>

(* A list header that no longer fits, found by an entry at its start.       *)
HeaderFaults(t) ==
    \E from \in {"outside", "barrier"} :
        /\ ~fault
        /\ Faults(t, from, TRUE)
        /\ UNCHANGED <<ledger, fifo>>

Release(t) ==
    /\ pc[t] = "release"
    /\ mutex' = "free"
    /\ IF next[t] = "outside"
       THEN Returns(t)
       ELSE Goes(t, next[t])
    /\ UNCHANGED <<paint, words, history>>

(* A raw status from M ends the call where it is, with M held or not.       *)
ReleaseFails(t) ==
    /\ pc[t] = "release"
    /\ mutex' \in {"free", "stuck"}
    /\ failed' = TRUE
    /\ Returns(t)
    /\ UNCHANGED <<paint, words, quiet, exported>>

AcquireFails(t) ==
    /\ pc[t] \in Acquiring
    /\ mutex = "free"
    /\ mutex' \in {"free", "stuck"}
    /\ failed' = TRUE
    /\ Returns(t)
    /\ UNCHANGED <<paint, words, quiet, exported>>

-------------------------------------------------------------------------------
(* The entries, in the order an operation meets them.                       *)

(* bind: once, to the captured bundle.                                      *)
Bind(t) ==
    /\ Body(t, "outside", "outside")
    /\ bound = "unbound"
    /\ bound' = "open"
    /\ Keeps
    /\ UNCHANGED <<paint, fault, ledger, fifo, intent, history>>

Row(state) == [state |-> state, nonce |-> 0]
Moved(k, state) == [ledger EXCEPT ![k].state = state]

TokenLeft == Len(ledger) < Operations

(* enqueue: the token is reserved before the native append, and stays       *)
(* reserved for ever if the append fails, with the packet listed or not.    *)
Enqueue(t) ==
    LET k == Len(ledger) + 1
    IN  /\ bound = "open"
        /\ Len(fifo) < Capacity
        /\ TokenLeft
        /\ \/ /\ Body(t, "outside", "outside")
              /\ ledger' = Append(ledger, Row("queued"))
              /\ fifo' = Append(fifo, k)
              /\ Keeps
              /\ UNCHANGED <<paint, bound, fault, intent, history>>
           \/ /\ Valid /\ ~fault
              /\ Faults(t, "outside", TRUE)
              /\ ledger' = Append(ledger, Row("reserved"))
              /\ fifo' \in {fifo, Append(fifo, k)}

(* What pop requires of the head of the list.                               *)
HeadQueued == Head(fifo) \in DOMAIN ledger /\ ledger[Head(fifo)].state = "queued"

(* Mutant: an extracted operation is forgotten as if it had been cancelled. *)
ExtractedAsDone == "done"

(* What the ledger says of an operation between extraction and publication. *)
Extracted == "extracted"

(* pop_dispatch, up to the release: after a close the head is dropped, and  *)
(* its operation over.                                                      *)
Pop(t) ==
    /\ fifo # <<>>
    /\ bound # "unbound"
    /\ LET k == Head(fifo)
       IN  \/ /\ HeadQueued
              /\ fifo' = Tail(fifo)
              /\ UNCHANGED <<paint, bound, fault, intent, nonce, preparing, history>>
              /\ \/ /\ bound = "open"
                    /\ Body(t, "outside", "dispatch")
                    /\ ledger' = Moved(k, Extracted)
                    /\ token' = [token EXCEPT ![t] = k]
                 \/ /\ bound = "closed"
                    /\ Body(t, "outside", "outside")
                    /\ ledger' = Moved(k, "done")
                    /\ UNCHANGED token
           \/ /\ Valid /\ ~fault
              /\ Faults(t, "outside", HeadQueued)
              /\ fifo' \in {fifo, Tail(fifo)}
              /\ UNCHANGED ledger

(* The envelope's dispatch, through the carrier, to the paint queue: a nonce*)
(* or an ordinary refusal is written down next; a raw status is not, and    *)
(* leaves the operation extracted although its row may be in the queue.     *)
Dispatch(t) ==
    /\ pc[t] = "dispatch"
    /\ \/ /\ \E n \in 1 .. TicketLimit :
               /\ Admit(n)
               /\ nonce' = [nonce EXCEPT ![t] = n]
          /\ pc' = [pc EXCEPT ![t] = "rebind"]
          /\ UNCHANGED <<next, token, preparing>>
       \/ UNCHANGED paint /\ Goes(t, "rebind")
       \/ /\ \/ UNCHANGED paint
             \/ \E n \in 1 .. TicketLimit : Admit(n)
          /\ Returns(t)
    /\ UNCHANGED <<words, mutex, history>>

(* pop_rebind: the nonce is bound to the operation before anyone learns it. *)
Answered(k, n) ==
    [ledger EXCEPT ![k] = IF n = 0 THEN [@ EXCEPT !.state = "done"]
                                   ELSE [state |-> "published", nonce |-> n]]

(* What the second body requires: the operation is where its thread left it,*)
(* and no other has the nonce.                                              *)
Rebindable(k, n) ==
    /\ ledger[k].state = "extracted"
    /\ n # 0 => \A l \in DOMAIN ledger : ledger[l].nonce # n

Rebind(t) ==
    LET k == token[t]
        n == nonce[t]
    IN  \/ /\ Body(t, "rebind", "outside")
           /\ Rebindable(k, n)
           /\ ledger' = Answered(k, n)
           /\ Keeps
           /\ UNCHANGED <<paint, bound, fault, fifo, intent, history>>
        \/ /\ Valid /\ ~fault
           /\ Faults(t, "rebind", Rebindable(k, n))
           /\ ledger' \in {ledger, Answered(k, n)}
           /\ UNCHANGED fifo

(* complete: the operation of a nonce is looked up, published ones only.    *)
Complete(t, n) ==
    \E k \in DOMAIN ledger :
        /\ Body(t, "outside", "ack")
        /\ bound # "unbound"
        /\ ledger[k] = [state |-> "published", nonce |-> n]
        /\ ledger' = Moved(k, "acking")
        /\ token' = [token EXCEPT ![t] = k]
        /\ nonce' = [nonce EXCEPT ![t] = n]
        /\ UNCHANGED <<paint, bound, fault, fifo, intent, preparing, history>>

(* Mutant: a zero answer counts as terminal too.                            *)
SettledOrNot(n) == Settle(n) \/ UNCHANGED paint

(* The paint queue removed the claimed row and answered with its outcome.   *)
Settled(n) == Settle(n)

(* The call of the paint queue's complete. A zero may be a refusal or a     *)
(* half-done removal: only a terminal answer goes on.                       *)
Acknowledge(t) ==
    /\ pc[t] = "ack"
    /\ \/ Settled(nonce[t]) /\ Goes(t, "acked")
       \/ (UNCHANGED paint \/ Settle(nonce[t])) /\ Returns(t)
    /\ UNCHANGED <<words, mutex, history>>

(* complete_rebind: the operation is done.                                  *)
Acknowledged(t) ==
    LET k == token[t]
        sound == ledger[k] = [state |-> "acking", nonce |-> nonce[t]]
    IN  \/ /\ Body(t, "acked", "outside")
           /\ sound
           /\ ledger' = Moved(k, "done")
           /\ Keeps
           /\ UNCHANGED <<paint, bound, fault, fifo, intent, history>>
        \/ /\ Valid /\ ~fault
           /\ Faults(t, "acked", sound)
           /\ UNCHANGED <<ledger, fifo>>

Close(t) ==
    /\ Body(t, "outside", "outside")
    /\ bound # "unbound"
    /\ bound' = "closed"
    /\ Keeps
    /\ UNCHANGED <<paint, fault, ledger, fifo, intent, history>>

-------------------------------------------------------------------------------
(* The end of the ledger.                                                   *)

(* quiescent, up to the release.                                            *)
Quiescent(t) ==
    \E from \in {"outside", "barrier"} :
        /\ Body(t, from, "retire")
        /\ Quiescible
        /\ Keeps
        /\ UNCHANGED <<paint, words, history>>

(* Mutant: the intent word is only written when the barrier has answered.   *)
ReservedLate == intent' = intent

(* The one attempt is used up before the barrier is asked.                  *)
Reserved == ~intent /\ intent' = TRUE

PrepareCleanup(t) ==
    /\ Body(t, "outside", "barrier")
    /\ Quiescible
    /\ Reserved
    /\ preparing' = [preparing EXCEPT ![t] = TRUE]
    /\ UNCHANGED <<paint, bound, fault, ledger, fifo, token, nonce, history>>

(* The paint queue's retire; only its answer 1 goes on to drained.          *)
CallRetire(t) ==
    /\ pc[t] = "retire"
    /\ \/ Retire /\ Goes(t, "drained")
       \/ (UNCHANGED paint \/ Retire) /\ Returns(t)
    /\ UNCHANGED <<words, mutex, history>>

(* The paint queue's drained.                                               *)
Drained == retired /\ ~broken /\ rows = {} /\ claim = 0

CallDrained(t) ==
    /\ pc[t] = "drained"
    /\ \/ /\ Drained
          /\ quiet' = TRUE
          /\ IF preparing[t] THEN Goes(t, "export") ELSE Returns(t)
       \/ UNCHANGED quiet /\ Returns(t)
    /\ UNCHANGED <<paint, words, mutex, failed, exported>>

(* The intent is written to its output, unless the output is dirty by now.  *)
Export(t) ==
    /\ pc[t] = "export"
    /\ exported' \in {exported, exported + 1}
    /\ Returns(t)
    /\ UNCHANGED <<paint, words, mutex, failed, quiet>>

(* Renderers claim rows; the native retirement may retire the owner; other  *)
(* owners take tickets; and the queue may break at any time.                *)
PaintStep ==
    /\ \/ \E n \in 1 .. TicketLimit : Claim(n)
       \/ Retire
       \/ Break
       \/ Mint
    /\ UNCHANGED <<words, mutex, pc, next, locals, history>>

Next ==
    \/ \E t \in Threads :
        \/ Refused(t) \/ HeaderFaults(t)
        \/ Release(t) \/ ReleaseFails(t) \/ AcquireFails(t)
        \/ Bind(t) \/ Enqueue(t) \/ Pop(t) \/ Dispatch(t) \/ Rebind(t)
        \/ \E n \in 1 .. TicketLimit : Complete(t, n)
        \/ Acknowledge(t) \/ Acknowledged(t)
        \/ Close(t)
        \/ Quiescent(t) \/ PrepareCleanup(t)
        \/ CallRetire(t) \/ CallDrained(t) \/ Export(t)
    \/ PaintStep

Spec == Init /\ [][Next]_vars

-------------------------------------------------------------------------------

(* The ledger never trips over its own rows: what its bodies find is what   *)
(* their threads left, unless M or the native list failed.                  *)
FaultsHaveCause == fault => failed

Busy(t) == pc[t] \in {"dispatch", "rebind", "ack", "acked"} \/ next[t] \in {"dispatch", "ack"}

(* A positive answer stays true: nothing is listed, published, claimed or   *)
(* under way for the owner, and nothing ever will be.                       *)
QuiescentIsQuiet ==
    quiet =>
        /\ bound = "closed" /\ Idle
        /\ retired
        /\ ~broken => rows = {} /\ claim = 0
        /\ \A t \in Threads : ~Busy(t)

(* The operations whose row may be in the paint queue without the ledger    *)
(* having its nonce.                                                        *)
Unanswered == {k \in DOMAIN ledger : ledger[k].state = "extracted"}

(* Every row of the paint queue belongs to an outstanding operation, by its *)
(* nonce or while the nonce is still on its way; and the row of an operation*)
(* that is done has left.                                                   *)
PaintIsAccounted ==
    ~broken =>
        LET known == {ledger[k].nonce : k \in DOMAIN ledger}
        IN  /\ Cardinality(rows \ known) <= Cardinality(Unanswered)
            /\ \A k \in DOMAIN ledger :
                  ledger[k].nonce \in rows => ledger[k].state \in {"published", "acking"}

(* However many threads prepare, at most one intent is exported, and only   *)
(* when the barrier had answered.                                           *)
OneCleanupIntent ==
    /\ exported <= 1
    /\ exported = 1 => intent /\ quiet
=============================================================================

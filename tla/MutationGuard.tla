---------------------------- MODULE MutationGuard ----------------------------
(****************************************************************************)
(* The one-word mutation guard that folderfollow_reveal_guard_mips.py emits *)
(* as MIPS code: begin, finish and invalidate run on any number of threads  *)
(* and synchronise only through load-linked / store-conditional on one      *)
(* aligned word.                                                            *)
(*                                                                          *)
(* Every instruction that touches the shared word is an action of its own;  *)
(* the register arithmetic between two of them belongs to the first one, so *)
(* the loaded word (t2), dead once it has been tested, has no variable.     *)
(* The packed word is split into its high bit (the WRITER mask) and its     *)
(* 31-bit ticket.                                                           *)
(****************************************************************************)
EXTENDS Naturals

CONSTANTS
    Threads,        \* the threads that call the entry points
    TicketLimit,    \* revision_limit, the last ticket begin may issue
    Retries         \* retries, the LL/SC attempts of one call

ASSUME TicketLimitAssumption == TicketLimit \in Nat \ {0}
ASSUME RetriesAssumption == Retries \in Nat \ {0}

VARIABLES
    word,           \* the aligned control word
    link,           \* link[p]: p's LL reservation still stands
    pc,             \* pc[p]: the next access of p to the word
    attempts,       \* attempts[p]: register t1, the attempts p has left
    held,           \* held[p]: the ticket in begin's fresh t4, or finish's argument a0
    handedOut,      \* history: the tickets whose begin stored WRITER
    published       \* history: the tickets whose finish stored READY

guardVars == <<word, link, pc, attempts, held, handedOut, published>>

Word(writer, t) == [writer |-> writer, ticket |-> t]
EMPTY == Word(FALSE, 0)
FAULT == Word(TRUE, 0)
Ready(t) == Word(FALSE, t)
Writer(t) == Word(TRUE, t)

(* The two entry points never issue a ticket above the limit, but a caller  *)
(* may hand finish any register value: TicketLimit + 1 stands for them all. *)
GuardTickets == 1 .. TicketLimit
Arguments == 0 .. TicketLimit + 1
GuardWords == [writer : BOOLEAN, ticket : 0 .. TicketLimit]
Labels == {"idle", "begin_ll", "begin_sc", "finish_ll", "finish_sc", "fault_store"}

GuardInit ==
    /\ word = EMPTY
    /\ link = [p \in Threads |-> FALSE]
    /\ pc = [p \in Threads |-> "idle"]
    /\ attempts = [p \in Threads |-> 0]
    /\ held = [p \in Threads |-> 0]
    /\ handedOut = {}
    /\ published = {}

(* Entry points: each sets its registers up and falls into its LL, or takes *)
(* the early branch to the fault store.                                     *)

CallBegin(p) ==
    /\ pc[p] = "idle"
    /\ pc' = [pc EXCEPT ![p] = "begin_ll"]
    /\ attempts' = [attempts EXCEPT ![p] = Retries]
    /\ UNCHANGED <<word, link, held, handedOut, published>>

CallFinish(p, t) ==
    /\ pc[p] = "idle"
    /\ pc' = [pc EXCEPT ![p] = IF t \in GuardTickets THEN "finish_ll" ELSE "fault_store"]
    /\ attempts' = [attempts EXCEPT ![p] = Retries]
    /\ held' = [held EXCEPT ![p] = t]
    /\ UNCHANGED <<word, link, handedOut, published>>

CallInvalidate(p) ==
    /\ pc[p] = "idle"
    /\ pc' = [pc EXCEPT ![p] = "fault_store"]
    /\ UNCHANGED <<word, link, attempts, held, handedOut, published>>

(* A set high bit (WRITER or FAULT) and a word that is not below the limit  *)
(* both branch to the fault store.                                          *)
Refused(w) == w.writer \/ w.ticket >= TicketLimit

BeginLL(p) ==
    /\ pc[p] = "begin_ll"
    /\ link' = [link EXCEPT ![p] = TRUE]
    /\ IF Refused(word)
       THEN /\ pc' = [pc EXCEPT ![p] = "fault_store"]
            /\ UNCHANGED held
       ELSE /\ pc' = [pc EXCEPT ![p] = "begin_sc"]
            /\ held' = [held EXCEPT ![p] = word.ticket + 1]
    /\ UNCHANGED <<word, attempts, handedOut, published>>

(* finish_ll: only the exact WRITER | ticket of the argument goes on.       *)
Expected(w, t) == w = Writer(t)

FinishLL(p) ==
    /\ pc[p] = "finish_ll"
    /\ link' = [link EXCEPT ![p] = TRUE]
    /\ pc' = [pc EXCEPT ![p] = IF Expected(word, held[p])
                                       THEN "finish_sc" ELSE "fault_store"]
    /\ UNCHANGED <<word, attempts, held, handedOut, published>>

(* A store to the word, conditional or plain, ends every reservation on it. *)
Store(w) ==
    /\ word' = w
    /\ link' = [p \in Threads |-> FALSE]

(* Mutant: a plain sw where the code has sc.                                *)
AlwaysReserved(p) == TRUE

(* Whether the store-conditional may succeed.                               *)
Reserved(p) == link[p]

(* jr $ra: the temporaries are dead from here on and are cleared.           *)
Return(p) ==
    /\ pc' = [pc EXCEPT ![p] = "idle"]
    /\ attempts' = [attempts EXCEPT ![p] = 0]
    /\ held' = [held EXCEPT ![p] = 0]

BeginSC(p) ==
    /\ pc[p] = "begin_sc"
    /\ Reserved(p)
    /\ Store(Writer(held[p]))
    /\ Return(p)
    /\ handedOut' = handedOut \cup {held[p]}
    /\ UNCHANGED published

FinishSC(p) ==
    /\ pc[p] = "finish_sc"
    /\ Reserved(p)
    /\ Store(Ready(held[p]))
    /\ Return(p)
    /\ published' = published \cup {held[p]}
    /\ UNCHANGED handedOut

(* Mutant: the loop never counts its attempts down.                         *)
RetryUncounted(p, from, to) ==
    /\ pc[p] = from
    /\ link' = [link EXCEPT ![p] = FALSE]
    /\ pc' = [pc EXCEPT ![p] = to]
    /\ UNCHANGED <<word, attempts, held, handedOut, published>>

(* The SC may fail although the reservation stands (an exception return, an *)
(* eviction), and does fail once it is gone. The attempts are counted down; *)
(* the last one branches to the fault store.                                *)
Retry(p, from, to) ==
    /\ pc[p] = from
    /\ link' = [link EXCEPT ![p] = FALSE]
    /\ attempts' = [attempts EXCEPT ![p] = @ - 1]
    /\ pc' = [pc EXCEPT ![p] = IF attempts[p] = 1 THEN "fault_store" ELSE to]
    /\ UNCHANGED <<word, held, handedOut, published>>

BeginSCFails(p) == Retry(p, "begin_sc", "begin_ll")
FinishSCFails(p) == Retry(p, "finish_sc", "finish_ll")

(* The plain store of FAULT. The call then returns zero.                    *)
FaultStore(p) ==
    /\ pc[p] = "fault_store"
    /\ Store(FAULT)
    /\ Return(p)
    /\ UNCHANGED <<handedOut, published>>

Call(p) ==
    \/ CallBegin(p)
    \/ \E t \in Arguments : CallFinish(p, t)
    \/ CallInvalidate(p)

Routine(p) ==
    \/ BeginLL(p)
    \/ BeginSC(p)
    \/ BeginSCFails(p)
    \/ FinishLL(p)
    \/ FinishSC(p)
    \/ FinishSCFails(p)
    \/ FaultStore(p)

GuardNext == \E p \in Threads : Call(p) \/ Routine(p)

GuardSpec == GuardInit /\ [][GuardNext]_guardVars

(* A thread inside a routine keeps executing; nothing makes a thread call.  *)
FairSpec == GuardSpec /\ \A p \in Threads : WF_guardVars(Routine(p))

-------------------------------------------------------------------------------

(* The registers hold labels, attempts and tickets of the declared ranges.  *)
TypeOK ==
    /\ word \in GuardWords
    /\ link \in [Threads -> BOOLEAN]
    /\ pc \in [Threads -> Labels]
    /\ attempts \in [Threads -> 0 .. Retries]
    /\ held \in [Threads -> Arguments]
    /\ handedOut \in SUBSET GuardTickets
    /\ published \in SUBSET GuardTickets

(* At most one mutation is ever open: every ticket begin handed out, except *)
(* possibly the newest, was published by its own finish, and nothing was    *)
(* published that begin had not issued - whatever the threads interleave.   *)
OneOpenMutation ==
    /\ published \subseteq handedOut
    /\ \A s, t \in handedOut : s < t => s \in published

(* No ticket is handed out twice: of two threads that loaded the same word  *)
(* only one may store, so a begin that returns t is the first to return it. *)
TicketsAreNew ==
    [][\A p \in Threads :
        pc[p] = "begin_sc" /\ pc'[p] = "idle" => held[p] \notin handedOut]_guardVars

(* A reader that sees READY t may rely on t being the newest ticket and its *)
(* mutation being over; one that sees WRITER t knows that it is not.        *)
WordTellsTheTruth ==
    word # FAULT =>
        /\ \A t \in handedOut : t <= word.ticket
        /\ word.ticket # 0 => word.ticket \in handedOut
        /\ word.ticket # 0 => (word.writer <=> word.ticket \notin published)

(* "No successful CAS may subsequently overwrite FAULT": a store conditional*)
(* whose load came before the fault store never brings the word back.       *)
FaultIsFinal == [][word = FAULT => UNCHANGED <<word, handedOut, published>>]_guardVars

(* What a caller relies on, whichever way the loads and stores interleave.  *)
GuardBracket == INSTANCE MutationBracket WITH
    Limit <- TicketLimit,
    last <- word.ticket,
    open <- word.writer /\ word # FAULT,
    failed <- word = FAULT

BracketSpec == GuardBracket!Spec

(* The bounded retries leave no thread inside a routine: lost reservations  *)
(* end in success or in the fault store.                                    *)
CallsReturn == \A p \in Threads : pc[p] # "idle" ~> pc[p] = "idle"
=============================================================================

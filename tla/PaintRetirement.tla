---------------------------- MODULE PaintRetirement ----------------------------
(****************************************************************************)
(* The emitted paint queue of reveal_paint_retirement_mips.py: owner        *)
(* generations that are retired but never reused, rows in a native list, one*)
(* claim at a time, and a mutex and a list whose services may fail.         *)
(*                                                                          *)
(* Between acquisition and release an entry has the words and the list to   *)
(* itself, except for FAULT, which a failed release stores without the      *)
(* mutex. An entry reads FAULT once for its decision, so its body is one    *)
(* action and the release, and that late store, are steps of their own.     *)
(*                                                                          *)
(* A call denied before the acquisition, or by it, is a stuttering step. The*)
(* engine word of owners and rows, which producers must match, is left out. *)
(*                                                                          *)
(* Owner tickets and row nonces share one serial, and the list is appended  *)
(* to and filtered only: it is kept as a function from nonces to owners.    *)
(****************************************************************************)
EXTENDS Naturals, FiniteSets

CONSTANTS
    Threads,        \* the threads that call the entries
    Capacity,       \* capacity, of the native list
    OwnerCapacity,  \* owner_capacity
    TicketLimit     \* ticket_limit

ASSUME CapacityAssumption == Capacity \in Nat \ {0} /\ OwnerCapacity \in Nat \ {0}
ASSUME TicketAssumption == TicketLimit \in Nat \ {0}
ASSUME ThreadsAssumption == "free" \notin Threads /\ "stuck" \notin Threads

VARIABLES
    checked,        \* checked_mutex: raw mutex services, chosen when emitted
    retired,        \* the owner table: ticket -> OWNER_RETIRED
    rows,           \* the native list: nonce -> owner ticket
    serial,         \* SERIAL
    active,         \* ACTIVE: the claimed nonce, or 0
    activeOwner,    \* ACTIVE_OWNER
    cancelled,      \* CANCELLED
    fault,          \* FAULT
    closed,         \* CLOSED
    mutex,          \* "free", its holder, or "stuck" after a failed service
    pc,             \* pc[t]: outside, before the release, before the latch
    reply,          \* reply[t]: what the caller of t learns if the release succeeds
    failed,         \* history: a service failed or the tickets ran out
    known,          \* history: the claims whose nonce reached a caller
    drained,        \* history: the owners reported as drained
    outcome         \* history: nonce -> 1 completed, 2 failed, 3 cancelled

words == <<retired, rows, serial, active, activeOwner, cancelled, fault, closed>>
history == <<known, drained>>
vars == <<checked, words, mutex, pc, reply, failed, history, outcome>>

Tickets == 1 .. TicketLimit
Silent == [about |-> "nothing", ticket |-> 0]
Replies == [about : {"nothing", "claim", "drained"}, ticket : 0 .. TicketLimit]

With(f, k, v) == [x \in DOMAIN f \cup {k} |-> IF x = k THEN v ELSE f[x]]
Without(f, K) == [x \in DOMAIN f \ K |-> f[x]]

Init ==
    /\ checked \in BOOLEAN
    /\ retired = [t \in {} |-> FALSE]
    /\ rows = [n \in {} |-> 0]
    /\ serial = 0
    /\ active = 0
    /\ activeOwner = 0
    /\ cancelled = FALSE
    /\ fault = FALSE
    /\ closed = FALSE
    /\ mutex = "free"
    /\ pc = [t \in Threads |-> "outside"]
    /\ reply = [t \in Threads |-> Silent]
    /\ failed = FALSE
    /\ known = {}
    /\ drained = {}
    /\ outcome = [n \in {} |-> 0]

-------------------------------------------------------------------------------

(* The prologue: acquire the mutex, go on to the release in the end.        *)
Holds(t) ==
    /\ mutex = "free"
    /\ pc[t] = "outside"
    /\ mutex' = t
    /\ pc' = [pc EXCEPT ![t] = "release"]
    /\ UNCHANGED <<checked, history>>

Says(t, about, ticket) == reply' = [reply EXCEPT ![t] = [about |-> about, ticket |-> ticket]]

(* The fault exit. FAULT withdraws new work and cancels the claim.          *)
Fault(t) ==
    /\ fault' = TRUE
    /\ cancelled' = (cancelled \/ active # 0)
    /\ reply' = [reply EXCEPT ![t] = Silent]
    /\ UNCHANGED <<closed, active, activeOwner, outcome>>

Served == UNCHANGED <<fault, failed>>

(* What the prologue requires of the words before any entry goes on.        *)
Consistent ==
    /\ serial <= TicketLimit
    /\ active <= serial
    /\ Cardinality(DOMAIN retired) <= OwnerCapacity
    /\ \A o \in DOMAIN retired : o <= serial
    /\ active = 0 => ~cancelled /\ activeOwner = 0
    /\ active # 0 => /\ activeOwner \in DOMAIN retired
                     /\ retired[activeOwner] => cancelled

Body(t) == Holds(t) /\ Consistent

(* An entry that is refused: a word withdraws it, a table is full, or its   *)
(* owner or claim is not a current one. It still has the mutex to release,  *)
(* and like every entry it latches the fault if it finds the words broken.  *)
Denied(t) ==
    /\ Holds(t)
    /\ fault' = (fault \/ ~Consistent)
    /\ cancelled' = (cancelled \/ (~Consistent /\ active # 0))
    /\ reply' = [reply EXCEPT ![t] = Silent]
    /\ UNCHANGED <<retired, rows, serial, active, activeOwner, closed, failed, outcome>>

(* list[0]                                                                  *)
Head(n) == n \in DOMAIN rows /\ \A m \in DOMAIN rows : n <= m

(* selected: what an entry requires of a row it reads.                      *)
Selected(n) ==
    /\ n <= serial
    /\ rows[n] \in DOMAIN retired
    /\ rows[n] < n

(* native_list: the parts that depend on the queue itself.                  *)
ListFits == Cardinality(DOMAIN rows) <= Capacity

(* active_binding: the claimed row is the head and still its owner's.       *)
ActiveBound ==
    active # 0 => /\ Head(active)
                  /\ Selected(active)
                  /\ rows[active] = activeOwner

(* A use of the list that must, or because the list fails may, end in a     *)
(* fault. Only the second is the fault of someone else.                     *)
ListFaults(t, sound) ==
    /\ Fault(t)
    /\ failed' = (failed \/ sound)

Live == ~fault /\ ~closed

-------------------------------------------------------------------------------

Full(table, n) == Cardinality(DOMAIN table) = n

(* mint at the limit.                                                       *)
Exhausted(t) ==
    /\ serial = TicketLimit
    /\ ListFaults(t, TRUE)
    /\ UNCHANGED <<retired, rows, serial>>

OpenOwner(t) ==
    /\ Body(t)
    /\ Live
    /\ ~Full(retired, OwnerCapacity)
    /\ \/ Exhausted(t)
       \/ /\ serial # TicketLimit
          /\ serial' = serial + 1
          /\ retired' = With(retired, serial', FALSE)
          /\ reply' = [reply EXCEPT ![t] = Silent]
          /\ Served
          /\ UNCHANGED <<rows, active, activeOwner, cancelled, closed, outcome>>

(* Mutant: the tombstone is not read.                                       *)
AdmitsRegistered(o) == o \in DOMAIN retired

(* A producer is admitted for the generation it captured while it lives.    *)
Admits(o) == o \in DOMAIN retired /\ ~retired[o]

(* An append that faults may have copied the row.                           *)
Publish(t, o) ==
    /\ Body(t)
    /\ Live
    /\ Admits(o)
    /\ UNCHANGED retired
    /\ \/ ListFaults(t, ListFits) /\ UNCHANGED <<rows, serial>>
       \/ /\ ListFits
          /\ ~Full(rows, Capacity)
          /\ \/ Exhausted(t)
             \/ /\ serial # TicketLimit
                /\ serial' = serial + 1
                /\ \/ /\ ListFaults(t, TRUE)
                      /\ rows' \in {rows, With(rows, serial', o)}
                   \/ /\ rows' = With(rows, serial', o)
                      /\ reply' = [reply EXCEPT ![t] = Silent]
                      /\ Served
                      /\ UNCHANGED <<active, activeOwner, cancelled, closed, outcome>>

(* A head to claim is sound and not a retired owner's.                      *)
Claimable == ListFits /\ \A n \in DOMAIN rows : Head(n) => Selected(n) /\ ~retired[rows[n]]

Claim(t) ==
    /\ Body(t)
    /\ Live
    /\ active = 0
    /\ UNCHANGED <<retired, rows, serial>>
    /\ \/ ListFaults(t, Claimable)
       \/ \E n \in DOMAIN rows :
            /\ Head(n)
            /\ Claimable
            /\ active' = n
            /\ activeOwner' = rows[n]
            /\ cancelled' = FALSE
            /\ Says(t, "claim", n)
            /\ Served
            /\ UNCHANGED <<closed, outcome>>

(* Mutant: only CLOSED and FAULT turn an acknowledgement into a cancel.     *)
VerdictUnlessClosed(succeeded) ==
    IF closed \/ fault THEN 3 ELSE IF succeeded THEN 1 ELSE 2

(* The outcome is the queue's at completion, not the consumer's at its end. *)
Verdict(succeeded) ==
    IF cancelled \/ closed \/ fault THEN 3 ELSE IF succeeded THEN 1 ELSE 2

(* complete with the claimed nonce; any other nonce is denied. A removal that*)
(* faults may have removed the head, and the claim stays either way.        *)
Complete(t, succeeded) ==
    /\ Body(t)
    /\ active # 0
    /\ UNCHANGED <<retired, serial>>
    /\ \/ /\ ListFaults(t, ListFits /\ ActiveBound)
          /\ rows' \in {rows, Without(rows, {active})}
       \/ /\ ListFits /\ ActiveBound
          /\ rows' = Without(rows, {active})
          /\ outcome' = With(outcome, active, Verdict(succeeded))
          /\ active' = 0
          /\ activeOwner' = 0
          /\ cancelled' = FALSE
          /\ reply' = [reply EXCEPT ![t] = Silent]
          /\ Served
          /\ UNCHANGED closed

-------------------------------------------------------------------------------

(* What a scan of the whole list requires.                                  *)
ListSound == ListFits /\ ActiveBound /\ \A n \in DOMAIN rows : Selected(n)

(* Mutant: with a claim out, retire leaves the list to the next retire.     *)
RemovableIfIdle(o) == {n \in DOMAIN rows : rows[n] = o /\ active = 0}

(* retire removes the owner's rows but a claimed head.                      *)
Removable(o) == {n \in DOMAIN rows : rows[n] = o /\ n # active}

(* The tombstone and the cancellation come first and stay whatever happens; *)
(* the scan stops at the first failing row, with those before it removed.   *)
Retire(t, o) ==
    /\ Body(t)
    /\ o \in DOMAIN retired
    /\ retired' = [retired EXCEPT ![o] = TRUE]
    /\ UNCHANGED serial
    /\ \/ /\ ~fault
          /\ \E stop \in 0 .. serial :
                rows' = Without(rows, {n \in Removable(o) : n < stop})
          /\ ListFaults(t, ListSound)
       \/ /\ fault => UNCHANGED rows
          /\ ~fault => ListSound /\ rows' = Without(rows, Removable(o))
          /\ cancelled' = (cancelled \/ activeOwner = o)
          /\ reply' = [reply EXCEPT ![t] = Silent]
          /\ Served
          /\ UNCHANGED <<active, activeOwner, closed, outcome>>

(* The owner has a row or the claim.                                        *)
Referenced(o) == activeOwner = o \/ \E n \in DOMAIN rows : rows[n] = o

Drained(t, o) ==
    /\ Body(t)
    /\ ~fault
    /\ o \in DOMAIN retired /\ retired[o]
    /\ UNCHANGED <<retired, rows, serial>>
    /\ \/ ListFaults(t, ListSound)
       \/ /\ ListSound
          /\ ~Referenced(o)
          /\ Says(t, "drained", o)
          /\ Served
          /\ UNCHANGED <<active, activeOwner, cancelled, closed, outcome>>

(* cancel, and close with closing: both return the claimed nonce.           *)
Withdraw(t, closing) ==
    /\ Body(t)
    /\ closed' = (closed \/ closing)
    /\ cancelled' = (active # 0)
    /\ Says(t, IF active = 0 THEN "nothing" ELSE "claim", active)
    /\ Served
    /\ UNCHANGED <<retired, rows, serial, active, activeOwner, outcome>>

-------------------------------------------------------------------------------

Told(t, about) == IF reply[t].about = about THEN {reply[t].ticket} ELSE {}

(* The release succeeds and the caller gets its result.                     *)
Release(t) ==
    /\ pc[t] = "release"
    /\ mutex' = "free"
    /\ pc' = [pc EXCEPT ![t] = "outside"]
    /\ reply' = [reply EXCEPT ![t] = Silent]
    /\ known' = known \cup Told(t, "claim")
    /\ drained' = drained \cup Told(t, "drained")
    /\ UNCHANGED <<checked, words, failed, outcome>>

(* The release fails, with or without giving the mutex up. The effects stay,*)
(* the caller gets 0, and only the unchecked entry still has a word to say. *)
ReleaseFails(t) ==
    /\ pc[t] = "release"
    /\ mutex' \in {"free", "stuck"}
    /\ pc' = [pc EXCEPT ![t] = IF checked THEN "outside" ELSE "latch"]
    /\ reply' = [reply EXCEPT ![t] = Silent]
    /\ failed' = TRUE
    /\ UNCHANGED <<checked, words, history, outcome>>

(* Mutant: the unchecked entry reports the failure and latches nothing.     *)
LatchedNever == fault

Latched == TRUE

(* sw FAULT after the failed release, by then without the mutex.            *)
Latch(t) ==
    /\ pc[t] = "latch"
    /\ fault' = Latched
    /\ pc' = [pc EXCEPT ![t] = "outside"]
    /\ UNCHANGED <<checked, retired, rows, serial, active, activeOwner, cancelled, closed,
                   mutex, reply, failed, history, outcome>>

(* An acquisition that reports an error and keeps the mutex all the same;   *)
(* one that reports an error and does not has no effect.                    *)
AcquireFails(t) ==
    /\ mutex = "free"
    /\ pc[t] = "outside"
    /\ mutex' = "stuck"
    /\ failed' = TRUE
    /\ UNCHANGED <<checked, words, pc, reply, history, outcome>>

Next ==
    \E t \in Threads :
        \/ Denied(t)
        \/ OpenOwner(t)
        \/ \E o \in DOMAIN retired : Publish(t, o) \/ Retire(t, o) \/ Drained(t, o)
        \/ Claim(t)
        \/ \E succeeded \in BOOLEAN : Complete(t, succeeded)
        \/ \E closing \in BOOLEAN : Withdraw(t, closing)
        \/ Release(t)
        \/ ReleaseFails(t)
        \/ Latch(t)
        \/ AcquireFails(t)

Spec == Init /\ [][Next]_vars

-------------------------------------------------------------------------------

WordsOK ==
    /\ retired \in [DOMAIN retired -> BOOLEAN]
    /\ DOMAIN retired \subseteq Tickets
    /\ Cardinality(DOMAIN retired) <= OwnerCapacity
    /\ rows \in [DOMAIN rows -> Tickets]
    /\ DOMAIN rows \subseteq Tickets
    /\ Cardinality(DOMAIN rows) <= Capacity
    /\ serial \in 0 .. TicketLimit
    /\ active \in 0 .. TicketLimit
    /\ activeOwner \in 0 .. TicketLimit
    /\ cancelled \in BOOLEAN
    /\ fault \in BOOLEAN
    /\ closed \in BOOLEAN

CallsOK ==
    /\ checked \in BOOLEAN
    /\ mutex \in Threads \cup {"free", "stuck"}
    /\ pc \in [Threads -> {"outside", "release", "latch"}]
    /\ reply \in [Threads -> Replies]

HistoryOK ==
    /\ failed \in BOOLEAN
    /\ known \subseteq Tickets
    /\ drained \subseteq Tickets
    /\ DOMAIN outcome \subseteq Tickets
    /\ outcome \in [DOMAIN outcome -> 1 .. 3]

(* Tickets, tables and claims stay in range across every failure.           *)
TypeOK == WordsOK /\ CallsOK /\ HistoryOK

(* The queue never trips over its own state: each of the many checks that   *)
(* latch FAULT fires only after a service failed or the tickets ran out.    *)
FaultsHaveCause == fault => failed

(* What a caller was told of a drained generation stays true: "a retired    *)
(* generation with no locally queued/active references" gets no new ones,   *)
(* whatever its producers, the consumer and failing services still do.      *)
DrainedForGood ==
    \A o \in drained : retired[o] /\ ~Referenced(o)

(* A completion is reported as done or failed only while its owner lives    *)
(* and nothing was withdrawn, whatever happened since it was claimed.       *)
OutcomesAreEarned ==
    [][\A n \in DOMAIN outcome' \ DOMAIN outcome :
          outcome'[n] # 3 => ~retired[rows[n]] /\ ~closed /\ ~fault]_vars

(* A claim that a failed release kept from its caller blocks the head in    *)
(* silence, unless FAULT tells that one was lost. The checked entries leave *)
(* this to their caller.                                                    *)
LostClaimsAreFaults ==
    active # 0 /\ ~checked =>
        \/ active \in known
        \/ fault
        \/ \E t \in Threads : pc[t] = "latch" \/ active \in Told(t, "claim")
=============================================================================

------------------------------ MODULE PaintQueue ------------------------------
(****************************************************************************)
(* folderfollow_reveal_paint_queue.PaintQueue: a bounded FIFO of paint      *)
(* requests whose head is retained while its one consumer works on it.      *)
(*                                                                          *)
(* One host Lock serialises every method, so each method is one action and  *)
(* the threads - producers, consumers, purges, retirements - appear as the  *)
(* order of the actions. A call that returns None or False without changing *)
(* anything is a stuttering step.                                           *)
(*                                                                          *)
(* Handles are objects that the code compares by identity. Tickets are never*)
(* reused, so a ticket names its object: a released owner's handle and an   *)
(* acknowledged claim are tickets that are no longer registered.            *)
(*                                                                          *)
(* The list of entries is only ever appended to, with a ticket above all    *)
(* earlier ones, and filtered; the model keeps it as a function from tickets*)
(* and reads its order off the tickets.                                     *)
(****************************************************************************)
EXTENDS Naturals, FiniteSets

CONSTANTS
    Names,          \* the names owners are opened under
    Capacity,       \* capacity, of the owner table and of the entry list
    Limit           \* ticket_limit

ASSUME CapacityAssumption == Capacity \in Nat \ {0}
ASSUME LimitAssumption == Limit \in Nat \ {0}

VARIABLES
    owners,         \* _owners: ticket -> [name, retired]
    entries,        \* _entries: ticket -> the owner's ticket
    active,         \* _active: a set of at most one [entry, owner, cancelled]
    serial,         \* _serial
    error,          \* _error: "none" or the first terminal reason
    closed,         \* _closed
    claimed,        \* history: the entries a claim was handed out for
    using,          \* the claims whose consumer has not yet acknowledged
    outcome         \* history: how each entry left the queue

vars == <<owners, entries, active, serial, error, closed, claimed, using, outcome>>

Tickets == 1 .. Limit
Owner == [name : Names, retired : BOOLEAN]
Active == [entry : Tickets, owner : Tickets, cancelled : BOOLEAN]
Reasons == {"none", "ticket-exhausted", "uncertain"}
Outcomes == {"cancelled", "completed", "failed"}

(* [DOMAIN f \cup {k} -> ...]: f with one more, or a replaced, key.         *)
With(f, k, v) == [x \in DOMAIN f \cup {k} |-> IF x = k THEN v ELSE f[x]]
Without(f, K) == [x \in DOMAIN f \ K |-> f[x]]

Init ==
    /\ owners = [t \in {} |-> 0]
    /\ entries = [t \in {} |-> 0]
    /\ active = {}
    /\ serial = 0
    /\ error = "none"
    /\ closed = FALSE
    /\ claimed = {}
    /\ using = {}
    /\ outcome = [t \in {} |-> "none"]

Open == ~closed /\ error = "none"

Retained == {a.entry : a \in active}

(* Mutants: _cancel also drops the claimed entry; it only retires owners.   *)
DroppedWithClaim(S) == {e \in DOMAIN entries : entries[e] \in S}
DroppedNever(S) == {}

(* The entries _cancel drops: those of the selected owners, except the one  *)
(* whose claim is out.                                                      *)
Dropped(S) == {e \in DOMAIN entries : entries[e] \in S} \ Retained

(* _cancel(selected): retire the owners, mark their claim, drop the rest.   *)
Cancel(S) ==
    /\ owners' = [t \in DOMAIN owners |->
                    IF t \in S THEN [owners[t] EXCEPT !.retired = TRUE] ELSE owners[t]]
    /\ active' = {[a EXCEPT !.cancelled = @ \/ a.owner \in S] : a \in active}
    /\ entries' = Without(entries, Dropped(S))
    /\ outcome' = [t \in DOMAIN outcome \cup Dropped(S) |->
                     IF t \in Dropped(S) THEN "cancelled" ELSE outcome[t]]

(* _terminal(reason): the first reason stays.                               *)
Terminal(reason) ==
    /\ error' = IF error = "none" THEN reason ELSE error
    /\ Cancel(DOMAIN owners)

(* _ticket() at its limit: the call that needed a ticket ends the queue.    *)
Exhaust ==
    /\ serial = Limit
    /\ Terminal("ticket-exhausted")
    /\ UNCHANGED <<serial, closed, claimed, using>>

(* len(table) == capacity                                                   *)
Full(table) == Cardinality(DOMAIN table) = Capacity

OpenOwner(n) ==
    /\ Open
    /\ ~Full(owners)
    /\ \/ Exhaust
       \/ /\ serial # Limit
          /\ serial' = serial + 1
          /\ owners' = With(owners, serial', [name |-> n, retired |-> FALSE])
          /\ UNCHANGED <<entries, active, error, closed, claimed, using, outcome>>

(* An owner handle is accepted while its very owner is registered.          *)
Registered(o) == o \in DOMAIN owners

Enqueue(o) ==
    /\ Open
    /\ Registered(o)
    /\ ~owners[o].retired
    /\ ~Full(entries)
    /\ \/ Exhaust
       \/ /\ serial # Limit
          /\ serial' = serial + 1
          /\ entries' = With(entries, serial', o)
          /\ UNCHANGED <<owners, active, error, closed, claimed, using, outcome>>

(* entries[0]: the smallest ticket.                                         *)
Head(e) == e \in DOMAIN entries /\ \A d \in DOMAIN entries : e <= d

Claim(e) ==
    /\ Open
    /\ active = {}
    /\ Head(e)
    /\ active' = {[entry |-> e, owner |-> entries[e], cancelled |-> FALSE]}
    /\ claimed' = claimed \cup {e}
    /\ using' = using \cup {e}
    /\ UNCHANGED <<owners, entries, serial, error, closed, outcome>>

(* Mutant: a cancelled claim reports what its consumer says.                *)
VerdictOfConsumer(a, succeeded) == IF succeeded THEN "completed" ELSE "failed"

(* The outcome of an acknowledgement: a cancelled claim is never completed. *)
Verdict(a, succeeded) ==
    CASE a.cancelled -> "cancelled"
      [] ~a.cancelled /\ succeeded -> "completed"
      [] ~a.cancelled /\ ~succeeded -> "failed"

(* complete(claim, succeeded): any consumer may present any claim it was    *)
(* ever given; only the active one is acknowledged, by exact identity.      *)
Complete(c, succeeded) ==
    \E a \in active :
        /\ c = a.entry
        /\ entries' = Without(entries, {a.entry})
        /\ active' = {}
        /\ using' = using \ {c}
        /\ outcome' = With(outcome, a.entry, Verdict(a, succeeded))
        /\ UNCHANGED <<owners, serial, error, closed, claimed>>

Purge(n) ==
    /\ Cancel({t \in DOMAIN owners : owners[t].name = n})
    /\ UNCHANGED <<serial, error, closed, claimed, using>>

Retire(o) ==
    /\ Registered(o)
    /\ Cancel({o})
    /\ UNCHANGED <<serial, error, closed, claimed, using>>

ReleaseOwner(o) ==
    /\ Registered(o)
    /\ owners[o].retired
    /\ \A e \in DOMAIN entries : entries[e] # o
    /\ \A a \in active : a.owner # o
    /\ owners' = Without(owners, {o})
    /\ UNCHANGED <<entries, active, serial, error, closed, claimed, using, outcome>>

Close ==
    /\ closed' = TRUE
    /\ Cancel(DOMAIN owners)
    /\ UNCHANGED <<serial, error, claimed, using>>

Uncertain ==
    /\ Terminal("uncertain")
    /\ UNCHANGED <<serial, closed, claimed, using>>

Next ==
    \/ \E n \in Names : OpenOwner(n) \/ Purge(n)
    \/ \E o \in 1 .. serial : Enqueue(o) \/ Retire(o) \/ ReleaseOwner(o)
    \/ \E e \in DOMAIN entries : Claim(e)
    \/ \E c \in claimed, succeeded \in BOOLEAN : Complete(c, succeeded)
    \/ Close
    \/ Uncertain

Spec == Init /\ [][Next]_vars

-------------------------------------------------------------------------------

(* Both tables stay within capacity, and every ticket within the limit.     *)
TypeOK ==
    /\ DOMAIN owners \subseteq 1 .. serial
    /\ \A t \in DOMAIN owners : owners[t] \in Owner
    /\ DOMAIN entries \subseteq 1 .. serial
    /\ \A e \in DOMAIN entries : entries[e] \in Tickets
    /\ active \in SUBSET Active
    /\ serial \in 0 .. Limit
    /\ error \in Reasons
    /\ closed \in BOOLEAN
    /\ claimed \subseteq 1 .. serial
    /\ using \subseteq claimed
    /\ DOMAIN outcome \subseteq 1 .. serial
    /\ \A e \in DOMAIN outcome : outcome[e] \in Outcomes
    /\ Cardinality(DOMAIN owners) <= Capacity
    /\ Cardinality(DOMAIN entries) <= Capacity

(* While a consumer works on a claim, the very entry stays the head of the  *)
(* list and its owner stays registered, through every purge, retirement,    *)
(* close and release of others; "internal active entry was lost" never      *)
(* raises, and two consumers never work at the same time.                   *)
HeadRetained ==
    /\ using = Retained
    /\ \A a \in active :
        /\ Head(a.entry)
        /\ entries[a.entry] = a.owner
        /\ Registered(a.owner)
        /\ \A b \in active : b = a

(* Work of a revoked owner is out of the list, except for a claim already   *)
(* out, which is marked; a queue that is closed or failed holds no other.   *)
RevokedWorkLeaves ==
    /\ \A e \in DOMAIN entries :
        /\ Registered(entries[e])
        /\ owners[entries[e]].retired \/ ~Open =>
             \E a \in active : a.entry = e /\ a.cancelled
    /\ \A a \in active : a.cancelled <=> owners[a.owner].retired

(* Every entry leaves the queue once: it is pending or has one outcome, and *)
(* was claimed before it completed or failed.                               *)
LeavesOnce ==
    /\ DOMAIN entries \cap DOMAIN outcome = {}
    /\ \A e \in DOMAIN outcome : outcome[e] # "cancelled" => e \in claimed
    /\ \A e \in claimed : e \in DOMAIN outcome \/ e \in Retained

(* Consumers receive the requests in the order they were enqueued.          *)
ClaimsInOrder ==
    [][\A e \in claimed' \ claimed : \A d \in claimed : d < e]_vars

(* An outcome is final, and "completed" is only ever reported for an owner  *)
(* that is still live in a queue that is open.                              *)
OutcomesAreEarned ==
    [][/\ \A e \in DOMAIN outcome : outcome'[e] = outcome[e]
       /\ \A e \in DOMAIN outcome' \ DOMAIN outcome :
            outcome'[e] = "completed" => Open /\ ~owners[entries[e]].retired]_vars
=============================================================================

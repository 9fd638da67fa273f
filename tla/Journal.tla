------------------------------ MODULE Journal ------------------------------
(***************************************************************************)
(* The append-only diagnostic journal that every emitter of this family    *)
(* contains: a counter word that hands out slots, records whose magic word *)
(* is stored last, and a fault value of the counter that nothing erases.   *)
(* The LL/SC loop of reserve is one step here; a loop that runs out of     *)
(* attempts is the same step with room = FALSE.                            *)
(***************************************************************************)
EXTENDS Integers, Sequences

\* The fault word 0xFFFFFFFF, as a signed compare would see it.
FAULT == -1

\* Fresh zeroed storage.
EmptyJournal == [log |-> <<>>, fault |-> FALSE]

\* The loops give up on a faulted or full counter, or on contention.
CanReserve(j, capacity) == ~j.fault /\ Len(j.log) < capacity

Reserved(j, record) == [j EXCEPT !.log = Append(@, record)]

\* SYNC, then the magic word; fields written after the reservation come along.
Published(j, i, record) == [j EXCEPT !.log[i] = record]

Invalidated(j) == [j EXCEPT !.fault = TRUE]

\* What the decoders demand of a buffer before they look at any record.
Readable(j) == ~j.fault /\ \A i \in DOMAIN j.log : j.log[i].published

\* A step of a journal that loses no history: a fault is final, and without
\* one the log only grows and published records stay as they are.
Extends(j, k) ==
    /\ j.fault => k.fault
    /\ Len(k.log) >= Len(j.log)
    /\ \A i \in DOMAIN j.log : j.log[i].published => k.log[i] = j.log[i]
=============================================================================

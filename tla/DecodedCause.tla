---------------------------- MODULE DecodedCause ----------------------------
(***************************************************************************)
(* What a decoder may conclude from a coherent copy of the journals of     *)
(* CauseTransport, and what the tickets in them are worth.                 *)
(***************************************************************************)
EXTENDS CauseTransport, CauseDecoder

Snapshot == [journals |-> journals, clock |-> clock, scopes |-> scopes]

AllEvents == UNION {Range(journals[j].log) : j \in DOMAIN journals}

\* An event whose parent is named was caused by what caused its parent, across
\* every queue and although nodes are used again: no ticket is inherited from
\* an earlier owner of an address, and none goes to another request.
TrueCause ==
    \A e \in AllEvents : e.kind \notin Roots =>
        e.cause = ParentEvent(Snapshot, e).cause

\* Journals in which no hook met a fault or is still at work decode: the
\* emitters never write, in any interleaving, what the decoders call malformed.
HonestDecodes ==
    /\ clock # FAULT /\ ~scopes.fault
    /\ \A j \in DOMAIN journals : Readable(journals[j])
    => Accepted(Snapshot)

\* A rendering the assessment does not reject was requested and drawn while no
\* contents changed in between.
UnrejectedIsUndisturbed ==
    Accepted(Snapshot) =>
        \A r \in Renders(Snapshot) : Unrejected(Snapshot, r) => ~r.touched
=============================================================================

----------------------------- MODULE PaintContract -----------------------------
(****************************************************************************)
(* What a paint queue, the host's (PaintQueue) or the emitted one (Paint-   *)
(* Retirement), promises about the rows of one owner generation; the        *)
(* native ledger counts on it. Other owners, the list, the mutex and the    *)
(* words behind the promise do not appear: their failures are Break, their  *)
(* tickets are Mint.                                                        *)
(****************************************************************************)
EXTENDS Naturals

CONSTANT
    TicketLimit     \* ticket_limit

VARIABLES
    rows,           \* the nonces of the owner's rows in the list
    claim,          \* the one of them that a consumer has claimed, or 0
    retired,        \* the owner's tombstone
    broken,         \* the queue latched its fault
    serial          \* the newest ticket

paint == <<rows, claim, retired, broken, serial>>

NewPaint ==
    /\ rows = {}
    /\ claim = 0
    /\ retired = FALSE
    /\ broken = FALSE
    /\ serial = 0

(* publish: a row under a ticket that is above all earlier ones.            *)
Admit(n) ==
    /\ ~retired /\ ~broken
    /\ n \in serial + 1 .. TicketLimit
    /\ serial' = n
    /\ rows' = rows \cup {n}
    /\ UNCHANGED <<claim, retired, broken>>

Claim(n) ==
    /\ ~retired /\ ~broken
    /\ claim = 0
    /\ n \in rows
    /\ claim' = n
    /\ UNCHANGED <<rows, retired, broken, serial>>

(* complete with a terminal result, whatever the outcome it reports.        *)
Settle(n) ==
    /\ claim = n /\ n \in rows
    /\ rows' = rows \ {n}
    /\ claim' = 0
    /\ UNCHANGED <<retired, broken, serial>>

(* retire: the tombstone, and no row but the claimed one is left.           *)
Retire ==
    /\ ~broken
    /\ retired' = TRUE
    /\ rows' = rows \cap {claim}
    /\ UNCHANGED <<claim, broken, serial>>

(* Any call that ends in the fault, half done; or runs after it.            *)
Break ==
    /\ broken' = TRUE
    /\ retired' \in {retired, TRUE}
    /\ serial' \in serial .. TicketLimit
    /\ rows' \in SUBSET (rows \cup {serial'})
    /\ UNCHANGED claim

(* Another owner takes a ticket.                                            *)
Mint ==
    /\ serial' \in serial + 1 .. TicketLimit
    /\ UNCHANGED <<rows, claim, retired, broken>>

PaintNext ==
    \/ \E n \in 1 .. TicketLimit : Admit(n) \/ Claim(n) \/ Settle(n)
    \/ Retire
    \/ Break
    \/ Mint

PaintSpec == NewPaint /\ [][PaintNext]_paint
=============================================================================

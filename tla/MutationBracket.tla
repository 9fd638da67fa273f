--------------------------- MODULE MutationBracket ---------------------------
(****************************************************************************)
(* What a publisher of bracketed mutations promises, apart from how it is   *)
(* implemented: mutations are opened one at a time under strictly increasing*)
(* tickets, only the open one can be published, and a failure ends both for *)
(* good. The MIPS guard and the host's playback publication both implement  *)
(* it, with different state.                                                *)
(****************************************************************************)
EXTENDS Naturals

CONSTANT Limit      \* the largest ticket

VARIABLES
    last,           \* the newest ticket, 0 before the first and after a failure
    open,           \* its mutation has not been published yet
    failed          \* no ticket is issued or published any more

bracketVars == <<last, open, failed>>

Init ==
    /\ last = 0
    /\ open = FALSE
    /\ failed = FALSE

(* Opening waits for the previous mutation and takes a higher ticket.       *)
Open(t) ==
    /\ ~failed
    /\ ~open
    /\ t > last
    /\ last' = t
    /\ open' = TRUE
    /\ UNCHANGED failed

(* Publishing closes the one mutation that is open.                         *)
Publish ==
    /\ ~failed
    /\ open
    /\ open' = FALSE
    /\ UNCHANGED <<last, failed>>

(* A failure forgets the ticket, and nothing follows it.                    *)
Fail ==
    /\ last' = 0
    /\ open' = FALSE
    /\ failed' = TRUE

Next == (\E t \in 1 .. Limit : Open(t)) \/ Publish \/ Fail

Spec == Init /\ [][Next]_bracketVars
=============================================================================

----------------------------- MODULE RetentionLock -----------------------------
(****************************************************************************)
(* What the retention gate promises to the native bodies it surrounds: one  *)
(* owner at a time, and after an unexplained error no new owner ever.       *)
(****************************************************************************)
CONSTANT Threads

VARIABLES
    owners,      \* the threads inside a body that was admitted
    quarantined  \* an error left the state behind the gate unknown

lockVars == <<owners, quarantined>>

Init ==
    /\ owners = {}
    /\ quarantined = FALSE

(* Only a free and healthy gate admits.                                     *)
Claim(p) ==
    /\ owners = {}
    /\ ~quarantined
    /\ owners' = {p}
    /\ UNCHANGED quarantined

(* The owner leaves. One that cannot hand the gate over quarantines it on   *)
(* its way out; leaving never lifts a quarantine.                           *)
Release(p) ==
    /\ owners = {p}
    /\ owners' = {}
    /\ quarantined' \in {quarantined, TRUE}

(* Anyone may find an error, and the owner keeps what it has.               *)
Quarantine ==
    /\ ~quarantined
    /\ quarantined' = TRUE
    /\ UNCHANGED owners

Next == Quarantine \/ \E p \in Threads : Claim(p) \/ Release(p)

Spec == Init /\ [][Next]_lockVars
=============================================================================

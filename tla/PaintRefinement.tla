---------------------------- MODULE PaintRefinement ----------------------------
(****************************************************************************)
(* What the emitted paint queue is to one of its owners: the contract that  *)
(* RetainedOperations is built on. The other owners' rows and claims are    *)
(* nobody's business, their tickets are Mint; words that withdraw new work  *)
(* are refusals.                                                            *)
(****************************************************************************)
EXTENDS PaintRetirement

CONSTANT
    Watched         \* the owner ticket whose generation is looked at

ASSUME WatchedAssumption == Watched \in Nat \ {0}

WatchedRows == {n \in DOMAIN rows : rows[n] = Watched}

WatchedClaim == IF activeOwner = Watched THEN active ELSE 0

WatchedRetired == Watched \in DOMAIN retired /\ retired[Watched]

Contract == INSTANCE PaintContract WITH
    rows <- WatchedRows,
    claim <- WatchedClaim,
    retired <- WatchedRetired,
    broken <- fault

(* Whatever the other owners, the threads and the failing services do, the  *)
(* rows of one owner live by the contract its ledger counts on: nothing is  *)
(* admitted or claimed after the retirement, only an acknowledgement takes a*)
(* claimed row away, and a row is lost or kept by mistake only with FAULT.  *)
ImplementsContract == Contract!PaintSpec
=============================================================================

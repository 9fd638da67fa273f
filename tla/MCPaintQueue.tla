----------------------------- MODULE MCPaintQueue -----------------------------
(* Two names, two slots and six tickets: two generations of one name, a    *)
(* full owner table, a full list behind a cancelled claim, a released owner *)
(* whose slot is reused, and a counter that runs out in the middle.         *)
EXTENDS PaintQueue, TLC

NameSymmetry == Permutations(Names)
=============================================================================

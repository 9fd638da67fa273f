--------------------------- MODULE MCPaintRetirement ---------------------------
(****************************************************************************)
(* The emitted paint queue with two threads, two owner generations and five *)
(* tickets, which is enough for a row behind a claimed one of another owner *)
(* and for the exhaustion of the serial.                                    *)
(****************************************************************************)
EXTENDS PaintRefinement, TLC

Symmetry == Permutations(Threads)
=============================================================================

---------------------------- MODULE RevealGeometry ----------------------------
(****************************************************************************)
(* folderfollow_reveal_model.minimal_reveal: the scroll position that brings*)
(* a row into view with the least movement, or no answer when the arithmetic*)
(* would leave signed words or the geometry is outside the model.           *)
(****************************************************************************)
EXTENDS Integers

CONSTANTS
    IntMax,         \* INT_MAX, the largest signed word
    MaxRows         \* MAX_ROWS

ASSUME IntMaxAssumption == IntMax \in Nat \ {0}
ASSUME MaxRowsAssumption == MaxRows \in Nat \ {0}

Unrevealed == -1    \* Python's None as an answer of minimal_reveal

Geometry(scroll_y, pitch, height) ==
    [scroll_y |-> scroll_y, pitch |-> pitch, height |-> height]

(* _integer(value, low): a word that is at least low.                       *)
IsWord(value, low) == low <= value /\ value <= IntMax

(* max(0, extent - height): the last scroll position.                       *)
ScrollLimit(count, g) ==
    IF count * g.pitch > g.height THEN count * g.pitch - g.height ELSE 0

(* The early returns: counts, words, an extent that overflows, a position   *)
(* past the end of the list or of the words.                                *)
Supported(row, count, g) ==
    /\ 1 <= count /\ count <= MaxRows
    /\ 0 <= row /\ row < count
    /\ IsWord(g.pitch, 1)
    /\ IsWord(g.height, g.pitch)
    /\ IsWord(g.scroll_y, 0)
    /\ count <= IntMax \div g.pitch
    /\ g.scroll_y <= ScrollLimit(count, g)
    /\ g.scroll_y <= IntMax - g.height

RowTop(row, g) == row * g.pitch
RowBottom(row, g) == (row + 1) * g.pitch

(* min(limit, max(0, target))                                               *)
Clamp(target, limit) ==
    CASE target < 0 -> 0
      [] 0 <= target /\ target <= limit -> target
      [] 0 <= target /\ target > limit -> limit

MinimalReveal(row, count, g) ==
    LET y == g.scroll_y
        limit == ScrollLimit(count, g)
    IN  CASE ~Supported(row, count, g) -> Unrevealed
          [] Supported(row, count, g) /\ RowTop(row, g) < y ->
               Clamp(RowTop(row, g), limit)
          [] Supported(row, count, g) /\ RowTop(row, g) >= y
                                      /\ RowBottom(row, g) > y + g.height ->
               Clamp(RowBottom(row, g) - g.height, limit)
          [] OTHER -> y
=============================================================================

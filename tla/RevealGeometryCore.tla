-------------------------- MODULE RevealGeometryCore --------------------------
(****************************************************************************)
(* folderfollow_reveal_mips.build_geometry: minimal_reveal as a leaf function*)
(* over machine words, and a list view that scrolls by its answers.         *)
(*                                                                          *)
(* A register is an unsigned word; an instruction that reads it as signed   *)
(* (blez, bltz, bgez, slt) sees Signed of it. addu, subu and mflo wrap. The *)
(* word size follows from IntMax: the product of two words has a high word. *)
(*                                                                          *)
(* The core is not installed, so the view is a caller made up for it: any   *)
(* measured words, any scroll position the user leaves behind, and a setter *)
(* called with every answer that asks for a movement.                       *)
(****************************************************************************)
EXTENDS RevealGeometry

ASSUME WordAssumption == MaxRows <= IntMax

VARIABLES
    list,           \* the words measured for the list: count, pitch, height
    y               \* the word the list scrolls by

listVars == <<list, y>>

WordSize == 2 * (IntMax + 1)
Words == 0 .. WordSize - 1

Signed(w) == IF w <= IntMax THEN w ELSE w - WordSize

(* addu, subu; multu with mflo and with mfhi                                *)
Add(a, b) == (a + b) % WordSize
Sub(a, b) == (a - b) % WordSize
Lo(a, b) == (a * b) % WordSize
Hi(a, b) == (a * b) \div WordSize

(* The limit register: extent - height, or zero where that is negative.     *)
CoreLimit(count, pitch, height) ==
    LET limit == Sub(Lo(count, pitch), height)
    IN  IF Signed(limit) >= 0 THEN limit ELSE 0

(* Mutant: the high word of the product is not looked at.                   *)
CoreAcceptsLowWord(row, count, pitch, height, scroll_y) ==
    /\ count # 0 /\ count <= MaxRows /\ row < count
    /\ Signed(pitch) > 0 /\ Signed(height) >= Signed(pitch) /\ Signed(scroll_y) >= 0
    /\ Signed(Lo(count, pitch)) >= 0
    /\ scroll_y <= CoreLimit(count, pitch, height)
    /\ Signed(Add(scroll_y, height)) >= 0

(* None of the branches to "invalid" is taken.                              *)
CoreAccepts(row, count, pitch, height, scroll_y) ==
    /\ count # 0
    /\ count <= MaxRows
    /\ row < count
    /\ Signed(pitch) > 0
    /\ Signed(height) >= Signed(pitch)
    /\ Signed(scroll_y) >= 0
    /\ Hi(count, pitch) = 0
    /\ Signed(Lo(count, pitch)) >= 0
    /\ scroll_y <= CoreLimit(count, pitch, height)
    /\ Signed(Add(scroll_y, height)) >= 0

(* Mutant: a row that starts above the view is compared by its end.         *)
CoreTargetByEnd(row, pitch, height, scroll_y) ==
    LET end == Add(Lo(row, pitch), pitch)
    IN  CASE end < scroll_y -> Lo(row, pitch)
          [] end >= scroll_y /\ Add(scroll_y, height) < end -> Sub(end, height)
          [] OTHER -> scroll_y

(* The v0 of an accepted call: above, below, visible.                       *)
CoreTarget(row, pitch, height, scroll_y) ==
    LET edge == Lo(row, pitch)
        end == Add(edge, pitch)
    IN  CASE edge < scroll_y -> edge
          [] edge >= scroll_y /\ Add(scroll_y, height) < end -> Sub(end, height)
          [] OTHER -> scroll_y

CoreReveal(row, count, pitch, height, scroll_y) ==
    IF CoreAccepts(row, count, pitch, height, scroll_y)
    THEN CoreTarget(row, pitch, height, scroll_y)
    ELSE WordSize - 1       \* addiu v0, zero, -1

-------------------------------------------------------------------------------

ListInit ==
    /\ list \in [count : Words, pitch : Words, height : Words]
    /\ y = 0

Answer(row) == CoreReveal(row, list.count, list.pitch, list.height, y)

Reveal(row) ==
    /\ Signed(Answer(row)) >= 0
    /\ y' = Answer(row)
    /\ UNCHANGED list

Scroll(position) ==
    /\ y' = position
    /\ UNCHANGED list

ListNext == \E w \in Words : Reveal(w) \/ Scroll(w)

ListSpec == ListInit /\ [][ListNext]_listVars

-------------------------------------------------------------------------------

Measured == Geometry(Signed(y), Signed(list.pitch), Signed(list.height))

(* The core and minimal_reveal agree on every word, the ones that are       *)
(* negative when read as signed and the products beyond a word included:    *)
(* the differential promise test_folderfollow_reveal_mips.py samples.       *)
CoreAgrees ==
    \A row \in Words :
        Signed(Answer(row)) = MinimalReveal(Signed(row), Signed(list.count), Measured)

(* The view from position p shows the whole row.                            *)
Shows(p, row) ==
    /\ p <= RowTop(row, Measured)
    /\ RowBottom(row, Measured) <= p + Signed(list.height)

Distance(a, b) == IF a <= b THEN b - a ELSE a - b

(* An answer is a position that the list can be scrolled to and that shows  *)
(* the whole row, and no other such position is nearer to where the user    *)
(* left the list; asked again from there, the core answers the same.        *)
RevealsMinimally ==
    \A row \in Words : Signed(Answer(row)) >= 0 =>
        LET positions == 0 .. ScrollLimit(list.count, Measured)
            again == CoreReveal(row, list.count, list.pitch, list.height, Answer(row))
        IN  /\ Answer(row) \in positions
            /\ Shows(Answer(row), row)
            /\ \A p \in positions :
                  Shows(p, row) => Distance(y, Answer(row)) <= Distance(y, p)
            /\ again = Answer(row)
=============================================================================

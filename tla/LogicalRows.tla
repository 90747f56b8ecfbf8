----------------------------- MODULE LogicalRows -----------------------------
(***************************************************************************)
(* What TextBuffer promises about its rows, seen through GetRowByOffset:   *)
(* an array of Height logical rows with a cursor.  A request edits the     *)
(* cursor's row and the row after it (a wrap, or a wide glyph padded onto  *)
(* the next row); a newline below the last row moves every row up by one   *)
(* and adds a fresh bottom row; a block of rows is copied row by row, the  *)
(* indices taken modulo Height (the negative wrap of _getRow); a block of  *)
(* rows is rewritten in place; Reset makes every row the same blank row.    *)
(* Nothing here knows about slots,                                         *)
(* _firstRow or the scratchpad row.                                        *)
(***************************************************************************)
EXTENDS Integers

CONSTANTS
  Height,        \* _height
  Deltas,        \* the deltas a caller passes to ScrollRows
  MaxScroll      \* the most newlines past the last row one request takes

VARIABLES rows, cursor

Rows == 0 .. Height - 1

(* Every row outside E is as it was.                                       *)
KeepRowsExcept(E) == \A y \in Rows \ E : rows'[y] = rows[y]

(* A write at the cursor: its row and the next one may change.             *)
Write == KeepRowsExcept({cursor.y, cursor.y + 1})

(* The same write reaching k newlines past the last row: every row that    *)
(* the write left alone moves up by k.  A request takes at most two        *)
(* newlines (the padding of a wide glyph and the wrap after it), so k      *)
(* rotations need the cursor within 2 - k rows of the bottom; k is at      *)
(* most MaxScroll.                                                         *)
Scroll(k) ==
  /\ cursor.y + 2 - k >= Height - 1
  /\ \A y \in Rows : y + k < Height /\ y + k \notin {cursor.y, cursor.y + 1}
                       => rows'[y] = rows[y + k]

(* ScrollRows on the logical array: row y + delta takes row y, walking     *)
(* from the end the direction requires, every index modulo Height.         *)
RECURSIVE CopyBlock(_, _, _, _, _)
CopyBlock(r, y, end, step, delta) ==
  IF y = end THEN r
  ELSE CopyBlock([r EXCEPT ![(y + delta) % Height] = r[y % Height]],
                 y + step, end, step, delta)

MoveBlock ==
  \E firstRow \in Rows, size \in 0 .. Height, delta \in Deltas :
    rows' = IF delta < 0 THEN CopyBlock(rows, firstRow, firstRow + size, 1, delta)
            ELSE CopyBlock(rows, firstRow + size - 1, firstRow - 1, -1, delta)

(* ResetLineRenditionRange and FillRect: a block of rows is rewritten in   *)
(* place; rows outside it and the cursor stay.                             *)
RewriteBlock ==
  \E lo, hi \in 0 .. Height :
    /\ lo < hi
    /\ KeepRowsExcept(lo .. hi - 1)
    /\ cursor' = cursor

(* Reset: every row blank alike.                                           *)
Clear == \A y, z \in Rows : rows'[y] = rows'[z]

(* A request that leaves the rows alone (cursor moves, attributes, links,  *)
(* the scratchpad row).                                                    *)
Move == rows' = rows

Init == \A y, z \in Rows : rows[y] = rows[z]

Next == Write \/ (\E k \in 1 .. MaxScroll : Scroll(k)) \/ MoveBlock \/ RewriteBlock \/ Clear \/ Move

Spec == Init /\ [][Next]_<<rows, cursor>>

=============================================================================

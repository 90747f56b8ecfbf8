----------------------------- MODULE WriteGlyphs -----------------------------
(***************************************************************************)
(* Glyph navigation (GlyphNavigation.tla) over the buffers the legacy      *)
(* write path leaves: every state of WriteCharsLegacy, wide glyphs padded, *)
(* overwritten in half and scrolled away included.                         *)
(***************************************************************************)
EXTENDS WriteCharsLegacy

Nav == INSTANCE GlyphNavigation
Sel == INSTANCE SelectionRects

(* The DbcsAttribute of every cell, by offset y * W + x (GetCellDataAt).   *)
Dbcs == [p \in 0 .. W * H - 1 |-> cells[p \div W][p % W]]

(* Every wide glyph the write path leaves is whole and inside one row: a   *)
(* leading half is followed by its trailing half in the same row, a        *)
(* trailing half preceded by its leading half.  FitTextIntoColumns keeps a *)
(* wide glyph out of the last column (466-476), and a write over half of   *)
(* a wide glyph, or a scroll, must not leave the other half behind.        *)
WideGlyphsWhole ==
    \A y \in Rows, x \in Cols0 :
        /\ cells[y][x] = "L" => x + 1 < W /\ cells[y][x + 1] = "T"
        /\ cells[y][x] = "T" => x > 0 /\ cells[y][x - 1] = "L"

(* On every buffer the write path leaves, from every cell: GetGlyphStart   *)
(* and GetGlyphEnd give the first and the last cell of the cell's glyph    *)
(* (the end exclusive in accessibility mode), and MoveToNextGlyph from a   *)
(* glyph's first cell, with or without allowExclusiveEnd, moves onto the   *)
(* next glyph's first cell whenever there is a next glyph, stepping over   *)
(* a trailing half.  What it does after the last glyph, and where          *)
(* MoveToPreviousGlyph lands, is not stated here: the code and its         *)
(* comments at 1680 and 1726 disagree there (see the hazards).             *)
GlyphSteps ==
    LET d == Dbcs
        n == W * H
        Starts == {q \in 0 .. n - 1 : d[q] # "T"}
        Ends == {q \in 0 .. n - 1 : d[q] # "L"}
    IN  \A p \in 0 .. n - 1 :
          LET start == Max({q \in Starts : q <= p})
              end == Min({q \in Ends : q >= p})
              nextStart == Min({q \in Starts : q > p} \cup {n})
          IN  /\ Nav!GetGlyphStart(d, n, p, n) = start
              /\ Nav!GetGlyphEnd(d, n, p, FALSE, n) = end
              /\ Nav!GetGlyphEnd(d, n, p, TRUE, n) = end + 1
              /\ p \in Starts /\ nextStart < n =>
                   \A allow \in BOOLEAN :
                     Nav!MoveToNextGlyph(d, n, p, allow, n) = [moved |-> TRUE, pos |-> nextStart]

(* On every buffer the write path leaves, for every pair of cells a, b     *)
(* (a first in reading order, passed in either order): the rects of a      *)
(* stream selection from a to b, GetTextRects cut at the row edges and     *)
(* widened by _ExpandTextRow, cover exactly the cells from the first cell  *)
(* of a's glyph to the last cell of b's glyph, and GetTextSpans' single    *)
(* span has those two ends; a block selection has one rect per row from    *)
(* a's to b's row, each the narrowest run of whole glyphs in its row that  *)
(* holds both columns.  A selection reads the buffer under the console    *)
(* lock, which a WriteCharsLegacy call holds for all its steps: the        *)
(* buffers it sees are those between calls.                               *)
SelectionCoversWholeGlyphs ==
  pc = "idle" =>
  LET d == Dbcs
      n == W * H
      P(q) == [x |-> q % W, y |-> q \div W]
      Off(pt) == pt.y * W + pt.x
      Cells(rect) == {rect.top * W + x : x \in rect.left .. rect.right}
      \* the first and the last cell of each cell's glyph, and the same
      \* columns walked only within the cell's row
      first[q \in 0 .. n - 1] == IF q = 0 \/ d[q] # "T" THEN q ELSE first[q - 1]
      last[q \in 0 .. n - 1] == IF q = n - 1 \/ d[q] # "L" THEN q ELSE last[q + 1]
      rowFirst[q \in 0 .. n - 1] ==
        IF P(q).x = 0 \/ d[q] # "T" THEN P(q).x ELSE rowFirst[q - 1]
      rowLast[q \in 0 .. n - 1] ==
        IF P(q).x = W - 1 \/ d[q] # "L" THEN P(q).x ELSE rowLast[q + 1]
  IN  \A a, b \in 0 .. n - 1 : a <= b =>
        LET stream == Sel!GetTextRects(d, W, P(a), P(b), FALSE)
            span == Sel!GetTextSpans(d, W, P(b), P(a), FALSE)[1]
            block == Sel!GetTextRects(d, W, P(b), P(a), TRUE)
            xlo == IF P(a).x < P(b).x THEN P(a).x ELSE P(b).x
            xhi == IF P(a).x < P(b).x THEN P(b).x ELSE P(a).x
        IN  /\ UNION {Cells(stream[i]) : i \in DOMAIN stream} = first[a] .. last[b]
            /\ Off(span.first) = first[a] /\ Off(span.second) = last[b]
            /\ DOMAIN block = 1 .. 1 + P(b).y - P(a).y
            /\ \A i \in DOMAIN block :
                 LET y == P(a).y + i - 1
                 IN  /\ block[i].top = y /\ block[i].bottom = y
                     /\ block[i].left = rowFirst[y * W + xlo]
                     /\ block[i].right = rowLast[y * W + xhi]
=============================================================================

-------------------------- MODULE SelectionRects --------------------------
(***************************************************************************)
(* Selection geometry (textBuffer.cpp 1766-1913): GetTextRects,            *)
(* GetTextSpans and _ExpandTextRow, with bufferCoordinates set (the        *)
(* coordinates are buffer cells, so ScreenToBufferLine is not applied).    *)
(*                                                                         *)
(* dbcs[y * w + x] is the DbcsAttribute of cell (x, y): "S" a one-column   *)
(* glyph, "L" and "T" the leading and trailing half of a wide glyph.  A    *)
(* point is [x, y]; an inclusive rect is [left, top, right, bottom].       *)
(***************************************************************************)
EXTENDS Integers

Rect(l, t, r, b) == [left |-> l, top |-> t, right |-> r, bottom |-> b]

(* The x that Viewport::IncrementInBounds / DecrementInBounds leave; the   *)
(* caller keeps only x, so a step across a row edge (w = 1) reads as the   *)
(* column it wraps to.                                                     *)
StepRightX(x, w) == (x + 1) % w
StepLeftX(x, w) == (x - 1 + w) % w

(* Mutant: the left edge is not widened over a trailing half.             *)
_ExpandTextRowRightOnly(dbcs, w, textRow) ==
  LET r == textRow.right
      right == IF dbcs[textRow.bottom * w + r] # "L" THEN r
               ELSE IF r = w - 1 THEN StepLeftX(r, w) ELSE StepRightX(r, w)
  IN  [textRow EXCEPT !.right = right]

(* _ExpandTextRow: a left edge on a trailing half moves onto its leading   *)
(* half, a right edge on a leading half onto its trailing half -- except   *)
(* at the buffer's left and right edge, where the step goes inwards.       *)
_ExpandTextRow(dbcs, w, textRow) ==
  LET l == textRow.left
      r == textRow.right
      left == IF dbcs[textRow.top * w + l] # "T" THEN l
              ELSE IF l = 0 THEN StepRightX(l, w) ELSE StepLeftX(l, w)
      right == IF dbcs[textRow.bottom * w + r] # "L" THEN r
               ELSE IF r = w - 1 THEN StepLeftX(r, w) ELSE StepRightX(r, w)
  IN  [textRow EXCEPT !.left = left, !.right = right]

(* GetTextRects: one rect per row from the higher to the lower point (in   *)
(* CompareInBounds order).  A block selection, or one row, spans the two   *)
(* x between them; a stream selection runs from the higher x to the right  *)
(* edge, whole middle rows, and from the left edge to the lower x.         *)
GetTextRects(dbcs, w, start, end, blockSelection) ==
  LET ordered == start.y * w + start.x <= end.y * w + end.x
      higher == IF ordered THEN start ELSE end
      lower == IF ordered THEN end ELSE start
      lo == IF higher.x < lower.x THEN higher.x ELSE lower.x
      hi == IF higher.x < lower.x THEN lower.x ELSE higher.x
      TextRow(row) ==
        IF blockSelection \/ higher.y = lower.y THEN Rect(lo, row, hi, row)
        ELSE Rect(IF row = higher.y THEN higher.x ELSE 0, row,
                  IF row = lower.y THEN lower.x ELSE w - 1, row)
  IN  [i \in 1 .. 1 + lower.y - higher.y |->
         _ExpandTextRow(dbcs, w, TextRow(higher.y + i - 1))]

(* GetTextSpans: a block selection is GetTextRects as point pairs; a       *)
(* stream selection is one span, both ends widened by one _ExpandTextRow   *)
(* over the rect from the higher to the lower point (til::point order).    *)
GetTextSpans(dbcs, w, start, end, blockSelection) ==
  IF blockSelection
  THEN LET rects == GetTextRects(dbcs, w, start, end, TRUE)
       IN  [i \in DOMAIN rects |->
              [first |-> [x |-> rects[i].left, y |-> rects[i].top],
               second |-> [x |-> rects[i].right, y |-> rects[i].bottom]]]
  ELSE LET ordered == start.y < end.y \/ (start.y = end.y /\ start.x <= end.x)
           higher == IF ordered THEN start ELSE end
           lower == IF ordered THEN end ELSE start
           asRect == _ExpandTextRow(dbcs, w, Rect(higher.x, higher.y, lower.x, lower.y))
       IN  << [first |-> [x |-> asRect.left, y |-> asRect.top],
               second |-> [x |-> asRect.right, y |-> asRect.bottom]] >>

=============================================================================

-------------------------- MODULE GlyphNavigation --------------------------
(***************************************************************************)
(* Glyph navigation over a buffer's wide-glyph halves (textBuffer.cpp      *)
(* 1623-1765): GetGlyphStart, GetGlyphEnd, MoveToNextGlyph and             *)
(* MoveToPreviousGlyph.                                                    *)
(*                                                                         *)
(* A position is the linear offset y * w + x of the buffer's Viewport; n   *)
(* cells, EndExclusive is n, and the limit defaults to n.  dbcs[p] is the  *)
(* DbcsAttribute of the cell at p: "S" a one-column glyph, "L" and "T" the *)
(* leading and trailing half of a wide glyph.                              *)
(***************************************************************************)
EXTENDS Integers

(* Viewport::IncrementInBounds / DecrementInBounds with allowEndExclusive: *)
(* one step, clamped to [0, n].                                            *)
IncrementInBoundsEnd(p, n) == IF p + 1 > n THEN n ELSE p + 1
DecrementInBoundsEnd(p) == IF p - 1 < 0 THEN 0 ELSE p - 1

(* TextBufferCellIterator::operator++: one cell on; past the last cell it *)
(* stands on EndExclusive and converts to false.                           *)
IterNext(p, n) == [pos |-> IncrementInBoundsEnd(p, n), ok |-> p + 1 < n]

(* Both start by clamping pos to the limit.                                *)
Clamp(pos, limit) == IF pos > limit THEN limit ELSE pos

GetGlyphStart(dbcs, n, pos, limit) ==
    LET r == Clamp(pos, limit)
    IN  IF r # limit /\ dbcs[r] = "T" THEN DecrementInBoundsEnd(r) ELSE r

GetGlyphEnd(dbcs, n, pos, accessibilityMode, limit) ==
    LET r == Clamp(pos, limit)
        e == IF r # limit /\ dbcs[r] = "L" THEN IncrementInBoundsEnd(r, n) ELSE r
    IN  IF accessibilityMode THEN IncrementInBoundsEnd(e, n) ELSE e

(* Mutant: the trailing half is not skipped.                               *)
MoveToNextGlyphNoSkip(dbcs, n, pos, allowExclusiveEnd, limit) ==
    LET distanceToLimit == pos - limit
        it == IterNext(pos, n)
    IN  CASE distanceToLimit >= 0 -> [moved |-> FALSE, pos |-> limit]
          [] ~allowExclusiveEnd /\ distanceToLimit = -1 -> [moved |-> FALSE, pos |-> pos]
          [] OTHER -> [moved |-> it.ok, pos |-> it.pos]

(* MoveToNextGlyph: whether pos moved (the iterator's success) and where.  *)
MoveToNextGlyph(dbcs, n, pos, allowExclusiveEnd, limit) ==
    LET distanceToLimit == pos - limit
        it == IterNext(pos, n)
        next == IF it.ok /\ dbcs[it.pos] = "T" THEN IterNext(it.pos, n).pos ELSE it.pos
    IN  CASE distanceToLimit >= 0 -> [moved |-> FALSE, pos |-> limit]
          [] ~allowExclusiveEnd /\ distanceToLimit = -1 -> [moved |-> FALSE, pos |-> pos]
          [] OTHER -> [moved |-> it.ok, pos |-> next]

MoveToPreviousGlyph(dbcs, n, pos, limit) ==
    LET r == DecrementInBoundsEnd(pos)
    IN  IF pos > limit THEN [moved |-> TRUE, pos |-> limit]
        ELSE [moved |-> pos - 1 >= 0,
              pos |-> IF r # n /\ dbcs[r] = "L" THEN DecrementInBoundsEnd(r) ELSE r]

=============================================================================

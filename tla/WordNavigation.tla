--------------------------- MODULE WordNavigation ---------------------------
(***************************************************************************)
(* Word navigation over a buffer's delimiter classes (textBuffer.cpp       *)
(* 1262-1622): GetWordStart, GetWordEnd, their selection and accessibility *)
(* helpers, MoveToNextWord and MoveToPreviousWord.                         *)
(*                                                                         *)
(* A position is the linear offset y * w + x of the buffer's Viewport      *)
(* (GetSize()); n = w * h cells, the origin is 0, BottomRightInclusive is  *)
(* n - 1 and EndExclusive is n.  cls[p] is _GetDelimiterClassAt at p.      *)
(* til::Viewport is not in this repository: its in-bounds walks are the    *)
(* clamped offset arithmetic of Viewport::WalkInBounds.                    *)
(***************************************************************************)
EXTENDS Integers

RegularChar == "RegularChar"
DelimiterChar == "DelimiterChar"
ControlChar == "ControlChar"
DelimiterClass == {RegularChar, DelimiterChar, ControlChar}

(* Viewport::IncrementInBounds / DecrementInBounds: one step, clamped to   *)
(* the last cell, or to EndExclusive when allowEndExclusive is set.        *)
IncrementInBounds(p, n) == IF p + 1 > n - 1 THEN n - 1 ELSE p + 1
IncrementInBoundsEnd(p, n) == IF p + 1 > n THEN n ELSE p + 1
DecrementInBounds(p) == IF p - 1 < 0 THEN 0 ELSE p - 1
IncrementInBoundsCircular(p, n) == IF p + 1 = n THEN 0 ELSE p + 1

(* Mutant: a control run that wraps onto the previous row.               *)
RECURSIVE ExpandLeftAcrossRows(_, _, _, _)
ExpandLeftAcrossRows(cls, w, r, c) ==
    IF r # 0 /\ cls[r] = c
    THEN ExpandLeftAcrossRows(cls, w, DecrementInBounds(r), c)
    ELSE r

(* The loop of _GetWordStartForSelection: step left while the class is the *)
(* initial one, not at the origin, and not a control run at the left edge. *)
RECURSIVE ExpandLeft(_, _, _, _)
ExpandLeft(cls, w, r, c) ==
    IF r # 0 /\ cls[r] = c /\ ~(c = ControlChar /\ r % w = 0)
    THEN ExpandLeft(cls, w, DecrementInBounds(r), c)
    ELSE r

_GetWordStartForSelection(cls, w, n, t) ==
    LET r == ExpandLeft(cls, w, t, cls[t])
    IN  IF cls[r] # cls[t] THEN IncrementInBounds(r, n) ELSE r

(* The loop of _GetWordEndForSelection, mirrored at the right edge.        *)
RECURSIVE ExpandRight(_, _, _, _, _)
ExpandRight(cls, w, n, r, c) ==
    IF r # n - 1 /\ cls[r] = c /\ ~(c = ControlChar /\ r % w = w - 1)
    THEN ExpandRight(cls, w, n, IncrementInBoundsCircular(r, n), c)
    ELSE r

_GetWordEndForSelection(cls, w, n, t) ==
    LET r == ExpandRight(cls, w, n, t, cls[t])
    IN  IF cls[r] # cls[t] THEN DecrementInBounds(r) ELSE r

(* The two loops of _GetWordStartForAccessibility: step left while the     *)
(* cell is (regular) or is not (~regular) a RegularChar; each returns at   *)
(* the origin.                                                             *)
RECURSIVE BackWhile(_, _, _)
BackWhile(cls, r, regular) ==
    IF (cls[r] = RegularChar) = regular /\ r # 0
    THEN BackWhile(cls, DecrementInBounds(r), regular)
    ELSE r

_GetWordStartForAccessibility(cls, n, t) ==
    LET a == BackWhile(cls, t, FALSE)
        b == BackWhile(cls, a, TRUE)
    IN  CASE cls[a] # RegularChar -> a      \* no readable text back to the origin
          [] cls[b] = RegularChar -> b      \* the first cell is a RegularChar
          [] OTHER                -> IncrementInBounds(b, n)

(* The two loops of _GetWordEndForAccessibility, stopping at the limit and *)
(* at BottomRightInclusive.                                                *)
RECURSIVE FwdWhile(_, _, _, _, _)
FwdWhile(cls, n, limit, r, regular) ==
    IF r # limit /\ r # n - 1 /\ (cls[r] = RegularChar) = regular
    THEN FwdWhile(cls, n, limit, IncrementInBounds(r, n), regular)
    ELSE r

(* Mutant: no step from BottomRightInclusive onto EndExclusive.          *)
_GetWordEndForAccessibilityNoEndStep(cls, n, t, limit) ==
    IF t >= limit
    THEN IncrementInBoundsEnd(limit, n)
    ELSE FwdWhile(cls, n, limit, FwdWhile(cls, n, limit, t, TRUE), FALSE)

_GetWordEndForAccessibility(cls, n, t, limit) ==
    IF t >= limit
    THEN IncrementInBoundsEnd(limit, n)
    ELSE LET r == FwdWhile(cls, n, limit, FwdWhile(cls, n, limit, t, TRUE), FALSE)
         IN  IF r = n - 1 THEN IncrementInBoundsEnd(r, n) ELSE r

(* GetWordStart: the origin stays; EndExclusive counts as the last cell;   *)
(* at or past the limit the search starts from the limit.  A limit of n    *)
(* is the default, value_or(EndExclusive).                                 *)
GetWordStart(cls, w, n, target, accessibilityMode, limit) ==
    LET copy == CASE target = n      -> n - 1
                  [] target >= limit -> limit
                  [] OTHER           -> target
    IN  IF target = 0 THEN target
        ELSE IF accessibilityMode THEN _GetWordStartForAccessibility(cls, n, copy)
        ELSE _GetWordStartForSelection(cls, w, n, copy)

GetWordEnd(cls, w, n, target, accessibilityMode, limit) ==
    IF target >= limit THEN target
    ELSE IF accessibilityMode THEN _GetWordEndForAccessibility(cls, n, target, limit)
    ELSE _GetWordEndForSelection(cls, w, n, target)

(* MoveToNextWord and MoveToPreviousWord: whether pos moved, and where to. *)
MoveToNextWord(cls, n, pos, limit) ==
    LET copy == _GetWordEndForAccessibility(cls, n, pos, limit)
    IN  IF copy >= limit THEN [moved |-> FALSE, pos |-> pos]
        ELSE [moved |-> TRUE, pos |-> copy]

MoveToPreviousWord(cls, w, n, pos) ==
    LET copy == GetWordStart(cls, w, n, pos, TRUE, n)
    IN  IF copy = 0 THEN [moved |-> FALSE, pos |-> pos]
        ELSE [moved |-> TRUE, pos |-> GetWordStart(cls, w, n, copy - 1, TRUE, n)]

=============================================================================

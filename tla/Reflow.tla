------------------------------- MODULE Reflow -------------------------------
(***************************************************************************)
(* TextBuffer::Reflow (textBuffer.cpp 2475-2690): the copy of an old      *)
(* buffer into a freshly allocated buffer of another size, re-wrapping     *)
(* single-width rows at the new width.                                     *)
(*                                                                         *)
(* A buffer is its logical rows (the ring rotation already applied), its   *)
(* size and its cursor.  A row is the sequence of its cells, its           *)
(* forced-wrap flag and whether its line rendition is other than single    *)
(* width.  A cell is a number naming the character written there; Space    *)
(* is a blank cell.  Glyphs are one column wide: ROW::CopyTextFrom and      *)
(* ROW::AdjustToGlyphStart then copy cell for cell and return their        *)
(* argument.  Attributes, hyperlinks and marks are not modelled.           *)
(*                                                                         *)
(* The loop writes new rows through GetMutableRowByOffset(newY) while the  *)
(* new buffer's _firstRow is 0, i.e. into slot newY % newHeight; the       *)
(* closed form at the end turns the slots back into logical rows.          *)
(***************************************************************************)
EXTENDS Integers, Sequences, SequencesExt

CONSTANTS
    OldW, OldH,     \* size of the buffer before the first resize
    Widths,         \* widths a resize may ask for
    Heights,        \* heights a resize may ask for
    MaxResizes      \* bound on the number of resizes in a behaviour

ASSUME OldW >= 1 /\ OldH >= 1 /\ Widths \subseteq Nat \ {0} /\ Heights \subseteq Nat \ {0}

Space == 0
CoordTypeMax == 1000    \* til::CoordTypeMax, larger than any row index here

VARIABLES buf, resizes,
          lastResize   \* ghost: the operation of the last resize
vars == <<buf, resizes, lastResize>>

MinOf(a, b) == IF a < b THEN a ELSE b
MaxOf(a, b) == IF a > b THEN a ELSE b
Clamp(v, lo, hi) == MinOf(MaxOf(v, lo), hi)

BlankRow == [cells |-> <<>>, wrap |-> FALSE, dbl |-> FALSE]

(* ROW::MeasureRight: one past the last non-blank cell, 0 for a blank row. *)
MeasureRight(row) ==
    LET used == {i \in DOMAIN row.cells : row.cells[i] # Space}
    IN  IF used = {} THEN 0 ELSE Max(used)

(* ROW::AdjustToGlyphStart on a row of nw one-column cells: the column     *)
(* clamped into the row (ROW is not part of this repository; this is its   *)
(* upstream behaviour, _adjustBackward(_clampedColumn(column))).           *)
AdjustToGlyphStart(x, nw) == Clamp(x, 0, nw - 1)

CellAt(row, x) == IF x < Len(row.cells) THEN row.cells[x + 1] ELSE Space

(* GetLastNonSpaceCharacter(nullptr).y: from the bottom row up to the     *)
(* first row with text; 0 when there is none.  The scan starts at the      *)
(* buffer's last row (every row of these buffers is committed).            *)
LastRowWithText(b) ==
    LET withText == {y \in 0..b.h - 1 : MeasureRight(b.rows[y]) > 0}
    IN  IF withText = {} THEN 0 ELSE Max(withText)

(* Mutant: one cell more than the column count asks for.                 *)
CopyTextFromPastEnd(dst, src, newX, oldX, n) ==
    [dst EXCEPT !.cells = [i \in 1..newX |-> CellAt(dst, i - 1)]
                          \o [i \in 1..n + 1 |-> CellAt(src, oldX + i - 1)]]

(* ROW::CopyTextFrom for one-column glyphs: n cells of src from column     *)
(* oldX land in dst from column newX on.                                   *)
CopyTextFrom(dst, src, newX, oldX, n) ==
    [dst EXCEPT !.cells = [i \in 1..newX |-> CellAt(dst, i - 1)]
                          \o [i \in 1..n |-> CellAt(src, oldX + i - 1)]]

(* The wrap at the top of the do-while (2579-2584).                        *)
WrapIfFull(st, nw, nh) ==
    IF st.newX >= nw
    THEN [st EXCEPT !.slots[st.newY % nh].wrap = TRUE, !.newX = 0, !.newY = @ + 1]
    ELSE st

(* One pass of the do-while after the wrap: REFLOW_RESET (2590-2598), the  *)
(* copy (2600-2609) and the cursor bookkeeping (2617-2629).  s is the      *)
(* state after WrapIfFull and n the number of cells copied.                *)
CopyChunk(s, src, oldY, oldX, n, c, nw, nh) ==
    LET reset  == IF s.newY >= nh /\ s.newX = 0
                  THEN [s EXCEPT !.slots[s.newY % nh] = BlankRow] ELSE s
        copied == [reset EXCEPT !.slots[s.newY % nh] = CopyTextFrom(@, src, s.newX, oldX, n),
                                !.newX = @ + n]
    IN  IF oldY = c.y /\ c.x >= oldX
        THEN [copied EXCEPT !.cur = [x |-> AdjustToGlyphStart(c.x - oldX + s.newX, nw), y |-> s.newY],
                            !.newYLimit = s.newY + nh]
        ELSE copied

(* The do-while of 2573-2643 over one single-width row, from column oldX.  *)
(* It leaves early, before a reset, once newY reaches newYLimit.           *)
RECURSIVE CopyRow(_, _, _, _, _, _, _, _)
CopyRow(st, src, oldY, oldX, limit, c, nw, nh) ==
    LET s == WrapIfFull(st, nw, nh)
        n == MinOf(limit - oldX, nw - s.newX)
    IN  IF s.newY >= nh /\ s.newX = 0 /\ s.newY >= s.newYLimit
        THEN s
        ELSE LET t == CopyChunk(s, src, oldY, oldX, n, c, nw, nh)
             IN  IF oldX + n < limit THEN CopyRow(t, src, oldY, oldX + n, limit, c, nw, nh)
                 ELSE t

(* ROW::CopyFrom: the row's text as far as the new width holds it, with   *)
(* its wrap flag and rendition (ROW is not part of this repository; this  *)
(* is its upstream behaviour for one-column glyphs).                      *)
CopyFromRow(src, nw) ==
    [src EXCEPT !.cells = SubSeq(@, 1, MinOf(Len(@), nw))]

(* A row of another line rendition (2514-2553): newline if the new row is  *)
(* not empty, copy the whole row (ROW::CopyFrom, cut to the new width) and *)
(* clear its wrap flag.                                                    *)
CopyRenditionRow(st, src, oldY, c, nw, nh) ==
    LET s   == IF st.newX # 0 THEN [st EXCEPT !.newX = 0, !.newY = @ + 1] ELSE st
        row == [CopyFromRow(src, nw) EXCEPT !.wrap = FALSE]
    IN  [s EXCEPT !.slots[s.newY % nh] = row,
                  !.cur = IF oldY = c.y THEN [x |-> AdjustToGlyphStart(c.x, nw), y |-> s.newY] ELSE @,
                  !.newY = @ + 1]

(* Mutant: without REFLOW_JANK_CURSOR_WRAP.                              *)
RowLimitNoJank(row, oldY, c) == MeasureRight(row)

(* The copy limit of a single-width row: MeasureRight, and at least one    *)
(* past the cursor on the cursor's row (REFLOW_JANK_CURSOR_WRAP, 2557-2566). *)
RowLimit(row, oldY, c) ==
    IF oldY = c.y THEN MaxOf(MeasureRight(row), c.x + 1) ELSE MeasureRight(row)

(* Mutant: a newline after every row, wrapped or not.                     *)
EndOfRowAlways(st, src) == [st EXCEPT !.newX = 0, !.newY = @ + 1]

(* The newline after a row that ended with an explicit newline (2646-2650). *)
EndOfRow(st, src) ==
    IF src.wrap THEN st ELSE [st EXCEPT !.newX = 0, !.newY = @ + 1]

(* One iteration of the main loop (2510-2650).                             *)
ReflowRow(st, src, oldY, c, nw, nh) ==
    IF src.dbl THEN CopyRenditionRow(st, src, oldY, c, nw, nh)
    ELSE EndOfRow(CopyRow(st, src, oldY, 0, RowLimit(src, oldY, c), c, nw, nh), src)

(* The main loop (2508): rows of the old buffer until oldHeight, or until  *)
(* newY reaches newYLimit.                                                 *)
RECURSIVE ReflowFrom(_, _, _, _, _, _, _)
ReflowFrom(st, b, oldY, oldHeight, c, nw, nh) ==
    IF oldY < oldHeight /\ st.newY < st.newYLimit
    THEN ReflowFrom(ReflowRow(st, b.rows[oldY], oldY, c, nw, nh), b, oldY + 1, oldHeight, c, nw, nh)
    ELSE st

(* Mutant: _firstRow moved but the cursor row left in slot coordinates.   *)
FinishKeepCursorY(st, nw, nh) ==
    LET firstRow == IF st.newY > nh THEN st.newY % nh ELSE 0
    IN  [w |-> nw, h |-> nh,
         rows |-> [y \in 0..nh - 1 |-> st.slots[(y + firstRow) % nh]],
         cursor |-> st.cur]

(* The closed form of 2670-2678 and the new buffer it leaves: logical row  *)
(* y is slot (y + _firstRow) % newHeight.  The attribute pass of 2657-2665 *)
(* moves newY only while newY < newHeight and so never changes _firstRow.  *)
Finish(st, nw, nh) ==
    LET firstRow == IF st.newY > nh THEN st.newY % nh ELSE 0
    IN  [w |-> nw, h |-> nh,
         rows |-> [y \in 0..nh - 1 |-> st.slots[(y + firstRow) % nh]],
         cursor |-> [x |-> st.cur.x,
                     y |-> IF st.newY > nh THEN (st.cur.y - firstRow + nh) % nh
                           ELSE st.cur.y]]

(* The cursor clamped into the old buffer (2489-2490).                     *)
OldCursor(b) == [x |-> Clamp(b.cursor.x, 0, b.w - 1), y |-> Clamp(b.cursor.y, 0, b.h - 1)]

(* The copy loop of TextBuffer::Reflow into a new nw x nh buffer.        *)
ReflowLoop(b, nw, nh) ==
    LET c == OldCursor(b)
        start == [slots |-> [y \in 0..nh - 1 |-> BlankRow], newX |-> 0, newY |-> 0,
                  newYLimit |-> CoordTypeMax, cur |-> [x |-> 0, y |-> 0]]
    IN  ReflowFrom(start, b, 0, MaxOf(LastRowWithText(b), c.y) + 1, c, nw, nh)

(* TextBuffer::Reflow into a new nw x nh buffer.                           *)
Reflow(b, nw, nh) == Finish(ReflowLoop(b, nw, nh), nw, nh)

(* Mutant: the first source row one too high.                            *)
ResizeTraditionalOffByOne(b, nw0, nh0) ==
    LET nw == MaxOf(nw0, 1)
        nh == MaxOf(nh0, 1)
        srcRow == IF b.cursor.y >= nh THEN b.cursor.y - nh ELSE 0
    IN  [w |-> nw, h |-> nh,
         rows |-> [d \in 0..nh - 1 |-> IF d < MinOf(b.h, nh)
                                        THEN CopyFromRow(b.rows[(srcRow + d) % b.h], nw)
                                        ELSE BlankRow],
         cursor |-> b.cursor]

(* TextBuffer::ResizeTraditional (1155-1188): a new buffer whose first     *)
(* min(height, newHeight) rows are copies of the old rows from srcRow on,  *)
(* srcRow chosen so that the cursor's row is the last one kept.  The old   *)
(* rows are read through GetRowByOffset, i.e. modulo the old height (187-  *)
(* 201), _firstRow becomes 0, and the cursor is left where it was.         *)
ResizeTraditional(b, nw0, nh0) ==
    LET nw == MaxOf(nw0, 1)
        nh == MaxOf(nh0, 1)
        srcRow == IF b.cursor.y >= nh THEN b.cursor.y - nh + 1 ELSE 0
    IN  [w |-> nw, h |-> nh,
         rows |-> [d \in 0..nh - 1 |-> IF d < MinOf(b.h, nh)
                                        THEN CopyFromRow(b.rows[(srcRow + d) % b.h], nw)
                                        ELSE BlankRow],
         cursor |-> b.cursor]

-----------------------------------------------------------------------------
(* The buffers a session can hold before the first resize: each row holds  *)
(* text up to some column, the last character possibly a blank, a wrap     *)
(* flag, and a rendition; a double-width row holds at most half a row.     *)
(* Cell (y, x) of the initial buffer is named y * OldW + x + 1.            *)
InitRows ==
    { [y \in 0..OldH - 1 |-> [cells |-> [i \in 1..len[y] |->
                                IF i = len[y] /\ blank[y] THEN Space ELSE y * OldW + i],
                              wrap |-> wrap[y], dbl |-> dbl[y]]] :
        len \in [0..OldH - 1 -> 0..OldW], blank \in [0..OldH - 1 -> BOOLEAN],
        wrap \in [0..OldH - 1 -> BOOLEAN], dbl \in [0..OldH - 1 -> BOOLEAN] }

(* Rows hold text only where written, a double-width row at most half a   *)
(* row.  A row is wrap-forced only when a write ran past its last column  *)
(* (IncrementCursor), so it is full, and never the bottom row: the newline *)
(* that follows scrolls it up.  The cursor stays inside its line's width   *)
(* (TextBuffer's CursorInLine).                                            *)
LineWidth(row) == IF row.dbl THEN OldW \div 2 ELSE OldW

InitBuffers ==
    { b \in [w : {OldW}, h : {OldH}, rows : InitRows,
             cursor : [x : 0..OldW - 1, y : 0..OldH - 1]] :
        /\ \A y \in 0..OldH - 1 : /\ Len(b.rows[y].cells) <= LineWidth(b.rows[y])
                                /\ b.rows[y].wrap => Len(b.rows[y].cells) = LineWidth(b.rows[y])
        /\ ~b.rows[OldH - 1].wrap
        /\ b.cursor.x < LineWidth(b.rows[b.cursor.y]) }

Init == /\ buf \in InitBuffers
        /\ resizes = 0
        /\ lastResize = "None"

(* A resize with reflow to a size from Widths x Heights.                   *)
ResizeWithReflow ==
    /\ resizes < MaxResizes
    /\ \E nw \in Widths, nh \in Heights : buf' = Reflow(buf, nw, nh)
    /\ resizes' = resizes + 1
    /\ lastResize' = "Reflow"

(* A resize without reflow to a size from Widths x Heights.                *)
ResizeTraditionalStep ==
    /\ resizes < MaxResizes
    /\ \E nw \in Widths, nh \in Heights : buf' = ResizeTraditional(buf, nw, nh)
    /\ resizes' = resizes + 1
    /\ lastResize' = "Traditional"

Next == ResizeWithReflow \/ ResizeTraditionalStep

Spec == Init /\ [][Next]_vars

-----------------------------------------------------------------------------
(* The text of a buffer as lines: a line is a row and the rows its forced  *)
(* wrap continues into, Text(y) is what row y contributes, and trailing    *)
(* blanks of a line and blank lines at the end of the buffer are dropped.  *)
LineStarts(b, n) == {y \in 0..n - 1 : y = 0 \/ ~b.rows[y - 1].wrap}

LineEnd(b, n, s) == Min({z \in s..n - 1 : ~b.rows[z].wrap} \cup {n - 1})

TrimEnd(cells) == SubSeq(cells, 1, MeasureRight([cells |-> cells]))

Lines(b, n, Text(_)) ==
    LET starts == SetToSortSeq(LineStarts(b, n), <)
        line(s) == TrimEnd(FlattenSeq([k \in 1..LineEnd(b, n, s) - s + 1 |-> Text(s + k - 1)]))
        all == [i \in 1..Len(starts) |-> line(starts[i])]
        kept == {i \in DOMAIN all : all[i] # <<>>}
    IN  SubSeq(all, 1, IF kept = {} THEN 0 ELSE Max(kept))

(* Where the cursor is in the text: the index of its line and the number   *)
(* of cells of that line before it, Width(y) being what row y contributes. *)
CursorInText(b, n, cur, Width(_)) ==
    LET s == Max({y \in LineStarts(b, n) : y <= cur.y})
    IN  <<Cardinality({y \in LineStarts(b, n) : y <= cur.y}),
          SumFunction([z \in s..cur.y - 1 |-> Width(z)]) + cur.x>>

(* The text Reflow reads from an old row: the cells up to its copy limit.  *)
OldHeight(b) == MaxOf(LastRowWithText(b), OldCursor(b).y) + 1
OldText(b) == LET t(y) == [i \in 1..RowLimit(b.rows[y], y, OldCursor(b)) |-> CellAt(b.rows[y], i - 1)]
              IN  Lines(b, OldHeight(b), t)
NewText(b) == LET t(y) == b.rows[y].cells IN Lines(b, b.h, t)

(* The re-wrapped text fits: no rendition rows, and every old row needs at *)
(* most ceil(limit / nw) new rows (one when empty) and together no more    *)
(* than nh, so nothing is reset, rotated or cut off at newYLimit.          *)
Fits(b, nw, nh) ==
    /\ \A y \in 0..b.h - 1 : ~b.rows[y].dbl
    /\ SumFunction([y \in 0..OldHeight(b) - 1 |->
            MaxOf(1, (RowLimit(b.rows[y], y, OldCursor(b)) + nw - 1) \div nw)]) <= nh

(* A height no reflow of b fills: every old row makes at most b.w rows.   *)
TallHeight(b) == b.h * b.w + 1

(* The last row Reflow copies ends with an explicit newline.               *)
LastRowEnds(b) == ~b.rows[OldHeight(b) - 1].wrap

-----------------------------------------------------------------------------
TypeOK ==
    /\ buf.w \in {OldW} \cup Widths /\ buf.h \in {OldH} \cup Heights
    /\ DOMAIN buf.rows = 0..buf.h - 1
    /\ \A y \in 0..buf.h - 1 : /\ buf.rows[y].cells \in Seq(Nat)
                             /\ Len(buf.rows[y].cells) <= buf.w
                             /\ buf.rows[y].wrap \in BOOLEAN /\ buf.rows[y].dbl \in BOOLEAN
    /\ buf.cursor \in [x : Nat, y : Nat]
    /\ resizes \in 0..MaxResizes
    /\ lastResize \in {"None", "Reflow", "Traditional"}

(* Spec section 8 and the asserts at 2683-2684: Reflow never leaves the    *)
(* cursor outside [0,width) x [0,height) of the new buffer.  After         *)
(* ResizeTraditional the cursor is its caller's to move.                   *)
CursorInBuffer ==
    lastResize = "Reflow" => buf.cursor.x < buf.w /\ buf.cursor.y < buf.h

(* Spec 4.5: the closed form for _firstRow and the cursor row (2670-2678)  *)
(* with the resets of REFLOW_RESET (2590-2598) is equivalent to ring       *)
(* rotation: when the last copied row ends with a newline and nothing       *)
(* written after the cursor's row is cut, the new buffer is the last nh    *)
(* rows of the same reflow into a buffer too tall to rotate, and the       *)
(* cursor is on the same row of that window.  A one-row buffer is left    *)
(* out: there the limit 2628 takes from a chunk before the cursor's stops  *)
(* the copy before the cursor's cell.                                      *)
ReflowRotatesLikeRing ==
    [][LET tall == ReflowLoop(buf, buf'.w, TallHeight(buf))
           top  == MaxOf(tall.newY - buf'.h, 0)
       IN  lastResize' = "Reflow" /\ buf'.h > 1 /\ LastRowEnds(buf) /\ tall.newY <= tall.cur.y + buf'.h =>
             /\ \A y \in 0..buf'.h - 1 :
                   buf'.rows[y] = IF top + y < tall.newY THEN tall.slots[top + y] ELSE BlankRow
             /\ buf'.cursor = [x |-> tall.cur.x, y |-> tall.cur.y - top]]_vars

(* When the re-wrapped text fits, Reflow keeps every line's text: the      *)
(* wrap flags it sets (2581), the newline it adds only after an explicit   *)
(* one (2646) and the cursor row's limit (2565) join the new rows into     *)
(* exactly the lines it read.                                              *)
ReflowKeepsLines ==
    [][lastResize' = "Reflow" /\ Fits(buf, buf'.w, buf'.h) => NewText(buf') = OldText(buf)]_vars

(* When the re-wrapped text fits, the cursor stays on the cell it was on:  *)
(* same line, same offset in the line (2621 and the closed form 2677).     *)
ReflowKeepsCursorCell ==
    [][lastResize' = "Reflow" /\ Fits(buf, buf'.w, buf'.h) =>
         LET oc == OldCursor(buf)
             oldWidth(y) == RowLimit(buf.rows[y], y, oc)
             newWidth(y) == Len(buf'.rows[y].cells)
         IN  CursorInText(buf', buf'.h, buf'.cursor, newWidth)
               = CursorInText(buf, OldHeight(buf), oc, oldWidth)]_vars

(* ResizeTraditional keeps the cursor's row and the rows above it: when   *)
(* the cursor is inside the old buffer, the new buffer shows a window of   *)
(* consecutive old rows from some row top on, cut to the new width, the    *)
(* cursor's row inside it and its last row when rows above were dropped   *)
(* (1161-1174), and blank rows below the old buffer's last row.            *)
TraditionalKeepsCursorRow ==
    [][lastResize' = "Traditional" /\ buf.cursor.y < buf.h =>
         \E top \in 0..buf.cursor.y :
            /\ buf.cursor.y < top + buf'.h
            /\ top > 0 => buf.cursor.y = top + buf'.h - 1
            /\ \A d \in 0..buf'.h - 1 :
                  buf'.rows[d] = IF top + d < buf.h
                                 THEN CopyFromRow(buf.rows[top + d], buf'.w)
                                 ELSE BlankRow]_vars

=============================================================================

--------------------------- MODULE WriteCharsLegacy ---------------------------
(***************************************************************************)
(* The console host's legacy write path, src/terminal/src/host/_stream.cpp *)
(* 28-256: WriteCharsLegacy, _writeCharsLegacyUnprocessed and              *)
(* AdjustCursorPosition, over a buffer of W x H cells.                     *)
(*                                                                         *)
(* A call is run step by step, one iteration of a loop per step, because   *)
(* the loop in _writeCharsLegacyUnprocessed need not end: pc = "run" while *)
(* a call is in progress.  The call holds the console lock throughout, so  *)
(* no other request interleaves with its steps.                            *)
(*                                                                         *)
(* Characters are abstracted to classes: "n" a narrow glyph, "w" a wide    *)
(* glyph, and the C0 controls the code tells apart: "NUL", "BEL", "BS",    *)
(* "TAB", "LF", "CR", and "ESC" for any other control character.  Cell     *)
(* contents are not kept: a row keeps its forced-wrap flag and, for each  *)
(* column, whether it holds a one-column glyph ("S"), or the leading ("L") *)
(* or trailing ("T") half of a wide glyph (ROW's DbcsAttribute).           *)
(***************************************************************************)
EXTENDS Integers, Sequences, SequencesExt

CONSTANTS
    W, H,               \* TextBuffer::GetSize(): width and height
    MaxText,            \* most characters in one WriteCharsLegacy call
    ProcessedOutput,    \* ENABLE_PROCESSED_OUTPUT
    WrapAtEol,          \* ENABLE_WRAP_AT_EOL_OUTPUT
    AutoReturn,         \* DISABLE_NEWLINE_AUTO_RETURN is clear
    None                \* no delayed-wrap position

ASSUME W >= 2 /\ H >= 1 /\ MaxText >= 1
ASSUME {ProcessedOutput, WrapAtEol, AutoReturn} \subseteq BOOLEAN

VARIABLES
    cursor,     \* Cursor::GetPosition(), [x, y]
    delayedAt,  \* Cursor::GetDelayedAtPosition(), or None when not delayed
    wrap,       \* wrap[y]: row y's forced-wrap flag
    cells,      \* cells[y][x]: the DbcsAttribute of column x of row y
    pc,         \* "idle", or "run" inside a WriteCharsLegacy call
    text,       \* the call's characters not looked at yet
    seg,        \* the text _writeCharsLegacyUnprocessed still has to write
    call        \* ghost: the call's text, where it started, whether delayed

vars == <<cursor, delayedAt, wrap, cells, pc, text, seg, call>>

Chars == {"n", "w", "NUL", "BEL", "BS", "TAB", "LF", "CR", "ESC"}
Glyphs == {"n", "w"}                              \* IS_GLYPH_CHAR (29)
Rows == 0..H-1
Point == [x : Int, y : Int]

\* Columns a character takes: IsGlyphFullWidth.
Cols(c) == IF c = "w" THEN 2 ELSE 1

(***************************************************************************)
(* TextBuffer::FitTextIntoColumns (textBuffer.cpp 429-499): how many       *)
(* characters fit into columnLimit columns, and the columns they use.  A   *)
(* wide glyph that does not fit uses up the remaining column.              *)
(* ROW::ReplaceText advances RowWriteState exactly this way.               *)
(***************************************************************************)
\* Mutant: the room test looks at the starting column, not the glyph's width.
RECURSIVE FitFromIgnoringWidth(_, _, _, _)
FitFromIgnoringWidth(chars, limit, i, col) ==
    IF i > Len(chars) THEN [consumed |-> Len(chars), columns |-> col]
    ELSE IF col >= limit
         THEN [consumed |-> i - 1, columns |-> limit]
         ELSE FitFromIgnoringWidth(chars, limit, i + 1, col + Cols(chars[i]))

RECURSIVE FitFrom(_, _, _, _)
FitFrom(chars, limit, i, col) ==
    IF i > Len(chars) THEN [consumed |-> Len(chars), columns |-> col]
    ELSE IF col + Cols(chars[i]) > limit
         THEN [consumed |-> i - 1, columns |-> limit]
         ELSE FitFrom(chars, limit, i + 1, col + Cols(chars[i]))

\* Mutant: out of room, the columns actually used are returned, not the limit.
RECURSIVE FitFromUsed(_, _, _, _)
FitFromUsed(chars, limit, i, col) ==
    IF i > Len(chars) THEN [consumed |-> Len(chars), columns |-> col]
    ELSE IF col + Cols(chars[i]) > limit
         THEN [consumed |-> i - 1, columns |-> col]
         ELSE FitFromUsed(chars, limit, i + 1, col + Cols(chars[i]))

FitTextIntoColumnsUsed(chars, columnLimit) ==
    FitFromUsed(chars, IF columnLimit < 0 THEN 0 ELSE columnLimit, 1, 0)

FitTextIntoColumns(chars, columnLimit) ==
    FitFrom(chars, IF columnLimit < 0 THEN 0 ELSE columnLimit, 1, 0)

Cols0 == 0..W-1
DbcsAttribute == {"S", "L", "T"}
BlankRow == [x \in Cols0 |-> "S"]

\* TextBuffer::IncrementCircularBuffer as the logical rows see it: row 0 is
\* recycled as the last row, reset to blank (not wrapped, all spaces).
IncrementCircularBuffer(r, blank) == [y \in Rows |-> IF y < H - 1 THEN r[y + 1] ELSE blank]

\* Mutant: the end-of-line test is off by one.
AdjustCursorPositionPastEnd(cur, wr, cl, pos) ==
    LET p == CASE pos.x < 0 /\ pos.y > 0 -> [x |-> W + pos.x, y |-> pos.y - 1]
               [] pos.x < 0              -> [x |-> 0, y |-> pos.y]
               [] pos.x > W /\ WrapAtEol -> [x |-> pos.x % W, y |-> pos.y + pos.x \div W]
               [] pos.x > W              -> [x |-> cur.x, y |-> pos.y]
               [] OTHER                  -> pos
    IN  IF p.y >= H
        THEN [cursor |-> [x |-> p.x, y |-> H - 1], wrap |-> IncrementCircularBuffer(wr, FALSE),
              cells |-> IncrementCircularBuffer(cl, BlankRow)]
        ELSE [cursor |-> p, wrap |-> wr, cells |-> cl]

\* AdjustCursorPosition (42-109) from a requested position; returns the new
\* cursor, wrap flags and cells.  The viewport scrolling is left out.
AdjustCursorPosition(cur, wr, cl, pos) ==
    LET p == CASE pos.x < 0 /\ pos.y > 0 -> [x |-> W + pos.x, y |-> pos.y - 1]
               [] pos.x < 0              -> [x |-> 0, y |-> pos.y]
               [] pos.x >= W /\ WrapAtEol -> [x |-> pos.x % W, y |-> pos.y + pos.x \div W]
               [] pos.x >= W             -> [x |-> cur.x, y |-> pos.y]
               [] OTHER                  -> pos
    IN  IF p.y >= H
        THEN [cursor |-> [x |-> p.x, y |-> H - 1], wrap |-> IncrementCircularBuffer(wr, FALSE),
              cells |-> IncrementCircularBuffer(cl, BlankRow)]
        ELSE [cursor |-> p, wrap |-> wr, cells |-> cl]

\* ROW::NavigateToPrevious: one column left, clamped at 0, then back onto
\* the leading half when that column is a trailing half.
NavigateToPrevious(row, x) ==
    IF x - 1 <= 0 THEN 0 ELSE IF row[x - 1] = "T" THEN x - 2 ELSE x - 1

\* ROW::ReplaceText from column b, given what FitTextIntoColumns let fit:
\* the glyphs that fit, then spaces in the columns a wide glyph did not
\* fit into; a wide glyph cut in half at either edge of the write is
\* replaced by a space.
ReplaceText(row, b, chars, fit) ==
    LET glyphs == FlattenSeq([i \in 1..fit.consumed |->
                               IF chars[i] = "w" THEN <<"L", "T">> ELSE <<"S">>])
        e == b + fit.columns
    IN  [x \in Cols0 |->
           CASE x = b - 1 /\ row[x] = "L" -> "S"
             [] x < b                      -> row[x]
             [] x < b + Len(glyphs)        -> glyphs[x - b + 1]
             [] x < e                      -> "S"
             [] x = e /\ row[x] = "T"      -> "S"
             [] OTHER                      -> row[x]]

\* Spaces for a tab (212-218): up to the next multiple of 8, within the row.
MinOf(a, b) == IF a < b THEN a ELSE b
TabSpaces(x) == [i \in 1..MinOf(W - x, 8 - (x % 8)) |-> "n"]

Init ==
    /\ cursor = [x |-> 0, y |-> 0]
    /\ delayedAt = None
    /\ wrap = [y \in Rows |-> FALSE]
    /\ cells = [y \in Rows |-> BlankRow]
    /\ pc = "idle"
    /\ text = <<>>
    /\ seg = <<>>
    /\ call = [text |-> <<>>, start |-> cursor, delayed |-> FALSE]

(***************************************************************************)
(* The VT dispatcher, outside this repository, prints into the last column *)
(* and leaves the cursor there with a delayed wrap pending.                *)
(***************************************************************************)
DelayEOLWrap ==
    /\ pc = "idle" /\ cursor.x = W - 1 /\ delayedAt = None
    /\ delayedAt' = cursor
    /\ UNCHANGED <<cursor, wrap, cells, pc, text, seg, call>>

\* Mutant: the delayed wrap is cleared without the newline it stands for.
WriteCharsLegacyDropDelayed ==
    /\ pc = "idle"
    /\ \E t \in BoundedSeq(Chars, MaxText) \ {<<>>} :
         LET delayed == delayedAt # None /\ WrapAtEol IN
         /\ delayedAt' = IF delayed THEN None ELSE delayedAt
         /\ UNCHANGED <<cursor, wrap, cells>>
         /\ pc' = "run"
         /\ text' = IF ProcessedOutput THEN t ELSE <<>>
         /\ seg' = IF ProcessedOutput THEN <<>> ELSE t
         /\ call' = [text |-> t, start |-> cursor, delayed |-> delayed /\ delayedAt = cursor]

(***************************************************************************)
(* WriteCharsLegacy entry (148-184): a pending delayed wrap is resolved    *)
(* as a newline, then the text goes to the processed loop or, without      *)
(* ENABLE_PROCESSED_OUTPUT, to _writeCharsLegacyUnprocessed whole.         *)
(***************************************************************************)
WriteCharsLegacy ==
    /\ pc = "idle"
    /\ \E t \in BoundedSeq(Chars, MaxText) \ {<<>>} :
         LET delayed == delayedAt # None /\ WrapAtEol
             moved == IF delayed /\ delayedAt = cursor
                      THEN AdjustCursorPosition(cursor, wrap, cells, [x |-> 0, y |-> cursor.y + 1])
                      ELSE [cursor |-> cursor, wrap |-> wrap, cells |-> cells]
         IN  /\ delayedAt' = IF delayed THEN None ELSE delayedAt
             /\ cursor' = moved.cursor
             /\ wrap' = moved.wrap
             /\ cells' = moved.cells
             /\ pc' = "run"
             /\ text' = IF ProcessedOutput THEN t ELSE <<>>
             /\ seg' = IF ProcessedOutput THEN <<>> ELSE t
             /\ call' = [text |-> t, start |-> cursor, delayed |-> delayed /\ delayedAt = cursor]

\* One iteration of the loop in _writeCharsLegacyUnprocessed (123-142):
\* TextBuffer::Write fills the cursor row from the cursor on, the row is
\* marked wrapped when the text reached its end, and the cursor moves.
\* TextBuffer::Write(row, attributes, state): ROW::ReplaceText on the row,
\* through GetMutableRowByOffset (attributes are not kept).
Write(cl, row, b, chars, fit) == [cl EXCEPT ![row] = ReplaceText(@, b, chars, fit)]

WriteRow ==
    /\ pc = "run" /\ seg # <<>>
    /\ LET fit == FitTextIntoColumns(seg, W - cursor.x)
           columnEnd == cursor.x + fit.columns
           wr == IF WrapAtEol /\ columnEnd >= W
                 THEN [wrap EXCEPT ![cursor.y] = TRUE] ELSE wrap
           cl == Write(cells, cursor.y, cursor.x, seg, fit)
           moved == AdjustCursorPosition(cursor, wr, cl, [x |-> columnEnd, y |-> cursor.y])
       IN  /\ seg' = SubSeq(seg, fit.consumed + 1, Len(seg))
           /\ cursor' = moved.cursor
           /\ wrap' = moved.wrap
           /\ cells' = moved.cells
    /\ UNCHANGED <<delayedAt, pc, text, call>>

\* The processed loop hands the next run of glyphs to the unprocessed writer
\* (188-193).
NextGlyphRun ==
    /\ pc = "run" /\ seg = <<>> /\ text # <<>> /\ Head(text) \in Glyphs
    /\ LET n == CHOOSE k \in 1..Len(text) :
                  /\ \A i \in 1..k : text[i] \in Glyphs
                  /\ (k = Len(text) \/ text[k + 1] \notin Glyphs)
       IN  /\ seg' = SubSeq(text, 1, n)
           /\ text' = SubSeq(text, n + 1, Len(text))
    /\ UNCHANGED <<cursor, delayedAt, wrap, cells, pc, call>>

\* The control characters (195-253), one per step.
Control(c) == pc = "run" /\ seg = <<>> /\ text # <<>> /\ Head(text) = c

ControlNul ==               \* one space
    /\ Control("NUL") /\ seg' = <<"n">> /\ text' = Tail(text)
    /\ UNCHANGED <<cursor, delayedAt, wrap, cells, pc, call>>

ControlBell ==              \* SendNotifyBeep only
    /\ Control("BEL") /\ text' = Tail(text)
    /\ UNCHANGED <<cursor, delayedAt, wrap, cells, pc, seg, call>>

ControlBackspace ==
    /\ Control("BS") /\ text' = Tail(text)
    /\ LET moved == AdjustCursorPosition(cursor, wrap, cells,
                       [x |-> NavigateToPrevious(cells[cursor.y], cursor.x), y |-> cursor.y])
       IN  cursor' = moved.cursor /\ wrap' = moved.wrap /\ cells' = moved.cells
    /\ UNCHANGED <<delayedAt, pc, seg, call>>

ControlTab ==
    /\ Control("TAB") /\ seg' = TabSpaces(cursor.x) /\ text' = Tail(text)
    /\ UNCHANGED <<cursor, delayedAt, wrap, cells, pc, call>>

ControlLinefeed ==
    /\ Control("LF") /\ text' = Tail(text)
    /\ LET moved == AdjustCursorPosition(cursor, [wrap EXCEPT ![cursor.y] = FALSE], cells,
                       [x |-> IF AutoReturn THEN 0 ELSE cursor.x, y |-> cursor.y + 1])
       IN  cursor' = moved.cursor /\ wrap' = moved.wrap /\ cells' = moved.cells
    /\ UNCHANGED <<delayedAt, pc, seg, call>>

ControlCarriageReturn ==
    /\ Control("CR") /\ text' = Tail(text)
    /\ LET moved == AdjustCursorPosition(cursor, wrap, cells, [x |-> 0, y |-> cursor.y])
       IN  cursor' = moved.cursor /\ wrap' = moved.wrap /\ cells' = moved.cells
    /\ UNCHANGED <<delayedAt, pc, seg, call>>

\* Any other control character: converted with MB_USEGLYPHCHARS to one
\* OEM glyph and written.
ControlOther ==
    /\ Control("ESC") /\ seg' = <<"n">> /\ text' = Tail(text)
    /\ UNCHANGED <<cursor, delayedAt, wrap, cells, pc, call>>

\* The call returns once its text is used up.
Return ==
    /\ pc = "run" /\ seg = <<>> /\ text = <<>>
    /\ pc' = "idle"
    /\ UNCHANGED <<cursor, delayedAt, wrap, cells, text, seg, call>>

Step ==
    \/ WriteRow \/ NextGlyphRun \/ ControlNul \/ ControlBell \/ ControlBackspace
    \/ ControlTab \/ ControlLinefeed \/ ControlCarriageReturn \/ ControlOther
    \/ Return

Next == DelayEOLWrap \/ WriteCharsLegacy \/ Step

\* The steps of a call run on the caller's thread under the console lock and
\* never wait, so once a call has started its next step is always taken.
Spec == Init /\ [][Next]_vars /\ WF_vars(Step)

-----------------------------------------------------------------------------
\* The types, and the spec's invariant that the cursor stays inside the
\* buffer after every step of a write, wherever characters, tabs,
\* backspaces and linefeeds took it and however often the buffer scrolled
\* (AdjustCursorPosition, 42-109).
TypeOK ==
    /\ cursor \in [x : 0..W-1, y : Rows]
    /\ delayedAt \in Point \cup {None}
    /\ wrap \in [Rows -> BOOLEAN]
    /\ cells \in [Rows -> [Cols0 -> DbcsAttribute]]
    /\ pc \in {"idle", "run"}
    /\ text \in Seq(Chars) /\ seg \in Seq(Chars)

\* Every WriteCharsLegacy call returns: the loop in
\* _writeCharsLegacyUnprocessed (123-142) uses its text up.
Terminates == pc = "run" ~> pc = "idle"

\* A call that writes a single linefeed, away from the bottom of the buffer,
\* moves the cursor down one row, or two when a delayed EOL wrap was
\* pending where the cursor is: the pending wrap is resolved as a newline
\* first (165-176), the double newline spec section 9 asks to preserve.
LinefeedRows ==
    (pc = "idle" /\ call.text = <<"LF">> /\ call.start.y < H - 2)
        => cursor.y = call.start.y + (IF call.delayed THEN 2 ELSE 1)
=============================================================================

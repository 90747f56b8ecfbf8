------------------------------ MODULE TextBuffer ------------------------------
(***************************************************************************)
(* The storage engine of the console text buffer (buffer/out/textBuffer.cpp)*)
(*                                                                         *)
(* The C++ object is one record, tb, whose fields are the members of       *)
(* class TextBuffer.  Every public method is an operator from a record to  *)
(* a record, so that a method that calls other methods (InsertCharacter -> *)
(* IncrementCursor -> NewlineCursor -> IncrementCircularBuffer ->          *)
(* _PruneHyperlinks) is their composition, and one caller request is one   *)
(* step.  Rows live in physical slots 0..H; slot 0 is the scratchpad row.  *)
(* Slots at or past the commit watermark are unconstructed memory: every   *)
(* row access first commits them (_getRowByOffsetDirect), so the model     *)
(* reads them only through Touch.                                          *)
(*                                                                         *)
(* Row contents are abstracted to what the properties tell apart: per      *)
(* column the hyperlink id its attribute carries (0 = no link), the        *)
(* forced-wrap flag and the rendition.  The glyphs ReplaceCharacters       *)
(* stores and the double-byte-pad flag are left out: only reflow and       *)
(* export read them.                                                       *)
(***************************************************************************)
EXTENDS Integers, FiniteSets, TLC

CONSTANTS
  W,           \* _width, columns of every row
  H,           \* _height, logical rows
  ReadAhead,   \* _commitReadAheadRowCount, rows committed past the one touched
  IdBits,      \* width of _currentHyperlinkId (uint16_t: 16 in the code)
  MaxFreshId,  \* bound: no id is allocated once _currentHyperlinkId exceeds it
  Uris,        \* hyperlink URIs the client may send
  CustomIds,   \* explicit "id=" parameters the client may send
  NoCustomId,  \* model value: the OSC 8 sequence carried no id
  NoLead,      \* model value: the last step wrote no wide glyph
  ScrollDeltas,\* the deltas a caller passes to ScrollRows
  FillRects    \* the rects a caller passes to FillRect, [left, top, right, bottom)

ASSUME /\ W \in Nat \ {0}
       /\ H \in Nat \ {0}
       /\ ReadAhead \in Nat
       /\ IdBits \in Nat \ {0}
       /\ MaxFreshId \in 1 .. 2^IdBits - 1
       /\ NoCustomId \notin CustomIds
       /\ ScrollDeltas \subseteq Int
       /\ FillRects \subseteq [left : 0 .. W, top : 0 .. H, right : 0 .. W, bottom : 0 .. H]

Cols      == 0 .. W - 1
Rows      == 0 .. H - 1
Slots     == 0 .. H
IdSpace   == 2^IdBits
LinkIds   == 0 .. IdSpace - 1
Renditions == {"SingleWidth", "DoubleWidth"}
Dbcs      == {"Single", "Leading", "Trailing"}

MinOf(a, b) == IF a < b THEN a ELSE b

VARIABLES
  tb,        \* the TextBuffer object
  lastLead   \* ghost: slot and column where the last wide glyph's leading half went

vars == <<tb, lastLead>>

-----------------------------------------------------------------------------
(* ROW collaborator contract: a reset row is blank, unwrapped, single width *)
(* and carries the given attribute in every column.                        *)
BlankRow(attr) ==
  [link |-> [c \in Cols |-> attr],
   wrap |-> FALSE, rendition |-> "SingleWidth"]

(* The ids ROW::GetHyperlinks reports: every non-zero id in its attributes. *)
GetHyperlinks(row) == {row.link[c] : c \in Cols} \ {0}

(* What a slot holds before it is constructed; never read by the code.     *)
Unconstructed == BlankRow(0)

-----------------------------------------------------------------------------
(* Buffer management: reserve, commit, decommit, row addressing.           *)

(* Mutant: the commit size is not clipped to the end of the reservation.  *)
CommitPastReservation(b, slot) ==
  LET until == slot + 1 + ReadAhead
  IN [b EXCEPT
        !.rows = [s \in Slots |->
                    IF b.commitWatermark <= s /\ s < until
                    THEN BlankRow(b.initialAttributes) ELSE b.rows[s]],
        !.commitWatermark = until]

(* _commit + _construct: commit the touched row plus ReadAhead rows,       *)
(* clipped to the end of the reservation, and construct every row between *)
(* the old and the new watermark with _initialAttributes.                  *)
Commit(b, slot) ==
  LET remaining == (H + 1) - b.commitWatermark
      minimum   == slot + 1 - b.commitWatermark
      ideal     == minimum + ReadAhead
      until     == b.commitWatermark + MinOf(remaining, ideal)
  IN [b EXCEPT
        !.rows = [s \in Slots |->
                    IF b.commitWatermark <= s /\ s < until
                    THEN BlankRow(b.initialAttributes) ELSE b.rows[s]],
        !.commitWatermark = until]

(* _getRowByOffsetDirect: a row at or past the watermark is committed first.*)
GetRowByOffsetDirect(b, slot) ==
  IF slot >= b.commitWatermark THEN Commit(b, slot) ELSE b

(* _getRow: logical row y lives in slot (firstRow + y) mod H, plus 1.       *)
Physical(b, y) == ((b.firstRow + y) % H) + 1

(* GetRowByOffset: the const accessor also commits (const_cast).           *)
Touch(b, y) == GetRowByOffsetDirect(b, Physical(b, y))

(* GetMutableRowByOffset: the same, and _lastMutationId++.                 *)
TouchMutable(b, y) == [Touch(b, y) EXCEPT !.mutated = TRUE]

RowAt(b, y) == b.rows[Physical(b, y)]

(* The logical rows as a reader sees them; an unconstructed row reads as a *)
(* freshly constructed one.                                                *)
ViewRow(b, y) ==
  IF Physical(b, y) < b.commitWatermark THEN RowAt(b, y)
  ELSE BlankRow(b.initialAttributes)

SetRow(b, y, row) == [b EXCEPT !.rows[Physical(b, y)] = row]

(* GetLineWidth of a touched row: W, or W >> 1 under a double rendition.   *)
LineWidth(b, y) ==
  IF RowAt(b, y).rendition = "SingleWidth" THEN W ELSE W \div 2

(* _estimateOffsetOfLastCommittedRow: watermark in rows, minus the scratch *)
(* row and minus one to point at the last row, used as a logical index.    *)
EstimateOffsetOfLastCommittedRow(b) ==
  IF b.commitWatermark - 2 > 0 THEN b.commitWatermark - 2 ELSE 0

-----------------------------------------------------------------------------
(* Hyperlink registry.                                                     *)

(* RemoveHyperlinkFromMap for a set of ids: erase each from _hyperlinkMap  *)
(* and the first custom-id entry that maps to it (iteration order of the   *)
(* unordered_map is abstracted by CHOOSE).                                 *)
CustomKeyOf(cmap, id) == CHOOSE k \in DOMAIN cmap : cmap[k] = id

RemoveHyperlinksFromMap(b, ids) ==
  LET mapped == {i \in ids : \E k \in DOMAIN b.customIdMap : b.customIdMap[k] = i}
      drop   == {CustomKeyOf(b.customIdMap, i) : i \in mapped}
  IN [b EXCEPT
        !.hyperlinkMap = [k \in DOMAIN b.hyperlinkMap \ ids |-> b.hyperlinkMap[k]],
        !.customIdMap  = [k \in DOMAIN b.customIdMap \ drop |-> b.customIdMap[k]]]

(* The scan of _PruneHyperlinks over logical rows i .. H-1, stopping early *)
(* once every reference of row 0 has been found elsewhere.                 *)
RECURSIVE PruneScan(_, _, _)
PruneScan(b, refs, i) ==
  IF i >= H THEN [buf |-> b, refs |-> refs]
  ELSE LET b1   == Touch(b, i)
           rest == refs \ GetHyperlinks(RowAt(b1, i))
       IN IF rest = {} THEN [buf |-> b1, refs |-> rest]
                       ELSE PruneScan(b1, rest, i + 1)

(* The end of _PruneHyperlinks: RemoveHyperlinkFromMap for every id the    *)
(* scan did not find.  The ghost field pruneAudit collects the erased ids  *)
(* that some other row did reference at that moment.                       *)
FinishPrune(res) ==
  LET other == UNION {GetHyperlinks(ViewRow(res.buf, y)) : y \in 1 .. H - 1}
  IN [RemoveHyperlinksFromMap(res.buf, res.refs) EXCEPT
        !.pruneAudit = @ \cup (res.refs \cap other)]

(* Mutant: the scan starts at logical row 2, skipping row 1.              *)
PruneHyperlinksFromRow2(b) ==
  LET b1   == Touch(b, 0)
      refs == GetHyperlinks(RowAt(b1, 0))
  IN IF refs = {} THEN b1 ELSE FinishPrune(PruneScan(b1, refs, 2))

(* _PruneHyperlinks: ids of row 0 that no other logical row references.   *)
PruneHyperlinks(b) ==
  LET b1   == Touch(b, 0)
      refs == GetHyperlinks(RowAt(b1, 0))
  IN IF refs = {} THEN b1 ELSE FinishPrune(PruneScan(b1, refs, 1))

(* GetHyperlinkId: a fresh id from the 16-bit counter, or for a custom id  *)
(* the id already bound to <<custom id, hash(uri)>>; the counter skips 0   *)
(* when it wraps.  Returns the buffer and the id.                          *)
GetHyperlinkId(b, uri, cid) ==
  LET key     == <<cid, uri>>
      reuse   == cid # NoCustomId /\ key \in DOMAIN b.customIdMap
      id      == IF reuse THEN b.customIdMap[key] ELSE b.currentHyperlinkId
      counter == IF reuse THEN b.currentHyperlinkId
                 ELSE (b.currentHyperlinkId + 1) % IdSpace
      cmap    == IF cid # NoCustomId /\ ~reuse
                 THEN (key :> b.currentHyperlinkId) @@ b.customIdMap
                 ELSE b.customIdMap
  IN [buf |-> [b EXCEPT !.customIdMap = cmap,
                        !.currentHyperlinkId = IF counter = 0 THEN 1 ELSE counter],
      id  |-> id]

(* AddHyperlinkToMap: _hyperlinkMap[id] = uri, overwriting.                *)
AddHyperlinkToMap(b, uri, id) ==
  [b EXCEPT !.hyperlinkMap = (id :> uri) @@ b.hyperlinkMap]

-----------------------------------------------------------------------------
(* Cursor movement and ring rotation.                                      *)

(* Mutant: _firstRow advanced before the first row is reset.              *)
IncrementCircularBufferAdvanceFirst(b, fill) ==
  LET b1 == PruneHyperlinks(b)
      b2 == [b1 EXCEPT !.firstRow = IF b1.firstRow + 1 >= H THEN 0 ELSE b1.firstRow + 1]
  IN  SetRow(TouchMutable(b2, 0), 0, BlankRow(fill))

(* IncrementCircularBuffer: flush, prune, reset the old row 0 with the     *)
(* fill attributes, advance _firstRow modulo the height.                   *)
IncrementCircularBuffer(b, fill) ==
  LET b1 == PruneHyperlinks(b)
      b2 == TouchMutable(b1, 0)
      b3 == SetRow(b2, 0, BlankRow(fill))
  IN [b3 EXCEPT !.firstRow = IF b3.firstRow + 1 >= H THEN 0 ELSE b3.firstRow + 1]

(* NewlineCursor: column 0 of the next row; past the last row, stay on it  *)
(* and rotate with the default fill attributes.                            *)
NewlineCursor(b) ==
  IF b.cursor.y + 1 > H - 1
  THEN IncrementCircularBuffer([b EXCEPT !.cursor = [x |-> 0, y |-> H - 1]], 0)
  ELSE [b EXCEPT !.cursor = [x |-> 0, y |-> b.cursor.y + 1]]

(* _SetWrapOnCurrentRow.                                                   *)
SetWrapOnCurrentRow(b) ==
  LET b1 == TouchMutable(b, b.cursor.y)
  IN SetRow(b1, b.cursor.y, [RowAt(b1, b.cursor.y) EXCEPT !.wrap = TRUE])

(* IncrementCursor: one column right; past the line's last column, mark    *)
(* the row wrapped and newline.                                            *)
IncrementCursor(b) ==
  LET b1    == Touch(b, b.cursor.y)
      final == LineWidth(b1, b.cursor.y) - 1
      b2    == [b1 EXCEPT !.cursor.x = @ + 1]
  IN IF b2.cursor.x > final THEN NewlineCursor(SetWrapOnCurrentRow(b2)) ELSE b2

(* Mutant: the padding test uses the buffer width, not the line width.    *)
PrepareUsingBufferWidth(b, dbcs) ==
  IF dbcs # "Leading" THEN b
  ELSE LET y  == b.cursor.y
           b1 == Touch(b, y)
       IN IF b.cursor.x = W - 1
          THEN IncrementCursor(TouchMutable(b1, y))
          ELSE b1

(* _PrepareForDoubleByteSequence: a leading half about to land on the last *)
(* column of the line marks the row padded (SetDoubleBytePadded, a flag   *)
(* only reflow and export read, not kept) and moves the cursor on.         *)
PrepareForDoubleByteSequence(b, dbcs) ==
  IF dbcs # "Leading" THEN b
  ELSE LET y  == b.cursor.y
           b1 == Touch(b, y)
       IN IF b.cursor.x = LineWidth(b1, y) - 1
          THEN IncrementCursor(TouchMutable(b1, y))
          ELSE b1

(* InsertCharacter: prepare, then at the cursor ReplaceCharacters (glyphs  *)
(* only, not modelled), SetAttrToEnd from the cursor column and            *)
(* IncrementCursor.                                                        *)
WriteCharacter(b1, attr) ==
  LET y    == b1.cursor.y
      x    == b1.cursor.x
      b2   == TouchMutable(b1, y)
      row  == RowAt(b2, y)
      row2 == [row EXCEPT !.link = [c \in Cols |-> IF c >= x THEN attr ELSE row.link[c]]]
  IN IncrementCursor(SetRow(b2, y, row2))

InsertCharacter(b, dbcs) ==
  WriteCharacter(PrepareForDoubleByteSequence(b, dbcs), b.currentAttributes)

(* Mutant: the cursor is not clamped into the narrower line.              *)
SetCurrentLineRenditionNoClamp(b, rendition, fill) ==
  LET y   == b.cursor.y
      b1  == TouchMutable(b, y)
      row == RowAt(b1, y)
      row2 == [row EXCEPT !.rendition = rendition, !.wrap = FALSE]
      off  == IF rendition = "SingleWidth" THEN W ELSE W \div 2
      row3 == [row2 EXCEPT
                 !.link = [c \in Cols |-> IF c >= off THEN fill ELSE row2.link[c]]]
  IN IF row.rendition = rendition THEN b1
     ELSE IF rendition = "SingleWidth" THEN SetRow(b1, y, row2)
     ELSE SetRow(b1, y, row3)

(* SetCurrentLineRendition: on a change, clear the wrap flag; leaving      *)
(* single width, blank the unreachable right half with the fill attributes *)
(* and clamp the cursor into the new line width.                           *)
SetCurrentLineRendition(b, rendition, fill) ==
  LET y   == b.cursor.y
      b1  == TouchMutable(b, y)
      row == RowAt(b1, y)
      row2 == [row EXCEPT !.rendition = rendition, !.wrap = FALSE]
      off  == IF rendition = "SingleWidth" THEN W ELSE W \div 2
      row3 == [row2 EXCEPT
                 !.link = [c \in Cols |-> IF c >= off THEN fill ELSE row2.link[c]]]
  IN IF row.rendition = rendition THEN b1
     ELSE IF rendition = "SingleWidth" THEN SetRow(b1, y, row2)
     ELSE [SetRow(b1, y, row3) EXCEPT !.cursor.x = MinOf(b.cursor.x, off - 1)]

(* ResetLineRenditionRange: every row from startRow up to endRow is made   *)
(* single width through GetMutableRowByOffset; wrap flags, contents and    *)
(* the cursor stay as they are.                                            *)
RECURSIVE ResetLineRenditionRange(_, _, _)
ResetLineRenditionRange(b, row, endRow) ==
  IF row >= endRow THEN b
  ELSE LET b1 == TouchMutable(b, row)
       IN  ResetLineRenditionRange(
             SetRow(b1, row, [RowAt(b1, row) EXCEPT !.rendition = "SingleWidth"]),
             row + 1, endRow)

(* Reset: _decommit every row and take the current attributes as the      *)
(* initial ones.  _firstRow is left as it is.                              *)
Reset(b) ==
  [b EXCEPT !.rows = [s \in Slots |-> Unconstructed],
            !.commitWatermark = 0,
            !.initialAttributes = b.currentAttributes]

(* GetScratchpadRow(attributes): slot 0, reset.                            *)
GetScratchpadRow(b, attr) ==
  [GetRowByOffsetDirect(b, 0) EXCEPT !.rows[0] = BlankRow(attr)]

(* The loop of FillRect: every row from y up to bottom takes the           *)
(* scratchpad's text (CopyTextFrom) and the attributes in [left, right)    *)
(* through GetMutableRowByOffset; its wrap flag and rendition stay.       *)
RECURSIVE FillRows(_, _, _, _, _, _)
FillRows(b, y, bottom, left, right, attr) ==
  IF y >= bottom THEN b
  ELSE LET b1 == TouchMutable(b, y)
           row == RowAt(b1, y)
           row2 == [row EXCEPT !.link = [c \in Cols |->
                                           IF left <= c /\ c < right THEN attr ELSE row.link[c]]]
       IN  FillRows(SetRow(b1, y, row2), y + 1, bottom, left, right, attr)

(* FillRect: nothing for an empty rect or fill text; otherwise the         *)
(* scratchpad row is reset with the attributes and the rows are filled     *)
(* from it.                                                                *)
FillRect(b, rect, fillEmpty, attr) ==
  IF ~(rect.left < rect.right /\ rect.top < rect.bottom) \/ fillEmpty THEN b
  ELSE FillRows(GetScratchpadRow(b, attr), rect.top, rect.bottom, rect.left, rect.right, attr)

-----------------------------------------------------------------------------

View(b) == [y \in Rows |-> ViewRow(b, y)]

LiveIds(b) == UNION {GetHyperlinks(ViewRow(b, y)) : y \in Rows}

(* The line width the cursor's row has, read without committing.           *)
ViewLineWidth(b, y) ==
  IF ViewRow(b, y).rendition = "SingleWidth" THEN W ELSE W \div 2

SlotLineWidth(b, s) ==
  IF b.rows[s].rendition = "SingleWidth" THEN W ELSE W \div 2

-----------------------------------------------------------------------------
(* The constructor: nothing committed, firstRow 0, cursor at the origin,   *)
(* _currentHyperlinkId starts at 1 (0 means "no hyperlink").               *)
Init ==
  /\ tb = [firstRow           |-> 0,
           commitWatermark    |-> 0,
           rows               |-> [s \in Slots |-> Unconstructed],
           cursor             |-> [x |-> 0, y |-> 0],
           currentAttributes  |-> 0,
           initialAttributes  |-> 0,
           hyperlinkMap       |-> <<>>,
           customIdMap        |-> <<>>,
           currentHyperlinkId |-> 1,
           mutated            |-> FALSE,
           pruneAudit         |-> {}]
  /\ lastLead = NoLead

(* Every request starts with _lastMutationId not yet advanced and nothing  *)
(* pruned yet.                                                             *)
(* One pass of the ScrollRows loop: GetMutableRowByOffset(dst) (the object *)
(* of the call, evaluated first), then GetRowByOffset(src), then           *)
(* ROW::CopyFrom, which takes text attributes, wrap flag and rendition.    *)
CopyRowTo(b, dst, src) ==
  LET b2 == Touch(TouchMutable(b, dst), src)
  IN  SetRow(b2, dst, RowAt(b2, src))

(* Mutant: the rows are always walked top-down, whatever the direction.   *)
ScrollLoopTopDown(b, y, end, step, delta) ==
  LET lo == IF step = 1 THEN y ELSE end + 1
      n  == IF step = 1 THEN end - y ELSE y - end
      walk[k \in 0 .. n] ==
        IF k = 0 THEN b ELSE CopyRowTo(walk[k - 1], lo + k - 1 + delta, lo + k - 1)
  IN  walk[n]

(* for (; y != end; y += step) copy row y to row y + delta (1034-1038).    *)
RECURSIVE ScrollLoop(_, _, _, _, _)
ScrollLoop(b, y, end, step, delta) ==
  IF y = end THEN b
  ELSE ScrollLoop(CopyRowTo(b, y + delta, y), y + step, end, step, delta)

(* ScrollRows (970-1039): nothing for delta 0; size clamped at 0; rows     *)
(* walked from the first row down when moving up, from the last row up    *)
(* when moving down, so that no row is overwritten before it is copied.    *)
ScrollRows(b, firstRow, size0, delta) ==
  LET size == IF size0 > 0 THEN size0 ELSE 0
  IN  IF delta = 0 THEN b
      ELSE IF delta < 0 THEN ScrollLoop(b, firstRow, firstRow + size, 1, delta)
      ELSE ScrollLoop(b, firstRow + size - 1, firstRow - 1, -1, delta)

Start == [tb EXCEPT !.mutated = FALSE, !.pruneAudit = {}]

(* A caller writes one narrow character at the cursor.                     *)
InsertNarrow ==
  /\ tb' = InsertCharacter(Start, "Single")
  /\ lastLead' = NoLead

(* A caller writes a wide glyph: its leading, then its trailing half.      *)
InsertWide ==
  \E lead \in {PrepareForDoubleByteSequence(Start, "Leading")} :
    \E afterLead \in {InsertCharacter(Start, "Leading")} :
      /\ tb' = InsertCharacter(afterLead, "Trailing")
      /\ lastLead' = [slot |-> Physical(lead, lead.cursor.y), x |-> lead.cursor.x]

(* A caller moves the cursor down a line (VT line feed).                   *)
Newline ==
  /\ tb' = NewlineCursor(Start)
  /\ lastLead' = NoLead

(* DECDWL/DECSWL on the cursor row, filled with the current attributes.    *)
LineRendition ==
  \E r \in Renditions :
    /\ tb' = SetCurrentLineRendition(Start, r, Start.currentAttributes)
    /\ lastLead' = NoLead

(* OSC 8 start: GetHyperlinkId, AddHyperlinkToMap, and the id becomes part *)
(* of the current attributes.                                              *)
StartHyperlink ==
  \E u \in Uris, cid \in CustomIds \cup {NoCustomId} :
    LET r == GetHyperlinkId(Start, u, cid)
    IN /\ r.buf.currentHyperlinkId # Start.currentHyperlinkId
          => Start.currentHyperlinkId <= MaxFreshId
       /\ tb' = [AddHyperlinkToMap(r.buf, u, r.id) EXCEPT !.currentAttributes = r.id]
       /\ lastLead' = NoLead

(* OSC 8 end: the current attributes lose their hyperlink id.              *)
EndHyperlink ==
  /\ tb.currentAttributes # 0
  /\ tb' = [Start EXCEPT !.currentAttributes = 0]
  /\ lastLead' = NoLead

(* A caller positions the cursor inside the row's line width (CUP).        *)
MoveCursor ==
  \E y \in Rows :
    LET b1 == Touch(Start, y)
    IN \E x \in 0 .. LineWidth(b1, y) - 1 :
         /\ tb' = [b1 EXCEPT !.cursor = [x |-> x, y |-> y]]
         /\ lastLead' = NoLead

(* A caller makes a block of rows single width (a VT margin or full       *)
(* screen erase).                                                          *)
ResetRenditions ==
  \E startRow, endRow \in 0 .. H :
    /\ startRow < endRow
    /\ tb' = ResetLineRenditionRange(Start, startRow, endRow)
    /\ lastLead' = NoLead

(* A caller fills a rect (VT erase and fill), with the current attributes *)
(* or the default ones.                                                   *)
FillRectStep ==
  \E rect \in FillRects, fillEmpty \in BOOLEAN, attr \in {0, tb.currentAttributes} :
    /\ tb' = FillRect(Start, rect, fillEmpty, attr)
    /\ lastLead' = NoLead

(* A caller clears the buffer.                                             *)
ResetBuffer ==
  /\ tb' = Reset(Start)
  /\ lastLead' = NoLead

(* A caller borrows the scratchpad row (FillRect and friends).             *)
Scratchpad ==
  \E a \in {0, tb.currentAttributes} :
    /\ tb' = GetScratchpadRow(Start, a)
    /\ lastLead' = NoLead

(* A caller moves a block of rows (scrolling a margin region).             *)
ScrollRowsStep ==
  \E firstRow \in Rows, size \in 0 .. H, delta \in ScrollDeltas :
    /\ tb' = ScrollRows(Start, firstRow, size, delta)
    /\ lastLead' = NoLead

Next ==
  \/ InsertNarrow
  \/ InsertWide
  \/ Newline
  \/ LineRendition
  \/ StartHyperlink
  \/ EndHyperlink
  \/ MoveCursor
  \/ ResetRenditions
  \/ FillRectStep
  \/ ResetBuffer
  \/ Scratchpad
  \/ ScrollRowsStep

Spec == Init /\ [][Next]_vars

-----------------------------------------------------------------------------
(* Properties.                                                             *)

(* The buffer's fields keep their types; in particular the commit          *)
(* watermark never passes the end of the reservation of H + 1 slots.       *)
TypeOK ==
  /\ tb.firstRow \in Rows
  /\ tb.commitWatermark \in 0 .. H + 1
  /\ tb.cursor \in [x : Cols, y : Rows]
  /\ tb.currentAttributes \in LinkIds
  /\ tb.initialAttributes \in LinkIds
  /\ tb.currentHyperlinkId \in LinkIds \ {0}
  /\ DOMAIN tb.hyperlinkMap \subseteq LinkIds
  /\ \A s \in Slots : tb.rows[s].rendition \in Renditions
  /\ lastLead = NoLead \/ lastLead \in [slot : 1 .. H, x : Cols]

(* ScrollRows moves a block like memmove: for every block and delta whose  *)
(* source and target lie inside the buffer, the target rows read as the   *)
(* source rows read before, and every other row is as it was, however the *)
(* block and its target overlap (the walk direction at 1012 and 1031).    *)
ScrollRowsIsMemmove ==
  \A firstRow \in Rows, size \in 1 .. H, delta \in {-2, -1, 1, 2} :
    (firstRow + size <= H /\ firstRow + delta >= 0 /\ firstRow + size + delta <= H) =>
      LET after == ScrollRows(tb, firstRow, size, delta)
      IN  \A y \in Rows :
            ViewRow(after, y) = IF y - delta \in firstRow .. firstRow + size - 1
                                THEN ViewRow(tb, y - delta) ELSE ViewRow(tb, y)

(* The ring of slots behind GetRowByOffset is a plain array of logical     *)
(* rows: read through the mapping (firstRow + y) % H + 1, every request    *)
(* edits only the rows at and after the cursor, rotates them like a shift  *)
(* up with a fresh bottom row, copies a block row by row, or clears them   *)
(* all; the scratchpad slot and the commit watermark stay invisible.  Two  *)
(* rotations in one request need a padded wide glyph on a bottom row of a  *)
(* one-column line (a double-width row of W = 2 or 3) followed by a wrap  *)
(* on the fresh row; otherwise a request rotates at most once.            *)
Logical == INSTANCE LogicalRows WITH Height <- H, Deltas <- ScrollDeltas,
                                     MaxScroll <- IF W \div 2 = 1 THEN 2 ELSE 1,
                                     rows <- View(tb), cursor <- tb.cursor
RingRefinesLogicalRows == Logical!Spec

(* Every request but ScrollRows keeps the cursor inside the effective      *)
(* width of its row (W, or W/2 on a double-width row): SetCurrentLine-     *)
(* Rendition's clamp, IncrementCursor's wrap at the line width and         *)
(* NewlineCursor's rotation onto a freshly reset row together keep it      *)
(* there.  ScrollRows copies a rendition under the cursor and leaves the   *)
(* cursor to its caller.                                                   *)
CursorInLine ==
  [][tb.cursor.x < ViewLineWidth(tb, tb.cursor.y) /\ ~ScrollRowsStep
       => tb'.cursor.x < ViewLineWidth(tb', tb'.cursor.y)]_vars

(* A wide glyph written with the cursor inside its line is never split:    *)
(* after _PrepareForDoubleByteSequence both halves lie inside the line     *)
(* width of the row that received them, also on double-width rows and     *)
(* when the padding newline rotated the ring.                              *)
WideGlyphFits ==
  [][lastLead' # NoLead /\ tb.cursor.x < ViewLineWidth(tb, tb.cursor.y)
       => lastLead'.x + 1 < SlotLineWidth(tb', lastLead'.slot)]_vars

(* _PruneHyperlinks never erases an id that another live row references   *)
(* when the ring rotates: its early-exit scan over logical rows 1 .. H-1   *)
(* must find every such reference before the old first row is reset.      *)
PruneKeepsReferenced == tb.pruneAudit = {}

(* Spec 3: "hyperlink ids present in any row's cell data always resolve in *)
(* the registry".  _PruneHyperlinks only looks at rows, not at the current *)
(* attributes, so an id still carried by _currentAttributes can be erased  *)
(* on a rotation and then written into a row by the next InsertCharacter.  *)
NoDanglingLink == LiveIds(tb) \subseteq DOMAIN tb.hyperlinkMap

(* An id that live cells reference keeps the URI it was registered with:  *)
(* those cells keep pointing at their link.                                *)
(* GetHyperlinkId hands out the 16-bit counter without checking whether    *)
(* the id is still live after the counter wrapped, and AddHyperlinkToMap  *)
(* overwrites the entry.                                                   *)
LinkTargetStable ==
  [][\A id \in LiveIds(tb) \cap DOMAIN tb.hyperlinkMap \cap DOMAIN tb'.hyperlinkMap :
       tb'.hyperlinkMap[id] = tb.hyperlinkMap[id]]_vars

(* Reflow copies only the rows up to _estimateOffsetOfLastCommittedRow and *)
(* GetLastNonSpaceCharacter and SearchText stop there: every logical row   *)
(* whose content differs from a freshly constructed row must lie at or    *)
(* above that estimate.  The estimate is a physical slot count used as a  *)
(* logical row index, which stops being an upper bound once _firstRow # 0. *)
EstimateCoversRows ==
  \A y \in Rows :
    ViewRow(tb, y) # BlankRow(tb.initialAttributes)
      => y <= EstimateOffsetOfLastCommittedRow(tb)

(* Spec 3: the mutation counter lets caches detect "did this buffer        *)
(* change": a request that changes the logical rows advances               *)
(* _lastMutationId.  Reset decommits every row without advancing it.       *)
MutationIdTracksView == [][View(tb') # View(tb) => tb'.mutated]_vars

=============================================================================

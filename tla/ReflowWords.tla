----------------------------- MODULE ReflowWords -----------------------------
(***************************************************************************)
(* Word navigation (WordNavigation.tla) over the buffers Reflow and        *)
(* ResizeTraditional produce: every reachable buffer, at every size the    *)
(* resizes reach, is a grid of delimiter classes to navigate.              *)
(***************************************************************************)
EXTENDS Reflow

CONSTANT WordDelimiters     \* the caller's delimiter set, as cell contents

ASSUME WordDelimiters \subseteq Nat \ {Space}

Nav == INSTANCE WordNavigation

(* ROW::DelimiterClassAt: a glyph at or below L' ' (here the blank cell)   *)
(* is a ControlChar, one of the caller's delimiters a DelimiterChar, any   *)
(* other glyph a RegularChar.  Columns past the row's text read as blank.  *)
DelimiterClassAt(row, x) ==
    LET g == CellAt(row, x)
    IN  CASE g = Space               -> Nav!ControlChar
          [] g \in WordDelimiters    -> Nav!DelimiterChar
          [] OTHER                   -> Nav!RegularChar

(* _GetDelimiterClassAt at every offset y * w + x of the buffer.           *)
Classes(b) == [p \in 0 .. b.w * b.h - 1 |-> DelimiterClassAt(b.rows[p \div b.w], p % b.w)]

AccessibleWordSteps ==
    LET cls == Classes(buf)
        w == buf.w
        n == buf.w * buf.h
        WordStarts == {q \in 0 .. n - 1 : cls[q] = Nav!RegularChar
                                          /\ (q = 0 \/ cls[q - 1] # Nav!RegularChar)}
    IN  \A t \in 0 .. n - 1 :
          LET later == {q \in WordStarts : q > t}
              next == IF later = {} THEN n ELSE Min(later)
              upto == {q \in WordStarts : q <= t}
              cur == IF upto = {} THEN 0 ELSE Max(upto)
          IN  /\ next < n - 1 => Nav!MoveToNextWord(cls, n, t, n) = [moved |-> TRUE, pos |-> next]
              /\ later = {} => Nav!MoveToNextWord(cls, n, t, n) = [moved |-> FALSE, pos |-> t]
              /\ Nav!MoveToPreviousWord(cls, w, n, t) =
                   IF cur = 0 THEN [moved |-> FALSE, pos |-> t]
                   ELSE [moved |-> TRUE,
                         pos |-> Max({q \in WordStarts : q < cur} \cup {0})]

=============================================================================

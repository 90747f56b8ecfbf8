---------------------------- MODULE MCTextBuffer ----------------------------
(* Model-checking instance of TextBuffer: the URI and custom-id sets the  *)
(* configurations bind.  Widths, heights, read-ahead and id widths are set *)
(* per run in the MCTextBuffer_*.cfg files.                                *)
EXTENDS TextBuffer

MCNoUris == {}
MCOneUri == {"u1"}
MCTwoUris == {"u1","u2"}
MCCustomIds == {"c1"}
MCNoScroll == {}
MCScrollDeltas == {-1, 1}
MCNoFill == {}
\* whole rows and the whole screen, as erase in line and in display pass
MCEraseRects == {[left |-> 0, top |-> y, right |-> W, bottom |-> y + 1] : y \in 0 .. H - 1}
                \cup {[left |-> 0, top |-> 0, right |-> W, bottom |-> H]}
\* every non-empty rect of the buffer, and one empty one
MCAllRects == {r \in [left : 0 .. W, top : 0 .. H, right : 0 .. W, bottom : 0 .. H] :
                 r.left < r.right /\ r.top < r.bottom} \cup {[left |-> 0, top |-> 0, right |-> 0, bottom |-> 1]}
=============================================================================

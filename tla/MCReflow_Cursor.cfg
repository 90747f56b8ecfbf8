\* A resize with reflow must leave the cursor inside the new buffer.
CONSTANTS
    OldW = 4
    OldH = 3
    Widths <- MCWidths
    Heights <- MCHeights
    WordDelimiters <- MCWordDelimiters
    MaxResizes = 1
SPECIFICATION Spec
INVARIANT CursorInBuffer
\* The model stops after MaxResizes resizes; that bound is not a deadlock of the code.
CHECK_DEADLOCK FALSE

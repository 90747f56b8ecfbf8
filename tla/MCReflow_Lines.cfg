CONSTANTS
    OldW = 3
    OldH = 3
    Widths <- MCWidths
    Heights <- MCHeights
    WordDelimiters <- MCWordDelimiters
    MaxResizes = 2
SPECIFICATION Spec
INVARIANT TypeOK
 
INVARIANT AccessibleWordSteps
PROPERTY ReflowRotatesLikeRing ReflowKeepsLines ReflowKeepsCursorCell TraditionalKeepsCursorRow
\* The model stops after MaxResizes resizes; that bound is not a deadlock of the code.
CHECK_DEADLOCK FALSE

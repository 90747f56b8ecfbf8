CONSTANTS
    W = 3
    H = 4
    MaxText = 2
    ProcessedOutput = TRUE
    WrapAtEol = TRUE
    AutoReturn = TRUE
    None = None
SPECIFICATION Spec
INVARIANT TypeOK
INVARIANT LinefeedRows
INVARIANT WideGlyphsWhole
INVARIANT GlyphSteps
INVARIANT SelectionCoversWholeGlyphs
PROPERTY Terminates

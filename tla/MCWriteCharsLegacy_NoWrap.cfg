CONSTANTS
    W = 3
    H = 3
    MaxText = 2
    ProcessedOutput = TRUE
    WrapAtEol = FALSE
    AutoReturn = TRUE
    None = None
SPECIFICATION Spec
PROPERTY Terminates

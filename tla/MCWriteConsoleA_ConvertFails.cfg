CONSTANTS
    b1 = b1
    b2 = b2
    Buffers <- MCOneBuffer
    CodePages = {"dbcs"}
    MaxChunk = 2
    MaxSent = 4
    ConvertMayFail = TRUE
SPECIFICATION Spec
INVARIANT ReadCountExact
CHECK_DEADLOCK FALSE

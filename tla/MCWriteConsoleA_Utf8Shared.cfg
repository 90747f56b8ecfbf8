CONSTANTS
    b1 = b1
    b2 = b2
    Buffers <- MCTwoBuffers
    CodePages = {"utf8"}
    MaxChunk = 3
    MaxSent = 3
    ConvertMayFail = FALSE
SPECIFICATION Spec

INVARIANT Utf8Reassembled
CHECK_DEADLOCK FALSE

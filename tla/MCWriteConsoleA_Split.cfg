CONSTANTS
    b1 = b1
    b2 = b2
    Buffers <- MCTwoBuffers
    CodePages = {"dbcs", "utf8"}
    MaxChunk = 3
    MaxSent = 5
    ConvertMayFail = FALSE
SPECIFICATION Spec
INVARIANT TypeOK
INVARIANT ReadCountExact
INVARIANT DbcsReassembled
INVARIANT Utf8OneStream
CHECK_DEADLOCK FALSE

--------------------------- MODULE MCWriteConsoleA ---------------------------
EXTENDS WriteConsoleA

CONSTANTS b1, b2

MCOneBuffer == {b1}
MCTwoBuffers == {b1, b2}
=============================================================================

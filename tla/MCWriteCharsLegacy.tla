------------------------- MODULE MCWriteCharsLegacy -------------------------
EXTENDS WriteGlyphs
=============================================================================

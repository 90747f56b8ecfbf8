CONSTANTS
  W = 4
  H = 3
  ReadAhead = 1
  IdBits = 2
  MaxFreshId = 1
  Uris <- MCNoUris
  CustomIds <- MCCustomIds
  NoCustomId = NoCustomId
  NoLead = NoLead
  FillRects <- MCAllRects
  ScrollDeltas <- MCScrollDeltas
SPECIFICATION Spec
INVARIANT TypeOK
PROPERTY CursorInLine
PROPERTY WideGlyphFits
INVARIANT ScrollRowsIsMemmove
PROPERTY RingRefinesLogicalRows

CONSTANTS
  W = 2
  H = 3
  ReadAhead = 1
  IdBits = 2
  MaxFreshId = 1
  Uris <- MCOneUri
  CustomIds <- MCCustomIds
  NoCustomId = NoCustomId
  NoLead = NoLead
  FillRects <- MCNoFill
  ScrollDeltas <- MCNoScroll
SPECIFICATION Spec
INVARIANT EstimateCoversRows

CONSTANTS
  W = 2
  H = 2
  ReadAhead = 1
  IdBits = 2
  MaxFreshId = 3
  Uris <- MCTwoUris
  CustomIds <- MCCustomIds
  NoCustomId = NoCustomId
  NoLead = NoLead
  FillRects <- MCNoFill
  ScrollDeltas <- MCNoScroll
SPECIFICATION Spec
PROPERTY LinkTargetStable

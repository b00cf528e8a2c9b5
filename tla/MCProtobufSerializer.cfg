CONSTANTS
  Chunk = 8
  Half = 128
  FixedSize = 2
  Schemas <- MCSchemas
  Inner <- MCInner
  Pair <- MCPair
  Values <- MCValues
SPECIFICATION Spec
INVARIANTS
  RoundTrip
  ThrowsIffCut
  PartsAreWhole
PROPERTY Progresses

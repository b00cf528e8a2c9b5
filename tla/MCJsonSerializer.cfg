SPECIFICATION Spec
CONSTANTS
  Kinds <- MCKinds
  MaxProperties = 2
INVARIANT JsonRoundTrip
PROPERTY ReadingEnds

SPECIFICATION Spec
CONSTANTS
  m1 = m1
  m2 = m2
  Messages = {m1, m2}
  MaxObjects = 3
SYMMETRY Symmetric
INVARIANTS EqualityIsByValue AssignmentCarriesValue SetPointersAreLive NothingLost ChangeIsTold

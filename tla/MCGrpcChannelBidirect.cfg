SPECIFICATION Spec
CONSTANTS
    MaxMessages = 1
    MaxWrites = 3
INVARIANTS
    FreedUnused
    WritesInOrder
PROPERTIES
    WritesAnswered
    EndedIsFreed

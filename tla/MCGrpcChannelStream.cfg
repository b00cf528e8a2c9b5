SPECIFICATION Spec
CONSTANT MaxMessages = 3
INVARIANTS
    RefCountExact
    NoUseAfterFree
    OkCloseIsComplete
PROPERTIES
    SilentAfterEnd
    EndedIsFreed

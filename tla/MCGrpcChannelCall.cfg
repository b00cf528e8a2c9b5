SPECIFICATION Spec
CONSTANT MaxMessages = 1
INVARIANTS
    OkReplyHasData
PROPERTIES
    EndedIsSettled

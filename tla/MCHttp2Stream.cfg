SPECIFICATION Spec
CONSTANTS
    GrpcMessageSizeHeaderSize = 5
    Payloads = {0, 1, 3}
    MaxPayload = 3
    MaxFrames = 2
    MaxHandled = 2
    Garbage <- MCGarbage
INVARIANTS
    HandlerGetsMessages
    NoMessageHeldBack

SPECIFICATION Spec
CONSTANTS
    Streams = {s1, s2, s3}
    Keys = {k1, k2, k3}
    BidirectKeys = {k3}
    SignalsClose = TRUE
    KeepsFinished = FALSE
    MaxTimers = 2
INVARIANTS
    OneSubscription
    FinishedIsFinal
PROPERTY ErrorIsRetried

SPECIFICATION LinkSpec
CONSTANTS
    SamplesPerChunk = 2
    Windows <- MCWindows
    Size <- MCSize
    SeqOf <- MCSeqOf
    Ttl = 1
    MaxTime = 3
    MaxWindows = 3
    MaxInFlight = 2
INVARIANTS
    CapturedIffIntact
    PendingOnlyBroken
PROPERTIES
    ImplementsDelivery
CHECK_DEADLOCK FALSE

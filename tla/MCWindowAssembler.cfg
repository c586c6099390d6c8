SPECIFICATION Spec
CONSTANTS
    SamplesPerChunk = 2
    Windows <- MCWindows
    Size <- MCSize
    SeqOf <- MCSeqOf
    Ttl = 1
    MaxTime = 4
INVARIANTS
    PendingMissesAChunk
    EmittedWhole
    EmittedFresh
PROPERTIES
    NothingStaleAfterPush

SPECIFICATION Spec
CONSTANTS
    Captures = {1, 2}
    SynthSessions <- MCSynthSessions
    TestPercent = 70
    EvalPercents = {50, 70}
INVARIANTS
    DatasetMissesNothing
    ManifestPinsDataset
    ManifestNotAhead
    TestedWasHeldOut
CHECK_DEADLOCK FALSE

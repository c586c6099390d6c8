SPECIFICATION Spec
CONSTANTS
    Parts = 4
    Inputs <- MCInputs
    Levels <- MCLevels
    MaxSamples = 32
    Datasets <- MCDatasets
    Windows = 5
INVARIANTS
    DeviceAgreesWithEval
    FallbackIsToldByConfidence
    VerdictBoundsSlow
    PassMeansTested
CHECK_DEADLOCK FALSE

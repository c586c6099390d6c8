CONSTANTS
    MinWindows = 2
    Duration = 3
    MaxRuns = 2
    MaxClockSets = 1
SPECIFICATION FairSpec
INVARIANTS
    InferUnlessCut
    SavedSessions
    
PROPERTY Terminates
CHECK_DEADLOCK FALSE

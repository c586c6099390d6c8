SPECIFICATION Spec
CONSTANTS
    WindowSize = 2
    Timeout = 2
    ClockMod = 6
    SeqMod = 2
    MaxLoop = 1
INVARIANTS
    LedTruthful
    SeqIsWindowClock
    AtMostOneLateWindow
PROPERTIES
    WatchdogBoundsSilence

SPECIFICATION FairSpec
CONSTANTS
    MaxWindows = 5
    MaxBoots = 2
    MaxInFlight = 2
INVARIANTS
    MissedNeverInvented
    MissedExactWithinBoot
PROPERTIES
    Reconnects
CHECK_DEADLOCK FALSE

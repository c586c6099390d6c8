CONSTANTS
    Window = 2
    MaxTime = 5
    MaxSamples = 4
    Back = {1, 2}
    Ahead = {1, 4}
SPECIFICATION AvailabilitySpec
INVARIANTS ExactInOrder NeverForgetsEarly
CHECK_DEADLOCK FALSE

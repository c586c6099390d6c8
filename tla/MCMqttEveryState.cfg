SPECIFICATION Spec
CONSTANTS
    States = {"HEALTHY", "FAULT"}
    Sinks = {"persister"}
    Deployments = {{"persister"}}
    MaxMessages = 2
    MaxFaults = 2
PROPERTIES EveryStateReachesSQLite
CHECK_DEADLOCK FALSE

SPECIFICATION FairSpec
CONSTANTS
    States = {"HEALTHY", "FAULT"}
    Sinks = {"persister", "bridge"}
    Deployments = {{"persister"}, {"bridge"}}
    MaxMessages = 2
    MaxFaults = 2
INVARIANTS
    EventsInOrder
    RetainedIsBelieved
    SubscriberCaughtUp
PROPERTIES
    AlarmReachesSinks
CHECK_DEADLOCK FALSE

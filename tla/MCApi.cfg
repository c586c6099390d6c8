CONSTANTS
    DaySecs = 2
    SecTicks = 2
    MaxTime = 7
    MaxRows = 3
    MaxSettings = 1
    Assets = {"fan1", "fan2"}
    MaxAlarms = 2
    Formats = {"millis"}
    Limit = 2
    Spans = {1, 2, 3}
SPECIFICATION ApiSpec
INVARIANTS HistoryExactInMillis OeeMissesNothing EndpointsAgree
CHECK_DEADLOCK FALSE

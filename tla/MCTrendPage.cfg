SPECIFICATION TrendSpec
CONSTANTS
    Assets = {"fan1", "fan2"}
    Mine = "fan1"
    Stale = 2
    MaxTime = 3
    MaxMessages = 3
    MaxConnects = 3
    MayFail = TRUE
    ChartMax = 2
INVARIANTS
    TypeOK
    OperatorCurrent
    BannerTellsSilence
    ChartHolesExplained
    ChartOrderExplained
CHECK_DEADLOCK FALSE

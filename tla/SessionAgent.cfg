CONSTANTS
    Pads <- SomePads
    NOTIFY_TIMEOUT = 2
    ADOPT_MAX_GAP = 4
    RESCAN = 1
    NEWS_AFTER = 1
    Interval = 3
    SoonWait = 1
    ActiveBelow = 3
    MAX_WATCHED = 1
    Lag = 0
    Until <- WholeSession
    MaxTime = 9
    MaxStarts = 2
SPECIFICATION Spec
INVARIANTS
    TypeOK
    CountdownNotRestarted
    QuietIsNotStretched
    AdoptionIsFresh
    PadReachesTheDaemon
CHECK_DEADLOCK FALSE

CONSTANTS
    Pads <- SomePads
    NOTIFY_TIMEOUT = 2
    ADOPT_MAX_GAP = 3
    RESCAN = 1
    NEWS_AFTER = 1
    Interval = 4
    SoonWait = 1
    ActiveBelow = 3
    MAX_WATCHED = 1
    Lag = 0
    Until <- OneSeat
    MaxTime = 9
    MaxStarts = 1
SPECIFICATION Spec
INVARIANTS
    InputIsRecent
CHECK_DEADLOCK FALSE

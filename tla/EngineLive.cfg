CONSTANTS
    FactId <- Facts0
    MaxInstant = 20
    Sites <- LiveSites
    POLLED = {"steam_download"}
    TTLs = {}
    LeaseTTLs = {1, 2}
    HEARTBEAT_MAX_AGE = 2
    SWEEP_INTERVAL = 1
    TRANSITION_TIMEOUT = 2
    WAKE_CAPACITY = 1
    MaxSignals = 2
    Prompt = TRUE
SPECIFICATION FairSpec
PROPERTIES
    EventuallyRests
CHECK_DEADLOCK FALSE

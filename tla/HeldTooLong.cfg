CONSTANTS
    FactId <- Facts0
    MaxInstant = 20
    Sites <- HeldSites
    POLLED = {"steam_download"}
    TTLs = {1}
    LeaseTTLs = {2}
    HEARTBEAT_MAX_AGE = 2
    SWEEP_INTERVAL = 1
    TRANSITION_TIMEOUT = 2
    WAKE_CAPACITY = 1
    MaxSignals = 2
    Prompt = TRUE
SPECIFICATION Spec
PROPERTIES
    HeldWithinItsTTL
CHECK_DEADLOCK FALSE

CONSTANTS
    FactId <- Facts0
    MaxInstant = 20
    Sites <- VetoedSites
    POLLED = {"steam_download"}
    TTLs = {2}
    LeaseTTLs = {1, 2}
    HEARTBEAT_MAX_AGE = 1
    SWEEP_INTERVAL = 1
    TRANSITION_TIMEOUT = 2
    WAKE_CAPACITY = 1
    MaxSignals = 2
    Prompt = TRUE
SPECIFICATION Spec
INVARIANTS
    TypeOK
    TimerCoversEveryDeadline
PROPERTIES
    NothingHolds
    NamedOrNothing
CHECK_DEADLOCK FALSE

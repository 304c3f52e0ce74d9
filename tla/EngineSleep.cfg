CONSTANTS
    FactId <- FactsR
    MaxInstant = 20
    Sites <- SleepingSites
    POLLED = {}
    TTLs = {}
    LeaseTTLs = {2}
    HEARTBEAT_MAX_AGE = 2
    SWEEP_INTERVAL = 1
    TRANSITION_TIMEOUT = 2
    WAKE_CAPACITY = 1
    MaxSignals = 2
    Prompt = FALSE
SPECIFICATION Spec
INVARIANTS
    GuardIsReleased
PROPERTIES
    SettleWindow
    OneTransitionAtATime
CHECK_DEADLOCK FALSE

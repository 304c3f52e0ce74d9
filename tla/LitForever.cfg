\* The vendor file is unusable and a drop-in sets the screen for films only.
SPECIFICATION Spec
CONSTANTS
    FactId <- MCFactId
    MaxInstant = 1000000 MaxSecs = 900000
    Clock = {"human_input", "resume", "condition", "boot"}
    Pid <- MCPid Parent <- MCParent
    Signature = {"wrapper"} Desktop = {"shell"} SystemSlice = {"server"}
    IN_FLIGHT_HINTS = {"processing"} SteamInstalled = TRUE THRESHOLD_BYTES = 2 HEARTBEAT_MAX_AGE = 90
    Sites <- Packaged
    Steps = {1} MaxTime = 6 MaxServed = 2
INVARIANTS NeverLeftLit
CHECK_DEADLOCK FALSE

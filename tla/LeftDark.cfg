\* An agent that is stopped while its session is blank.
SPECIFICATION Spec
CONSTANTS
    a1 = a1 a2 = a2 s1 = s1 s2 = s2 o1 = o1 o2 = o2
    Agents = {a1, a2}
    Sessions = {s1, s2}
    Outputs = {o1, o2}
    Sites <- Replaced
    HEARTBEAT_INTERVAL = 1 HEARTBEAT_MAX_AGE = 2 SCREEN_DIVERGENCE_GRACE = 2
    MaxEvents = 2
PROPERTIES StoppingLeavesNoDark
CHECK_DEADLOCK FALSE

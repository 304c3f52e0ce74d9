\* Machines with one session: healthy, failing, replaced agents; two sessions of which
\* one fails; outputs that come and go; displays, calls and daemons that die.
SPECIFICATION FairSpec
CONSTANTS
    a1 = a1 a2 = a2 s1 = s1 s2 = s2 o1 = o1 o2 = o2
    Agents = {a1, a2}
    Sessions = {s1, s2}
    Outputs = {o1, o2}
    Sites <- Machines
    HEARTBEAT_INTERVAL = 1 HEARTBEAT_MAX_AGE = 2 SCREEN_DIVERGENCE_GRACE = 2
    MaxEvents = 2
INVARIANTS TypeOK NoFalseAlarm
PROPERTIES PanelFollows DisagreementIsReported
CHECK_DEADLOCK FALSE

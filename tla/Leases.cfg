\* Two names, two jobs: names pass on, descriptors are inherited, holders write,
\* threads run out, the daemon restarts.
SPECIFICATION FairSpec
CONSTANTS
    n1 = n1 n2 = n2 j1 = j1 j2 = j2 j3 = j3
    Names = {n1, n2}
    Blank = blank
    Jobs = {j1, j2}
    Nobody = nobody
    Asks <- TwoNames
    DEFAULT_TTL = 1 MAX_TTL = 2 WAKE_CAPACITY = 1
    Sites <- Troubles
    MaxWritten = 1
    MaxTime = 1
INVARIANTS TypeOK RefusedHoldsNothing TimerCoversEveryLease ClosingIsNoticed
PROPERTIES KeepsThePromise ExpiryIsNoticed
CHECK_DEADLOCK FALSE

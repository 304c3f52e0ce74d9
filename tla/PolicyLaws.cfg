CONSTANTS
    FactId <- MCFactId
    MaxInstant = 5
    Pool <- MCPool
    Start <- MCStart
    Horizon = 3
SPECIFICATION Spec
INVARIANTS
    TypeOK
    NowWaivesTwoBlocks
PROPERTIES
    BlindnessNeverCauses
    DoubtSparesTheScreen
    BlocksPullOneWay
CHECK_DEADLOCK FALSE

SPECIFICATION FairSpec
CONSTANTS
    MaxSlot = 3
INVARIANTS
    PoolOutlivesPipeline
    StoppedIsNotBehind
    CleanExitWasAsked
PROPERTIES
    StoppedIsFinal
    ShutdownEnds
CHECK_DEADLOCK FALSE

SPECIFICATION Spec
CONSTANTS
    MaxSlot = 3
INVARIANTS
    StoppedIsRecorded
CHECK_DEADLOCK FALSE

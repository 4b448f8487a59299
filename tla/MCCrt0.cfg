SPECIFICATION BootSpec
CONSTANTS
    WordBytes = 4
    BssSizes = {0, 3, 4, 6, 8}
    MaxBoots = 2
    MaxSteps = 2
    MaxTraps = 3
INVARIANT BssCleared
PROPERTY ResumesAsInterrupted
CHECK_DEADLOCK FALSE

SPECIFICATION Spec
CONSTANTS
    N = 1
    LogW = 2
    WotsLen2 = 2
    Messages <- AllMessages
    SkSeed = SkSeed
    Seeded = Seeded
INVARIANTS
    DigitsSpell
    ChecksumBlocks
    OnlyItsMessage
    NoStepTwice
CHECK_DEADLOCK FALSE

SPECIFICATION Spec
CONSTANTS
    Block = 8
    LenCells = 1
    N = 4
    AddrCells = 3
    VlMax = 8
    Seeds = {"pub_seed1", "pub_seed2"}
    MaxBlocks = 6
    MaxLen = 25
INVARIANTS
    ThashSeeded
    MessageHashedWhole
    RandomIsHmac
    MaskIsStream

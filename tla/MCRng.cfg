SPECIFICATION Spec
CONSTANTS
    BlockBytes = 3
    CtrBytes = 2
    ByteValues = 2
    Seeds = {"s1", "s2"}
    Diversifiers = {"d1", "d2"}
    MaxLens = {1, 5, 19}
    Entropy = {"e1", "e2"}
    Personalizations = {"p"}
    NULL = "NULL"
    Contents = {"c1"}
    Requests = {0, 1, 2, 3, 4, 7}
    MaxCalls = 3
CONSTRAINT OneInUse
INVARIANTS
    OneStream
    MaxLenHolds
    CtrCounts
    WritesRequested
    NothingRepeats

SPECIFICATION Spec
CONSTANTS
    N = 1
    LogW = 2
    WotsLen2 = 2
    ForsTrees = 2
    ForsHeight = 1
    D = 3
    TreeHeight = 1
    Keys = {k1, k2}
    Messages = {m1, m2}
    Nothing = Nothing
    Draw <- DrawOdd
    Optrand <- Own
    MaxCalls = 4
SYMMETRY Symmetry
INVARIANTS
    OneTimeKeys
PROPERTY ImplementsScheme
CHECK_DEADLOCK FALSE

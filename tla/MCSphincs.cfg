SPECIFICATION Spec
CONSTANTS
    N = 1
    LogW = 2
    WotsLen2 = 2
    ForsTrees = 2
    ForsHeight = 1
    D = 2
    TreeHeight = 1
    Keys = {k1}
    Messages = {m1, m2}
    Nothing = Nothing
    Draw <- DrawAll
    Optrand <- OwnOrSame
    MaxCalls = 3
INVARIANTS
    TypeOK
    SeparateAddresses
PROPERTY ImplementsScheme
CHECK_DEADLOCK FALSE

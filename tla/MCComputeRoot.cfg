SPECIFICATION UpSpec
CONSTANTS
    TreeHeight = 2
    Trees = 2
    Pow2 <- MCPow2
    Leaf <- MCLeaf
    Thash <- MCThash
    Node <- MCNode
    Values <- MCValues
    Junk = Junk
    Forged = Forged
INVARIANTS
    UpTypeOK
    GenuinePathGivesRoot
    RootBindsPath

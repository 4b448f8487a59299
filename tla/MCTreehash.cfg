SPECIFICATION Spec
CONSTANTS
    TreeHeight = 3
    Trees = 2
    Pow2 <- MCPow2
    Leaf <- MCLeaf
    Thash <- MCThash
    Node <- MCNode
    Junk = Junk
    JunkHeight = 0
    NoResult = NoResult
INVARIANTS
    TypeOK
    StackHasRoom
    AuthPathInBounds
    StackTilesLeaves
    ResultIsMerkleTree
PROPERTIES
    NoAddressTwice
    ImplementsPromise

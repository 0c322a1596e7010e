SPECIFICATION Spec
CONSTANTS
    g = g
    a1 = a1
    a2 = a2
    b1 = b1
    b2 = b2
    None = None
    Block = {g, a1, a2, b1, b2}
    Parent <- MCParent
    Anc <- MCAnc
    Height <- MCHeight
    MaxMoves = 3
    MaxRestarts = 1
INVARIANTS
    NoHoles
    ReaderSeesChain
PROPERTIES
    CatchesUp
CHECK_DEADLOCK FALSE

SPECIFICATION Spec
CONSTANTS
    g = g
    a1 = a1
    a2 = a2
    b1 = b1
    b2 = b2
    b3 = b3
    c2 = c2
    Genesis = g
    None = None
    Block <- SmallTree
    Parent <- MCParent
    Anc <- MCAnc
    ChainTrust <- MCChainTrust
    Addr <- MCAddr
    MaybeBad = {b2}
    MayFailCheck = {b1}
    Operator = {"invalidateblock", "reconsiderblock", "preciousblock"}
    RootsOnly = TRUE
    MaxOps = 2
    MaxRestarts = 1
    Apart = TRUE
INVARIANTS
    ActiveChainValid
    CheckBlockIndex
    Settled
PROPERTIES
    HoldsGround
    TipCatchesUp

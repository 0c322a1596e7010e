SPECIFICATION Spec
CONSTANTS
    g = g
    c1 = c1
    a2 = a2
    b2 = b2
    b3 = b3
    p1 = p1
    p2 = p2
    p3 = p3
    p4 = p4
    Block <- MCBlock
    Genesis = g
    NoBlock = NoBlock
    Parent <- MCParent
    Anc <- MCAnc
    Height <- MCHeight
    Outpoint = {p1, p2, p3, p4}
    NoCoin = NoCoin
    NoUndo = NoUndo
    Creates <- MCCreates
    Spends <- MCSpends
    MaxCrashes = 2
INVARIANTS
    CoinsMatchTip
    NeverAborts
PROPERTIES
    FlushIsFinal
    Recovers

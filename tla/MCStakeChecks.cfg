SPECIFICATION Spec
CONSTANTS
    g = g
    a1 = a1
    a2 = a2
    a3 = a3
    d2 = d2
    b1 = b1
    b2 = b2
    b3 = b3
    x = x
    y = y
    Thread = {t1, t2}
    Free = free
    None = none
    Genesis = g
    Block = {g, a1, a2, d2, b1, b2}
    Tx = {x, y}
    Parent <- MCParent
    Anc <- MCAnc
    Txs <- MCTxs
    Time <- MCTime
    Kernel <- MCKernel
    Inputs <- MCInputs
    Addr <- MCAddr
    TimedTx <- Timed
    Wallet = {x}
    MaxSaveErrors = 1
    MaxRestarts = 1
INVARIANTS
    DuplicateRefused
PROPERTIES
    ActivationEnds
CHECK_DEADLOCK FALSE

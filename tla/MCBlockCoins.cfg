SPECIFICATION ChainSpec
CONSTANTS
    cb = cb
    t1 = t1
    t2 = t2
    t3 = t3
    t4 = t4
    t5 = t5
    t6 = t6
    x = x
    x0 = x0
    y = y
    w = w
    c0 = c0
    o1 = o1
    n1 = n1
    o2 = o2
    z = z
    u0 = u0
    o3 = o3
    o4 = o4
    o5 = o5
    o6 = o6
    Tx = {cb, t1, t2, t3, t4, t5, t6}
    Coinbase = cb
    Ins <- MCIns
    Outs <- MCOuts
    Outpoint <- MCOutpoint
    Value <- MCValue
    Unspendable = {u0}
    CoinBases = {w, c0}
    CoinStakes = {}
    nCoinbaseMaturity = 2
    LockHeight <- MCLockHeight
    RelLock <- MCRelLock
    Before <- MCBefore
    Written <- MCWritten
    NoCoin = NoCoin
    PrevHeight = 1
    NewHeight = 2
    MaxTx = 3
    MaxUsage = 3
    MayExpire = {t5}
    Limits <- MCLimits
    MaxDisconnected = 3
    MaxBlocks = 2
INVARIANTS
    ConnectsAsAWhole
    DisconnectUndoesConnect
    ReplayFromAnywhere
    SupplyMatchesCoins
    PoolMatchesTransactions
    CachedLinksMatchCounters
    PoolCanBeMined
    LimitsHold
    DisconnectedReturn
CHECK_DEADLOCK FALSE

SPECIFICATION Spec
CONSTANTS
    Outpoint = {o1, o2}
    Coin = {c1, z, u}
    Unspendable = {u}
    ZeroValue = {z}
    Spent = Spent
    NoEntry = NoEntry
INVARIANTS
    FlagsTruthful
PROPERTY
    ImplementsCoinsMap

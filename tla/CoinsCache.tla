----------------------------- MODULE CoinsCache -----------------------------
(***************************************************************************)
(* The coins cache hierarchy: CCoinsViewDB (db) under the chainstate's     *)
(* CoinsTip() cache (tip) under the temporary CCoinsViewCache a block is   *)
(* connected to or disconnected from (view).                               *)
(*                                                                         *)
(* A cache holds, for an outpoint, no entry or an entry with a coin        *)
(* (possibly spent) and the flags DIRTY and FRESH.  Coins are members of a *)
(* set: the properties only tell apart which coin an outpoint holds,       *)
(* whether its script is unspendable and whether its value is 0.  Memory   *)
(* accounting is left out.  All steps run under cs_main, one at a time.    *)
(***************************************************************************)
CONSTANTS
    Outpoint,       \* the outpoints (COutPoint)
    Coin,           \* the unspent coins
    Unspendable,    \* the coins whose scriptPubKey.IsUnspendable()
    ZeroValue,      \* the coins with nValue = 0
    Spent,          \* a coin for which IsSpent() holds (coinEmpty)
    NoEntry         \* the cache has no entry for the outpoint

\* The coins a cache or the database may hold: AddCoin drops the others.
Spendable == Coin \ Unspendable

Entry == [coin : Spendable \cup {Spent}, dirty : BOOLEAN, fresh : BOOLEAN]

ASSUME CoinAssumption ==
    /\ Spent \notin Coin
    /\ NoEntry \notin Entry
    /\ Unspendable \subseteq Coin
    /\ ZeroValue \subseteq Coin

VARIABLES
    db,             \* the coins in the database
    tip,            \* cacheCoins of CoinsTip()
    view,           \* cacheCoins of the view a block is applied to
    open,           \* whether that view exists
    ret,            \* the coin the last GetCoin or SpendCoin gave its caller
    thrown          \* whether a std::logic_error has been thrown

vars == <<db, tip, view, open, ret, thrown>>

Empty == [o \in Outpoint |-> NoEntry]

-----------------------------------------------------------------------------
(* Reading.  A cache is asked first and the view below it only on a miss.  *)

Lookup(cache, o, below) == IF cache[o] # NoEntry THEN cache[o].coin ELSE below

TipCoin(o) == Lookup(tip, o, db[o])

ViewCoin(o) == Lookup(view, o, TipCoin(o))

\* FetchCoin: a miss copies the base's coin into this cache, unflagged.  The
\* base's GetCoin answers false for a spent coin, and then nothing is cached.
Fetch(cache, o, below) ==
    IF cache[o] # NoEntry \/ below = Spent THEN cache
    ELSE [cache EXCEPT ![o] = [coin |-> below, dirty |-> FALSE, fresh |-> FALSE]]

FetchTip(o) == Fetch(tip, o, db[o])

\* A miss in the view is a GetCoin of the tip, which fetches in its turn.
TipAfterFetch(o) == IF view[o] # NoEntry THEN tip ELSE FetchTip(o)

ViewAfterFetch(o) == Fetch(view, o, TipCoin(o))

-----------------------------------------------------------------------------
(* AddCoin and SpendCoin, on the entries of one cache.                     *)

\* The outputs AddCoin and AddCoins leave out.
Dropped(c, skipZeroValue) ==
    \/ c \in Unspendable
    \/ c \in ZeroValue /\ skipZeroValue

HasUnspent(cache, o) == cache[o] # NoEntry /\ cache[o].coin # Spent

IsDirty(cache, o) == cache[o] # NoEntry /\ cache[o].dirty

IsFresh(cache, o) == cache[o] # NoEntry /\ cache[o].fresh

AddCoinThrows(cache, o, possible_overwrite) ==
    ~possible_overwrite /\ HasUnspent(cache, o)

AddCoin(cache, o, c, possible_overwrite) ==
    [cache EXCEPT ![o] =
        [coin  |-> c,
         dirty |-> TRUE,
         fresh |-> \/ IsFresh(cache, o)
                   \/ ~possible_overwrite /\ ~IsDirty(cache, o)]]

SpendCoin(cache, o) ==
    IF cache[o] = NoEntry THEN cache
    ELSE [cache EXCEPT ![o] =
            IF cache[o].fresh THEN NoEntry
            ELSE [coin |-> Spent, dirty |-> TRUE, fresh |-> FALSE]]

-----------------------------------------------------------------------------
(* BatchWrite: the child's dirty entries are merged into the parent.       *)

\* Mutant of MergeEntry: the child's FRESH flag overrides the parent's.
MergeEntryFresh(p, c) ==
    IF (p = NoEntry \/ p.fresh) /\ c.fresh /\ c.coin = Spent THEN NoEntry
    ELSE [coin |-> c.coin, dirty |-> TRUE, fresh |-> c.fresh]

\* Merging entry c of the child where the parent cache has entry p.
MergeEntry(p, c) ==
    IF p = NoEntry
    THEN IF c.fresh /\ c.coin = Spent THEN NoEntry
         ELSE [coin |-> c.coin, dirty |-> TRUE, fresh |-> c.fresh]
    ELSE IF p.fresh /\ c.coin = Spent THEN NoEntry
         ELSE [coin |-> c.coin, dirty |-> TRUE, fresh |-> p.fresh]

\* The FRESH flag was set on a coin that the parent has.
Misapplied(parent, child, o) ==
    IsDirty(child, o) /\ child[o].fresh /\ HasUnspent(parent, o)

BatchWriteCache(parent, child) ==
    [o \in Outpoint |->
        IF IsDirty(child, o) THEN MergeEntry(parent[o], child[o]) ELSE parent[o]]

BatchWriteDB(coins, child) ==
    [o \in Outpoint |-> IF IsDirty(child, o) THEN child[o].coin ELSE coins[o]]

-----------------------------------------------------------------------------
Init ==
    /\ db \in [Outpoint -> Spendable \cup {Spent}]
    /\ tip = Empty
    /\ view = Empty
    /\ open = FALSE
    /\ ret = Spent
    /\ thrown = FALSE

\* CCoinsViewCache view(&CoinsTip()), in ConnectTip and DisconnectTip.
OpenView ==
    /\ ~thrown
    /\ ~open
    /\ open' = TRUE
    /\ UNCHANGED <<db, tip, view, ret, thrown>>

\* GetCoin, HaveCoin and AccessCoin of the view.
GetCoin(o) ==
    /\ ~thrown
    /\ open
    /\ view' = ViewAfterFetch(o)
    /\ tip' = TipAfterFetch(o)
    /\ ret' = ViewCoin(o)
    /\ UNCHANGED <<db, open, thrown>>

\* GetCoin of CoinsTip() itself, as the mempool and the RPCs do.
GetTipCoin(o) ==
    /\ ~thrown
    /\ ~open
    /\ tip' = FetchTip(o)
    /\ ret' = TipCoin(o)
    /\ UNCHANGED <<db, view, open, thrown>>

\* AddCoins for one output of a connected transaction: a coinbase may
\* overwrite; another transaction's outpoint has no unspent coin, as it would
\* have to be the same transaction, spending the same inputs twice.
AddOutput(o, c, fCoinbase, skipZeroValue) ==
    /\ ~thrown
    /\ open
    /\ fCoinbase \/ ViewCoin(o) = Spent
    /\ IF Dropped(c, skipZeroValue)
       THEN UNCHANGED <<view, thrown>>
       ELSE /\ thrown' = AddCoinThrows(view, o, fCoinbase)
            /\ view' = IF thrown' THEN view ELSE AddCoin(view, o, c, fCoinbase)
    /\ UNCHANGED <<db, tip, open, ret>>

\* ApplyTxInUndo, and AddCoins with check_for_overwrite: HaveCoin decides
\* whether the addition is an overwrite, and fetches the coin on the way.
RestoreCoin(o, c, skipZeroValue) ==
    /\ ~thrown
    /\ open
    /\ LET fetched   == ViewAfterFetch(o)
           overwrite == ViewCoin(o) # Spent
       IN /\ thrown' = (~Dropped(c, skipZeroValue) /\ AddCoinThrows(fetched, o, overwrite))
          /\ view' = IF Dropped(c, skipZeroValue) \/ thrown' THEN fetched
                     ELSE AddCoin(fetched, o, c, overwrite)
    /\ tip' = TipAfterFetch(o)
    /\ UNCHANGED <<db, open, ret>>

SpendViewCoin(o) ==
    /\ ~thrown
    /\ open
    /\ view' = SpendCoin(ViewAfterFetch(o), o)
    /\ tip' = TipAfterFetch(o)
    /\ ret' = ViewCoin(o)
    /\ UNCHANGED <<db, open, thrown>>

\* view.Flush(): BatchWrite into CoinsTip(), erasing the view's entries.
FlushView ==
    /\ ~thrown
    /\ open
    /\ IF \E o \in Outpoint : Misapplied(tip, view, o)
       THEN thrown' = TRUE /\ UNCHANGED <<tip, view, open>>
       ELSE /\ tip' = BatchWriteCache(tip, view)
            /\ view' = Empty
            /\ open' = FALSE
            /\ UNCHANGED thrown
    /\ UNCHANGED <<db, ret>>

\* The view goes out of scope unflushed: the block failed, or was only tested.
DropView ==
    /\ ~thrown
    /\ open
    /\ view' = Empty
    /\ open' = FALSE
    /\ UNCHANGED <<db, tip, ret, thrown>>

\* CoinsTip().Flush(), from FlushStateToDisk.
FlushTip ==
    /\ ~thrown
    /\ ~open
    /\ db' = BatchWriteDB(db, tip)
    /\ tip' = Empty
    /\ UNCHANGED <<view, open, ret, thrown>>

\* CoinsTip().Sync(): write, keep the unspent coins as clean entries.
SyncTip ==
    /\ ~thrown
    /\ ~open
    /\ db' = BatchWriteDB(db, tip)
    /\ tip' = [o \in Outpoint |->
                 IF HasUnspent(tip, o)
                 THEN [coin |-> tip[o].coin, dirty |-> FALSE, fresh |-> FALSE]
                 ELSE NoEntry]
    /\ UNCHANGED <<view, open, ret, thrown>>

\* Mutant of Uncache: the flags are not looked at.
UncacheAny(o) ==
    /\ ~thrown
    /\ ~open
    /\ tip[o] # NoEntry
    /\ tip' = [tip EXCEPT ![o] = NoEntry]
    /\ UNCHANGED <<db, view, open, ret, thrown>>

\* CoinsTip().Uncache(), for coins the mempool loaded and does not need.
Uncache(o) ==
    /\ ~thrown
    /\ ~open
    /\ tip[o] # NoEntry
    /\ ~tip[o].dirty /\ ~tip[o].fresh
    /\ tip' = [tip EXCEPT ![o] = NoEntry]
    /\ UNCHANGED <<db, view, open, ret, thrown>>

Next ==
    \/ OpenView \/ FlushView \/ DropView \/ FlushTip \/ SyncTip
    \/ \E o \in Outpoint :
          \/ GetCoin(o)
          \/ GetTipCoin(o)
          \/ SpendViewCoin(o)
          \/ Uncache(o)
    \/ \E o \in Outpoint, c \in Coin, skip \in BOOLEAN :
          \/ RestoreCoin(o, c, skip)
          \/ \E fCoinbase \in BOOLEAN : AddOutput(o, c, fCoinbase, skip)

Spec == Init /\ [][Next]_vars

-----------------------------------------------------------------------------
(* Properties.                                                             *)

Cache == [Outpoint -> Entry \cup {NoEntry}]

\* Every variable has its type; in particular no unspendable output is ever
\* cached or written to the database.
TypeOK ==
    /\ db \in [Outpoint -> Spendable \cup {Spent}]
    /\ tip \in Cache
    /\ view \in Cache
    /\ open \in BOOLEAN
    /\ ret \in Spendable \cup {Spent}
    /\ thrown \in BOOLEAN

\* The flags tell the truth about the view below (coins.h, DIRTY and FRESH):
\* an entry that is not DIRTY holds what is below it, so that not writing it
\* loses nothing, and below a FRESH entry there is no unspent coin, so that
\* spending it can forget it.
Honest(cache, o, below) ==
    cache[o] # NoEntry =>
        /\ ~cache[o].dirty => cache[o].coin = below
        /\ cache[o].fresh => below = Spent

FlagsTruthful ==
    \A o \in Outpoint : Honest(tip, o, db[o]) /\ Honest(view, o, TipCoin(o))

\* Of the eight combinations of spent, DIRTY and FRESH only those that
\* SanityCheck allows occur, in both caches.
SaneEntry(cache, o) ==
    cache[o] # NoEntry =>
        /\ cache[o].coin = Spent => cache[o].dirty # cache[o].fresh
        /\ cache[o].coin # Spent /\ cache[o].fresh => cache[o].dirty

SanityCheck == \A o \in Outpoint : SaneEntry(tip, o) /\ SaneEntry(view, o)

\* Neither of the two logic_errors of coins.cpp is ever thrown: AddCoin never
\* meets an unspent coin it was told not to overwrite, and BatchWrite never
\* meets a FRESH flag on a coin the parent has.
NoLogicError == ~thrown

\* Whatever is cached, flushed, synced or uncached and when, callers see the
\* flat UTXO map of CoinsMap: reads and spends return its coins, a view is
\* committed as a whole or not at all, and nothing else changes it.
Map == INSTANCE CoinsMap WITH
          utxo    <- [o \in Outpoint |-> TipCoin(o)],
          scratch <- [o \in Outpoint |-> ViewCoin(o)]

ImplementsCoinsMap == Map!Spec
=============================================================================

--------------------------- MODULE MempoolChain ---------------------------
(***************************************************************************)
(* The memory pool and the active chain: what AcceptToMemoryPool,          *)
(* ConnectTip, DisconnectTip and MaybeUpdateMempoolForReorg do to the pool *)
(* while blocks come and go.                                               *)
(*                                                                         *)
(* BlockCoins connects and disconnects a block, and Mempool has the pool's *)
(* operations.  Here a block is connected on a chain, and the pool loses   *)
(* its transactions and what they conflict with.  The block is             *)
(* disconnected again, by InvalidateBlock or because ActivateBestChainStep *)
(* connects another in its place, and its transactions come back.  Between *)
(* the steps of a reorganisation cs_main and the pool's lock are held.     *)
(***************************************************************************)
EXTENDS BlockCoins

CONSTANTS
    MaxUsage, MayExpire,    \* see Mempool
    Limits,                 \* the settings of the limits of ancestors and descendants
    MaxDisconnected,        \* MAX_DISCONNECTED_TX_POOL_SIZE, in transactions
    MaxBlocks               \* bound: blocks that are connected

INSTANCE Mempool

VARIABLES
    m_limits,
    pool,           \* m_mempool
    queuedTx,       \* disconnectpool
    doing,          \* "nothing", or under the locks: "reorg", "update"
    fAddToMempool, vHashUpdate,     \* of MaybeUpdateMempoolForReorg
    blocks

poolVars == <<m_limits, pool, queuedTx, doing, fAddToMempool, vHashUpdate, blocks>>
allVars == <<vars, poolVars>>

\* CoinsTip() and the height of the tip, when no block is being connected.
CoinsTip == IF phase = "connected" THEN view ELSE before
Height == IF phase = "connected" THEN NewHeight ELSE NewHeight - 1

ChainInit ==
    /\ Init
    /\ m_limits \in Limits
    /\ pool = EmptyPool /\ queuedTx = <<>> /\ doing = "nothing"
    /\ fAddToMempool = TRUE /\ vHashUpdate = <<>> /\ blocks = 1

-----------------------------------------------------------------------------
\* CCoinsViewMemPool over CoinsTip(): the outputs of the transactions of the
\* pool, all of them, and the coins.
MEMPOOL_HEIGHT == NewHeight + 1
ViewMemPool(P) ==
    LET made == UNION {Outs[t] : t \in Txs(P)}
    IN [p \in Outpoint |-> IF p \in made THEN MEMPOOL_HEIGHT ELSE CoinsTip[p]]

\* CalculateLockPointsAtTip: maxInputBlock is the number of the block, or 0 for
\* one below it, which stays.  A relative lock on an output of the pool counts
\* from the next block.
CalculateLockPointsAtTip(P, t) ==
    LET c           == ViewMemPool(P)
        prevHeights == [p \in Ins[t] |-> IF c[p] = MEMPOOL_HEIGHT THEN Height + 1 ELSE c[p]]
    IN [height        |-> CalculateSequenceLocks(t, prevHeights),
        maxInputBlock |-> IF RelLock[t] > 0 /\ \E p \in Ins[t] : prevHeights[p] = NewHeight /\ Height = NewHeight
                          THEN blocks ELSE 0]

\* TestLockPointValidity
TestLockPointValidity(lp) ==
    lp.maxInputBlock # 0 => phase = "connected" /\ lp.maxInputBlock = blocks

CheckSequenceLocksAtTip(lp) == lp.height < Height + 1

\* PreChecks.  The checks of scripts, fees and standardness are passed.
PreChecks(t) ==
    /\ t # Coinbase
    /\ IsFinalTx(t, Height + 1)
    /\ t \notin Txs(pool)
    /\ Spenders(pool, Ins[t]) = {}
    /\ LET c == ViewMemPool(pool) IN
       /\ Have(c, Ins[t]) = Ins[t]
       /\ CheckSequenceLocksAtTip(CalculateLockPointsAtTip(pool, t))
       /\ Mature(c, Ins[t] \cap (CoinBases \cup CoinStakes), Height + 1)
    /\ WithinLimits(pool, t, m_limits) \/ WithinLimits(pool, t, CarveOut(m_limits))

\* Finalize's addUnchecked
Finalized(t) ==
    AddUnchecked(pool, t, CalculateMemPoolAncestors(pool, t), CalculateLockPointsAtTip(pool, t))

\* The locks are free.
Free ==
    /\ doing = "nothing"
    /\ \/ phase \in {"connected", "disconnected", "invalid"}
       \/ phase = "connect" /\ i = 1

\* AcceptToMemoryPool for a transaction that arrives.
AcceptToMemoryPool(t) ==
    /\ Free
    /\ PreChecks(t)
    /\ pool' \in LimitMempoolSize(Finalized(t))
    /\ UNCHANGED <<vars, m_limits, queuedTx, doing, fAddToMempool, vHashUpdate, blocks>>

-----------------------------------------------------------------------------
\* Blocks are connected and replayed as in BlockCoins; a process that stops
\* loses the pool.
Connecting == ConnectTx /\ UNCHANGED poolVars

Replaying == RollforwardTx /\ UNCHANGED poolVars

StopAndReplay ==
    /\ doing = "nothing"
    /\ StartReplay
    /\ pool' = EmptyPool
    /\ UNCHANGED <<m_limits, queuedTx, doing, fAddToMempool, vHashUpdate, blocks>>

BeginUpdate(add) == doing' = "update" /\ fAddToMempool' = add /\ vHashUpdate' = <<>>

\* The end of ConnectTip.  After a reorganisation the pool is updated.
ConnectTip ==
    /\ Connected
    /\ pool' = RemoveForBlock(pool, vtx)
    /\ queuedTx' = SelectSeq(queuedTx, LAMBDA t : t \notin TxSet)
    /\ IF doing = "reorg" THEN BeginUpdate(TRUE) ELSE UNCHANGED <<doing, fAddToMempool, vHashUpdate>>
    /\ UNCHANGED <<m_limits, blocks>>

\* The new block of a reorganisation is invalid, or cannot be read.
ConnectFails ==
    /\ doing = "reorg"
    /\ \/ phase = "invalid" /\ BeginUpdate(TRUE) /\ UNCHANGED vars
       \/ Unreadable /\ BeginUpdate(FALSE)
    /\ UNCHANGED <<m_limits, pool, queuedTx, blocks>>

Disconnecting ==
    \/ /\ doing = "nothing"
       /\ StartDisconnect
       /\ doing' = "reorg"
       /\ UNCHANGED <<m_limits, pool, queuedTx, fAddToMempool, vHashUpdate, blocks>>
    \/ DisconnectTx /\ UNCHANGED poolVars

\* Mutant: the first transaction is queued first.
QueuedForward(s) == s

\* The order in which addTransaction gets the transactions of a block.
Queued(s) == Reverse(s)

\* DisconnectTip has the coins without the block.  Its transactions are queued;
\* the first of the queue are dropped if it is too long.
DisconnectTip ==
    /\ Disconnected
    /\ LET queue == queuedTx \o Queued(vtx)
           drop  == IF Len(queue) > MaxDisconnected THEN Len(queue) - MaxDisconnected ELSE 0
       IN /\ queuedTx' = SubSeq(queue, drop + 1, Len(queue))
          /\ pool' = FoldLeft(RemoveRecursive, pool, SubSeq(queue, 1, drop))
    /\ UNCHANGED <<m_limits, doing, fAddToMempool, vHashUpdate, blocks>>

\* InvalidateBlock goes on to update the pool; deep down it adds nothing.
InvalidateBlock ==
    /\ doing = "reorg" /\ phase = "disconnected"
    /\ \E add \in BOOLEAN : BeginUpdate(add)
    /\ UNCHANGED <<vars, m_limits, pool, queuedTx, blocks>>

\* ActivateBestChainStep goes on to connect another block in its place, or one
\* is connected later.
NextBlock ==
    /\ doing \in {"nothing", "reorg"}
    /\ phase = "disconnected" \/ doing = "nothing"
    /\ blocks < MaxBlocks
    /\ blocks' = blocks + 1
    /\ ConnectAnother
    /\ UNCHANGED <<m_limits, pool, queuedTx, doing, fAddToMempool, vHashUpdate>>

-----------------------------------------------------------------------------
\* A turn of MaybeUpdateMempoolForReorg's loop, from the end of the queue.
ReAdd ==
    /\ doing = "update" /\ queuedTx # <<>>
    /\ LET t == Last(queuedTx) IN
       IF fAddToMempool /\ PreChecks(t)
       THEN pool' = Finalized(t) /\ vHashUpdate' = Append(vHashUpdate, t)
       ELSE pool' = RemoveRecursive(pool, t) /\ UNCHANGED vHashUpdate
    /\ queuedTx' = Front(queuedTx)
    /\ UNCHANGED <<vars, m_limits, doing, fAddToMempool, blocks>>

\* The lock points of the entry of t: those that are out of date are calculated
\* again, if the coins are there.
UpdatedLockPoints(P, t) ==
    LET lp == P.mapTx[t].lockPoints
    IN IF TestLockPointValidity(lp) \/ Have(ViewMemPool(P), Ins[t]) # Ins[t] THEN lp
       ELSE CalculateLockPointsAtTip(P, t)

\* filter_final_and_mature of pool P: a coinbase whose transaction is not in it
\* must be mature.
NotFinalOrMature(P) ==
    [t \in Txs(P) |-> \/ ~IsFinalTx(t, Height + 1)
                      \/ LET lp == UpdatedLockPoints(P, t)
                         IN ~(TestLockPointValidity(lp) /\ CheckSequenceLocksAtTip(lp))
                      \/ ~Mature(CoinsTip, Ins[t] \cap CoinBases, Height + 1)]

\* The rest of MaybeUpdateMempoolForReorg.
UpdateMempool ==
    /\ doing = "update" /\ queuedTx = <<>>
    /\ LET P == UpdateTransactionsFromBlock(pool, vHashUpdate, m_limits)
       IN pool' \in LimitMempoolSize(RemoveForReorg(P, NotFinalOrMature(P),
                                                  [t \in Txs(P) |-> UpdatedLockPoints(P, t)]))
    /\ doing' = "nothing"
    /\ UNCHANGED <<vars, m_limits, queuedTx, fAddToMempool, vHashUpdate, blocks>>

ChainNext ==
    \/ \E t \in Tx : AcceptToMemoryPool(t)
    \/ Connecting \/ Replaying \/ StopAndReplay \/ ConnectTip \/ ConnectFails
    \/ Disconnecting \/ DisconnectTip \/ InvalidateBlock \/ NextBlock
    \/ ReAdd \/ UpdateMempool

ChainSpec == ChainInit /\ [][ChainNext]_allVars

-----------------------------------------------------------------------------
(* Properties.                                                             *)

\* The links and counters of an entry, from the transactions alone.
ParentsOf(t) == {s \in Txs(pool) : Ins[t] \cap Outs[s] # {}}
ChildrenOf(t) == {s \in Txs(pool) : Ins[s] \cap Outs[t] # {}}
AncestorsOf(t) == Walk([s \in Tx |-> ParentsOf(s)], ParentsOf(t), {})
DescendantsOf(t) == Walk([s \in Tx |-> ChildrenOf(s)], ChildrenOf(t), {})

\* What CTxMemPool::check recomputes of the links and the counters of ancestors,
\* and the counters of descendants, which it only bounds: whenever the locks are
\* free they are those of the transactions that are there, though every block
\* and every reorganisation only adjusts them.
PoolMatchesTransactions ==
    Free => /\ pool.mapNextTx = [p \in UNION {Ins[t] : t \in Txs(pool)} |->
                                    CHOOSE t \in Txs(pool) : p \in Ins[t]]
            /\ pool.mapTx = [t \in Txs(pool) |->
                                [parents  |-> ParentsOf(t), children |-> ChildrenOf(t),
                                 countWithAncestors   |-> Cardinality(AncestorsOf(t)) + 1,
                                 countWithDescendants |-> Cardinality(DescendantsOf(t)) + 1,
                                 lockPoints |-> pool.mapTx[t].lockPoints]]

\* Even in the middle of a reorganisation, when the pool is "in an inconsistent
\* state", the ancestors an entry reaches by its cached links are the ones that
\* count it among their descendants: UpdateForRemoveFromMempool relies on it.
CachedLinksMatchCounters ==
    \A t \in Txs(pool) :
        /\ pool.mapTx[t].parents \cup pool.mapTx[t].children \subseteq Txs(pool)
        /\ \A s \in Txs(pool) : s \in pool.mapTx[t].parents <=> t \in pool.mapTx[s].children
        /\ pool.mapTx[t].countWithAncestors = Cardinality(CachedAncestors(pool, {t}))
        /\ pool.mapTx[t].countWithDescendants = Cardinality(CalculateDescendants(pool, {t}))

\* An output that AddCoins does not add, though it can be spent in the pool.
NotAdded(p) == skipZeroValue /\ Value[p] = 0

\* Who locks cs_main and the pool sees a pool "that is consistent with current
\* chain tip": its transactions can be mined.  None is in the chain, no two spend
\* the same output, and what each spends is a mature coin or an output of
\* another.  A relative lock is over, by the coins and not by the lock points the
\* entry has cached, which are those of this chain.  Left out are outputs without value, and coinstakes that a
\* reorganisation made immature.
PoolCanBeMined ==
    Free =>
        /\ phase = "connected" => Txs(pool) \cap TxSet = {}
        /\ \A s, t \in Txs(pool) : s # t => Ins[s] \cap Ins[t] = {}
        /\ \A t \in Txs(pool) :
              /\ IsFinalTx(t, Height + 1)
              /\ TestLockPointValidity(pool.mapTx[t].lockPoints)
              /\ \A p \in Ins[t] :
                    /\ RelLock[t] > 0 =>
                          (\A s \in Txs(pool) : p \notin Outs[s]) /\ CoinsTip[p] + RelLock[t] <= Height + 1
                    /\ \/ \E s \in Txs(pool) : p \in Outs[s]
                       \/ NotAdded(p)
                       \/ CoinsTip[p] # NoCoin /\ (p \in CoinBases => Mature(CoinsTip, {p}, Height + 1))

\* CTxMemPool::check asserts that the inputs of every transaction are there and
\* pass CheckTxInputs, with those two left in.
CheckPasses ==
    Free => \A t \in Txs(pool) : \A p \in Ins[t] :
                \/ \E s \in Txs(pool) : p \in Outs[s]
                \/ CoinsTip[p] # NoCoin /\ (p \in CoinBases \cup CoinStakes => Mature(CoinsTip, {p}, Height + 1))

\* The limits hold after a reorganisation too, though a transaction that comes
\* back is put in below others: no entry has more ancestors than allowed, and
\* the pool fits.
LimitsHold ==
    Free => /\ Cardinality(Txs(pool)) <= MaxUsage
            /\ \A t \in Txs(pool) : Cardinality(AncestorsOf(t)) + 1 <= m_limits.ancestors

\* And a pool that is "fully populated": when a block is disconnected and none
\* takes its place, each of its transactions comes back before the pool is
\* trimmed, unless it was dropped from the queue or has too many ancestors or
\* descendants in the block.
InBlock(t, S) == {s \in S : Ins[t] \cap Outs[s] # {}}
Returns(t) ==
    LET S == TxSet \ {Coinbase}
        above == Walk([s \in Tx |-> InBlock(s, S)], {t}, {})
    IN \/ t \in Txs(pool)
       \/ Cardinality(above) > m_limits.ancestors
       \/ \E a \in above : Cardinality({s \in S : a \in Walk([r \in Tx |-> InBlock(r, S)], {s}, {})}) > m_limits.descendants
DisconnectedReturn ==
    doing = "update" /\ queuedTx = <<>> /\ fAddToMempool /\ phase = "disconnected" =>
        \A j \in 2..Len(vtx) : j <= MaxDisconnected => Returns(vtx[j])
=============================================================================

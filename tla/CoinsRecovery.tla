--------------------------- MODULE CoinsRecovery ---------------------------
(***************************************************************************)
(* The coins of the active chain, how they reach the chainstate database,  *)
(* and how a node that stopped in the middle of it gets them back.         *)
(*                                                                         *)
(* CoinsTip() is a map from outpoints to coins (CoinsMap, which CoinsCache *)
(* implements), moved by ConnectTip and DisconnectTip.  FlushStateToDisk   *)
(* writes the block index with the undo data, then CCoinsViewDB::BatchWrite*)
(* writes the coins that changed in batches, each of them atomic.  The     *)
(* process may stop before or after any batch.  When it starts again,      *)
(* ReplayBlocks rolls a database found between two best blocks back along  *)
(* the old branch and forward along the new one.                           *)
(*                                                                         *)
(* A block is known by the outpoints it creates and spends, and a coin by  *)
(* its height: the outputs of one transaction have different coins on two  *)
(* branches that include it at different heights.                          *)
(***************************************************************************)
EXTENDS Integers

CONSTANTS
    Block, Genesis,
    NoBlock,        \* the null hash
    Parent,         \* pprev
    Anc,            \* a block's ancestors and itself
    Height,         \* nHeight
    Outpoint,
    NoCoin,         \* a spent coin, or none
    NoUndo,         \* a null undo position
    Creates,        \* the outpoints of a block's outputs that become coins
    Spends,         \* the outpoints of its inputs
    MaxCrashes      \* bound: how often the process stops

Created(S) == UNION {Creates[c] : c \in S}
Spent(S) == UNION {Spends[c] : c \in S}

ASSUME TreeAssumption ==
    /\ Genesis \in Block /\ NoBlock \notin Block
    /\ Parent \in [Block \ {Genesis} -> Block]
    /\ Anc \in [Block -> SUBSET Block]
    /\ Anc[Genesis] = {Genesis}
    /\ \A b \in Block \ {Genesis} : /\ Anc[b] = Anc[Parent[b]] \cup {b}
                                    /\ b \notin Anc[Parent[b]]
    /\ \A b \in Block : /\ Genesis \in Anc[b]
                        /\ \A c \in Anc[b] : Anc[c] \subseteq Anc[b]
    /\ Height \in [Block -> Nat]
    /\ NoCoin \notin Nat
    /\ NoUndo \notin [Outpoint -> Nat \cup {NoCoin}]
    /\ MaxCrashes \in Nat

\* The blocks are the ones ConnectBlock accepts: CheckTxInputs lets a block
\* spend only coins that are there, no two transactions of a branch have the
\* same hash, and the outputs of the genesis block are not added.
ASSUME BlocksAssumption ==
    /\ Creates \in [Block -> SUBSET Outpoint]
    /\ Spends \in [Block -> SUBSET Outpoint]
    /\ Creates[Genesis] = {} /\ Spends[Genesis] = {}
    /\ \A b \in Block \ {Genesis} :
          /\ Creates[b] \cap Created(Anc[Parent[b]]) = {}
          /\ Spends[b] \subseteq Created(Anc[b]) \ Spent(Anc[Parent[b]])

VARIABLES
    mode,           \* what the process is doing; see TypeOK
    tip,            \* hashBlock of CoinsTip() or of the cache of ReplayBlocks
    coins,          \* the coins seen through that cache
    index, undo,    \* the block index: its blocks, and what their undo positions refer to
    cursor,         \* pindexOld, then the last block rolled forward
    pending,        \* the entries BatchWrite has still to put into a batch
    dbCoins,        \* the chainstate database: the coins,
    dbBest,         \*   DB_BEST_BLOCK,
    headNew, headOld,   \* DB_HEAD_BLOCKS; both are NoBlock when it is not there
    diskIndex, diskUndo,    \* the block index database with the undo files
    crashes

memory == <<tip, coins, index, undo, cursor, pending>>
database == <<dbCoins, dbBest, headNew, headOld>>
blocks == <<diskIndex, diskUndo>>
vars == <<mode, memory, database, blocks, crashes>>

Coin == Nat \cup {NoCoin}
NoCoins == [p \in Outpoint |-> NoCoin]

\* What the coins should be with b as best block, from its branch alone.
Creators(p, S) == {c \in S : p \in Creates[c]}
Utxo(b) ==
    IF b = NoBlock THEN NoCoins
    ELSE [p \in Outpoint |->
            IF p \in Created(Anc[b]) \ Spent(Anc[b])
            THEN Height[CHOOSE c \in Creators(p, Anc[b]) : TRUE] ELSE NoCoin]

-----------------------------------------------------------------------------
(* What a block does to the coins.                                         *)

\* The coins after UpdateCoins, in ConnectBlock, or RollforwardBlock: they
\* overwrite what is there, so that it does not matter what was.
Connected(c, b) ==
    [p \in Outpoint |-> IF p \in Spends[b] THEN NoCoin
                        ELSE IF p \in Creates[b] THEN Height[b] ELSE c[p]]

\* vtxundo: the coins the block's inputs spend.
UndoData(c, b) ==
    [p \in Outpoint |-> IF p \notin Spends[b] THEN NoCoin
                        ELSE IF p \in Creates[b] THEN Height[b] ELSE c[p]]

\* Mutant: the outputs of the block are not removed.
DisconnectedInputsOnly(c, b, u) == [p \in Outpoint |-> IF p \in Spends[b] THEN u[p] ELSE c[p]]

\* The coins DisconnectBlock leaves.
Disconnected(c, b, u) ==
    [p \in Outpoint |-> IF p \in Creates[b] THEN NoCoin
                        ELSE IF p \in Spends[b] THEN u[p] ELSE c[p]]

\* It returns DISCONNECT_OK: no output is missing or different, no input is
\* overwritten.
Clean(c, b) ==
    \A p \in Outpoint :
        /\ p \in Creates[b] \ Spends[b] => c[p] = Height[b]
        /\ p \in Spends[b] => c[p] = NoCoin

-----------------------------------------------------------------------------
Init ==
    /\ mode = "run" /\ tip = NoBlock /\ coins = NoCoins
    /\ index = {Genesis} /\ undo = [b \in Block |-> NoUndo]
    /\ cursor = NoBlock /\ pending = {}
    /\ dbCoins = NoCoins /\ dbBest = NoBlock /\ headNew = NoBlock /\ headOld = NoBlock
    /\ diskIndex = {} /\ diskUndo = [b \in Block |-> NoUndo]
    /\ crashes = 0

\* ConnectTip, for any block on the tip.  The undo data is written once.
ConnectTip(b) ==
    /\ mode = "run"
    /\ IF b = Genesis THEN tip = NoBlock ELSE tip = Parent[b]
    /\ tip' = b
    /\ coins' = Connected(coins, b)
    /\ index' = index \cup {b}
    /\ undo' = IF b = Genesis \/ undo[b] # NoUndo THEN undo
               ELSE [undo EXCEPT ![b] = UndoData(coins, b)]
    /\ UNCHANGED <<mode, cursor, pending, database, blocks, crashes>>

\* DisconnectTip: the node aborts if the undo data is not there or the block
\* does not disconnect cleanly.
DisconnectTip ==
    /\ mode = "run"
    /\ tip \notin {NoBlock, Genesis}
    /\ IF undo[tip] # NoUndo /\ Clean(coins, tip)
       THEN /\ coins' = Disconnected(coins, tip, undo[tip])
            /\ tip' = Parent[tip]
            /\ UNCHANGED mode
       ELSE mode' = "abort" /\ UNCHANGED <<coins, tip>>
    /\ UNCHANGED <<index, undo, cursor, pending, database, blocks, crashes>>

-----------------------------------------------------------------------------
(* FlushStateToDisk and BatchWrite.                                        *)

\* FlushBlockFile, which comes first, and WriteBlockIndexDB.
WriteBlockIndexDB ==
    /\ diskIndex' = index
    /\ diskUndo' = undo

\* The DIRTY entries of the cache, which are all that differ from the database.
Dirty == {p \in Outpoint : coins[p] # dbCoins[p]}

\* Every DATABASE_WRITE_INTERVAL only the index is written.
PeriodicWrite ==
    /\ mode = "run"
    /\ WriteBlockIndexDB
    /\ UNCHANGED <<mode, memory, database, crashes>>

\* Mutant: the coins are written before the block index.
FlushStateToDiskCoinsOnly ==
    /\ mode = "run" /\ tip # NoBlock
    /\ mode' = "write"
    /\ pending' = Dirty
    /\ UNCHANGED <<tip, coins, index, undo, cursor, database, blocks, crashes>>

\* A full flush: the index, then Flush() of the coins.
FlushStateToDisk ==
    /\ mode = "run" /\ tip # NoBlock
    /\ WriteBlockIndexDB
    /\ mode' = "write"
    /\ pending' = Dirty
    /\ UNCHANGED <<tip, coins, index, undo, cursor, database, crashes>>

\* The database after the entries of S are written.
WithCoins(S) == [p \in Outpoint |-> IF p \in S THEN coins[p] ELSE dbCoins[p]]

\* old_tip
OldTip == IF dbBest # NoBlock THEN dbBest ELSE headOld

\* Mutant: the old tip is forgotten when the write of a replay is cut short.
WriteBatchNoOld(S) ==
    /\ mode \in {"write", "rewrite"}
    /\ S # {} /\ S \subseteq pending
    /\ headNew' = tip /\ headOld' = dbBest
    /\ dbBest' = NoBlock
    /\ dbCoins' = WithCoins(S)
    /\ pending' = pending \ S
    /\ UNCHANGED <<mode, tip, coins, index, undo, cursor, blocks, crashes>>

\* A batch that is full: the first one also replaces the best block by the
\* head blocks, and those after it leave them.
WriteBatch(S) ==
    /\ mode \in {"write", "rewrite"}
    /\ S # {} /\ S \subseteq pending
    /\ headNew' = tip /\ headOld' = OldTip
    /\ dbBest' = NoBlock
    /\ dbCoins' = WithCoins(S)
    /\ pending' = pending \ S
    /\ UNCHANGED <<mode, tip, coins, index, undo, cursor, blocks, crashes>>

\* Mutant: DB_HEAD_BLOCKS is not erased.
WriteLastBatchKeepHeads ==
    /\ mode \in {"write", "rewrite"}
    /\ dbBest' = tip
    /\ dbCoins' = WithCoins(pending)
    /\ pending' = {}
    /\ mode' = "run"
    /\ UNCHANGED <<headNew, headOld, tip, coins, index, undo, cursor, blocks, crashes>>

\* The last batch.  After a replay LoadChainTip finds the best block.
WriteLastBatch ==
    /\ mode \in {"write", "rewrite"}
    /\ headNew' = NoBlock /\ headOld' = NoBlock
    /\ dbBest' = tip
    /\ dbCoins' = WithCoins(pending)
    /\ pending' = {}
    /\ mode' = "run"
    /\ UNCHANGED <<tip, coins, index, undo, cursor, blocks, crashes>>

-----------------------------------------------------------------------------
(* The process stops and starts again.                                     *)

Crash ==
    /\ mode \notin {"off", "abort"}
    /\ crashes < MaxCrashes
    /\ crashes' = crashes + 1
    /\ mode' = "off"
    /\ tip' = NoBlock /\ coins' = NoCoins
    /\ index' = {} /\ undo' = [b \in Block |-> NoUndo]
    /\ cursor' = NoBlock /\ pending' = {}
    /\ UNCHANGED <<database, blocks>>

\* LoadBlockIndexDB, and the first part of ReplayBlocks or LoadChainTip, which
\* give up on a block the index does not have.  A first start without an index
\* adds the genesis block.
Start ==
    /\ mode = "off"
    /\ index' = diskIndex \cup {Genesis}
    /\ undo' = diskUndo
    /\ coins' = dbCoins
    /\ IF headNew = NoBlock
       THEN /\ tip' = dbBest
            /\ mode' = IF dbBest \in diskIndex \cup {NoBlock} THEN "run" ELSE "abort"
            /\ UNCHANGED cursor
       ELSE /\ cursor' = IF headOld = NoBlock THEN Genesis ELSE headOld
            /\ mode' = IF headNew \in diskIndex /\ headOld \in diskIndex \cup {NoBlock}
                       THEN "replay" ELSE "abort"
            /\ UNCHANGED tip
    /\ UNCHANGED <<pending, database, blocks, crashes>>

\* "Rollback along the old branch", whether or not the block disconnects cleanly.
Rollback ==
    /\ mode = "replay"
    /\ cursor \notin Anc[headNew]
    /\ IF undo[cursor] # NoUndo
       THEN /\ coins' = Disconnected(coins, cursor, undo[cursor])
            /\ cursor' = Parent[cursor]
            /\ UNCHANGED mode
       ELSE mode' = "abort" /\ UNCHANGED <<coins, cursor>>
    /\ UNCHANGED <<tip, index, undo, pending, database, blocks, crashes>>

\* "Roll forward from the forking point to the new tip": RollforwardBlock.
Rollforward ==
    /\ mode = "replay"
    /\ cursor \in Anc[headNew]
    /\ \E b \in Anc[headNew] \ {Genesis} :
          /\ Parent[b] = cursor
          /\ coins' = Connected(coins, b)
          /\ cursor' = b
    /\ UNCHANGED <<mode, tip, index, undo, pending, database, blocks, crashes>>

\* cache.SetBestBlock and cache.Flush.
FlushReplayed ==
    /\ mode = "replay"
    /\ cursor = headNew
    /\ tip' = headNew
    /\ mode' = "rewrite"
    /\ pending' = Dirty
    /\ UNCHANGED <<coins, index, undo, cursor, database, blocks, crashes>>

-----------------------------------------------------------------------------
Next ==
    \/ \E b \in Block : ConnectTip(b)
    \/ DisconnectTip
    \/ PeriodicWrite
    \/ FlushStateToDisk
    \/ \E S \in SUBSET Outpoint : WriteBatch(S)
    \/ WriteLastBatch
    \/ Crash
    \/ Start
    \/ Rollback
    \/ Rollforward
    \/ FlushReplayed

\* A process that runs gets on with the flush or the start it is in.
Fairness ==
    /\ WF_vars(WriteLastBatch)
    /\ WF_vars(Start)
    /\ WF_vars(Rollback)
    /\ WF_vars(Rollforward)
    /\ WF_vars(FlushReplayed)

Spec == Init /\ [][Next]_vars /\ Fairness

-----------------------------------------------------------------------------
(* Properties.                                                             *)

\* Every variable has its type.
TypeOK ==
    /\ mode \in {"run", "write", "off", "replay", "rewrite", "abort"}
    /\ tip \in Block \cup {NoBlock} /\ cursor \in Block \cup {NoBlock}
    /\ coins \in [Outpoint -> Coin] /\ dbCoins \in [Outpoint -> Coin]
    /\ index \subseteq Block /\ diskIndex \subseteq Block
    /\ undo \in [Block -> [Outpoint -> Coin] \cup {NoUndo}]
    /\ diskUndo \in [Block -> [Outpoint -> Coin] \cup {NoUndo}]
    /\ pending \subseteq Outpoint
    /\ dbBest \in Block \cup {NoBlock}
    /\ headNew \in Block \cup {NoBlock} /\ headOld \in Block \cup {NoBlock}
    /\ crashes \in 0..MaxCrashes

\* A running node has exactly the coins of its active chain, however often it
\* was cut off in the middle of a flush, or of the replay of one: what
\* ReplayBlocks rebuilds from a half-written database is what ConnectBlock
\* would have built.
CoinsMatchTip == mode \in {"run", "write", "rewrite"} => coins = Utxo(tip)

\* A database that names a best block has exactly its coins.
BestBlockMeansWhole == headNew = NoBlock => dbCoins = Utxo(dbBest)

\* A node never refuses to start or to disconnect: ReplayBlocks and LoadChainTip
\* find the blocks the coins refer to in the index, and the undo data is there
\* for every block of the old branch, as the index is written first.
NeverAborts == mode # "abort"

\* A flush that put out a batch takes effect: the block it went for, and no
\* other, is the next best block of the database, and only the last batch of
\* that flush or of its replay makes it so.
FlushIsFinal ==
    [][headNew # NoBlock => \/ headNew' = headNew /\ headOld' = headOld /\ dbBest' = NoBlock
                            \/ headNew' = NoBlock /\ dbBest' = headNew]_vars

\* A node that is stopped or cut off gets back to a whole database.
Recovers == []<>(headNew = NoBlock)
=============================================================================

------------------------ MODULE CoinsRecoveryProofs ------------------------
(***************************************************************************)
(* The safety properties of CoinsRecovery, for every tree of valid blocks  *)
(* and any number of crashes.  The invariant IInv says how far a database  *)
(* that is between two best blocks can be from either: coin by coin, it is *)
(* the one or the other (Mixed), and this is what every step of the replay *)
(* keeps while its cursor moves from the old best block to the new one.    *)
(***************************************************************************)
EXTENDS CoinsRecovery, TLAPS

\* Each coin is the one of x's branch or the one of y's.
Mixed(c, x, y) == \A p \in Outpoint : c[p] = Utxo(x)[p] \/ c[p] = Utxo(y)[p]

\* The undo data of u restores the coins that were spent.
UndoOK(u) ==
    \A b \in Block \ {Genesis} : u[b] # NoUndo =>
        \A p \in Spends[b] \ Creates[b] : u[b][p] = Utxo(Parent[b])[p]

\* u has the undo data of every block of b's branch.
Undoable(u, b) == b # NoBlock => \A c \in Anc[b] \ {Genesis} : u[c] # NoUndo

\* The blocks of S have their parents in S.
ParentClosed(S) == \A b \in S \ {Genesis} : Parent[b] \in S

\* What the databases hold.
DiskOK ==
    /\ dbBest \in diskIndex \cup {NoBlock} /\ Undoable(diskUndo, dbBest)
    /\ headNew = NoBlock => headOld = NoBlock /\ dbCoins = Utxo(dbBest)
    /\ headNew # NoBlock =>
          /\ dbBest = NoBlock
          /\ headNew \in diskIndex /\ Undoable(diskUndo, headNew)
          /\ headOld \in diskIndex \cup {NoBlock} /\ Undoable(diskUndo, headOld)
          /\ Mixed(dbCoins, headOld, headNew)

\* The index in memory is never behind the one on disk.
IndexOK ==
    mode # "off" =>
        /\ diskIndex \subseteq index
        /\ \A b \in Block : diskUndo[b] # NoUndo => undo[b] # NoUndo

\* What the process knows in each of its modes.
TipOK ==
    mode \in {"run", "write", "rewrite"} =>
        /\ coins = Utxo(tip)
        /\ tip \in index \cup {NoBlock} /\ Undoable(undo, tip)

WriteOK ==
    mode \in {"write", "rewrite"} =>
        /\ tip \in diskIndex /\ Undoable(diskUndo, tip)
        /\ headNew \in {NoBlock, tip}
        /\ \A p \in Outpoint \ pending : dbCoins[p] = coins[p]

ReplayOK ==
    mode = "replay" =>
        /\ headNew # NoBlock
        /\ cursor \in Block /\ Undoable(undo, cursor)
        /\ Mixed(coins, cursor, headNew)

IInv ==
    /\ TypeOK /\ NeverAborts
    /\ UndoOK(undo) /\ UndoOK(diskUndo)
    /\ ParentClosed(index) /\ ParentClosed(diskIndex)
    /\ DiskOK /\ IndexOK /\ TipOK /\ WriteOK /\ ReplayOK
    /\ mode = "run" => headNew = NoBlock

-----------------------------------------------------------------------------
\* Utxo(b) is a map of the coins.
LEMMA UtxoType == \A b \in Block \cup {NoBlock} : Utxo(b) \in [Outpoint -> Coin]
<1> SUFFICES ASSUME NEW b \in Block \cup {NoBlock} PROVE Utxo(b) \in [Outpoint -> Coin]
  BY Zenon
<1>1. CASE b = NoBlock
  BY Zenon, <1>1 DEF Utxo, NoCoins, Coin
<1>2. CASE b \in Block
  <2> SUFFICES ASSUME NEW p \in Outpoint, p \in Created(Anc[b]) \ Spent(Anc[b])
               PROVE Height[CHOOSE c \in Creators(p, Anc[b]) : TRUE] \in Nat
    BY <1>2, TreeAssumption DEF Utxo, Coin
  <2>1. Creators(p, Anc[b]) # {}
    BY Zenon DEF Creators, Created
  <2>2. (CHOOSE c \in Creators(p, Anc[b]) : TRUE) \in Block
    BY Zenon, <2>1, <1>2, TreeAssumption DEF Creators
  <2> QED BY Zenon, <2>2, TreeAssumption
<1> QED BY Zenon, <1>1, <1>2

\* The genesis block has no coins.
LEMMA UtxoGenesis == Utxo(Genesis) = NoCoins
BY TreeAssumption, BlocksAssumption DEF Utxo, NoCoins, Created

\* The coins of a branch are those of the branch below its last block with that
\* block connected.
LEMMA UtxoConnect ==
  \A b \in Block \ {Genesis} : Utxo(b) = Connected(Utxo(Parent[b]), b)
<1> SUFFICES ASSUME NEW b \in Block \ {Genesis}, NEW p \in Outpoint
             PROVE Utxo(b)[p] = Connected(Utxo(Parent[b]), b)[p]
  BY UtxoType, TreeAssumption DEF Connected, Utxo
<1> DEFINE a == Parent[b]
<1>1. /\ a \in Block /\ b # NoBlock /\ a # NoBlock
      /\ Anc[b] = Anc[a] \cup {b} /\ b \notin Anc[a] /\ Anc[a] \subseteq Block
  BY Zenon, TreeAssumption
<1>2. /\ Created(Anc[b]) = Created(Anc[a]) \cup Creates[b]
      /\ Spent(Anc[b]) = Spent(Anc[a]) \cup Spends[b]
  BY Zenon, <1>1 DEF Created, Spent
<1>3. /\ Utxo(b)[p] = IF p \in Created(Anc[b]) \ Spent(Anc[b])
                      THEN Height[CHOOSE c \in Creators(p, Anc[b]) : TRUE] ELSE NoCoin
      /\ Utxo(a)[p] = IF p \in Created(Anc[a]) \ Spent(Anc[a])
                      THEN Height[CHOOSE c \in Creators(p, Anc[a]) : TRUE] ELSE NoCoin
  BY Zenon, <1>1 DEF Utxo
<1>4. CASE p \in Spends[b]
  BY Zenon, <1>2, <1>3, <1>4 DEF Connected
<1>5. CASE p \in Creates[b] \ Spends[b]
  <2>1. p \notin Created(Anc[a])
    BY Zenon, <1>5, BlocksAssumption
  <2>2. Creators(p, Anc[b]) = {b}
    BY Zenon, <1>1, <1>5, <2>1 DEF Creators, Created
  <2>3. p \notin Spent(Anc[a])
    <3> SUFFICES ASSUME p \in Spent(Anc[a]) PROVE FALSE
      BY Zenon
    <3>1. PICK c \in Anc[a] : p \in Spends[c]
      BY Zenon DEF Spent
    <3>2. c \in Block /\ c # Genesis /\ Anc[c] \subseteq Anc[a]
      BY Zenon, <3>1, <1>1, TreeAssumption, BlocksAssumption
    <3>3. p \in Created(Anc[c])
      BY Zenon, <3>1, <3>2, BlocksAssumption
    <3> QED BY Zenon, <3>2, <3>3, <2>1 DEF Created
  <2> QED BY Zenon, <1>2, <1>3, <1>5, <2>2, <2>3 DEF Connected
<1>6. CASE p \notin Creates[b] /\ p \notin Spends[b]
  <2>1. Creators(p, Anc[b]) = Creators(p, Anc[a])
    BY Zenon, <1>1, <1>6 DEF Creators
  <2> QED BY Zenon, <1>2, <1>3, <1>6, <2>1 DEF Connected
<1> QED BY Zenon, <1>4, <1>5, <1>6

\* The coins of a branch with its last block disconnected, by undo data that
\* restores them, are those of the branch below; and the block disconnects
\* cleanly.
LEMMA UtxoDisconnect ==
  ASSUME NEW b \in Block \ {Genesis}, NEW u \in [Outpoint -> Coin],
         \A p \in Spends[b] \ Creates[b] : u[p] = Utxo(Parent[b])[p]
  PROVE  /\ Disconnected(Utxo(b), b, u) = Utxo(Parent[b])
         /\ Clean(Utxo(b), b)
<1>1. Parent[b] \in Block /\ Parent[b] # NoBlock
  BY TreeAssumption
<1>2. Utxo(Parent[b]) \in [Outpoint -> Coin]
  BY Zenon, <1>1, UtxoType
<1>3. \A p \in Creates[b] : p \in Outpoint /\ Utxo(Parent[b])[p] = NoCoin
  BY Zenon, <1>1, BlocksAssumption DEF Utxo
<1>4. Utxo(b) = Connected(Utxo(Parent[b]), b)
  BY Zenon, UtxoConnect
<1>5. Disconnected(Utxo(b), b, u) = Utxo(Parent[b])
  <2> SUFFICES ASSUME NEW p \in Outpoint
               PROVE Disconnected(Utxo(b), b, u)[p] = Utxo(Parent[b])[p]
    BY Zenon, <1>2 DEF Disconnected
  <2> QED BY Zenon, <1>3, <1>4 DEF Disconnected, Connected
<1>6. Clean(Utxo(b), b)
  BY Zenon, <1>4 DEF Clean, Connected
<1> QED BY Zenon, <1>5, <1>6

\* Whatever it is applied to, connecting a block puts the coins it touches
\* right, and so does disconnecting one.
LEMMA MixedConnect ==
  ASSUME NEW b \in Block \ {Genesis}, NEW y, NEW c, Mixed(c, Parent[b], y)
  PROVE  Mixed(Connected(c, b), b, y)
BY Zenon, UtxoConnect DEF Mixed, Connected

\* DisconnectBlock turns a mixture with a block into one with its parent.
LEMMA MixedDisconnect ==
  ASSUME NEW b \in Block \ {Genesis}, NEW y, NEW c, NEW u \in [Outpoint -> Coin],
         \A p \in Spends[b] \ Creates[b] : u[p] = Utxo(Parent[b])[p],
         Mixed(c, b, y)
  PROVE  Mixed(Disconnected(c, b, u), Parent[b], y)
<1> SUFFICES ASSUME NEW p \in Outpoint
             PROVE \/ Disconnected(c, b, u)[p] = Utxo(Parent[b])[p]
                   \/ Disconnected(c, b, u)[p] = Utxo(y)[p]
  BY Zenon DEF Mixed
<1>1. Disconnected(Utxo(b), b, u)[p] = Utxo(Parent[b])[p]
  BY Zenon, UtxoDisconnect
<1> QED BY Zenon, <1>1 DEF Mixed, Disconnected

-----------------------------------------------------------------------------
\* The initial state.
LEMMA InitIInv == Init => IInv
<1> SUFFICES ASSUME Init PROVE IInv
  BY Zenon
<1>1. TypeOK
  BY TreeAssumption DEF Init, TypeOK, NoCoins, Coin
<1> QED
  BY Zenon, <1>1, TreeAssumption DEF Init, IInv, NeverAborts, UndoOK, ParentClosed, DiskOK, IndexOK,
     TipOK, WriteOK, ReplayOK, Undoable, Utxo

\* ConnectTip adds to the cache what the new tip changes, and its undo data.
LEMMA ConnectTipStep == IInv /\ (\E b \in Block : ConnectTip(b)) => IInv'
<1> SUFFICES ASSUME IInv, NEW b \in Block, ConnectTip(b) PROVE IInv'
  BY Zenon
<1> USE DEF IInv
<1>t. TypeOK /\ coins = Utxo(tip) /\ mode = "run" /\ mode' = "run" /\ tip' = b
  BY Zenon DEF ConnectTip, TipOK
<1>1. coins' = Utxo(b)
  <2>1. CASE b = Genesis
    BY <2>1, <1>t, UtxoGenesis, BlocksAssumption DEF ConnectTip, Connected, Utxo, NoCoins
  <2>2. CASE b # Genesis
    BY Zenon, <2>2, <1>t, UtxoConnect DEF ConnectTip
  <2> QED BY Zenon, <2>1, <2>2
<1>2. coins' \in [Outpoint -> Coin]
  BY Zenon, <1>1, UtxoType
<1>3. UndoData(coins, b) \in [Outpoint -> Coin]
  BY <1>t, TreeAssumption DEF UndoData, TypeOK, Coin
<1>4. \A c \in Block : /\ undo[c] # NoUndo => undo'[c] = undo[c]
                       /\ c = b /\ b # Genesis => undo'[c] # NoUndo
                       /\ c # b \/ b = Genesis => undo'[c] = undo[c]
                       /\ c = b /\ b # Genesis /\ undo[b] = NoUndo => undo'[c] = UndoData(coins, b)
  BY <1>3, <1>t, TreeAssumption DEF ConnectTip, TypeOK, Coin
<1>5. TypeOK'
  BY Zenon, <1>t, <1>2, <1>3 DEF ConnectTip, TypeOK, database, blocks
<1>6. UndoOK(undo)'
  <2> SUFFICES ASSUME NEW c \in Block \ {Genesis}, undo'[c] # NoUndo,
                      NEW p \in Spends[c] \ Creates[c]
               PROVE undo'[c][p] = Utxo(Parent[c])[p]
    BY Zenon DEF UndoOK
  <2>1. CASE undo[c] # NoUndo
    BY Zenon, <2>1, <1>4 DEF UndoOK
  <2>2. CASE undo[c] = NoUndo
    <3>1. c = b /\ undo'[c] = UndoData(coins, b) /\ tip = Parent[b]
      BY Zenon, <2>2, <1>4 DEF ConnectTip
    <3>2. p \in Outpoint
      BY Zenon, BlocksAssumption
    <3> QED BY Zenon, <3>1, <3>2, <1>t DEF UndoData
  <2> QED BY Zenon, <2>1, <2>2
<1>7. Undoable(undo, b)'
  <2> SUFFICES ASSUME NEW c \in Anc[b] \ {Genesis} PROVE undo'[c] # NoUndo
    BY Zenon, <1>t DEF Undoable
  <2>1. c \in Block
    BY Zenon, TreeAssumption
  <2>2. CASE c = b
    BY Zenon, <2>1, <2>2, <1>4
  <2>3. CASE c # b
    <3>1. b # Genesis /\ c \in Anc[tip] /\ tip # NoBlock
      BY <2>3, TreeAssumption DEF ConnectTip
    <3>2. undo[c] # NoUndo
      BY Zenon, <3>1, <1>t DEF TipOK, Undoable
    <3> QED BY Zenon, <3>2, <2>1, <1>4
  <2> QED BY Zenon, <2>2, <2>3
<1>8. IndexOK'
  BY Zenon, <1>4, <1>t DEF IndexOK, ConnectTip, blocks
<1>9. ParentClosed(index)'
  BY <1>t, TreeAssumption DEF ConnectTip, TipOK, ParentClosed
<1> QED
  BY Zenon, <1>1, <1>5, <1>6, <1>7, <1>8, <1>9, <1>t DEF ConnectTip, NeverAborts, DiskOK, TipOK, WriteOK,
     ReplayOK, UndoOK, ParentClosed, Undoable, Mixed, database, blocks

\* DisconnectTip takes from the cache what the old tip changed.
LEMMA DisconnectTipStep == IInv /\ DisconnectTip => IInv'
<1> SUFFICES ASSUME IInv, DisconnectTip PROVE IInv'
  BY Zenon
<1> USE DEF IInv
<1>1. /\ mode = "run" /\ coins = Utxo(tip) /\ TypeOK
      /\ tip \in Block \ {Genesis} /\ Undoable(undo, tip)
  BY Zenon DEF DisconnectTip, TypeOK, TipOK
<1>2. undo[tip] # NoUndo /\ tip \in Anc[tip] /\ Parent[tip] \in Block /\ Parent[tip] # NoBlock
  BY Zenon, <1>1, TreeAssumption DEF Undoable
<1>3. undo[tip] \in [Outpoint -> Coin]
  BY Zenon, <1>1, <1>2 DEF TypeOK
<1>4. /\ Disconnected(coins, tip, undo[tip]) = Utxo(Parent[tip])
      /\ Clean(coins, tip)
  BY Zenon, <1>1, <1>2, <1>3, UtxoDisconnect DEF UndoOK
<1>5. mode' = "run" /\ tip' = Parent[tip] /\ coins' = Utxo(Parent[tip]) /\ undo' = undo /\ index' = index
  BY Zenon, <1>1, <1>2, <1>4 DEF DisconnectTip
<1>6. TypeOK'
  BY Zenon, <1>1, <1>2, <1>5, UtxoType DEF DisconnectTip, TypeOK, database, blocks
<1>7. Undoable(undo, Parent[tip])
  BY Zenon, <1>1, <1>2, TreeAssumption DEF Undoable
<1>8. TipOK'
  <2>1. Parent[tip] \in index
    BY Zenon, <1>1, TreeAssumption DEF TipOK, ParentClosed
  <2>2. Undoable(undo, tip)'
    BY Zenon, <1>2, <1>5, <1>7 DEF Undoable
  <2> QED BY Zenon, <1>5, <2>1, <2>2 DEF TipOK
<1> QED
  BY <1>1, <1>5, <1>6, <1>8 DEF DisconnectTip, NeverAborts, DiskOK, IndexOK, WriteOK,
     ReplayOK, UndoOK, ParentClosed, Undoable, Mixed, database, blocks

\* What stays true of the databases when a larger index is written.
LEMMA WriteIndexOK ==
  ASSUME IInv, mode = "run", WriteBlockIndexDB, UNCHANGED database, undo' = undo, index' = index
  PROVE  UndoOK(diskUndo)' /\ DiskOK' /\ diskIndex' = index /\ diskUndo' = undo
<1> USE DEF IInv
<1>1. /\ TypeOK /\ headNew = NoBlock /\ diskIndex \subseteq index
      /\ \A b \in Block : diskUndo[b] # NoUndo => undo[b] # NoUndo
  BY Zenon DEF IndexOK
<1>2. diskIndex' = index /\ diskUndo' = undo
  BY Zenon DEF WriteBlockIndexDB
<1>3. UndoOK(diskUndo)'
  BY Zenon, <1>2 DEF UndoOK
<1>4. Undoable(undo, dbBest)
  BY Zenon, <1>1, TreeAssumption DEF DiskOK, Undoable, TypeOK
<1> QED BY Zenon, <1>1, <1>2, <1>3, <1>4 DEF DiskOK, Undoable, database

\* A write of the block index alone only adds undo data to the disk.
LEMMA PeriodicWriteStep == IInv /\ PeriodicWrite => IInv'
<1> SUFFICES ASSUME IInv, PeriodicWrite PROVE IInv'
  BY Zenon
<1>1. UndoOK(diskUndo)' /\ DiskOK' /\ diskIndex' = index /\ diskUndo' = undo
  BY Zenon, WriteIndexOK DEF PeriodicWrite, memory
<1> QED
  BY Zenon, <1>1 DEF IInv, PeriodicWrite, memory, database, TypeOK, NeverAborts, IndexOK, TipOK,
     WriteOK, ReplayOK, UndoOK, ParentClosed, Undoable

\* FlushStateToDisk writes undo data and index before the first batch of coins.
LEMMA FlushStateToDiskStep == IInv /\ FlushStateToDisk => IInv'
<1> SUFFICES ASSUME IInv, FlushStateToDisk PROVE IInv'
  BY Zenon
<1>1. UndoOK(diskUndo)' /\ DiskOK' /\ diskIndex' = index /\ diskUndo' = undo
  BY Zenon, WriteIndexOK DEF FlushStateToDisk
<1>2. TipOK' /\ mode = "run" /\ mode' = "write" /\ tip # NoBlock /\ tip \in index /\ Undoable(undo, tip)
  BY Zenon DEF FlushStateToDisk, IInv, TipOK, Undoable
<1>3. WriteOK'
  BY Zenon, <1>1, <1>2 DEF FlushStateToDisk, IInv, WriteOK, Dirty, Undoable, database
<1> QED
  BY Zenon, <1>1, <1>2, <1>3 DEF IInv, FlushStateToDisk, Dirty, database, TypeOK, NeverAborts, IndexOK,
     ReplayOK, UndoOK, ParentClosed

\* A map that takes some coins from Utxo(y) and the others from a mixture of x
\* and y is such a mixture.
LEMMA WriteBatchStep == IInv /\ (\E S \in SUBSET Outpoint : WriteBatch(S)) => IInv'
<1> SUFFICES ASSUME IInv, NEW S \in SUBSET Outpoint, WriteBatch(S) PROVE IInv'
  BY Zenon
<1> USE DEF IInv
<1>1. /\ TypeOK /\ mode \in {"write", "rewrite"} /\ mode' = mode
      /\ coins = Utxo(tip) /\ tip \in diskIndex /\ tip \in Block /\ tip # NoBlock
      /\ headNew \in {NoBlock, tip} /\ coins' = coins /\ tip' = tip
      /\ Undoable(diskUndo, tip)
  BY TreeAssumption DEF WriteBatch, WriteOK, TipOK, TypeOK
<1>2. /\ headNew' = tip /\ headOld' = OldTip /\ dbBest' = NoBlock
      /\ diskIndex' = diskIndex /\ diskUndo' = diskUndo
  BY Zenon DEF WriteBatch, blocks
<1>3. OldTip \in diskIndex \cup {NoBlock} /\ Undoable(diskUndo, OldTip)
  BY Zenon, <1>1 DEF OldTip, DiskOK, Undoable
<1>4. Mixed(dbCoins, OldTip, tip)
  BY Zenon, <1>1 DEF OldTip, DiskOK, Mixed
<1>5. dbCoins' = WithCoins(S)
  BY Zenon DEF WriteBatch
<1>6. Mixed(dbCoins', OldTip, tip)
  BY Zenon, <1>1, <1>4, <1>5 DEF Mixed, WithCoins
<1>7. TypeOK'
  BY Zenon, <1>1, <1>2, <1>3, <1>5 DEF TypeOK, WriteBatch, WithCoins, blocks
<1>8. DiskOK'
  BY Zenon, <1>1, <1>2, <1>3, <1>6 DEF DiskOK, Undoable, Mixed
<1>9. WriteOK'
  BY Zenon, <1>1, <1>2, <1>5 DEF WriteBatch, WriteOK, WithCoins, Undoable, TypeOK
<1> QED
  BY Zenon, <1>1, <1>2, <1>7, <1>8, <1>9 DEF WriteBatch, NeverAborts, IndexOK, TipOK, ReplayOK,
     UndoOK, ParentClosed, Undoable

\* The last batch leaves the coins of the new best block and no head blocks.
LEMMA WriteLastBatchStep == IInv /\ WriteLastBatch => IInv'
<1> SUFFICES ASSUME IInv, WriteLastBatch PROVE IInv'
  BY Zenon
<1> USE DEF IInv
<1>1. /\ TypeOK /\ mode \in {"write", "rewrite"} /\ mode' = "run"
      /\ coins = Utxo(tip) /\ tip \in diskIndex /\ tip \in Block /\ tip # NoBlock
      /\ coins' = coins /\ tip' = tip /\ Undoable(diskUndo, tip)
      /\ \A p \in Outpoint \ pending : dbCoins[p] = coins[p]
  BY TreeAssumption DEF WriteLastBatch, WriteOK, TipOK, TypeOK
<1>2. /\ headNew' = NoBlock /\ headOld' = NoBlock /\ dbBest' = tip
      /\ diskIndex' = diskIndex /\ diskUndo' = diskUndo
  BY Zenon DEF WriteLastBatch, blocks
<1>3. dbCoins' = coins
  BY Zenon, <1>1 DEF WriteLastBatch, WithCoins, TypeOK
<1>4. TypeOK'
  BY Zenon, <1>1, <1>2, <1>3 DEF TypeOK, WriteLastBatch, blocks
<1>5. DiskOK'
  BY Zenon, <1>1, <1>2, <1>3 DEF DiskOK, Undoable
<1> QED
  BY Zenon, <1>1, <1>2, <1>4, <1>5 DEF WriteLastBatch, NeverAborts, IndexOK, TipOK, WriteOK, ReplayOK,
     UndoOK, ParentClosed, Undoable

\* A stop loses what is in memory and nothing else.
LEMMA CrashStep == IInv /\ Crash => IInv'
<1> SUFFICES ASSUME IInv, Crash PROVE IInv'
  BY Zenon
<1>1. TypeOK'
  BY TreeAssumption DEF IInv, Crash, TypeOK, NoCoins, Coin, database, blocks
<1> QED
  BY Zenon, <1>1 DEF IInv, Crash, NeverAborts, UndoOK, ParentClosed, DiskOK, IndexOK, TipOK, WriteOK,
     ReplayOK, Undoable, Mixed, database, blocks

\* A start finds whole coins or the two head blocks of an interrupted flush.
LEMMA StartStep == IInv /\ Start => IInv'
<1> SUFFICES ASSUME IInv, Start PROVE IInv'
  BY Zenon
<1> USE DEF IInv
<1>1. /\ TypeOK /\ mode = "off" /\ DiskOK
      /\ index' = diskIndex \cup {Genesis} /\ undo' = diskUndo /\ coins' = dbCoins
      /\ diskIndex' = diskIndex /\ diskUndo' = diskUndo /\ pending' = pending
      /\ dbCoins' = dbCoins /\ dbBest' = dbBest /\ headNew' = headNew /\ headOld' = headOld
  BY Zenon DEF Start, database, blocks
<1>2. UndoOK(undo)' /\ UndoOK(diskUndo)' /\ DiskOK' /\ IndexOK'
  BY Zenon, <1>1 DEF UndoOK, DiskOK, IndexOK, Undoable, Mixed
<1>3. ParentClosed(index)' /\ ParentClosed(diskIndex)'
  BY Zenon, <1>1 DEF ParentClosed
<1>4. CASE headNew = NoBlock
  <2>1. mode' = "run" /\ tip' = dbBest /\ cursor' = cursor
    BY Zenon, <1>1, <1>4 DEF Start, DiskOK
  <2>2. TypeOK'
    BY <1>1, <2>1, TreeAssumption DEF TypeOK, Start
  <2>3. TipOK'
    BY Zenon, <1>1, <1>4, <2>1 DEF TipOK, DiskOK, Undoable
  <2> QED BY Zenon, <1>1, <1>2, <1>3, <1>4, <2>1, <2>2, <2>3 DEF NeverAborts, WriteOK, ReplayOK
<1>5. CASE headNew # NoBlock
  <2>1. /\ mode' = "replay" /\ tip' = tip
        /\ cursor' = IF headOld = NoBlock THEN Genesis ELSE headOld
    BY Zenon, <1>1, <1>5 DEF Start, DiskOK
  <2>2. TypeOK'
    BY <1>1, <2>1, TreeAssumption DEF TypeOK, Start
  <2>3. cursor' \in Block /\ Utxo(cursor') = Utxo(headOld)
    <3>1. Utxo(NoBlock) = NoCoins
      BY Zenon DEF Utxo
    <3>2. CASE headOld = NoBlock
      BY Zenon, <3>1, <3>2, <2>1, UtxoGenesis, TreeAssumption
    <3>3. CASE headOld # NoBlock
      BY Zenon, <3>3, <1>1, <2>1 DEF TypeOK
    <3> QED BY Zenon, <3>2, <3>3
  <2>4. Undoable(undo, cursor)'
    BY Zenon, <1>1, <1>5, <2>1, TreeAssumption DEF DiskOK, Undoable
  <2>5. Mixed(coins, cursor, headNew)'
    BY Zenon, <1>1, <1>5, <2>3 DEF DiskOK, Mixed
  <2> QED
    BY Zenon, <1>1, <1>2, <1>3, <1>5, <2>1, <2>2, <2>3, <2>4, <2>5 DEF NeverAborts, TipOK, WriteOK,
       ReplayOK
<1> QED BY Zenon, <1>4, <1>5

\* One turn of the rollback of ReplayBlocks.
LEMMA RollbackStep == IInv /\ Rollback => IInv'
<1> SUFFICES ASSUME IInv, Rollback PROVE IInv'
  BY Zenon
<1> USE DEF IInv
<1>1. /\ TypeOK /\ mode = "replay" /\ headNew \in Block /\ headNew # NoBlock
      /\ cursor \in Block /\ Undoable(undo, cursor) /\ Mixed(coins, cursor, headNew)
      /\ tip' = tip /\ index' = index /\ undo' = undo /\ pending' = pending
      /\ UNCHANGED database /\ UNCHANGED blocks /\ crashes' = crashes
  BY Zenon DEF Rollback, ReplayOK, TypeOK
<1>2. cursor # Genesis /\ cursor # NoBlock /\ cursor \in Anc[cursor] /\ Parent[cursor] \in Block
      /\ Parent[cursor] # NoBlock
  BY <1>1, TreeAssumption DEF Rollback
<1>3. undo[cursor] # NoUndo /\ undo[cursor] \in [Outpoint -> Coin]
  BY Zenon, <1>1, <1>2 DEF Undoable, TypeOK
<1>4. /\ mode' = mode /\ cursor' = Parent[cursor]
      /\ coins' = Disconnected(coins, cursor, undo[cursor])
  BY Zenon, <1>3 DEF Rollback
<1>5. Mixed(coins', Parent[cursor], headNew)
  BY Zenon, <1>1, <1>2, <1>3, <1>4, MixedDisconnect DEF UndoOK
<1>6. Undoable(undo, Parent[cursor])
  BY Zenon, <1>1, <1>2, TreeAssumption DEF Undoable
<1>7. coins' \in [Outpoint -> Coin]
  BY Zenon, <1>1, <1>3, <1>4 DEF Disconnected, TypeOK, Coin
<1>8. TypeOK'
  BY Zenon, <1>1, <1>2, <1>4, <1>7 DEF TypeOK, database, blocks
<1>9. ReplayOK'
  BY Zenon, <1>1, <1>2, <1>4, <1>5, <1>6 DEF ReplayOK, Mixed, Undoable, database
<1> QED
  BY Zenon, <1>1, <1>4, <1>8, <1>9 DEF NeverAborts, DiskOK, IndexOK, TipOK, WriteOK, UndoOK,
     ParentClosed, Undoable, Mixed, database, blocks

\* One turn of the roll-forward of ReplayBlocks.
LEMMA RollforwardStep == IInv /\ Rollforward => IInv'
<1> SUFFICES ASSUME IInv, Rollforward PROVE IInv'
  BY Zenon
<1> USE DEF IInv
<1>1. /\ TypeOK /\ mode = "replay" /\ headNew \in Block /\ headNew # NoBlock
      /\ Mixed(coins, cursor, headNew)
      /\ tip' = tip /\ index' = index /\ undo' = undo /\ pending' = pending
      /\ UNCHANGED database /\ UNCHANGED blocks /\ crashes' = crashes /\ mode' = mode
  BY Zenon DEF Rollforward, ReplayOK, TypeOK
<1>2. PICK b \in Anc[headNew] \ {Genesis} :
         Parent[b] = cursor /\ coins' = Connected(coins, b) /\ cursor' = b
  BY Zenon DEF Rollforward
<1>3. b \in Block /\ b # NoBlock /\ Anc[b] \subseteq Anc[headNew] /\ Anc[b] \subseteq Block
  BY <1>1, TreeAssumption
<1>4. Mixed(coins', b, headNew)
  BY Zenon, <1>1, <1>2, <1>3, MixedConnect
<1>5. Undoable(undo, b)
  BY Zenon, <1>1, <1>3 DEF DiskOK, IndexOK, Undoable
<1>6. coins' \in [Outpoint -> Coin]
  BY <1>1, <1>2, <1>3, TreeAssumption DEF Connected, TypeOK, Coin
<1>7. TypeOK'
  BY Zenon, <1>1, <1>2, <1>3, <1>6 DEF TypeOK, database, blocks
<1>8. ReplayOK'
  BY Zenon, <1>1, <1>2, <1>3, <1>4, <1>5 DEF ReplayOK, Mixed, Undoable, database
<1> QED
  BY Zenon, <1>1, <1>7, <1>8 DEF NeverAborts, DiskOK, IndexOK, TipOK, WriteOK, UndoOK,
     ParentClosed, Undoable, Mixed, database, blocks

\* The flush at the end of ReplayBlocks begins with coins that are whole in memory.
LEMMA FlushReplayedStep == IInv /\ FlushReplayed => IInv'
<1> SUFFICES ASSUME IInv, FlushReplayed PROVE IInv'
  BY Zenon
<1> USE DEF IInv
<1>1. /\ TypeOK /\ mode = "replay" /\ headNew \in Block /\ headNew # NoBlock /\ cursor = headNew
      /\ Mixed(coins, headNew, headNew) /\ mode' = "rewrite" /\ tip' = headNew
      /\ coins' = coins /\ index' = index /\ undo' = undo /\ pending' = Dirty
      /\ UNCHANGED database /\ UNCHANGED blocks /\ crashes' = crashes /\ cursor' = cursor
  BY Zenon DEF FlushReplayed, ReplayOK, TypeOK
<1>2. coins = Utxo(headNew)
  BY <1>1, UtxoType DEF Mixed, TypeOK
<1>3. /\ headNew \in diskIndex /\ headNew \in index
      /\ Undoable(diskUndo, headNew) /\ Undoable(undo, headNew)
  BY Zenon, <1>1, TreeAssumption DEF DiskOK, IndexOK, Undoable
<1>4. TypeOK'
  BY Zenon, <1>1 DEF TypeOK, Dirty, database, blocks
<1>5. TipOK'
  BY Zenon, <1>1, <1>2, <1>3 DEF TipOK, Undoable
<1>6. WriteOK'
  BY Zenon, <1>1, <1>3 DEF WriteOK, Dirty, Undoable, database, blocks
<1> QED
  BY Zenon, <1>1, <1>4, <1>5, <1>6 DEF NeverAborts, DiskOK, IndexOK, ReplayOK, UndoOK,
     ParentClosed, Undoable, Mixed, database, blocks

-----------------------------------------------------------------------------
\* No step of the program breaks the invariant.
LEMMA IInvInductive == IInv /\ [Next]_vars => IInv'
<1> SUFFICES ASSUME IInv, [Next]_vars PROVE IInv'
  BY Zenon
<1>1. CASE UNCHANGED vars
  BY <1>1 DEF IInv, vars, memory, database, blocks, TypeOK, NeverAborts, UndoOK, ParentClosed,
     DiskOK, IndexOK, TipOK, WriteOK, ReplayOK, Undoable, Mixed
<1>2. CASE Next
  BY Zenon, <1>2, ConnectTipStep, DisconnectTipStep, PeriodicWriteStep, FlushStateToDiskStep,
     WriteBatchStep, WriteLastBatchStep, CrashStep, StartStep, RollbackStep, RollforwardStep,
     FlushReplayedStep DEF Next
<1> QED BY Zenon, <1>1, <1>2

\* It holds in every state.
LEMMA IInvHolds == Spec => []IInv
BY InitIInv, IInvInductive, PTL DEF Spec

\* The variables have their types in every state.
THEOREM TypeCorrect == Spec => []TypeOK
<1>1. IInv => TypeOK
  BY Zenon DEF IInv
<1> QED BY <1>1, IInvHolds, PTL

\* A running node has the coins of its active chain, whatever flush or replay
\* was cut off before: ConnectBlock, DisconnectBlock and ReplayBlocks.
THEOREM CoinsAlwaysMatchTip == Spec => []CoinsMatchTip
<1>1. IInv => CoinsMatchTip
  BY Zenon DEF IInv, TipOK, CoinsMatchTip
<1> QED BY <1>1, IInvHolds, PTL

\* DB_BEST_BLOCK is only there with all the coins of that block.
THEOREM BestBlockAlwaysWhole == Spec => []BestBlockMeansWhole
<1>1. IInv => BestBlockMeansWhole
  BY Zenon DEF IInv, DiskOK, BestBlockMeansWhole
<1> QED BY <1>1, IInvHolds, PTL

\* ReplayBlocks, LoadChainTip and DisconnectTip find the blocks and the undo
\* data they need.
THEOREM AlwaysStarts == Spec => []NeverAborts
<1>1. IInv => NeverAborts
  BY Zenon DEF IInv
<1> QED BY <1>1, IInvHolds, PTL

\* Once BatchWrite has put out a batch, the database gets to the block that the
\* batch names before it gets to any other.
THEOREM FlushAlwaysFinal == Spec => FlushIsFinal
<1> DEFINE Final == headNew # NoBlock =>
                       \/ headNew' = headNew /\ headOld' = headOld /\ dbBest' = NoBlock
                       \/ headNew' = NoBlock /\ dbBest' = headNew
<1>1. IInv /\ [Next]_vars => [Final]_vars
  <2> SUFFICES ASSUME IInv, Next, headNew # NoBlock
               PROVE Final
    BY Zenon
  <2>1. dbBest = NoBlock /\ mode # "run" /\ (mode \in {"write", "rewrite"} => tip = headNew)
    BY Zenon DEF IInv, DiskOK, WriteOK
  <2> QED
    BY Zenon, <2>1 DEF Next, ConnectTip, DisconnectTip, PeriodicWrite, FlushStateToDisk, WriteBatch,
       OldTip, WriteLastBatch, Crash, Start, Rollback, Rollforward, FlushReplayed, database
<1> QED BY <1>1, IInvHolds, PTL DEF Spec, FlushIsFinal
=============================================================================

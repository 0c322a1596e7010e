----------------------------- MODULE BlockCoins -----------------------------
(***************************************************************************)
(* What one block does to the coins, transaction by transaction: the loops *)
(* of ConnectBlock, DisconnectBlock and RollforwardBlock.                  *)
(*                                                                         *)
(* A block is connected to the coins of the branch below it.  Then it is   *)
(* either disconnected again, and another one connected in its place, or   *)
(* the process stops while the coins are written, and the replay undoes    *)
(* the block or applies it once more to a database where the coins it      *)
(* touches may be anything: the old ones, the new ones, or those of        *)
(* another branch with the same transactions at another height.  These are *)
(* the facts that CoinsRecovery starts from.                               *)
(***************************************************************************)
EXTENDS Integers, Sequences, FiniteSets, FiniteSetsExt

CONSTANTS
    Tx, Coinbase,   \* the transactions, and the coinbase of the block
    Ins, Outs,      \* the outpoints of their inputs and of their outputs
    Outpoint,
    Value,          \* nValue of an output
    Unspendable,    \* the outputs whose scripts are unspendable
    CoinBases, CoinStakes,  \* the outpoints whose coins are of a coinbase, of a coinstake
    nCoinbaseMaturity,
    LockHeight,     \* the last height at which a transaction is not final
    RelLock,        \* the relative lock of its inputs, in blocks; 0 if they have none
    Before,         \* the sets of outpoints that have coins before the block
    Written,        \* what an interrupted flush may have left in place of the coins
    NoCoin,
    PrevHeight,     \* the height of the coins that are there before the block
    NewHeight,      \* the height of the block
    MaxTx           \* bound: transactions of the block besides the coinbase

ASSUME TxAssumption ==
    /\ Coinbase \in Tx /\ Ins[Coinbase] = {}
    /\ IsFiniteSet(Outpoint)
    /\ Ins \in [Tx -> SUBSET Outpoint] /\ Outs \in [Tx -> SUBSET Outpoint]
    /\ \A s, t \in Tx : s # t => Outs[s] \cap Outs[t] = {}
    /\ \A t \in Tx : Ins[t] \cap Outs[t] = {}
    /\ Value \in [Outpoint -> Nat]
    /\ CoinBases \subseteq Outpoint /\ CoinStakes \subseteq Outpoint
    /\ nCoinbaseMaturity \in Nat /\ LockHeight \in [Tx -> Nat] /\ RelLock \in [Tx -> Nat]
    /\ \A t \in Tx : RelLock[t] > 0 => Ins[t] # {}
    /\ NoCoin \notin Nat /\ PrevHeight \in Nat /\ NewHeight \in Nat
    /\ \A S \in Before : S \subseteq Outpoint \ (Unspendable \cup UNION {Outs[t] : t \in Tx})

ASSUME WrittenAssumption == Written \subseteq [Outpoint -> Nat \cup {NoCoin}]

VARIABLES
    vtx,            \* the transactions of the block
    skipZeroValue,  \* IsProtocolV12(pindex)
    before, after,  \* the coins before the block and with it
    view,           \* the view the loops work on: a height for each coin
    undo,           \* vtxundo, with an empty record for the coinbase
    nValueIn, nValueOut,
    i,              \* the transaction the loop is at
    phase, fClean

vars == <<vtx, skipZeroValue, before, after, view, undo, nValueIn, nValueOut, i, phase, fClean>>
block == <<vtx, skipZeroValue, before>>

Have(c, S) == {p \in S : c[p] # NoCoin}
Total(c) == MapThenSumSet(LAMBDA p : Value[p], Have(c, Outpoint))
Sum(S) == MapThenSumSet(LAMBDA p : Value[p], S)

-----------------------------------------------------------------------------
\* Mutants: zero-value outputs are added; unspendable ones are.
AddedZero(t) == {p \in Outs[t] : p \notin Unspendable}
AddedUnspendable(t) == {p \in Outs[t] : skipZeroValue => Value[p] # 0}

\* The outputs of t that AddCoin does not drop.
Added(t) == {p \in Outs[t] : p \notin Unspendable /\ (skipZeroValue => Value[p] # 0)}

Spend(c, S) == [p \in Outpoint |-> IF p \in S THEN NoCoin ELSE c[p]]

\* AddCoins
AddCoins(c, t) == [p \in Outpoint |-> IF p \in Added(t) THEN NewHeight ELSE c[p]]

\* IsFinalTx, in a block of the given height.
IsFinalTx(t, h) == LockHeight[t] < h

\* The blocks that get as far as ConnectBlock: a coinbase and transactions in
\* any order, none twice, all of them final.
Blocks ==
    {<<Coinbase>> \o s : s \in {f \in UNION {[1..n -> Tx \ {Coinbase}] : n \in 0..MaxTx} :
                                  /\ \A j, k \in DOMAIN f : f[j] = f[k] => j = k
                                  /\ \A j \in DOMAIN f : IsFinalTx(f[j], NewHeight)}}

\* The coins before the block do not come from its transactions.
Init ==
    /\ vtx \in Blocks
    /\ skipZeroValue \in BOOLEAN
    /\ \E S \in Before : before = [p \in Outpoint |-> IF p \in S THEN PrevHeight ELSE NoCoin]
    /\ view = before /\ after = before
    /\ undo = <<>> /\ nValueIn = 0 /\ nValueOut = 0
    /\ i = 1 /\ phase = "connect" /\ fClean = TRUE

\* UpdateCoins: the coins, and the undo record of the transaction.
UpdateCoins(c, t) ==
    [coins |-> AddCoins(Spend(c, Ins[t]), t),
     undo  |-> [p \in Ins[t] |-> c[p]]]

\* What CheckTxInputs asks of coins c in a block of height h: they are there, and
\* mature if they were generated.  Its checks of values and times do not depend
\* on which coins are there.
Mature(c, S, h) == \A p \in S : h - c[p] >= nCoinbaseMaturity
CheckTxInputs(c, t, h) ==
    Have(c, Ins[t]) = Ins[t] /\ Mature(c, Ins[t] \cap (CoinBases \cup CoinStakes), h)

\* CalculateSequenceLocks, with the heights of the inputs: the last height at
\* which t is not final.
CalculateSequenceLocks(t, prevHeights) ==
    IF RelLock[t] = 0 THEN -1 ELSE Max({prevHeights[p] : p \in Ins[t]}) + RelLock[t] - 1

\* A turn of ConnectBlock's loop.
ConnectTx ==
    /\ phase = "connect" /\ i <= Len(vtx)
    /\ LET t == vtx[i] IN
       IF ~(CheckTxInputs(view, t, NewHeight) /\ CalculateSequenceLocks(t, view) < NewHeight)
       THEN phase' = "invalid" /\ UNCHANGED <<view, undo, nValueIn, nValueOut, i>>
       ELSE /\ view' = UpdateCoins(view, t).coins
            /\ undo' = Append(undo, UpdateCoins(view, t).undo)
            /\ nValueIn' = nValueIn + Sum(Ins[t])
            /\ nValueOut' = nValueOut + Sum(Outs[t])
            /\ i' = i + 1
            /\ UNCHANGED phase
    /\ UNCHANGED <<block, after, fClean>>

\* The block is connected.
Connected ==
    /\ phase = "connect" /\ i > Len(vtx)
    /\ phase' = "connected"
    /\ after' = view
    /\ UNCHANGED <<block, view, undo, nValueIn, nValueOut, i, fClean>>

\* It cannot be read.
Unreadable ==
    /\ phase = "connect" /\ i = 1
    /\ phase' = "stopped"
    /\ UNCHANGED <<block, after, view, undo, nValueIn, nValueOut, i, fClean>>

\* The outpoints the block adds and those it spends.
TxSet == {vtx[j] : j \in 1..Len(vtx)}
Creates == {p \in UNION {Outs[t] : t \in TxSet} :
               p \notin Unspendable /\ ~(skipZeroValue /\ Value[p] = 0)}
Spends == UNION {Ins[t] : t \in TxSet}

\* DisconnectTip, or ReplayBlocks with a database that is half written.
StartDisconnect ==
    /\ phase = "connected"
    /\ phase' = "disconnect"
    /\ i' = Len(vtx)
    /\ UNCHANGED <<block, after, view, undo, nValueIn, nValueOut, fClean>>

\* Some of the coins the block touches were written, each in a state of its own.
StartReplay ==
    /\ phase = "connected"
    /\ \E W \in SUBSET (Creates \cup Spends), mixture \in Written :
          view' = [p \in Outpoint |-> IF p \in W THEN mixture[p] ELSE before[p]]
    /\ \/ phase' = "rollback" /\ i' = Len(vtx)
       \/ phase' = "rollforward" /\ i' = 1
    /\ UNCHANGED <<block, after, undo, nValueIn, nValueOut, fClean>>

\* ApplyTxInUndo, for the inputs of a transaction.
ApplyTxInUndo(c, u) == [p \in Outpoint |-> IF p \in DOMAIN u THEN u[p] ELSE c[p]]

\* Mutant: a zero-value output is looked for whether or not it was added.
RemovedZero(t) == {p \in Outs[t] : p \notin Unspendable}

\* The outputs of t that DisconnectBlock expects to be there.
Removed(t) == {p \in Outs[t] : p \notin Unspendable /\ ~(skipZeroValue /\ Value[p] = 0)}

\* A turn of DisconnectBlock's loop, from the last transaction to the first.
DisconnectTx ==
    /\ phase \in {"disconnect", "rollback"} /\ i > 0
    /\ LET outs   == Removed(vtx[i])
           undone == Spend(view, outs)
       IN /\ view' = ApplyTxInUndo(undone, undo[i])
          /\ fClean' = (/\ fClean
                        /\ \A p \in outs : view[p] = NewHeight
                        /\ \A p \in Ins[vtx[i]] : undone[p] = NoCoin)
    /\ i' = i - 1
    /\ UNCHANGED <<block, after, undo, nValueIn, nValueOut, phase>>

\* The coins are those without the block.
Disconnected ==
    /\ phase = "disconnect" /\ i = 0
    /\ phase' = "disconnected"
    /\ UNCHANGED <<block, after, view, undo, nValueIn, nValueOut, i, fClean>>

\* Another block is connected to them, after this one or instead of it.
ConnectAnother ==
    /\ phase \in {"disconnected", "invalid"}
    /\ vtx' \in Blocks
    /\ phase' = "connect" /\ i' = 1 /\ view' = before /\ after' = before
    /\ undo' = <<>> /\ nValueIn' = 0 /\ nValueOut' = 0
    /\ UNCHANGED <<skipZeroValue, before, fClean>>

\* Mutant: the coins that are there are not overwritten.
RollforwardCoinsKeep(c, t) ==
    [p \in Outpoint |-> IF c[p] = NoCoin THEN AddCoins(c, t)[p] ELSE Spend(c, Ins[t])[p]]

\* RollforwardBlock's spends and its AddCoins with every overwrite allowed.
RollforwardCoins(c, t) == AddCoins(Spend(c, Ins[t]), t)

RollforwardTx ==
    /\ phase = "rollforward" /\ i <= Len(vtx)
    /\ view' = RollforwardCoins(view, vtx[i])
    /\ i' = i + 1
    /\ UNCHANGED <<block, after, undo, nValueIn, nValueOut, phase, fClean>>

Next ==
    \/ ConnectTx \/ Connected \/ Unreadable
    \/ StartDisconnect \/ DisconnectTx \/ Disconnected \/ ConnectAnother
    \/ StartReplay \/ RollforwardTx

Spec == Init /\ [][Next]_vars

-----------------------------------------------------------------------------
(* Properties.                                                             *)

\* A block that ConnectBlock accepts changes the coins as a whole: what it
\* spends is gone, whether it was there before or is its own, and what else it
\* creates is there.
ConnectsAsAWhole ==
    phase = "connected" =>
        after = [p \in Outpoint |-> IF p \in Spends THEN NoCoin
                                    ELSE IF p \in Creates THEN NewHeight ELSE before[p]]

\* DisconnectBlock undoes ConnectBlock, and says so (DISCONNECT_OK).
DisconnectUndoesConnect == phase = "disconnect" /\ i = 0 => view = before /\ fClean

\* Whatever the coins a replay finds, DisconnectBlock gets to the coins before
\* the block ("both writing a UTXO and deleting a UTXO are idempotent
\* operations") and RollforwardBlock to those with it, "ignoring that it may
\* already have been applied".
ReplayFromAnywhere ==
    /\ phase = "rollback" /\ i = 0 => view = before
    /\ phase = "rollforward" /\ i > Len(vtx) => view = after

\* nMoneySupply grows by nValueOut - nValueIn: by what the coins grow by, and
\* by the unspendable outputs, which are counted though no coin is added.
SupplyMatchesCoins ==
    phase = "connected" =>
        nValueOut - nValueIn =
            Total(after) - Total(before) + Sum(Unspendable \cap UNION {Outs[t] : t \in TxSet})
=============================================================================

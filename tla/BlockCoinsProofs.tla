--------------------------- MODULE BlockCoinsProofs ---------------------------
(***************************************************************************)
(* One block and its coins, for any transactions, any coins below the      *)
(* block and blocks of any length: ConnectBlock's loop has the effect of   *)
(* the block as a whole, DisconnectBlock undoes it and reports no trouble, *)
(* a replay gets there from any coins, and the money supply grows by what  *)
(* the coins do.  CoinsRecovery takes the first three for granted.         *)
(*                                                                         *)
(* The properties speak of the end of a loop, the invariant of every turn: *)
(* in ConnectBlock and DisconnectBlock the view has exactly the first      *)
(* transactions applied (ViewAt), and the undo records hold the coins that *)
(* were spent, those of the block itself included.  In a replay only the   *)
(* coins are known that the turns to come do not touch; each turn settles  *)
(* those it is the last to touch.                                          *)
(***************************************************************************)
EXTENDS BlockCoins, FiniteSetTheorems, WellFoundedInduction, TLAPS

\* What the first n transactions of the block spend and add.
SpentBy(n) == UNION {Ins[vtx[j]] : j \in 1 .. n}
AddedBy(n) == UNION {Added(vtx[j]) : j \in 1 .. n}

\* The coins with the first n transactions.
ViewAt(n) == [p \in Outpoint |-> IF p \in SpentBy(n) THEN NoCoin
                                 ELSE IF p \in AddedBy(n) THEN NewHeight ELSE before[p]]

UndoRecord == UNION {[S -> Nat \cup {NoCoin}] : S \in SUBSET Outpoint}

\* The coin an input spends: one from before the block, or one of the block.
CoinOf(p) == IF before[p] # NoCoin THEN before[p] ELSE NewHeight

BlockTypes ==
    /\ vtx \in Seq(Tx) /\ \A j, k \in 1 .. Len(vtx) : vtx[j] = vtx[k] => j = k
    /\ before \in [Outpoint -> Nat \cup {NoCoin}]
    /\ \A t \in Tx : \A p \in Outs[t] : before[p] = NoCoin
    /\ view \in [Outpoint -> Nat \cup {NoCoin}]
    /\ phase \in {"connect", "invalid", "stopped", "connected", "disconnect", "disconnected",
                  "rollback", "rollforward"}

\* The first n transactions passed: no two spend the same output, each spends
\* what was there before the block or what one before it added, and the undo
\* records have these coins.
Accepted(n) ==
    /\ \A j, k \in 1 .. n : j # k => Ins[vtx[j]] \cap Ins[vtx[k]] = {}
    /\ \A j \in 1 .. n : \A p \in Ins[vtx[j]] :
          before[p] # NoCoin \/ \E k \in 1 .. (j - 1) : p \in Added(vtx[k])
    /\ Len(undo) = n
    /\ \A j \in 1 .. n : undo[j] = [p \in Ins[vtx[j]] |-> CoinOf(p)]

LoopInv ==
    /\ undo \in Seq(UndoRecord)
    /\ phase = "connect" =>
          i \in 1 .. (Len(vtx) + 1) /\ Accepted(i - 1) /\ view = ViewAt(i - 1)
    /\ phase \in {"connected", "disconnect", "rollback", "rollforward"} =>
          Accepted(Len(vtx)) /\ after = ViewAt(Len(vtx))
    /\ phase = "connected" => view = after
    /\ phase = "disconnect" => i \in 0 .. Len(vtx) /\ view = ViewAt(i)
    /\ phase = "rollback" =>
          /\ i \in 0 .. Len(vtx)
          /\ \A p \in Outpoint \ (SpentBy(i) \cup AddedBy(i)) : view[p] = before[p]
    /\ phase = "rollforward" =>
          /\ i \in 1 .. (Len(vtx) + 1)
          /\ \A p \in Outpoint : (\A j \in i .. Len(vtx) : p \notin Ins[vtx[j]] \cup Added(vtx[j]))
                                    => view[p] = after[p]
    /\ phase # "rollback" => fClean

BlockInv == BlockTypes /\ LoopInv
-----------------------------------------------------------------------------
(* Facts about one block.                                                  *)

\* Membership in the unions.
LEMMA InUnions ==
    ASSUME NEW n, NEW p
    PROVE  /\ p \in SpentBy(n) <=> \E j \in 1 .. n : p \in Ins[vtx[j]]
           /\ p \in AddedBy(n) <=> \E j \in 1 .. n : p \in Added(vtx[j])
BY Zenon DEF SpentBy, AddedBy

\* The transactions of a block are different, so no output is made twice, and
\* none was there before.
LEMMA TxFacts ==
    ASSUME BlockTypes, NEW j \in 1 .. Len(vtx)
    PROVE  /\ vtx[j] \in Tx /\ Ins[vtx[j]] \subseteq Outpoint /\ Outs[vtx[j]] \subseteq Outpoint
           /\ Added(vtx[j]) \subseteq Outs[vtx[j]] /\ Removed(vtx[j]) = Added(vtx[j])
           /\ Ins[vtx[j]] \cap Outs[vtx[j]] = {}
           /\ \A p \in Added(vtx[j]) : before[p] = NoCoin
           /\ \A k \in 1 .. Len(vtx) : \A p \in Added(vtx[j]) : p \in Added(vtx[k]) => k = j
<1>1. vtx[j] \in Tx
  BY DEF BlockTypes
<1>2. Added(vtx[j]) \subseteq Outs[vtx[j]]
  BY Zenon DEF Added
<1>3. Removed(vtx[j]) = Added(vtx[j])
  BY Zenon DEF Added, Removed
<1>4. \A k \in 1 .. Len(vtx) : vtx[k] \in Tx /\ Added(vtx[k]) \subseteq Outs[vtx[k]]
  BY DEF BlockTypes, Added
<1>5. \A k \in 1 .. Len(vtx) : \A p \in Added(vtx[j]) : p \in Added(vtx[k]) => vtx[k] = vtx[j]
  BY Zenon, <1>1, <1>2, <1>4, TxAssumption
<1>6. \A k \in 1 .. Len(vtx) : \A p \in Added(vtx[j]) : p \in Added(vtx[k]) => k = j
  BY Zenon, <1>5 DEF BlockTypes
<1>7. \A p \in Added(vtx[j]) : before[p] = NoCoin
  BY Zenon, <1>1, <1>2 DEF BlockTypes
<1> QED
  BY Zenon, <1>1, <1>2, <1>3, <1>6, <1>7, TxAssumption

\* An output of the block is spent after it was made.
LEMMA SpentLater ==
    ASSUME BlockTypes, NEW n \in 0 .. Len(vtx), Accepted(n),
           NEW j \in 1 .. n, NEW k \in 1 .. Len(vtx), NEW p \in Added(vtx[k]), p \in Ins[vtx[j]]
    PROVE  k < j
<1>1. Len(vtx) \in Nat
  BY DEF BlockTypes
<1>2. before[p] = NoCoin
  BY Zenon, TxFacts
<1>3. PICK m \in 1 .. (j - 1) : p \in Added(vtx[m])
  BY Zenon, <1>2 DEF Accepted
<1>4. m \in 1 .. Len(vtx)
  BY <1>1
<1>5. m = k
  BY Zenon, <1>4, <1>3, TxFacts
<1> QED
  BY <1>5

\* A turn of ConnectBlock's loop: the view is that of one transaction more.
LEMMA ConnectOne ==
    ASSUME BlockTypes, NEW n \in 0 .. (Len(vtx) - 1), Accepted(n), view = ViewAt(n),
           CheckTxInputs(view, vtx[n + 1], NewHeight)
    PROVE  /\ UpdateCoins(view, vtx[n + 1]).coins = ViewAt(n + 1)
           /\ UpdateCoins(view, vtx[n + 1]).undo = [p \in Ins[vtx[n + 1]] |-> CoinOf(p)]
           /\ \A p \in Ins[vtx[n + 1]] :
                 /\ before[p] # NoCoin \/ \E k \in 1 .. n : p \in Added(vtx[k])
                 /\ \A j \in 1 .. n : p \notin Ins[vtx[j]]
<1> DEFINE t == vtx[n + 1]
<1>0. n + 1 \in 1 .. Len(vtx) /\ Len(vtx) \in Nat /\ n \in 0 .. Len(vtx) /\ n \in Nat
  BY DEF BlockTypes
<1>1. t \in Tx /\ Ins[t] \subseteq Outpoint /\ Added(t) \subseteq Outpoint /\ Ins[t] \cap Added(t) = {}
  BY Zenon, <1>0, TxFacts
<1>2. \A p \in Ins[t] : view[p] # NoCoin
  BY Zenon DEF CheckTxInputs, Have
<1> HIDE DEF t
<1>3. ASSUME NEW p \in Outpoint PROVE
        /\ p \in SpentBy(n + 1) <=> p \in SpentBy(n) \/ p \in Ins[t]
        /\ p \in AddedBy(n + 1) <=> p \in AddedBy(n) \/ p \in Added(t)
  <2>1. \A j \in 1 .. (n + 1) : j \in 1 .. n \/ j = n + 1
    BY <1>0
  <2>2. \A j \in 1 .. n : j \in 1 .. (n + 1)
    BY <1>0
  <2>3. n + 1 \in 1 .. (n + 1)
    BY <1>0
  <2>4. p \in SpentBy(n + 1) <=> p \in SpentBy(n) \/ p \in Ins[t]
    BY Zenon, <2>1, <2>2, <2>3, InUnions DEF t
  <2>5. p \in AddedBy(n + 1) <=> p \in AddedBy(n) \/ p \in Added(t)
    BY Zenon, <2>1, <2>2, <2>3, InUnions DEF t
  <2> QED
    BY Zenon, <2>4, <2>5
<1>4. \A p \in Ins[t] : p \notin SpentBy(n) /\ (p \notin AddedBy(n) => before[p] # NoCoin)
  BY Zenon, <1>1, <1>2 DEF ViewAt
<1>5. \A p \in AddedBy(n) : before[p] = NoCoin
  <2>1. \A j \in 1 .. n : j \in 1 .. Len(vtx)
    BY <1>0
  <2> QED
    BY <2>1, InUnions, TxFacts
<1>6. \A p \in Added(t) : p \notin SpentBy(n)
  <2> SUFFICES ASSUME NEW p \in Added(t), p \in SpentBy(n) PROVE FALSE
    BY Zenon
  <2>1. PICK j \in 1 .. n : p \in Ins[vtx[j]]
    BY Zenon, InUnions
  <2>2. n + 1 < j
    BY Zenon, <1>0, <2>1, SpentLater DEF t
  <2> QED
    BY <1>0, <2>2
<1>7. UpdateCoins(view, t).coins = ViewAt(n + 1)
  <2>1. UpdateCoins(view, t).coins =
           [p \in Outpoint |-> IF p \in Added(t) THEN NewHeight
                               ELSE IF p \in Ins[t] THEN NoCoin ELSE view[p]]
    BY Zenon DEF UpdateCoins, AddCoins, Spend
  <2>2. ViewAt(n + 1) =
           [p \in Outpoint |-> IF p \in SpentBy(n + 1) THEN NoCoin
                               ELSE IF p \in AddedBy(n + 1) THEN NewHeight ELSE before[p]]
    BY Zenon DEF ViewAt
  <2>3. ASSUME NEW p \in Outpoint
        PROVE  (IF p \in Added(t) THEN NewHeight ELSE IF p \in Ins[t] THEN NoCoin ELSE view[p])
                 = (IF p \in SpentBy(n + 1) THEN NoCoin
                    ELSE IF p \in AddedBy(n + 1) THEN NewHeight ELSE before[p])
    <3>1. view[p] = IF p \in SpentBy(n) THEN NoCoin
                    ELSE IF p \in AddedBy(n) THEN NewHeight ELSE before[p]
      BY Zenon DEF ViewAt
    <3> QED
      BY Zenon, <1>1, <1>3, <1>6, <3>1
  <2> QED
    BY Zenon, <2>1, <2>2, <2>3
<1>8. UpdateCoins(view, t).undo = [p \in Ins[t] |-> CoinOf(p)]
  <2>1. ASSUME NEW p \in Ins[t] PROVE view[p] = CoinOf(p)
    BY Zenon, <1>1, <1>4, <1>5 DEF ViewAt, CoinOf
  <2> QED
    BY Zenon, <2>1 DEF UpdateCoins
<1>9. \A p \in Ins[t] : /\ before[p] # NoCoin \/ \E k \in 1 .. n : p \in Added(vtx[k])
                        /\ \A j \in 1 .. n : p \notin Ins[vtx[j]]
  BY Zenon, <1>4, InUnions
<1> QED
  BY Zenon, <1>7, <1>8, <1>9 DEF t

\* A turn of DisconnectBlock's loop with the coins of the block: it finds what
\* it expects, and the view is that of one transaction less.
LEMMA DisconnectOne ==
    ASSUME BlockTypes, Accepted(Len(vtx)), NEW n \in 1 .. Len(vtx), view = ViewAt(n)
    PROVE  /\ ApplyTxInUndo(Spend(view, Removed(vtx[n])), undo[n]) = ViewAt(n - 1)
           /\ \A p \in Removed(vtx[n]) : view[p] = NewHeight
           /\ \A p \in Ins[vtx[n]] : Spend(view, Removed(vtx[n]))[p] = NoCoin
<1> DEFINE t == vtx[n]
<1>0. Len(vtx) \in Nat /\ n \in Nat /\ Len(vtx) \in 0 .. Len(vtx)
  BY DEF BlockTypes
<1>1. t \in Tx /\ Ins[t] \subseteq Outpoint /\ Added(t) \subseteq Outpoint /\ Ins[t] \cap Added(t) = {}
        /\ Removed(t) = Added(t)
  BY Zenon, TxFacts
<1>2. undo[n] = [p \in Ins[t] |-> CoinOf(p)]
  BY Zenon DEF Accepted
<1>3. ASSUME NEW p \in Outpoint PROVE
        /\ p \in SpentBy(n) <=> p \in SpentBy(n - 1) \/ p \in Ins[t]
        /\ p \in AddedBy(n) <=> p \in AddedBy(n - 1) \/ p \in Added(t)
  <2>1. \A j \in 1 .. n : j \in 1 .. (n - 1) \/ j = n
    BY <1>0
  <2>2. \A j \in 1 .. (n - 1) : j \in 1 .. n
    BY <1>0
  <2>3. n \in 1 .. n
    BY <1>0
  <2>4. p \in SpentBy(n) <=> p \in SpentBy(n - 1) \/ p \in Ins[t]
    BY <2>1, <2>2, <2>3, InUnions
  <2>5. p \in AddedBy(n) <=> p \in AddedBy(n - 1) \/ p \in Added(t)
    BY <2>1, <2>2, <2>3, InUnions
  <2> QED
    BY Zenon, <2>4, <2>5
<1>4. \A j \in 1 .. (n - 1) : j \in 1 .. Len(vtx) /\ j # n
  BY <1>0
<1>5. \A p \in Ins[t] : p \notin SpentBy(n - 1) /\ (p \notin AddedBy(n - 1) => before[p] # NoCoin)
  <2>1. \A p \in Ins[t] : \A j \in 1 .. (n - 1) : p \notin Ins[vtx[j]]
    BY Zenon, <1>4 DEF Accepted
  <2>2. \A p \in Ins[t] : before[p] # NoCoin \/ \E k \in 1 .. (n - 1) : p \in Added(vtx[k])
    BY Zenon DEF Accepted
  <2> QED
    BY Zenon, <2>1, <2>2, InUnions
<1>6. \A p \in AddedBy(n - 1) : before[p] = NoCoin
  BY <1>4, InUnions, TxFacts
<1>7. \A p \in Added(t) : before[p] = NoCoin /\ p \notin SpentBy(n) /\ p \notin AddedBy(n - 1)
  <2> SUFFICES ASSUME NEW p \in Added(t)
               PROVE  before[p] = NoCoin /\ p \notin SpentBy(n) /\ p \notin AddedBy(n - 1)
    BY Zenon
  <2>1. before[p] = NoCoin
    BY Zenon, TxFacts
  <2>2. ASSUME p \in SpentBy(n) PROVE FALSE
    <3>1. PICK j \in 1 .. n : p \in Ins[vtx[j]]
      BY Zenon, <2>2, InUnions
    <3>2. n < j
      <4>1. j \in 1 .. Len(vtx)
        BY <1>0
      <4> QED
        BY Zenon, <1>0, <3>1, <4>1, SpentLater
    <3> QED
      BY <1>0, <3>2
  <2>3. ASSUME p \in AddedBy(n - 1) PROVE FALSE
    <3>1. PICK j \in 1 .. (n - 1) : p \in Added(vtx[j])
      BY Zenon, <2>3, InUnions
    <3>2. j \in 1 .. Len(vtx) /\ j # n
      BY Zenon, <1>4
    <3>3. j = n
      BY Zenon, <3>1, <3>2, TxFacts
    <3> QED
      BY Zenon, <3>2, <3>3
  <2> QED
    BY Zenon, <2>1, <2>2, <2>3
<1> HIDE DEF t
<1>8. ApplyTxInUndo(Spend(view, Added(t)), undo[n]) = ViewAt(n - 1)
  <2>1. ApplyTxInUndo(Spend(view, Added(t)), undo[n]) =
           [p \in Outpoint |-> IF p \in Ins[t] THEN CoinOf(p)
                               ELSE IF p \in Added(t) THEN NoCoin ELSE view[p]]
    BY Zenon, <1>1, <1>2 DEF ApplyTxInUndo, Spend
  <2>2. ASSUME NEW p \in Outpoint
        PROVE  (IF p \in Ins[t] THEN CoinOf(p) ELSE IF p \in Added(t) THEN NoCoin ELSE view[p])
                 = (IF p \in SpentBy(n - 1) THEN NoCoin
                    ELSE IF p \in AddedBy(n - 1) THEN NewHeight ELSE before[p])
    <3>1. view[p] = IF p \in SpentBy(n) THEN NoCoin
                    ELSE IF p \in AddedBy(n) THEN NewHeight ELSE before[p]
      BY Zenon DEF ViewAt
    <3> QED
      BY Zenon, <1>1, <1>3, <1>5, <1>6, <1>7, <3>1 DEF CoinOf
  <2> QED
    BY Zenon, <2>1, <2>2 DEF ViewAt
<1>9. \A p \in Added(t) : view[p] = NewHeight
  BY Zenon, <1>1, <1>3, <1>7 DEF ViewAt
<1>10. \A p \in Ins[t] : Spend(view, Added(t))[p] = NoCoin
  BY Zenon, <1>1, <1>3 DEF ViewAt, Spend
<1> QED
  BY Zenon, <1>1, <1>8, <1>9, <1>10 DEF t

\* The same turn over coins that may be anything where the rest of the block
\* still has to be undone.
LEMMA RollbackOne ==
    ASSUME BlockTypes, Accepted(Len(vtx)), NEW n \in 1 .. Len(vtx),
           \A p \in Outpoint \ (SpentBy(n) \cup AddedBy(n)) : view[p] = before[p],
           NEW p \in Outpoint \ (SpentBy(n - 1) \cup AddedBy(n - 1))
    PROVE  ApplyTxInUndo(Spend(view, Removed(vtx[n])), undo[n])[p] = before[p]
<1> DEFINE t == vtx[n]
<1>0. Len(vtx) \in Nat /\ n \in Nat
  BY DEF BlockTypes
<1>1. t \in Tx /\ Removed(t) = Added(t) /\ \A q \in Added(t) : before[q] = NoCoin
  BY Zenon, TxFacts
<1>2. undo[n] = [q \in Ins[t] |-> CoinOf(q)]
  BY Zenon DEF Accepted
<1>3. ApplyTxInUndo(Spend(view, Added(t)), undo[n])[p] =
         IF p \in Ins[t] THEN CoinOf(p) ELSE IF p \in Added(t) THEN NoCoin ELSE view[p]
  BY Zenon, <1>2 DEF ApplyTxInUndo, Spend
<1>4. CASE p \in Ins[t]
  <2>1. before[p] # NoCoin \/ \E k \in 1 .. (n - 1) : p \in Added(vtx[k])
    BY Zenon, <1>4 DEF Accepted
  <2>2. before[p] # NoCoin
    BY Zenon, <2>1, InUnions
  <2> QED
    BY Zenon, <1>1, <1>3, <1>4, <2>2 DEF CoinOf
<1>5. CASE p \notin Ins[t] /\ p \in Added(t)
  BY Zenon, <1>1, <1>3, <1>5
<1>6. CASE p \notin Ins[t] /\ p \notin Added(t)
  <2>1. \A j \in 1 .. n : j \in 1 .. (n - 1) \/ j = n
    BY <1>0
  <2>2. p \notin SpentBy(n) \cup AddedBy(n)
    BY Zenon, <1>6, <2>1, InUnions
  <2> QED
    BY Zenon, <1>1, <1>3, <1>6, <2>2
<1> QED
  BY Zenon, <1>4, <1>5, <1>6

\* A turn of RollforwardBlock's loop over such coins: what the rest of the
\* block does not touch is as it was after the block.
LEMMA RollforwardOne ==
    ASSUME BlockTypes, Accepted(Len(vtx)), after = ViewAt(Len(vtx)), NEW n \in 1 .. Len(vtx),
           \A p \in Outpoint : (\A j \in n .. Len(vtx) : p \notin Ins[vtx[j]] \cup Added(vtx[j]))
                                  => view[p] = after[p],
           NEW p \in Outpoint,
           \A j \in (n + 1) .. Len(vtx) : p \notin Ins[vtx[j]] \cup Added(vtx[j])
    PROVE  RollforwardCoins(view, vtx[n])[p] = after[p]
<1> DEFINE t == vtx[n]
<1>0. Len(vtx) \in Nat /\ n \in Nat /\ Len(vtx) \in 0 .. Len(vtx)
  BY DEF BlockTypes
<1>1. t \in Tx /\ Ins[t] \cap Added(t) = {}
  BY Zenon, TxFacts
<1>2. RollforwardCoins(view, t)[p] =
         IF p \in Added(t) THEN NewHeight ELSE IF p \in Ins[t] THEN NoCoin ELSE view[p]
  BY Zenon DEF RollforwardCoins, AddCoins, Spend
<1>3. after[p] = IF p \in SpentBy(Len(vtx)) THEN NoCoin
                 ELSE IF p \in AddedBy(Len(vtx)) THEN NewHeight ELSE before[p]
  BY Zenon DEF ViewAt
<1>4. CASE p \in Added(t)
  <2>1. ASSUME p \in SpentBy(Len(vtx)) PROVE FALSE
    <3>1. PICK j \in 1 .. Len(vtx) : p \in Ins[vtx[j]]
      BY Zenon, <2>1, InUnions
    <3>2. n < j
      BY Zenon, <1>0, <1>4, <3>1, SpentLater
    <3>3. j \in (n + 1) .. Len(vtx)
      BY <1>0, <3>2
    <3> QED
      BY Zenon, <3>1, <3>3
  <2>2. p \in AddedBy(Len(vtx))
    BY Zenon, <1>4, InUnions
  <2> QED
    BY Zenon, <1>2, <1>3, <1>4, <2>1, <2>2
<1>5. CASE p \in Ins[t]
  <2>1. p \in SpentBy(Len(vtx))
    BY Zenon, <1>5, InUnions
  <2> QED
    BY Zenon, <1>1, <1>2, <1>3, <1>5, <2>1
<1>6. CASE p \notin Ins[t] /\ p \notin Added(t)
  <2>1. \A j \in n .. Len(vtx) : j \in (n + 1) .. Len(vtx) \/ j = n
    BY <1>0
  <2> QED
    BY Zenon, <1>2, <1>6, <2>1
<1> QED
  BY Zenon, <1>4, <1>5, <1>6

-----------------------------------------------------------------------------
(* The inductive invariant.                                                *)

\* A block that gets as far as ConnectBlock has no transaction twice.
LEMMA BlocksFacts ==
    ASSUME NEW v \in Blocks
    PROVE  v \in Seq(Tx) /\ \A j, k \in 1 .. Len(v) : v[j] = v[k] => j = k
<1>0. PICK f \in UNION {[1 .. n -> Tx \ {Coinbase}] : n \in 0 .. MaxTx} :
         v = <<Coinbase>> \o f /\ \A j, k \in DOMAIN f : f[j] = f[k] => j = k
  BY Zenon DEF Blocks
<1>1. PICK n \in 0 .. MaxTx : f \in [1 .. n -> Tx \ {Coinbase}]
  BY Zenon, <1>0
<1>2. f \in Seq(Tx) /\ Len(f) = n /\ n \in Nat
  BY <1>1
<1>3. <<Coinbase>> \in Seq(Tx) /\ Len(<<Coinbase>>) = 1 /\ <<Coinbase>>[1] = Coinbase
  BY TxAssumption
<1>4. v \in Seq(Tx) /\ Len(v) = n + 1 /\ v[1] = Coinbase /\ \A j \in 2 .. (n + 1) : v[j] = f[j - 1]
  BY <1>0, <1>2, <1>3
<1>5. \A j \in 2 .. (n + 1) : v[j] \in Tx \ {Coinbase} /\ j - 1 \in 1 .. n
  BY <1>1, <1>2, <1>4
<1>6. ASSUME NEW j \in 1 .. (n + 1), NEW k \in 1 .. (n + 1), v[j] = v[k] PROVE j = k
  <2>1. CASE j = 1 \/ k = 1
    <3>1. (j = 1 \/ j \in 2 .. (n + 1)) /\ (k = 1 \/ k \in 2 .. (n + 1))
      BY <1>2
    <3> QED
      BY Zenon, <1>4, <1>5, <1>6, <2>1, <3>1
  <2>2. CASE j # 1 /\ k # 1
    <3>1. j \in 2 .. (n + 1) /\ k \in 2 .. (n + 1)
      BY <1>2, <2>2
    <3>2. f[j - 1] = f[k - 1] /\ j - 1 \in DOMAIN f /\ k - 1 \in DOMAIN f
      BY Zenon, <1>1, <1>4, <1>5, <1>6, <3>1
    <3>3. j - 1 = k - 1
      BY Zenon, <1>0, <3>2
    <3> QED
      BY <3>1, <3>3
  <2> QED
    BY Zenon, <2>1, <2>2
<1> QED
  BY Zenon, <1>4, <1>6

\* With no transaction applied the coins are those before the block.
LEMMA ViewAtZero ==
    ASSUME before \in [Outpoint -> Nat \cup {NoCoin}]
    PROVE  ViewAt(0) = before /\ SpentBy(0) = {} /\ AddedBy(0) = {}
<1>1. SpentBy(0) = {} /\ AddedBy(0) = {}
  BY DEF SpentBy, AddedBy
<1> QED
  BY Zenon, <1>1 DEF ViewAt

\* Such coins have the type of a view.
LEMMA ViewAtTyped ==
    ASSUME before \in [Outpoint -> Nat \cup {NoCoin}], NEW n
    PROVE  ViewAt(n) \in [Outpoint -> Nat \cup {NoCoin}]
BY Zenon, TxAssumption DEF ViewAt

\* ConnectBlock starts with the coins before the block and no undo record.
LEMMA BlockInit == Init => BlockInv
<1> SUFFICES ASSUME Init PROVE BlockInv
  BY Zenon
<1>1. PICK S \in Before : before = [p \in Outpoint |-> IF p \in S THEN PrevHeight ELSE NoCoin]
  BY Zenon DEF Init
<1>2. before \in [Outpoint -> Nat \cup {NoCoin}]
  BY Zenon, <1>1, TxAssumption
<1>3. ASSUME NEW t \in Tx, NEW p \in Outs[t] PROVE before[p] = NoCoin
  <2>1. p \in Outpoint /\ p \notin S
    BY TxAssumption
  <2> QED
    BY Zenon, <1>1, <2>1
<1>4. BlockTypes
  BY Zenon, <1>2, <1>3, BlocksFacts DEF Init, BlockTypes
<1>5. Accepted(0)
  BY DEF Init, Accepted
<1>6. i = 1 /\ i - 1 = 0 /\ i \in 1 .. (Len(vtx) + 1)
  BY <1>4 DEF Init, BlockTypes
<1>7. view = ViewAt(0)
  BY Zenon, <1>2, ViewAtZero DEF Init
<1>8. undo \in Seq(UndoRecord) /\ phase = "connect" /\ fClean
  BY DEF Init
<1> QED
  BY Zenon, <1>4, <1>5, <1>6, <1>7, <1>8 DEF BlockInv, LoopInv

\* A step that keeps the block keeps what is defined by it.
LEMMA SameBlock ==
    ASSUME UNCHANGED block, NEW CONSTANT n
    PROVE  /\ Len(vtx)' = Len(vtx) /\ SpentBy(n)' = SpentBy(n) /\ AddedBy(n)' = AddedBy(n)
           /\ ViewAt(n)' = ViewAt(n)
           /\ undo' = undo => (Accepted(n)' <=> Accepted(n))
<1>1. vtx' = vtx /\ skipZeroValue' = skipZeroValue /\ before' = before
  BY Zenon DEF block
<1>2. \A t : Added(t)' = Added(t)
  BY Zenon, <1>1 DEF Added
<1>3. SpentBy(n)' = SpentBy(n) /\ AddedBy(n)' = AddedBy(n)
  BY Zenon, <1>1, <1>2 DEF SpentBy, AddedBy
<1>4. ViewAt(n)' = ViewAt(n)
  BY Zenon, <1>1, <1>3 DEF ViewAt
<1>5. \A p : CoinOf(p)' = CoinOf(p)
  BY Zenon, <1>1 DEF CoinOf
<1>6. ASSUME undo' = undo PROVE Accepted(n)' <=> Accepted(n)
  BY <1>1, <1>2, <1>5, <1>6 DEF Accepted
<1> QED
  BY Zenon, <1>1, <1>3, <1>4, <1>6

\* The same for the types.
LEMMA SameTypes ==
    ASSUME BlockTypes, UNCHANGED block,
           view' \in [Outpoint -> Nat \cup {NoCoin}],
           phase' \in {"connect", "invalid", "stopped", "connected", "disconnect",
                       "disconnected", "rollback", "rollforward"}
    PROVE  BlockTypes'
BY Zenon DEF BlockTypes, block

\* A turn of ConnectBlock's loop.
LEMMA ConnectTxKeepsInv ==
    ASSUME BlockInv, ConnectTx PROVE BlockInv'
<1>0. BlockTypes /\ phase = "connect" /\ UNCHANGED <<vtx, skipZeroValue, before, after, fClean>>
      /\ UNCHANGED block /\ i \in 1 .. (Len(vtx) + 1) /\ Len(vtx) \in Nat /\ fClean
      /\ undo \in Seq(UndoRecord) /\ i <= Len(vtx)
  BY DEF BlockInv, LoopInv, BlockTypes, ConnectTx, block
<1>1. PICK n \in Nat : i = n + 1
  BY <1>0
<1>2. n \in 0 .. (Len(vtx) - 1) /\ Accepted(n) /\ view = ViewAt(n)
  BY <1>0, <1>1 DEF BlockInv, LoopInv
<1>3. CASE UNCHANGED <<view, undo, i>> /\ phase' = "invalid"
  <2>1. BlockTypes'
    BY Zenon, <1>0, <1>3, SameTypes DEF BlockTypes
  <2> QED
    BY Zenon, <1>0, <1>3, <2>1 DEF BlockInv, LoopInv
<1>4. CASE /\ CheckTxInputs(view, vtx[i], NewHeight)
           /\ view' = UpdateCoins(view, vtx[i]).coins
           /\ undo' = Append(undo, UpdateCoins(view, vtx[i]).undo)
           /\ i' = i + 1 /\ phase' = phase
  <2> DEFINE u == UpdateCoins(view, vtx[n + 1]).undo
             t == vtx[n + 1]
  <2>1. CheckTxInputs(view, t, NewHeight)
    BY Zenon, <1>1, <1>4
  <2>2. /\ view' = ViewAt(n + 1)
        /\ u = [p \in Ins[t] |-> CoinOf(p)]
        /\ \A p \in Ins[t] :
              /\ before[p] # NoCoin \/ \E k \in 1 .. n : p \in Added(vtx[k])
              /\ \A j \in 1 .. n : p \notin Ins[vtx[j]]
    BY Zenon, <1>0, <1>1, <1>2, <1>4, <2>1, ConnectOne
  <2>3. before \in [Outpoint -> Nat \cup {NoCoin}]
    BY Zenon, <1>0 DEF BlockTypes
  <2>4. view' \in [Outpoint -> Nat \cup {NoCoin}]
    BY Zenon, <2>2, <2>3, ViewAtTyped
  <2>5. BlockTypes'
    BY Zenon, <1>0, <1>4, <2>4, SameTypes
  <2>6. u \in UndoRecord
    <3>1. n + 1 \in 1 .. Len(vtx)
      BY <1>2, <1>0
    <3>2. Ins[t] \in SUBSET Outpoint
      BY Zenon, <1>0, <3>1, TxFacts
    <3>3. u \in [Ins[t] -> Nat \cup {NoCoin}]
      BY <2>2, <2>3, <3>2, TxAssumption DEF CoinOf
    <3> QED
      BY Zenon, <3>2, <3>3 DEF UndoRecord
  <2>7. /\ undo' \in Seq(UndoRecord) /\ Len(undo') = n + 1 /\ undo'[n + 1] = u
        /\ \A j \in 1 .. n : undo'[j] = undo[j]
    <3>1. Len(undo) = n
      BY Zenon, <1>2 DEF Accepted
    <3>2. undo' = Append(undo, u)
      BY Zenon, <1>1, <1>4
    <3> HIDE DEF u
    <3> QED
      BY <1>0, <2>6, <3>1, <3>2
  <2> HIDE DEF u, t
  <2>8. Accepted(n + 1)'
    <3>1. \A j \in 1 .. (n + 1) : j \in 1 .. n \/ j = n + 1
      OBVIOUS
    <3>2. ASSUME NEW j \in 1 .. (n + 1), NEW k \in 1 .. (n + 1), j # k
          PROVE  Ins[vtx[j]] \cap Ins[vtx[k]] = {}
      <4>1. CASE j \in 1 .. n /\ k \in 1 .. n
        BY Zenon, <1>2, <3>2, <4>1 DEF Accepted
      <4>2. CASE j = n + 1 \/ k = n + 1
        BY Zenon, <2>2, <3>1, <3>2, <4>2 DEF t
      <4> QED
        BY Zenon, <3>1, <4>1, <4>2
    <3>3. ASSUME NEW j \in 1 .. (n + 1), NEW p \in Ins[vtx[j]]
          PROVE  before[p] # NoCoin \/ \E k \in 1 .. (j - 1) : p \in Added(vtx[k])
      <4>1. CASE j \in 1 .. n
        BY Zenon, <1>2, <4>1 DEF Accepted
      <4>2. CASE j = n + 1
        <5>1. j - 1 = n
          BY <4>2
        <5> QED
          BY Zenon, <2>2, <4>2, <5>1 DEF t
      <4> QED
        BY Zenon, <3>1, <4>1, <4>2
    <3>4. ASSUME NEW j \in 1 .. (n + 1)
          PROVE  undo'[j] = [p \in Ins[vtx[j]] |-> CoinOf(p)]
      <4>1. CASE j \in 1 .. n
        BY Zenon, <1>2, <2>7, <4>1 DEF Accepted
      <4>2. CASE j = n + 1
        BY Zenon, <2>2, <2>7, <4>2 DEF t
      <4> QED
        BY Zenon, <3>1, <4>1, <4>2
    <3>5. (\A x : Added(x)' = Added(x)) /\ (\A p : CoinOf(p)' = CoinOf(p))
      BY Zenon, <1>0 DEF Added, CoinOf
    <3> QED
      BY Zenon, <1>0, <2>7, <3>2, <3>3, <3>4, <3>5 DEF Accepted
  <2>9. i' = n + 2 /\ (i - 1)' = n + 1 /\ i' \in 1 .. (Len(vtx)' + 1)
    BY <1>0, <1>1, <1>2, <1>4
  <2>10. (view = ViewAt(n + 1))'
    BY Zenon, <1>0, <2>2, SameBlock
  <2>11. (Accepted(i - 1) /\ view = ViewAt(i - 1))'
    BY Zenon, <2>8, <2>9, <2>10
  <2> QED
    BY Zenon, <1>0, <1>4, <2>5, <2>7, <2>9, <2>11 DEF BlockInv, LoopInv
<1> QED
  BY Zenon, <1>3, <1>4 DEF ConnectTx

\* ConnectBlock returns.
LEMMA ConnectedKeepsInv ==
    ASSUME BlockInv, Connected PROVE BlockInv'
<1>0. /\ BlockTypes /\ phase = "connect" /\ phase' = "connected" /\ after' = view
      /\ UNCHANGED block /\ UNCHANGED <<vtx, view, undo, i, fClean>> /\ fClean
      /\ undo \in Seq(UndoRecord) /\ i \in 1 .. (Len(vtx) + 1) /\ i > Len(vtx) /\ Len(vtx) \in Nat
  BY SMTT(60) DEF BlockInv, LoopInv, BlockTypes, Connected, block
<1>1. i - 1 = Len(vtx)
  BY <1>0
<1>2. PICK n \in Nat : n = Len(vtx)
  BY Zenon, <1>0
<1>3. Accepted(n) /\ view = ViewAt(n)
  BY Zenon, <1>0, <1>1, <1>2 DEF BlockInv, LoopInv
<1>4. Accepted(n)' /\ after' = ViewAt(n)' /\ n = Len(vtx)'
  BY Zenon, <1>0, <1>2, <1>3, SameBlock
<1>5. BlockTypes'
  BY Zenon, <1>0, SameTypes DEF BlockTypes
<1>6. (Accepted(Len(vtx)) /\ after = ViewAt(Len(vtx)))'
  BY Zenon, <1>4
<1> QED
  BY Zenon, <1>0, <1>5, <1>6 DEF BlockInv, LoopInv

\* Steps that keep the block, its undo records and the coins: the block cannot be
\* read, DisconnectBlock starts or returns.
LEMMA CoinsKeptKeepsInv ==
    ASSUME BlockInv, Unreadable \/ StartDisconnect \/ Disconnected PROVE BlockInv'
<1>0. /\ BlockTypes /\ UNCHANGED block /\ UNCHANGED <<vtx, after, view, undo, fClean>>
      /\ undo \in Seq(UndoRecord) /\ Len(vtx) \in Nat /\ fClean
      /\ phase' \in {"stopped", "disconnect", "disconnected"}
  BY DEF BlockInv, LoopInv, BlockTypes, Unreadable, StartDisconnect, Disconnected, block
<1>1. BlockTypes'
  BY Zenon, <1>0, SameTypes DEF BlockTypes
<1>2. CASE phase' # "disconnect"
  BY Zenon, <1>0, <1>1, <1>2 DEF BlockInv, LoopInv
<1>3. CASE phase' = "disconnect"
  <2>1. phase = "connected" /\ i' = Len(vtx)
    BY Zenon, <1>3 DEF Unreadable, StartDisconnect, Disconnected
  <2>2. PICK n \in Nat : n = Len(vtx)
    BY Zenon, <1>0
  <2>3. Accepted(n) /\ after = ViewAt(n) /\ view = after
    BY Zenon, <2>1, <2>2 DEF BlockInv, LoopInv
  <2>4. Accepted(n)' /\ (after = ViewAt(n))' /\ (view = ViewAt(n))' /\ n = Len(vtx)'
    BY Zenon, <1>0, <2>2, <2>3, SameBlock
  <2>5. (Accepted(Len(vtx)) /\ after = ViewAt(Len(vtx)))' /\ (i \in 0 .. Len(vtx) /\ view = ViewAt(i))'
    BY <2>1, <2>2, <2>4
  <2> QED
    BY Zenon, <1>0, <1>1, <1>3, <2>5 DEF BlockInv, LoopInv
<1> QED
  BY Zenon, <1>2, <1>3

\* The next block starts from the coins before this one.
LEMMA ConnectAnotherKeepsInv ==
    ASSUME BlockInv, ConnectAnother PROVE BlockInv'
<1>0. /\ BlockTypes /\ vtx' \in Blocks /\ phase' = "connect" /\ i' = 1 /\ view' = before
      /\ undo' = <<>> /\ UNCHANGED <<before, fClean>> /\ fClean
  BY Zenon DEF BlockInv, LoopInv, ConnectAnother
<1>1. BlockTypes'
  BY Zenon, <1>0, BlocksFacts DEF BlockTypes
<1>2. before \in [Outpoint -> Nat \cup {NoCoin}]
  BY Zenon, <1>0 DEF BlockTypes
<1>3. ViewAt(0)' = before'
  <2>1. SpentBy(0)' = {} /\ AddedBy(0)' = {}
    BY DEF SpentBy, AddedBy
  <2> QED
    BY Zenon, <1>0, <1>2, <2>1 DEF ViewAt
<1>4. Accepted(0)' /\ undo' \in Seq(UndoRecord)
  BY <1>0 DEF Accepted
<1>5. (i - 1)' = 0 /\ i' \in 1 .. (Len(vtx) + 1)'
  BY <1>0, <1>1 DEF BlockTypes
<1>6. (Accepted(i - 1) /\ view = ViewAt(i - 1))'
  BY Zenon, <1>0, <1>3, <1>4, <1>5
<1> QED
  BY Zenon, <1>0, <1>1, <1>4, <1>5, <1>6 DEF BlockInv, LoopInv

\* What the block touches is what its transactions spend and add.
LEMMA Touched ==
    ASSUME BlockTypes
    PROVE  Creates = AddedBy(Len(vtx)) /\ Spends = SpentBy(Len(vtx))
<1>1. Spends = SpentBy(Len(vtx))
  BY Zenon DEF Spends, TxSet, SpentBy
<1>2. Creates = AddedBy(Len(vtx))
  BY DEF Creates, TxSet, AddedBy, Added
<1> QED
  BY Zenon, <1>1, <1>2

\* A replay starts with any coins where the block writes.
LEMMA StartReplayKeepsInv ==
    ASSUME BlockInv, StartReplay PROVE BlockInv'
<1>0. /\ BlockTypes /\ UNCHANGED block /\ UNCHANGED <<vtx, before, after, undo, fClean>>
      /\ undo \in Seq(UndoRecord) /\ Len(vtx) \in Nat /\ fClean /\ phase = "connected"
      /\ \/ phase' = "rollback" /\ i' = Len(vtx)
         \/ phase' = "rollforward" /\ i' = 1
  BY DEF BlockInv, LoopInv, BlockTypes, StartReplay, block
<1>1. PICK W \in SUBSET (Creates \cup Spends), mixture \in Written :
         view' = [p \in Outpoint |-> IF p \in W THEN mixture[p] ELSE before[p]]
  BY Zenon DEF StartReplay
<1>2. BlockTypes'
  <2>1. before \in [Outpoint -> Nat \cup {NoCoin}]
    BY Zenon, <1>0 DEF BlockTypes
  <2>2. view' \in [Outpoint -> Nat \cup {NoCoin}]
    BY Zenon, <1>1, <2>1, WrittenAssumption
  <2> QED
    BY Zenon, <1>0, <2>2, SameTypes
<1>3. PICK n \in Nat : n = Len(vtx)
  BY Zenon, <1>0
<1>4. Accepted(n) /\ after = ViewAt(n) /\ view = after
  BY Zenon, <1>0, <1>3 DEF BlockInv, LoopInv
<1>5. Accepted(n)' /\ (after = ViewAt(n))' /\ n = Len(vtx)'
  BY Zenon, <1>0, <1>3, <1>4, SameBlock
<1>6. (Accepted(Len(vtx)) /\ after = ViewAt(Len(vtx)))'
  BY Zenon, <1>5
<1>7. \A p \in Outpoint \ (SpentBy(n) \cup AddedBy(n)) : view'[p] = before[p]
  <2>1. Creates = AddedBy(n) /\ Spends = SpentBy(n)
    BY Zenon, <1>0, <1>3, Touched
  <2> QED
    BY Zenon, <1>1, <2>1
<1>8. CASE phase' = "rollback"
  <2>1. i' = n /\ (i \in 0 .. Len(vtx))'
    BY <1>0, <1>3, <1>8
  <2>2. (\A p \in Outpoint \ (SpentBy(i) \cup AddedBy(i)) : view[p] = before[p])'
    <3>1. SpentBy(n)' = SpentBy(n) /\ AddedBy(n)' = AddedBy(n)
      BY Zenon, <1>0, SameBlock
    <3>2. SpentBy(i)' = SpentBy(n)' /\ AddedBy(i)' = AddedBy(n)'
      BY Zenon, <2>1 DEF SpentBy, AddedBy
    <3> QED
      BY Zenon, <1>0, <1>7, <3>1, <3>2
  <2> QED
    BY Zenon, <1>0, <1>2, <1>6, <1>8, <2>1, <2>2 DEF BlockInv, LoopInv
<1>9. CASE phase' = "rollforward"
  <2>1. i' = 1 /\ (i \in 1 .. (Len(vtx) + 1))'
    BY <1>0, <1>9
  <2>2. ASSUME NEW p \in Outpoint,
               \A j \in 1 .. n : p \notin Ins[vtx[j]] \cup Added(vtx[j])
        PROVE  view'[p] = after[p]
    <3>1. p \notin SpentBy(n) /\ p \notin AddedBy(n)
      BY Zenon, <2>2, InUnions
    <3>2. after[p] = before[p]
      BY Zenon, <1>4, <3>1 DEF ViewAt
    <3> QED
      BY Zenon, <1>7, <3>1, <3>2
  <2>3. \A x : Added(x)' = Added(x)
    BY Zenon, <1>0 DEF Added, block
  <2>4. (\A p \in Outpoint : (\A j \in i .. Len(vtx) : p \notin Ins[vtx[j]] \cup Added(vtx[j]))
                                => view[p] = after[p])'
    BY Zenon, <1>0, <1>3, <2>1, <2>2, <2>3
  <2> QED
    BY Zenon, <1>0, <1>2, <1>6, <1>9, <2>1, <2>4 DEF BlockInv, LoopInv
<1> QED
  BY Zenon, <1>0, <1>8, <1>9

\* A turn of DisconnectBlock's loop, on the coins with the block or in a replay.
LEMMA DisconnectTxKeepsInv ==
    ASSUME BlockInv, DisconnectTx PROVE BlockInv'
<1>0. /\ BlockTypes /\ UNCHANGED block /\ UNCHANGED <<vtx, before, after, undo, phase>>
      /\ undo \in Seq(UndoRecord) /\ Len(vtx) \in Nat /\ phase \in {"disconnect", "rollback"}
      /\ i \in 0 .. Len(vtx) /\ i > 0 /\ i' = i - 1
  BY SMTT(60) DEF BlockInv, LoopInv, BlockTypes, DisconnectTx, block
<1>1. PICK n \in Nat : n = i
  BY <1>0
<1>2. PICK m \in Nat : m = Len(vtx)
  BY Zenon, <1>0
<1>3. Accepted(m) /\ after = ViewAt(m) /\ n \in 1 .. Len(vtx)
  BY <1>0, <1>1, <1>2 DEF BlockInv, LoopInv
<1>4. (Accepted(m) /\ after = ViewAt(m) /\ m = Len(vtx))'
  BY Zenon, <1>0, <1>2, <1>3, SameBlock
<1>5. (Accepted(Len(vtx)) /\ after = ViewAt(Len(vtx)))'
  BY Zenon, <1>4
<1>6. view' = ApplyTxInUndo(Spend(view, Removed(vtx[n])), undo[n])
  BY Zenon, <1>1 DEF DisconnectTx
<1>7. /\ i' = n - 1 /\ (i \in 0 .. Len(vtx))' /\ SpentBy(n - 1)' = SpentBy(n - 1)
      /\ AddedBy(n - 1)' = AddedBy(n - 1) /\ ViewAt(n - 1)' = ViewAt(n - 1)
  BY <1>0, <1>1, SameBlock
<1>8. Accepted(Len(vtx))
  BY Zenon, <1>2, <1>3
<1>9. BlockTypes'
  <2>1. undo[n] \in UndoRecord
    BY SMTT(60), <1>0, <1>3, <1>8 DEF Accepted
  <2>2. PICK S \in SUBSET Outpoint : undo[n] \in [S -> Nat \cup {NoCoin}]
    BY Zenon, <2>1 DEF UndoRecord
  <2>3. view \in [Outpoint -> Nat \cup {NoCoin}]
    BY Zenon, <1>0 DEF BlockTypes
  <2>4. view' \in [Outpoint -> Nat \cup {NoCoin}]
    BY Zenon, <1>6, <2>2, <2>3 DEF ApplyTxInUndo, Spend
  <2> QED
    BY Zenon, <1>0, <2>4, SameTypes DEF BlockTypes
<1>10. CASE phase = "disconnect"
  <2>1. view = ViewAt(n) /\ fClean
    BY Zenon, <1>1, <1>10 DEF BlockInv, LoopInv
  <2>2. /\ ApplyTxInUndo(Spend(view, Removed(vtx[n])), undo[n]) = ViewAt(n - 1)
        /\ \A p \in Removed(vtx[n]) : view[p] = NewHeight
        /\ \A p \in Ins[vtx[n]] : Spend(view, Removed(vtx[n]))[p] = NoCoin
    BY Zenon, <1>0, <1>3, <1>8, <2>1, DisconnectOne
  <2>3. fClean'
    BY Zenon, <1>1, <2>1, <2>2 DEF DisconnectTx
  <2>4. (view = ViewAt(n - 1))'
    BY Zenon, <1>6, <1>7, <2>2
  <2>5. (view = ViewAt(i))'
    BY Zenon, <1>7, <2>4
  <2> QED
    BY Zenon, <1>0, <1>5, <1>7, <1>9, <1>10, <2>3, <2>5 DEF BlockInv, LoopInv
<1>11. CASE phase = "rollback"
  <2>1. \A p \in Outpoint \ (SpentBy(n) \cup AddedBy(n)) : view[p] = before[p]
    BY Zenon, <1>1, <1>11 DEF BlockInv, LoopInv
  <2>2. \A p \in Outpoint \ (SpentBy(n - 1) \cup AddedBy(n - 1)) : view'[p] = before[p]
    BY Zenon, <1>0, <1>3, <1>6, <1>8, <2>1, RollbackOne
  <2>3. SpentBy(i)' = SpentBy(n - 1) /\ AddedBy(i)' = AddedBy(n - 1)
    <3>1. SpentBy(i)' = SpentBy(n - 1)' /\ AddedBy(i)' = AddedBy(n - 1)'
      BY Zenon, <1>7 DEF SpentBy, AddedBy
    <3> QED
      BY Zenon, <1>7, <3>1
  <2>4. (\A p \in Outpoint \ (SpentBy(i) \cup AddedBy(i)) : view[p] = before[p])'
    BY Zenon, <1>0, <2>2, <2>3
  <2> QED
    BY Zenon, <1>0, <1>5, <1>7, <1>9, <1>11, <2>4 DEF BlockInv, LoopInv
<1> QED
  BY Zenon, <1>0, <1>10, <1>11

\* A turn of RollforwardBlock's loop.
LEMMA RollforwardTxKeepsInv ==
    ASSUME BlockInv, RollforwardTx PROVE BlockInv'
<1>a. /\ UNCHANGED block /\ UNCHANGED <<vtx, skipZeroValue, before, after, undo, phase, fClean>>
      /\ phase = "rollforward" /\ i <= Len(vtx) /\ i' = i + 1
  BY Zenon DEF RollforwardTx, block
<1>b. BlockTypes /\ fClean /\ undo \in Seq(UndoRecord) /\ Len(vtx) \in Nat /\ i \in 1 .. (Len(vtx) + 1)
  BY SMTT(60), <1>a DEF BlockInv, LoopInv, BlockTypes
<1>0. /\ BlockTypes /\ UNCHANGED block
      /\ UNCHANGED <<vtx, skipZeroValue, before, after, undo, phase, fClean>> /\ fClean
      /\ undo \in Seq(UndoRecord) /\ Len(vtx) \in Nat /\ phase = "rollforward"
      /\ i \in 1 .. (Len(vtx) + 1) /\ i <= Len(vtx) /\ i' = i + 1
  BY Zenon, <1>a, <1>b
<1>1. PICK n \in Nat : n = i
  BY <1>0
<1>2. PICK m \in Nat : m = Len(vtx)
  BY Zenon, <1>0
<1>3. Accepted(m) /\ after = ViewAt(m) /\ n \in 1 .. Len(vtx)
  BY <1>0, <1>1, <1>2 DEF BlockInv, LoopInv
<1>4. (Accepted(m) /\ after = ViewAt(m) /\ m = Len(vtx))'
  BY Zenon, <1>0, <1>2, <1>3, SameBlock
<1>5. (Accepted(Len(vtx)) /\ after = ViewAt(Len(vtx)))'
  BY Zenon, <1>4
<1>6. Accepted(Len(vtx)) /\ after = ViewAt(Len(vtx))
  BY Zenon, <1>2, <1>3
<1>7. view' = RollforwardCoins(view, vtx[n])
  BY Zenon, <1>1 DEF RollforwardTx
<1>8. BlockTypes'
  <2>1. view \in [Outpoint -> Nat \cup {NoCoin}]
    BY Zenon, <1>0 DEF BlockTypes
  <2>2. view' \in [Outpoint -> Nat \cup {NoCoin}]
    BY Zenon, <1>7, <2>1, TxAssumption DEF RollforwardCoins, AddCoins, Spend
  <2> QED
    BY Zenon, <1>0, <2>2, SameTypes DEF BlockTypes
<1>9. \A p \in Outpoint : (\A j \in n .. Len(vtx) : p \notin Ins[vtx[j]] \cup Added(vtx[j]))
                             => view[p] = after[p]
  BY Zenon, <1>0, <1>1 DEF BlockInv, LoopInv
<1>10. \A p \in Outpoint : (\A j \in (n + 1) .. Len(vtx) : p \notin Ins[vtx[j]] \cup Added(vtx[j]))
                              => view'[p] = after[p]
  BY Zenon, <1>0, <1>3, <1>6, <1>7, <1>9, RollforwardOne
<1>11. \A x : Added(x)' = Added(x)
  BY Zenon, <1>0 DEF Added
<1>12. (\A p \in Outpoint : (\A j \in i .. Len(vtx) : p \notin Ins[vtx[j]] \cup Added(vtx[j]))
                              => view[p] = after[p])'
  BY Zenon, <1>0, <1>1, <1>10, <1>11
<1>13. (i \in 1 .. (Len(vtx) + 1))'
  BY <1>0
<1> QED
  BY Zenon, <1>0, <1>5, <1>8, <1>12, <1>13 DEF BlockInv, LoopInv

\* A step that changes nothing.
LEMMA StutterKeepsInv ==
    ASSUME BlockInv, UNCHANGED vars PROVE BlockInv'
<1>1. /\ vtx' = vtx /\ skipZeroValue' = skipZeroValue /\ before' = before /\ after' = after
      /\ view' = view /\ undo' = undo /\ i' = i /\ phase' = phase /\ fClean' = fClean
  BY Zenon DEF vars
<1>2. (\A x : Added(x)' = Added(x)) /\ (\A p : CoinOf(p)' = CoinOf(p))
  BY Zenon, <1>1 DEF Added, CoinOf
<1>3. \A n : SpentBy(n)' = SpentBy(n) /\ AddedBy(n)' = AddedBy(n)
  BY Zenon, <1>1, <1>2 DEF SpentBy, AddedBy
<1>4. \A n : ViewAt(n)' = ViewAt(n)
  BY Zenon, <1>1, <1>3 DEF ViewAt
<1>5. ASSUME NEW CONSTANT n PROVE Accepted(n)' <=> Accepted(n)
  <2>1. UNCHANGED block
    BY Zenon, <1>1 DEF block
  <2> QED
    BY Zenon, <1>1, <2>1, SameBlock
<1>6. BlockTypes'
  BY Zenon, <1>1 DEF BlockInv, BlockTypes
<1> QED
  BY Zenon, <1>1, <1>2, <1>3, <1>4, <1>5, <1>6 DEF BlockInv, LoopInv

\* The invariant holds in every reachable state.
LEMMA BlockInvHolds == Spec => []BlockInv
<1>1. BlockInv /\ [Next]_vars => BlockInv'
  <2> SUFFICES ASSUME BlockInv, [Next]_vars PROVE BlockInv'
    BY Zenon
  <2> QED
    BY Zenon, ConnectTxKeepsInv, ConnectedKeepsInv, CoinsKeptKeepsInv, ConnectAnotherKeepsInv,
       StartReplayKeepsInv, DisconnectTxKeepsInv, RollforwardTxKeepsInv, StutterKeepsInv DEF Next
<1> QED
  BY BlockInit, <1>1, PTL DEF Spec

\* ConnectBlock's loop has the effect of the block as a whole on the coins.
THEOREM AlwaysConnectsAsAWhole == Spec => []ConnectsAsAWhole
<1>1. BlockInv => ConnectsAsAWhole
  <2> SUFFICES ASSUME BlockInv, phase = "connected" PROVE ConnectsAsAWhole
    BY Zenon DEF ConnectsAsAWhole
  <2>1. BlockTypes /\ after = ViewAt(Len(vtx))
    BY Zenon DEF BlockInv, LoopInv
  <2>2. Creates = AddedBy(Len(vtx)) /\ Spends = SpentBy(Len(vtx))
    BY Zenon, <2>1, Touched
  <2> QED
    BY Zenon, <2>1, <2>2 DEF ConnectsAsAWhole, ViewAt
<1> QED
  BY BlockInvHolds, <1>1, PTL

\* DisconnectBlock undoes what ConnectBlock did, and returns DISCONNECT_OK.
THEOREM DisconnectAlwaysUndoes == Spec => []DisconnectUndoesConnect
<1>1. BlockInv => DisconnectUndoesConnect
  <2> SUFFICES ASSUME BlockInv, phase = "disconnect", i = 0 PROVE view = before /\ fClean
    BY Zenon DEF DisconnectUndoesConnect
  <2>1. view = ViewAt(0) /\ fClean /\ before \in [Outpoint -> Nat \cup {NoCoin}]
    BY Zenon DEF BlockInv, LoopInv, BlockTypes
  <2> QED
    BY Zenon, <2>1, ViewAtZero
<1> QED
  BY BlockInvHolds, <1>1, PTL

\* The replay after a crash ends with the right coins, whatever it finds where
\* the block writes: DisconnectBlock with those before, RollforwardBlock with
\* those after the block.
THEOREM ReplayAlwaysFromAnywhere == Spec => []ReplayFromAnywhere
<1>1. BlockInv => ReplayFromAnywhere
  <2> SUFFICES ASSUME BlockInv PROVE ReplayFromAnywhere
    BY Zenon
  <2>0. before \in [Outpoint -> Nat \cup {NoCoin}] /\ view \in [Outpoint -> Nat \cup {NoCoin}]
    BY Zenon DEF BlockInv, BlockTypes
  <2>1. ASSUME phase = "rollback", i = 0 PROVE view = before
    <3>1. SpentBy(0) = {} /\ AddedBy(0) = {}
      BY Zenon, <2>0, ViewAtZero
    <3>2. \A p \in Outpoint : view[p] = before[p]
      BY Zenon, <2>1, <3>1 DEF BlockInv, LoopInv
    <3> QED
      BY <2>0, <3>2
  <2>2. ASSUME phase = "rollforward", i > Len(vtx) PROVE view = after
    <3>1. i \in 1 .. (Len(vtx) + 1) /\ Len(vtx) \in Nat /\ after = ViewAt(Len(vtx))
      BY <2>2 DEF BlockInv, LoopInv, BlockTypes
    <3>2. \A j \in i .. Len(vtx) : FALSE
      BY <2>2, <3>1
    <3>3. \A p \in Outpoint : view[p] = after[p]
      BY Zenon, <2>2, <3>2 DEF BlockInv, LoopInv
    <3>4. after \in [Outpoint -> Nat \cup {NoCoin}]
      BY Zenon, <2>0, <3>1, ViewAtTyped
    <3> QED
      BY <2>0, <3>3, <3>4
  <2> QED
    BY Zenon, <2>1, <2>2 DEF ReplayFromAnywhere
<1> QED
  BY BlockInvHolds, <1>1, PTL

-----------------------------------------------------------------------------
(* Sums of values over finite sets.                                        *)

\* The least-number principle.
LEMMA LeastNatural ==
    ASSUME NEW S \in SUBSET Nat, S # {}
    PROVE  \E m \in S : \A n \in S : m <= n
<1>1. OpToRel(<, Nat) = {ss \in Nat \X Nat : ss[1] < ss[2]}
  BY Zenon DEF OpToRel
<1>2. PICK m \in S : \A n \in S : <<n, m>> \notin OpToRel(<, Nat)
  BY Zenon, WFMin, NatLessThanWellFounded
<1>3. ASSUME NEW n \in S PROVE m <= n
  <2>1. <<n, m>> \notin {ss \in Nat \X Nat : ss[1] < ss[2]}
    BY <1>1, <1>2, Zenon
  <2>2. <<n, m>> \in Nat \X Nat /\ <<n, m>>[1] = n /\ <<n, m>>[2] = m
    BY Zenon
  <2>3. ~(n < m)
    BY <2>1, <2>2, Zenon
  <2> QED
    BY <2>3
<1> QED
  BY Zenon, <1>3

\* Induction over the subsets of a finite set: what holds of a set when it holds
\* of the set without any one of its members holds of all.
LEMMA FiniteInduction ==
    ASSUME NEW U, IsFiniteSet(U), NEW Q,
           \A s \in SUBSET U : (\A x \in s : s \ {x} \in Q) => s \in Q
    PROVE  SUBSET U \subseteq Q
<1> DEFINE Left == {Cardinality(s) : s \in (SUBSET U) \ Q}
<1> SUFFICES ASSUME Left # {} PROVE FALSE
  OBVIOUS
<1>1. Left \in SUBSET Nat
  BY FS_Subset, FS_CardinalityType
<1>2. \A n \in Left : \E s \in (SUBSET U) \ Q : n = Cardinality(s)
  BY Zenon
<1>3. \A s \in (SUBSET U) \ Q : Cardinality(s) \in Left
  OBVIOUS
<1> HIDE DEF Left
<1>4. PICK m \in Left : \A n \in Left : m <= n
  BY Zenon, <1>1, LeastNatural
<1>5. PICK s \in (SUBSET U) \ Q : m = Cardinality(s)
  BY Zenon, <1>2
<1>6. IsFiniteSet(s) /\ m \in Nat
  BY Zenon, <1>1, FS_Subset
<1>7. ASSUME NEW x \in s PROVE s \ {x} \in Q
  <2>1. Cardinality(s \ {x}) = m - 1
    BY Zenon, <1>5, <1>6, FS_RemoveElement
  <2>2. s \ {x} \in SUBSET U /\ ~(m <= m - 1)
    BY <1>6
  <2> QED
    BY <1>3, <1>4, <2>1, <2>2
<1> QED
  BY Zenon, <1>5, <1>7

\* The function that MapThenSumSet computes with, over the subsets of U.
SumsOver(U, f) ==
    f = [s \in SUBSET U |-> IF s = {} THEN 0
                            ELSE Value[CHOOSE x \in s : TRUE] + f[s \ {CHOOSE x \in s : TRUE}]]

\* MapThenSumSet, with its recursive function.
LEMMA SumUnfold ==
    ASSUME NEW S
    PROVE  Sum(S) = (CHOOSE f : SumsOver(S, f))[S]
BY Zenon DEF Sum, MapThenSumSet, MapThenFoldSet, SumsOver

\* There is one such function at most.
LEMMA SumsUnique ==
    ASSUME NEW U, IsFiniteSet(U), NEW f, NEW g, SumsOver(U, f), SumsOver(U, g)
    PROVE  f = g
<1> DEFINE Q == {s \in SUBSET U : f[s] = g[s]}
<1>1. ASSUME NEW s \in SUBSET U, \A x \in s : s \ {x} \in Q PROVE s \in Q
  <2>1. CASE s = {}
    BY Zenon, <2>1 DEF SumsOver
  <2>2. CASE s # {}
    <3> DEFINE c == CHOOSE x \in s : TRUE
    <3>1. c \in s
      BY Zenon, <2>2
    <3>2. s \ {c} \in Q
      BY Zenon, <1>1, <3>1
    <3>3. f[s] = Value[c] + f[s \ {c}] /\ g[s] = Value[c] + g[s \ {c}]
      BY Zenon, <2>2 DEF SumsOver
    <3> HIDE DEF c
    <3> QED
      BY Zenon, <3>2, <3>3
  <2> QED
    BY Zenon, <2>1, <2>2
<1> HIDE DEF Q
<1>2. SUBSET U \subseteq Q
  BY Zenon, <1>1, FiniteInduction
<1>3. \A s \in SUBSET U : f[s] = g[s]
  BY Zenon, <1>2 DEF Q
<1>4. f = [s \in SUBSET U |-> f[s]] /\ g = [s \in SUBSET U |-> g[s]]
  BY Zenon DEF SumsOver
<1> QED
  BY Zenon, <1>3, <1>4

\* The function as far as sets of n members.
SumsUpTo(n, f) ==
    /\ f = [s \in SUBSET Outpoint |-> f[s]]
    /\ \A s \in SUBSET Outpoint : Cardinality(s) <= n =>
          f[s] = IF s = {} THEN 0
                 ELSE Value[CHOOSE x \in s : TRUE] + f[s \ {CHOOSE x \in s : TRUE}]

\* The recursion has a solution: it is found size by size.
LEMMA SumsExist == \E f : SumsOver(Outpoint, f)
<1> DEFINE Q == {n \in Nat : \E f : SumsUpTo(n, f)}
<1>0. IsFiniteSet(Outpoint) /\ Cardinality(Outpoint) \in Nat
  BY Zenon, TxAssumption, FS_CardinalityType
<1>1. \A s \in SUBSET Outpoint : IsFiniteSet(s) /\ Cardinality(s) \in Nat
                                /\ Cardinality(s) <= Cardinality(Outpoint)
  BY Zenon, <1>0, FS_Subset, FS_CardinalityType
<1>2. 0 \in Q
  <2> DEFINE f == [s \in SUBSET Outpoint |-> 0]
  <2>1. \A s \in SUBSET Outpoint : Cardinality(s) <= 0 => s = {}
    BY <1>1, FS_EmptySet
  <2>2. SumsUpTo(0, f)
    BY Zenon, <2>1 DEF SumsUpTo
  <2> HIDE DEF f
  <2> QED
    BY Zenon, <2>2
<1>3. ASSUME NEW n \in Nat, n \in Q PROVE n + 1 \in Q
  <2>1. PICK f : SumsUpTo(n, f)
    BY Zenon, <1>3
  <2> DEFINE Body(s) == IF s = {} THEN 0
                        ELSE Value[CHOOSE x \in s : TRUE] + f[s \ {CHOOSE x \in s : TRUE}]
             g == [s \in SUBSET Outpoint |-> IF Cardinality(s) = n + 1 THEN Body(s) ELSE f[s]]
  <2>2. ASSUME NEW s \in SUBSET Outpoint, Cardinality(s) <= n + 1
        PROVE  g[s] = IF s = {} THEN 0
                      ELSE Value[CHOOSE x \in s : TRUE] + g[s \ {CHOOSE x \in s : TRUE}]
    <3>1. g[s] = Body(s)
      <4>1. CASE Cardinality(s) = n + 1
        BY Zenon, <4>1
      <4>2. CASE Cardinality(s) <= n
        <5>1. g[s] = f[s]
          BY <1>1, <4>2
        <5>2. f[s] = Body(s)
          BY Zenon, <2>1, <4>2 DEF SumsUpTo
        <5> QED
          BY Zenon, <5>1, <5>2
      <4> QED
        BY SMTT(60), <1>1, <2>2, <4>1, <4>2
    <3>2. CASE s = {}
      BY Zenon, <3>1, <3>2
    <3>3. CASE s # {}
      <4> DEFINE c == CHOOSE x \in s : TRUE
      <4>1. c \in s
        BY Zenon, <3>3
      <4>2. Body(s) = Value[c] + f[s \ {c}]
        BY Zenon, <3>3
      <4> HIDE DEF c, Body
      <4>3. Cardinality(s \ {c}) = Cardinality(s) - 1
        BY Zenon, <1>1, <4>1, FS_RemoveElement
      <4>4. g[s \ {c}] = f[s \ {c}]
        BY <1>1, <2>2, <4>3
      <4>5. g[s] = Value[c] + g[s \ {c}]
        BY Zenon, <3>1, <4>2, <4>4
      <4> QED
        BY Zenon, <3>3, <4>5 DEF c
    <3> QED
      BY Zenon, <3>2, <3>3
  <2>3. g = [s \in SUBSET Outpoint |-> g[s]]
    OBVIOUS
  <2> HIDE DEF g
  <2>4. SumsUpTo(n + 1, g)
    BY Zenon, <2>2, <2>3 DEF SumsUpTo
  <2> QED
    BY <2>4
<1>4. Cardinality(Outpoint) \in Q
  <2> DEFINE Left == {n \in Nat : n \notin Q}
  <2> HIDE DEF Q
  <2> SUFFICES ASSUME Left # {} PROVE FALSE
    BY Zenon, <1>0
  <2>1. Left \in SUBSET Nat
    BY Zenon
  <2> HIDE DEF Left
  <2>2. PICK m \in Left : \A n \in Left : m <= n
    BY Zenon, <2>1, LeastNatural
  <2>3. m \in Nat /\ m # 0
    BY Zenon, <1>2, <2>1, <2>2 DEF Left
  <2>4. m - 1 \in Nat /\ ~(m <= m - 1) /\ (m - 1) + 1 = m
    BY <2>3
  <2>5. m - 1 \in Q
    BY Zenon, <2>2, <2>4 DEF Left
  <2>6. m \in Q
    BY Zenon, <1>3, <2>4, <2>5
  <2> QED
    BY Zenon, <2>2, <2>6 DEF Left
<1>5. PICK f : SumsUpTo(Cardinality(Outpoint), f)
  BY Zenon, <1>4
<1>6. SumsOver(Outpoint, f)
  BY Zenon, <1>1, <1>5 DEF SumsUpTo, SumsOver
<1> QED
  BY Zenon, <1>6

\* A sum over any set of outpoints is a value of that one function.
LEMMA SumIsValue ==
    ASSUME NEW f, SumsOver(Outpoint, f), NEW S \in SUBSET Outpoint
    PROVE  Sum(S) = f[S]
<1> DEFINE g == [s \in SUBSET S |-> f[s]]
<1>1. SumsOver(S, g)
  <2>1. ASSUME NEW s \in SUBSET S
        PROVE  g[s] = IF s = {} THEN 0
                      ELSE Value[CHOOSE x \in s : TRUE] + g[s \ {CHOOSE x \in s : TRUE}]
    <3>1. g[s] = f[s] /\ s \in SUBSET Outpoint
      BY Zenon
    <3>2. f[s] = IF s = {} THEN 0
                 ELSE Value[CHOOSE x \in s : TRUE] + f[s \ {CHOOSE x \in s : TRUE}]
      BY Zenon, <3>1 DEF SumsOver
    <3>3. \A x : g[s \ {x}] = f[s \ {x}]
      BY Zenon
    <3> HIDE DEF g
    <3> QED
      BY Zenon, <3>1, <3>2, <3>3
  <2>2. g = [s \in SUBSET S |-> g[s]]
    BY Zenon
  <2> HIDE DEF g
  <2> QED
    BY Zenon, <2>1, <2>2 DEF SumsOver
<1>2. g[S] = f[S]
  BY Zenon
<1> HIDE DEF g
<1>3. SumsOver(S, CHOOSE h : SumsOver(S, h))
  BY <1>1, Zenon
<1>4. IsFiniteSet(S)
  BY Zenon, TxAssumption, FS_Subset
<1>5. (CHOOSE h : SumsOver(S, h)) = g
  BY Zenon, <1>1, <1>3, <1>4, SumsUnique
<1> QED
  BY Zenon, <1>2, <1>5, SumUnfold

\* The sum over no outpoint, and over the outpoints a choice takes one from.
LEMMA SumRecursion ==
    /\ Sum({}) = 0
    /\ \A S \in SUBSET Outpoint : S # {} =>
          Sum(S) = Value[CHOOSE x \in S : TRUE] + Sum(S \ {CHOOSE x \in S : TRUE})
<1>1. PICK f : SumsOver(Outpoint, f)
  BY Zenon, SumsExist
<1>2. \A S \in SUBSET Outpoint : Sum(S) = f[S]
  BY Zenon, <1>1, SumIsValue
<1>3. f[{}] = 0 /\ Sum({}) = f[{}]
  BY Zenon, <1>1, <1>2 DEF SumsOver
<1>4. ASSUME NEW S \in SUBSET Outpoint, S # {}
      PROVE  Sum(S) = Value[CHOOSE x \in S : TRUE] + Sum(S \ {CHOOSE x \in S : TRUE})
  <2> DEFINE c == CHOOSE x \in S : TRUE
  <2>1. f[S] = Value[c] + f[S \ {c}]
    BY Zenon, <1>1, <1>4 DEF SumsOver
  <2> HIDE DEF c
  <2>2. Sum(S) = f[S] /\ Sum(S \ {c}) = f[S \ {c}]
    BY Zenon, <1>2
  <2>3. Sum(S) = Value[c] + Sum(S \ {c})
    BY Zenon, <2>1, <2>2
  <2> QED
    BY Zenon, <2>3 DEF c
<1> QED
  BY Zenon, <1>3, <1>4

\* The sum of amounts is an amount.
LEMMA SumType == \A S \in SUBSET Outpoint : Sum(S) \in Nat
<1> DEFINE Q == {s \in SUBSET Outpoint : Sum(s) \in Nat}
<1>1. ASSUME NEW s \in SUBSET Outpoint, \A x \in s : s \ {x} \in Q PROVE s \in Q
  <2>1. CASE s = {}
    BY <2>1, SumRecursion
  <2>2. CASE s # {}
    <3>1. PICK c \in s : Sum(s) = Value[c] + Sum(s \ {c})
      BY Zenon, <2>2, SumRecursion
    <3>2. Sum(s \ {c}) \in Nat /\ Value[c] \in Nat
      BY Zenon, <1>1, TxAssumption
    <3> QED
      BY <3>1, <3>2
  <2> QED
    BY Zenon, <2>1, <2>2
<1> HIDE DEF Q
<1>2. SUBSET Outpoint \subseteq Q
  BY Zenon, <1>1, TxAssumption, FiniteInduction
<1> QED
  BY Zenon, <1>2 DEF Q

\* Any member may be taken out first.
LEMMA SumRemove ==
    \A S \in SUBSET Outpoint : \A x \in S : Sum(S) = Value[x] + Sum(S \ {x})
<1> DEFINE Q == {s \in SUBSET Outpoint : \A x \in s : Sum(s) = Value[x] + Sum(s \ {x})}
<1>1. ASSUME NEW s \in SUBSET Outpoint, \A x \in s : s \ {x} \in Q PROVE s \in Q
  <2> SUFFICES ASSUME NEW x \in s PROVE Sum(s) = Value[x] + Sum(s \ {x})
    BY Zenon
  <2>1. PICK c \in s : Sum(s) = Value[c] + Sum(s \ {c})
    BY Zenon, SumRecursion
  <2>2. CASE c = x
    BY Zenon, <2>1, <2>2
  <2>3. CASE c # x
    <3>1. Sum(s \ {c}) = Value[x] + Sum((s \ {c}) \ {x})
      BY Zenon, <1>1, <2>3
    <3>2. Sum(s \ {x}) = Value[c] + Sum((s \ {x}) \ {c})
      BY Zenon, <1>1, <2>3
    <3>3. (s \ {x}) \ {c} = (s \ {c}) \ {x}
      BY Zenon
    <3>4. Value[x] \in Nat /\ Value[c] \in Nat /\ Sum((s \ {c}) \ {x}) \in Nat
      BY Zenon, TxAssumption, SumType
    <3>5. Sum(s \ {x}) = Value[c] + Sum((s \ {c}) \ {x})
      BY Zenon, <3>2, <3>3
    <3>6. PICK k \in Nat, v \in Nat, w \in Nat :
             k = Sum((s \ {c}) \ {x}) /\ v = Value[x] /\ w = Value[c]
      BY Zenon, <3>4
    <3> QED
      BY <2>1, <3>1, <3>5, <3>6
  <2> QED
    BY Zenon, <2>2, <2>3
<1> HIDE DEF Q
<1>2. SUBSET Outpoint \subseteq Q
  BY Zenon, <1>1, TxAssumption, FiniteInduction
<1> QED
  BY Zenon, <1>2 DEF Q

\* Sums of disjoint sets add up.
LEMMA SumUnion ==
    ASSUME NEW A \in SUBSET Outpoint, NEW B \in SUBSET Outpoint, A \cap B = {}
    PROVE  Sum(A \cup B) = Sum(A) + Sum(B)
<1> DEFINE Q == {s \in SUBSET B : Sum(A \cup s) = Sum(A) + Sum(s)}
<1>1. ASSUME NEW s \in SUBSET B, \A x \in s : s \ {x} \in Q PROVE s \in Q
  <2>0. Sum(A) \in Nat
    BY Zenon, SumType
  <2>1. CASE s = {}
    <3>1. A \cup s = A /\ Sum(s) = 0
      BY Zenon, <2>1, SumRecursion
    <3> QED
      BY <2>0, <3>1
  <2>2. CASE s # {}
    <3>1. PICK x \in s : TRUE
      BY Zenon, <2>2
    <3>2. Sum(A \cup (s \ {x})) = Sum(A) + Sum(s \ {x})
      BY Zenon, <1>1
    <3>3. (A \cup s) \ {x} = A \cup (s \ {x}) /\ x \in A \cup s /\ A \cup s \in SUBSET Outpoint
      BY Zenon
    <3>4. Sum(A \cup s) = Value[x] + Sum((A \cup s) \ {x}) /\ Sum(s) = Value[x] + Sum(s \ {x})
      BY Zenon, <3>3, SumRemove
    <3>5. Value[x] \in Nat /\ Sum(s \ {x}) \in Nat
      BY Zenon, TxAssumption, SumType
    <3>6. Sum(A \cup s) = Value[x] + (Sum(A) + Sum(s \ {x}))
      BY Zenon, <3>2, <3>3, <3>4
    <3>7. Sum(A \cup s) = Sum(A) + Sum(s)
      BY <2>0, <3>4, <3>5, <3>6
    <3> QED
      BY Zenon, <3>7
  <2> QED
    BY Zenon, <2>1, <2>2
<1> HIDE DEF Q
<1>2. IsFiniteSet(B)
  BY Zenon, TxAssumption, FS_Subset
<1>3. SUBSET B \subseteq Q
  BY Zenon, <1>1, <1>2, FiniteInduction
<1> QED
  BY Zenon, <1>3 DEF Q

\* Outputs of value zero add nothing.
LEMMA SumZero ==
    ASSUME NEW A \in SUBSET Outpoint, \A p \in A : Value[p] = 0
    PROVE  Sum(A) = 0
<1> DEFINE Q == {s \in SUBSET A : Sum(s) = 0}
<1>1. ASSUME NEW s \in SUBSET A, \A x \in s : s \ {x} \in Q PROVE s \in Q
  <2>1. CASE s = {}
    BY Zenon, <2>1, SumRecursion
  <2>2. CASE s # {}
    <3>1. PICK x \in s : Sum(s) = Value[x] + Sum(s \ {x})
      BY Zenon, <2>2, SumRemove
    <3> QED
      BY <1>1, <3>1
  <2> QED
    BY Zenon, <2>1, <2>2
<1> HIDE DEF Q
<1>2. IsFiniteSet(A)
  BY Zenon, TxAssumption, FS_Subset
<1>3. SUBSET A \subseteq Q
  BY Zenon, <1>1, <1>2, FiniteInduction
<1> QED
  BY Zenon, <1>3 DEF Q

-----------------------------------------------------------------------------
(* The money supply.                                                       *)

\* The outputs of the first n transactions, whether added or not.
OutsBy(n) == UNION {Outs[vtx[j]] : j \in 1 .. n}

\* What the loop has summed up is what the coins have grown by.
SupplyAt(n) ==
    nValueOut - nValueIn = Total(view) - Total(before) + Sum(Unspendable \cap OutsBy(n))

SupplyInv ==
    /\ nValueIn \in Nat /\ nValueOut \in Nat
    /\ phase = "connect" => SupplyAt(i - 1)
    /\ phase = "connected" => SupplyAt(Len(vtx))

\* The total of a view is a sum over the outpoints that have coins in it.
LEMMA TotalIsSum == \A c : Total(c) = Sum(Have(c, Outpoint)) /\ Total(c) \in Nat
<1>1. \A c : Total(c) = Sum(Have(c, Outpoint))
  BY Zenon DEF Total, Sum
<1>2. \A c : Have(c, Outpoint) \in SUBSET Outpoint
  BY Zenon DEF Have
<1> QED
  BY Zenon, <1>1, <1>2, SumType

\* The outputs of a transaction are those that are added, the unspendable ones,
\* and perhaps some of value zero.
LEMMA SumOfOutputs ==
    ASSUME NEW t \in Tx
    PROVE  Sum(Outs[t]) = Sum(Added(t)) + Sum(Unspendable \cap Outs[t])
<1> DEFINE A == Added(t)
           B == Unspendable \cap Outs[t]
           Z == Outs[t] \ (A \cup B)
<1>1. A \in SUBSET Outpoint /\ B \in SUBSET Outpoint /\ Z \in SUBSET Outpoint
      /\ A \cup B \in SUBSET Outpoint
  BY Zenon, TxAssumption DEF Added
<1>2. A \cap B = {} /\ (A \cup B) \cap Z = {} /\ (A \cup B) \cup Z = Outs[t]
  BY Zenon DEF Added
<1>3. \A p \in Z : Value[p] = 0
  BY Zenon DEF Added
<1> HIDE DEF A, B, Z
<1>4. Sum(Z) = 0
  BY Zenon, <1>1, <1>3, SumZero
<1>5. Sum(A \cup B) = Sum(A) + Sum(B)
  BY Zenon, <1>1, <1>2, SumUnion
<1>6. Sum((A \cup B) \cup Z) = Sum(A \cup B) + Sum(Z)
  BY Zenon, <1>1, <1>2, SumUnion
<1>7. Sum(Outs[t]) = Sum((A \cup B) \cup Z)
  BY Zenon, <1>2
<1>8. Sum(A) \in Nat /\ Sum(B) \in Nat
  BY Zenon, <1>1, SumType
<1>9. Sum(Outs[t]) = Sum(A) + Sum(B)
  BY <1>4, <1>5, <1>6, <1>7, <1>8
<1> QED
  BY Zenon, <1>9 DEF A, B

\* What a turn of ConnectBlock's loop does to the total of the view: the inputs
\* are there and go, the outputs that are added were not there.
LEMMA TotalOfTurn ==
    ASSUME BlockTypes, NEW n \in 0 .. (Len(vtx) - 1), Accepted(n), view = ViewAt(n),
           CheckTxInputs(view, vtx[n + 1], NewHeight)
    PROVE  Total(UpdateCoins(view, vtx[n + 1]).coins) + Sum(Ins[vtx[n + 1]])
             = Total(view) + Sum(Added(vtx[n + 1]))
<1> DEFINE t == vtx[n + 1]
           H == Have(view, Outpoint)
           I == Ins[t]
           A == Added(t)
           new == UpdateCoins(view, t).coins
<1>0. n + 1 \in 1 .. Len(vtx) /\ Len(vtx) \in Nat /\ n \in Nat
  BY SMTT(60) DEF BlockTypes
<1>1. t \in Tx /\ I \subseteq Outpoint /\ A \subseteq Outpoint /\ I \cap A = {}
      /\ \A p \in A : before[p] = NoCoin
  BY Zenon, <1>0, TxFacts
<1>2. I \subseteq H
  BY Zenon, <1>1 DEF CheckTxInputs, Have
<1>3. A \cap H = {}
  <2> SUFFICES ASSUME NEW p \in A, view[p] # NoCoin PROVE FALSE
    BY Zenon DEF Have
  <2>1. p \in AddedBy(n) /\ p \in Outpoint
    BY Zenon, <1>1 DEF ViewAt
  <2>2. PICK k \in 1 .. n : p \in Added(vtx[k])
    BY Zenon, <2>1, InUnions
  <2>3. k \in 1 .. Len(vtx) /\ k # n + 1
    BY <1>0
  <2> QED
    BY Zenon, <1>0, <2>2, <2>3, TxFacts
<1>4. Have(new, Outpoint) = (H \ I) \cup A
  <2>1. new = [p \in Outpoint |-> IF p \in A THEN NewHeight
                                  ELSE IF p \in I THEN NoCoin ELSE view[p]]
    BY Zenon DEF UpdateCoins, AddCoins, Spend
  <2>2. NewHeight # NoCoin
    BY Zenon, TxAssumption
  <2> HIDE DEF A, I, new
  <2> QED
    BY Zenon, <1>1, <2>1, <2>2 DEF Have
<1>5. H \in SUBSET Outpoint
  BY Zenon DEF Have
<1> HIDE DEF H, I, A, new, t
<1>6. Sum((H \ I) \cup I) = Sum(H \ I) + Sum(I) /\ (H \ I) \cup I = H
  BY Zenon, <1>1, <1>2, <1>5, SumUnion
<1>7. Sum((H \ I) \cup A) = Sum(H \ I) + Sum(A)
  BY Zenon, <1>1, <1>3, <1>5, SumUnion
<1>8. Sum(H \ I) \in Nat /\ Sum(I) \in Nat /\ Sum(A) \in Nat
  BY Zenon, <1>1, <1>5, SumType
<1>9. Total(view) = Sum(H \ I) + Sum(I) /\ Total(new) = Sum(H \ I) + Sum(A)
  BY Zenon, <1>4, <1>6, <1>7, TotalIsSum DEF H
<1>10. Total(new) + Sum(I) = Total(view) + Sum(A)
  BY <1>8, <1>9
<1> QED
  BY Zenon, <1>10 DEF H, I, A, new, t

\* ConnectBlock starts with nothing summed up.
LEMMA SupplyStart ==
    ASSUME view = before, nValueIn = 0, nValueOut = 0
    PROVE  SupplyAt(0)
<1>1. Unspendable \cap OutsBy(0) = {}
  BY SMTT(60) DEF OutsBy
<1>2. Sum(Unspendable \cap OutsBy(0)) = 0
  BY Zenon, <1>1, SumRecursion
<1>3. Total(before) \in Nat
  BY Zenon, TotalIsSum
<1> QED
  BY <1>2, <1>3 DEF SupplyAt

\* A turn of ConnectBlock's loop: nValueOut grows by all outputs, of which the
\* unspendable ones are no coins.
LEMMA ConnectTxKeepsSupply ==
    ASSUME BlockInv, SupplyInv, ConnectTx PROVE SupplyInv'
<1>0. /\ BlockTypes /\ phase = "connect" /\ UNCHANGED <<vtx, skipZeroValue, before>>
      /\ i \in 1 .. (Len(vtx) + 1) /\ Len(vtx) \in Nat /\ i <= Len(vtx)
      /\ nValueIn \in Nat /\ nValueOut \in Nat
  BY SMTT(60) DEF BlockInv, LoopInv, BlockTypes, SupplyInv, ConnectTx, block
<1>1. PICK n \in Nat : i = n + 1
  BY <1>0
<1>2. n \in 0 .. (Len(vtx) - 1) /\ Accepted(n) /\ view = ViewAt(n) /\ SupplyAt(n)
  BY SMTT(60), <1>0, <1>1 DEF BlockInv, LoopInv, SupplyInv
<1>3. CASE phase' = "invalid" /\ UNCHANGED <<nValueIn, nValueOut>>
  BY Zenon, <1>0, <1>3 DEF SupplyInv
<1>4. CASE /\ CheckTxInputs(view, vtx[i], NewHeight)
           /\ view' = UpdateCoins(view, vtx[i]).coins
           /\ nValueIn' = nValueIn + Sum(Ins[vtx[i]])
           /\ nValueOut' = nValueOut + Sum(Outs[vtx[i]])
           /\ i' = i + 1 /\ phase' = phase
  <2> DEFINE t == vtx[n + 1]
             U == Unspendable \cap OutsBy(n)
             V == Unspendable \cap Outs[t]
  <2>1. t \in Tx /\ Ins[t] \in SUBSET Outpoint /\ Outs[t] \in SUBSET Outpoint
        /\ Added(t) \in SUBSET Outpoint
    <3>1. n + 1 \in 1 .. Len(vtx)
      BY <1>0, <1>2
    <3> QED
      BY Zenon, <1>0, <3>1, TxFacts
  <2>2. Total(view') + Sum(Ins[t]) = Total(view) + Sum(Added(t))
    BY Zenon, <1>0, <1>1, <1>2, <1>4, TotalOfTurn
  <2>3. Sum(Outs[t]) = Sum(Added(t)) + Sum(V)
    BY Zenon, <2>1, SumOfOutputs
  <2>4. U \in SUBSET Outpoint /\ V \in SUBSET Outpoint /\ U \cap V = {}
    <3>1. \A j \in 1 .. n : vtx[j] \in Tx /\ vtx[j] # t
      BY <1>0, <1>2 DEF BlockTypes
    <3>2. \A j \in 1 .. n : Outs[vtx[j]] \subseteq Outpoint /\ Outs[vtx[j]] \cap Outs[t] = {}
      BY Zenon, <2>1, <3>1, TxAssumption
    <3> QED
      BY Zenon, <2>1, <3>2 DEF OutsBy
  <2>5. (Unspendable \cap OutsBy(n + 1))' = U \cup V
    <3>1. \A j \in 1 .. (n + 1) : j \in 1 .. n \/ j = n + 1
      OBVIOUS
    <3>2. \A j \in 1 .. n : j \in 1 .. (n + 1)
      OBVIOUS
    <3>3. OutsBy(n + 1) = OutsBy(n) \cup Outs[t]
      BY SMTT(60), <3>1, <3>2 DEF OutsBy
    <3>4. OutsBy(n + 1)' = OutsBy(n + 1)
      BY Zenon, <1>0 DEF OutsBy
    <3> QED
      BY Zenon, <3>3, <3>4
  <2> HIDE DEF U, V
  <2>6. Sum((Unspendable \cap OutsBy(n + 1))') = Sum(U) + Sum(V)
    BY Zenon, <2>4, <2>5, SumUnion
  <2>7. /\ Sum(U) \in Nat /\ Sum(V) \in Nat /\ Sum(Ins[t]) \in Nat /\ Sum(Outs[t]) \in Nat
        /\ Sum(Added(t)) \in Nat /\ Total(view) \in Nat /\ Total(view') \in Nat /\ Total(before) \in Nat
    BY Zenon, <2>1, <2>4, SumType, TotalIsSum
  <2>8. nValueOut - nValueIn = Total(view) - Total(before) + Sum(U)
    BY Zenon, <1>2 DEF SupplyAt, U
  <2>9. nValueIn' = nValueIn + Sum(Ins[t]) /\ nValueOut' = nValueOut + Sum(Outs[t])
    BY Zenon, <1>1, <1>4
  <2>10. nValueOut' - nValueIn' = Total(view') - Total(before) + (Sum(U) + Sum(V))
    <3>1. \A a, b, c, d, e, f, g, h, o, q \in Int :
             o - q = a - b + c /\ d + e = a + f /\ g = f + h => (o + g) - (q + e) = d - b + (c + h)
      OBVIOUS
    <3>2. nValueIn \in Int /\ nValueOut \in Int
      BY <1>0
    <3> HIDE DEF t
    <3>3. (nValueOut + Sum(Outs[t])) - (nValueIn + Sum(Ins[t]))
             = Total(view') - Total(before) + (Sum(U) + Sum(V))
      BY SMTT(60), <2>2, <2>3, <2>7, <2>8, <3>1, <3>2
    <3> QED
      BY Zenon, <2>9, <3>3
  <2>11. SupplyAt(n + 1)'
    BY Zenon, <1>0, <2>6, <2>10 DEF SupplyAt
  <2>12. (i - 1)' = n + 1 /\ nValueIn' \in Nat /\ nValueOut' \in Nat
    <3>1. (i - 1)' = n + 1
      BY <1>1, <1>4
    <3> HIDE DEF t
    <3> QED
      BY SMTT(60), <1>0, <2>7, <2>9, <3>1
  <2>13. SupplyAt(i - 1)'
    BY Zenon, <2>11, <2>12
  <2> QED
    BY Zenon, <1>0, <1>4, <2>12, <2>13 DEF SupplyInv
<1> QED
  BY Zenon, <1>3, <1>4 DEF ConnectTx

\* The other steps.
LEMMA OthersKeepSupply ==
    ASSUME BlockInv, SupplyInv, [Next]_vars, ~ConnectTx PROVE SupplyInv'
<1>1. CASE Connected
  <2>0. /\ phase = "connect" /\ phase' = "connected" /\ i > Len(vtx)
        /\ UNCHANGED <<vtx, before, view, nValueIn, nValueOut>>
        /\ i \in 1 .. (Len(vtx) + 1) /\ Len(vtx) \in Nat
    BY SMTT(60), <1>1 DEF BlockInv, LoopInv, BlockTypes, Connected, block
  <2>1. PICK n \in Nat : n = Len(vtx)
    BY Zenon, <2>0
  <2>2. i - 1 = n
    BY <2>0, <2>1
  <2>3. SupplyAt(n)
    BY Zenon, <2>0, <2>2 DEF SupplyInv
  <2>4. SupplyAt(n)'
    BY Zenon, <2>0, <2>3 DEF SupplyAt, OutsBy
  <2>5. SupplyAt(Len(vtx))'
    BY Zenon, <2>0, <2>1, <2>4
  <2> QED
    BY Zenon, <2>0, <2>5 DEF SupplyInv
<1>2. CASE ConnectAnother
  <2>1. /\ phase' = "connect" /\ view' = before' /\ i' = 1 /\ nValueIn' = 0 /\ nValueOut' = 0
    BY Zenon, <1>2 DEF ConnectAnother
  <2>2. (Unspendable \cap OutsBy(0))' = {}
    BY DEF OutsBy
  <2>3. Sum((Unspendable \cap OutsBy(0))') = 0 /\ Total(before') \in Nat
    BY Zenon, <2>2, SumRecursion, TotalIsSum
  <2>4. SupplyAt(0)'
    BY <2>1, <2>3 DEF SupplyAt
  <2>5. (i - 1)' = 0
    BY <2>1
  <2>6. SupplyAt(i - 1)'
    BY Zenon, <2>4, <2>5
  <2> QED
    BY Zenon, <2>1, <2>6 DEF SupplyInv
<1>3. CASE Unreadable \/ StartDisconnect \/ Disconnected \/ StartReplay \/ DisconnectTx \/ RollforwardTx
  <2>1. phase' \notin {"connect", "connected"} /\ UNCHANGED <<nValueIn, nValueOut>>
    BY Zenon, <1>3 DEF Unreadable, StartDisconnect, Disconnected, StartReplay, DisconnectTx, RollforwardTx
  <2> QED
    BY Zenon, <2>1 DEF SupplyInv
<1>4. CASE UNCHANGED vars
  BY SMTT(60), <1>4 DEF vars, SupplyInv, SupplyAt, OutsBy
<1> QED
  BY Zenon, <1>1, <1>2, <1>3, <1>4 DEF Next

\* What ConnectBlock adds to nMoneySupply is what the coins grow by and the
\* unspendable outputs.
THEOREM SupplyAlwaysMatches == Spec => []SupplyMatchesCoins
<1>1. Init => SupplyInv
  <2> SUFFICES ASSUME Init PROVE SupplyInv
    BY Zenon
  <2>1. SupplyAt(0)
    BY Zenon, SupplyStart DEF Init
  <2>2. i - 1 = 0
    BY DEF Init
  <2>3. SupplyAt(i - 1)
    BY Zenon, <2>1, <2>2
  <2> QED
    BY Zenon, <2>3 DEF Init, SupplyInv
<1>2. BlockInv /\ SupplyInv /\ [Next]_vars => SupplyInv'
  BY Zenon, ConnectTxKeepsSupply, OthersKeepSupply
<1>3. BlockInv /\ SupplyInv => SupplyMatchesCoins
  <2> SUFFICES ASSUME BlockInv, SupplyInv, phase = "connected" PROVE SupplyMatchesCoins
    BY Zenon DEF SupplyMatchesCoins
  <2>1. SupplyAt(Len(vtx)) /\ view = after
    BY Zenon DEF SupplyInv, BlockInv, LoopInv
  <2>2. UNION {Outs[t] : t \in TxSet} = OutsBy(Len(vtx))
    BY Zenon DEF TxSet, OutsBy
  <2> QED
    BY Zenon, <2>1, <2>2 DEF SupplyAt, SupplyMatchesCoins
<1> QED
  BY BlockInvHolds, <1>1, <1>2, <1>3, PTL DEF Spec

==============================================================================

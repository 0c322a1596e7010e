---------------------------- MODULE MCBlockCoins ----------------------------
(***************************************************************************)
(* An instance of MempoolChain for TLC.  t2 spends outputs of t1, t3 one   *)
(* of t2; x0 and z have no value, u0 is unspendable.  t5 spends a coinbase *)
(* that is mature only on top of the block, and t4, final only there,      *)
(* spends an output of t5 and what t2 spends.  t6 may spend an output of   *)
(* t1 only in a block after that of t1.                                    *)
(***************************************************************************)
EXTENDS MempoolChain, TLC

CONSTANTS cb, t1, t2, t3, t4, t5, t6, x, x0, y, w, c0, o1, n1, o2, z, u0, o3, o4, o5, o6

MCOutpoint == {x, x0, y, w, c0, o1, n1, o2, z, u0, o3, o4, o5, o6}
MCIns == (cb :> {}) @@ (t1 :> {x, x0}) @@ (t2 :> {o1, z, y}) @@ (t3 :> {o2}) @@ (t4 :> {o5, y}) @@ (t5 :> {w}) @@
         (t6 :> {n1})
MCOuts == (cb :> {c0}) @@ (t1 :> {o1, n1, z, u0}) @@ (t2 :> {o2}) @@ (t3 :> {o3}) @@ (t4 :> {o4}) @@ (t5 :> {o5}) @@
          (t6 :> {o6})
MCValue == (x :> 3) @@ (x0 :> 0) @@ (y :> 2) @@ (w :> 3) @@ (c0 :> 1) @@ (o1 :> 2) @@ (n1 :> 1) @@ (o2 :> 4) @@ (z :> 0) @@
           (u0 :> 1) @@ (o3 :> 5) @@ (o4 :> 4) @@ (o5 :> 3) @@ (o6 :> 1)
MCLockHeight == [t \in Tx |-> IF t = t4 THEN 2 ELSE 0]
MCRelLock == [t \in Tx |-> IF t = t6 THEN 1 ELSE 0]
MCBefore == {{x, x0, y, w}, {x, x0, w}, {y}}
\* Every coin absent, coins of both heights, and a mixture of all three.
MCWritten ==
    {[p \in Outpoint |-> NoCoin],
     [p \in Outpoint |-> IF p \in {x, z, o1, c0} THEN PrevHeight ELSE NewHeight],
     [p \in Outpoint |-> IF p \in {y, n1, o2} THEN NewHeight
                         ELSE IF p \in {o1, w, o5} THEN NoCoin ELSE PrevHeight]}
MCLimits == {[ancestors |-> a, descendants |-> d] : a \in {2, 3}, d \in {2, 3}}
=============================================================================

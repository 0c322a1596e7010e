---------------------------- MODULE MCStakeChecks ----------------------------
(***************************************************************************)
(* Trees of blocks for StakeChecks.  Transaction x is in a1 and, on the    *)
(* other branch, in b1; y is in the genesis block.                         *)
(***************************************************************************)
EXTENDS StakeChecks

CONSTANTS g, a1, a2, a3, d2, b1, b2, b3, x, y

MCParent ==
    [b \in Block |->
        CASE b = g -> None
          [] b \in {a1, b1} -> g
          [] b \in {a2, d2} -> a1
          [] b = a3 -> a2
          [] b = b2 -> b1
          [] b = b3 -> b2]

MCAnc ==
    [b \in Block |->
        CASE b = g -> {g}
          [] b \in {a1, b1} -> {g, b}
          [] b \in {a2, d2} -> {g, a1, b}
          [] b = a3 -> {g, a1, a2, a3}
          [] b = b2 -> {g, b1, b2}
          [] b = b3 -> {g, b1, b2, b3}]

MCTxs == [b \in Block |-> IF b = g THEN {y} ELSE IF b \in {a1, b1} THEN {x} ELSE {}]

MCTime == [b \in Block |-> Cardinality(MCAnc[b])]

\* a2 and d2 are one stake in two blocks: an old coin is the kernel and a young
\* one is added.  In b2, of the other branch, the young coin is the kernel.
MCKernel == [b \in Block |-> IF b \in {a2, d2} THEN y ELSE IF b = b2 THEN x ELSE None]
MCInputs == [b \in Block |-> IF b \in {a2, d2} THEN <<y, x>> ELSE IF b = b2 THEN <<x>> ELSE <<>>]

MCAddr == [b \in Block |-> CASE b \in {g, a1, a2, a3} -> 1 [] b \in {b1, b2, b3} -> 2 [] b = d2 -> 3]

Timed == Block
Untimed == {}
==============================================================================

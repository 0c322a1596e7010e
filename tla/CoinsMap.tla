------------------------------ MODULE CoinsMap ------------------------------
(***************************************************************************)
(* What a stack of coins views promises to the code that connects and      *)
(* disconnects blocks: a flat map from outpoints to coins (the UTXO set at *)
(* the tip) and, while a block is being applied, a private copy of it that *)
(* is either committed as a whole or thrown away.  There are no caches, no *)
(* flags and no database here: CoinsCache is shown to implement this.      *)
(***************************************************************************)
CONSTANTS
    Outpoint,       \* the outpoints (COutPoint)
    Coin,           \* the unspent coins
    Spent           \* what the map holds where there is no unspent coin

VARIABLES
    utxo,           \* the UTXO set at the tip of the active chain
    scratch,        \* the copy a block is being applied to
    open,           \* whether a block is being applied
    ret             \* the coin handed to the caller of the last read or spend

vars == <<utxo, scratch, open, ret>>

Init ==
    /\ utxo \in [Outpoint -> Coin \cup {Spent}]
    /\ scratch = utxo
    /\ open = FALSE
    /\ ret = Spent

Begin ==
    /\ ~open
    /\ open' = TRUE
    /\ UNCHANGED <<utxo, scratch, ret>>

Read(o) ==
    /\ ret' = scratch[o]
    /\ UNCHANGED <<utxo, scratch, open>>

Add(o, c) ==
    /\ open
    /\ scratch' = [scratch EXCEPT ![o] = c]
    /\ UNCHANGED <<utxo, open, ret>>

Spend(o) ==
    /\ open
    /\ scratch' = [scratch EXCEPT ![o] = Spent]
    /\ ret' = scratch[o]
    /\ UNCHANGED <<utxo, open>>

Commit ==
    /\ open
    /\ utxo' = scratch
    /\ open' = FALSE
    /\ UNCHANGED <<scratch, ret>>

Discard ==
    /\ open
    /\ open' = FALSE
    /\ scratch' = utxo
    /\ UNCHANGED <<utxo, ret>>

Next ==
    \/ Begin
    \/ \E o \in Outpoint : Read(o) \/ Spend(o)
    \/ \E o \in Outpoint, c \in Coin : Add(o, c)
    \/ Commit
    \/ Discard

Spec == Init /\ [][Next]_vars
=============================================================================

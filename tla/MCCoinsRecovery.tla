------------------------- MODULE MCCoinsRecovery -------------------------
(***************************************************************************)
(* An instance of CoinsRecovery for TLC: a block c1 on the genesis block,  *)
(* and on it the branches a2 and b2, b3.  The transaction that spends p1   *)
(* and creates p2 is in a2 and in b3, at different heights; b2 creates and *)
(* spends p3 and creates p4.                                               *)
(***************************************************************************)
EXTENDS CoinsRecovery, TLC

CONSTANTS g, c1, a2, b2, b3, p1, p2, p3, p4

MCBlock == {g, c1, a2, b2, b3}
MCParent == (c1 :> g) @@ (a2 :> c1) @@ (b2 :> c1) @@ (b3 :> b2)
MCAnc == (g :> {g}) @@ (c1 :> {g, c1}) @@ (a2 :> {g, c1, a2}) @@ (b2 :> {g, c1, b2}) @@
         (b3 :> {g, c1, b2, b3})
MCHeight == (g :> 0) @@ (c1 :> 1) @@ (a2 :> 2) @@ (b2 :> 2) @@ (b3 :> 3)
MCCreates == (g :> {}) @@ (c1 :> {p1}) @@ (a2 :> {p2}) @@ (b2 :> {p3, p4}) @@ (b3 :> {p2})
MCSpends == (g :> {}) @@ (c1 :> {}) @@ (a2 :> {p1}) @@ (b2 :> {p3}) @@ (b3 :> {p1})
==========================================================================

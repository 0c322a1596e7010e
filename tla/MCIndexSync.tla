----------------------------- MODULE MCIndexSync -----------------------------
(* An instance of IndexSync: a genesis block g and two branches above it.    *)
EXTENDS IndexSync, FiniteSets, TLC

CONSTANTS g, a1, a2, b1, b2

MCParent == (g :> None) @@ (a1 :> g) @@ (a2 :> a1) @@ (b1 :> g) @@ (b2 :> b1)

MCAnc ==
    (g :> {g}) @@ (a1 :> {g, a1}) @@ (a2 :> {g, a1, a2}) @@
    (b1 :> {g, b1}) @@ (b2 :> {g, b1, b2})

MCHeight == [b \in Block |-> Cardinality(MCAnc[b]) - 1]
=============================================================================

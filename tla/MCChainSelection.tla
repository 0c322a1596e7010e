-------------------------- MODULE MCChainSelection --------------------------
(* Instances of ChainSelection for TLC: branches on a genesis block g that   *)
(* tie in places, as every block adds 1 to the trust.                        *)
EXTENDS ChainSelection, TLC

CONSTANTS g, a1, a2, b1, b2, b3, c2

AncOf ==
    (g :> {g}) @@ (a1 :> {g, a1}) @@ (a2 :> {g, a1, a2}) @@
    (b1 :> {g, b1}) @@ (b2 :> {g, b1, b2}) @@ (b3 :> {g, b1, b2, b3}) @@
    (c2 :> {g, b1, c2})

ParentOf == (a1 :> g) @@ (a2 :> a1) @@ (b1 :> g) @@ (b2 :> b1) @@ (b3 :> b2) @@ (c2 :> b1)

\* A branch of one block, and one of two that may overtake it.
SmallTree == {g, a1, b1, b2}

\* Both branches, or the first two blocks of each.
TwoBranches == {g, a1, a2, b1, b2, b3}
ShortBranches == {g, a1, a2, b1, b2}

\* A branch that forks above its first block.
ForkedBranch == {g, b1, b2, c2}

MCParent == [b \in Block \ {g} |-> ParentOf[b]]
MCAnc == [b \in Block |-> AncOf[b]]
MCChainTrust == [b \in Block |-> Cardinality(AncOf[b])]

\* The second branch has the lower addresses: it wins a tie of ids.
AddrOf == (g :> 1) @@ (b1 :> 2) @@ (b2 :> 3) @@ (b3 :> 4) @@ (a1 :> 5) @@ (a2 :> 6) @@
          (c2 :> 7)
MCAddr == [b \in Block |-> AddrOf[b]]
=============================================================================

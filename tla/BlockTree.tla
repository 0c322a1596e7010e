------------------------------ MODULE BlockTree ------------------------------
(***************************************************************************)
(* The block index as other modules see it: any tree of blocks, linked by  *)
(* pprev, with the heights that go up by one from parent to child.         *)
(***************************************************************************)
EXTENDS Integers

CONSTANTS
    Block,
    None,           \* nullptr
    Parent,         \* pprev, None of the genesis block
    Height,         \* nHeight
    Anc             \* a block's ancestors and itself

ASSUME TreeAssumption ==
    /\ None \notin Block
    /\ Parent \in [Block -> Block \cup {None}]
    /\ Height \in [Block -> Nat]
    /\ \A b \in Block : Height[b] = IF Parent[b] = None THEN 0 ELSE Height[Parent[b]] + 1
    /\ Anc \in [Block -> SUBSET Block]
    /\ \A b \in Block : Anc[b] = {b} \cup IF Parent[b] = None THEN {} ELSE Anc[Parent[b]]

\* An empty chain has no tip, and CChain::Height is -1.
AncOf(b) == IF b = None THEN {} ELSE Anc[b]
HeightOf(b) == IF b = None THEN -1 ELSE Height[b]

\* FindFork, and FindForkInGlobalIndex of a locator that starts at a.
ForkOf(a, b) ==
    LET common == AncOf(a) \cap AncOf(b)
    IN  IF common = {} THEN None ELSE CHOOSE c \in common : common \subseteq Anc[c]

\* GetAncestor.
AncestorAt(b, h) == CHOOSE c \in Anc[b] : Height[c] = h

\* The blocks that lead from the fork with a to b, lowest first.
PathTo(a, b) ==
    LET fork == HeightOf(ForkOf(a, b))
    IN  [i \in 1 .. (HeightOf(b) - fork) |-> AncestorAt(b, fork + i)]
==============================================================================

---------------------------- MODULE MCAnchorCache ----------------------------
(***************************************************************************)
(* A trunk, a branch that leaves it before the activation of V14 and one   *)
(* that leaves it after.                                                   *)
(***************************************************************************)
EXTENDS AnchorCache

CONSTANTS LastOld, Top    \* the last height before V14, the highest one

EarlyFork == LastOld - 1
LateFork == LastOld + 1

MCBlock ==
    ({"trunk"} \X (0..(Top - 1))) \cup ({"early"} \X ((EarlyFork + 1)..(Top - 1)))
        \cup ({"late"} \X ((LateFork + 1)..Top))

MCHeight == [b \in MCBlock |-> b[2]]

\* The ancestor of a block at a height.
AtHeight(b, h) ==
    IF <<b[1], h>> \in MCBlock THEN <<b[1], h>> ELSE <<"trunk", h>>

MCParent == [b \in MCBlock |-> IF b[2] = 0 THEN None ELSE AtHeight(b, b[2] - 1)]
MCAnc == [b \in MCBlock |-> {AtHeight(b, h) : h \in 0..b[2]}]
MCSkip == [b \in MCBlock |-> IF b[2] = 0 THEN None ELSE AtHeight(b, GetSkipHeight(b[2]))]
MCV14 == {b \in MCBlock : b[2] > LastOld}
==============================================================================

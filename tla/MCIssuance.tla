------------------------------ MODULE MCIssuance ------------------------------
(* The block reward for TLC: amounts and targets scaled down so that the   *)
(* fourth powers fit, with the root on both sides of a cent.  The limits   *)
(* of the chain's blocks are a cent, the cap and something between, a      *)
(* coinstake's exceeds the basis-point denominator, and most are odd, so   *)
(* that the split leaves a remainder.  Claims lie on both sides of them.   *)
EXTENDS BlockReward

MCTargets == 1 .. 60 \union {40 * k : k \in 2 .. 50}
MCTargetOf == <<7, 2000, 60>>
MCPowLimit == <<5, 19, 10>>
MCMints == {-2, 2, 5003, 5004}
=============================================================================

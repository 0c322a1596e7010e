----------------------------- MODULE BlockReward -----------------------------
(***************************************************************************)
(* The subsidy search and the issuance rules together.  CheckBlock and     *)
(* CreateNewBlock each run GetProofOfWorkReward for the block they look at *)
(* before they compare its claim with the limit.  The search runs for any  *)
(* header the node is given; what its own chain does next waits for the    *)
(* search of the block that comes next on it.                              *)
(***************************************************************************)
EXTENDS Issuance, PowReward

CONSTANT TargetOf   \* height |-> the target nBits stands for in that block

ASSUME TargetOfAssumption ==
    MaxHeight >= 1 /\ TargetOf \in [1 .. MaxHeight -> Targets]

rewardVars == <<vars, searchVars>>

RewardInit == Init /\ SearchInit

(* The height of the next block; the last one again when the chain is full. *)
NextHeight(length) == Least(length, MaxHeight)

(* The search of the next block is over, and found the limit the rules     *)
(* apply at its height.                                                    *)
LimitKnown ==
    /\ ~Searching
    /\ target = TargetOf[NextHeight(Len(chain))]
    /\ Reward = PowLimit[NextHeight(Len(chain))]

(* GetProofOfWorkReward is called for a block with the target t.           *)
BeginSearch(t) == target' = t /\ lower' = CENT /\ upper' = MaxMint

(* The block of another branch is done with; the next block is looked at.  *)
LookAtNext ==
    /\ ~Searching
    /\ target # TargetOf[NextHeight(Len(chain))]
    /\ BeginSearch(TargetOf[NextHeight(Len(chain))])
    /\ UNCHANGED vars

(* The chain or the block being built changes.                             *)
ChainStep ==
    /\ LimitKnown
    /\ Next
    /\ IF chain' = chain THEN UNCHANGED searchVars
                         ELSE BeginSearch(TargetOf[NextHeight(Len(chain'))])

(* A turn of the loop of CreateCoinStake, which leaves the chain alone.     *)
TurnOfSigning ==
    /\ LimitKnown
    /\ \E needed \in Costs, outputs \in 0 .. MaxOutputs : SignCoinStake(needed, outputs)
    /\ UNCHANGED searchVars

RewardNext ==
    \/ Narrow /\ UNCHANGED vars
    \/ LookAtNext
    \/ ChainStep

RewardSpec ==
    /\ RewardInit /\ [][RewardNext]_rewardVars
    /\ WF_rewardVars(Narrow /\ UNCHANGED vars)
    /\ WF_rewardVars(TurnOfSigning)
=============================================================================

------------------------------- MODULE Issuance -------------------------------
(***************************************************************************)
(* What a block may create, and what the node's own miner and minter put   *)
(* in the blocks they build:                                               *)
(*                                                                         *)
(*   - SplitIssuanceBudget divides a block's reward limit between proof of *)
(*     work and proof of stake; a proof-of-work block may claim only the   *)
(*     first part of its limit, a coinstake only the second part of its;   *)
(*   - CheckBlock enforces the first, CheckTxInputs the second; of the     *)
(*     coinbase of a proof-of-stake block CheckBlock asks only that its    *)
(*     first output is empty, and compares the others with no limit;       *)
(*   - ConnectBlock records what was created and destroyed in the block    *)
(*     index (nMint, nMoneySupply), on which the next coinstake's limit    *)
(*     depends;                                                            *)
(*   - CreateNewBlock and CreateCoinStake compute the same limits on their *)
(*     own, the latter in a loop that signs, measures and pays for the     *)
(*     size of the coinstake until what it pays covers what it costs.      *)
(*                                                                         *)
(* The subsidy search itself is module PowReward; here the limit of a      *)
(* proof-of-work block is a function of its height, for nBits is a         *)
(* function of the parent.  All protocol switch times precede genesis.     *)
(***************************************************************************)
EXTENDS Integers, Sequences

CONSTANTS
    nIssuanceEpochLength,            \* > 0 turns the split on
    nIssuancePoWSplitBasisPoints,
    fIssuanceCarryRemainder,
    PowLimit,       \* height |-> GetProofOfWorkReward for that block
    RewardCoinYear, \* nRewardCoinYear
    YearNum,        \* 33: the days of a year are YearDen / YearNum
    YearDen,        \* 365 * 33 + 8
    InflationNum,   \* 25 * 33
    InflationDen,   \* 10000 * 144
    CoinAges,       \* the coin ages a coinstake may destroy
    Costs,          \* what a transaction's size costs above the free part
    Mints,          \* the amounts other nodes' blocks claim
    Outputs,        \* what the coinbase of a proof-of-stake block may hold
    Fees,           \* the fees the transactions of a block destroy
    MaxOutputs,     \* maxOutputs at the start of CreateCoinStake
    MaxHeight       \* bound on the length of the chain

ASSUME ParamsAssumption ==
    /\ nIssuanceEpochLength \in Int
    /\ nIssuancePoWSplitBasisPoints \in Int
    /\ fIssuanceCarryRemainder \in BOOLEAN

ASSUME LimitAssumption ==
    /\ MaxHeight \in Nat
    /\ PowLimit \in [1 .. MaxHeight -> Nat]
    /\ {RewardCoinYear, YearNum, InflationNum} \subseteq Nat
    /\ {YearDen, InflationDen} \subseteq Nat \ {0}

ASSUME InputAssumption ==
    /\ CoinAges \subseteq Nat
    /\ Costs \subseteq Nat
    /\ Mints \subseteq Int
    /\ Outputs \subseteq Nat
    /\ Fees \subseteq Nat
    /\ MaxOutputs \in Nat \ {0}

VARIABLES
    chain,          \* the block index from the genesis block to the tip
    build           \* the block being built, or NoBuild

vars == <<chain, build>>

NoBuild == [stage |-> "none"]

-----------------------------------------------------------------------------
(* The split.                                                              *)

BASIS_POINTS_DENOMINATOR == 10000

IsIssuanceSplitEnabled == nIssuanceEpochLength > 0

NormalizeSplitBasisPoints ==
    IF nIssuancePoWSplitBasisPoints < 0 THEN 0
    ELSE IF nIssuancePoWSplitBasisPoints > BASIS_POINTS_DENOMINATOR
         THEN BASIS_POINTS_DENOMINATOR
         ELSE nIssuancePoWSplitBasisPoints

(* Mutant: the remainder is not scaled.                                    *)
ScaleWholeOnly(amount, bps) == (amount \div BASIS_POINTS_DENOMINATOR) * bps

(* amount * bps / 10000 without the product, which might not fit.          *)
ScaleByBasisPoints(amount, bps) ==
    LET whole == amount \div BASIS_POINTS_DENOMINATOR
        remainder == amount % BASIS_POINTS_DENOMINATOR
    IN  whole * bps + (remainder * bps) \div BASIS_POINTS_DENOMINATOR

SplitIssuanceBudget(total_budget) ==
    LET pow_bps == NormalizeSplitBasisPoints
        pow_floor == ScaleByBasisPoints(total_budget, pow_bps)
        pos_floor == ScaleByBasisPoints(total_budget,
                                        BASIS_POINTS_DENOMINATOR - pow_bps)
        left == total_budget - (pow_floor + pos_floor)
    IN  [pow_budget |-> pow_floor,
         pos_budget |-> IF fIssuanceCarryRemainder THEN pos_floor + left
                                                   ELSE pos_floor,
         rounding_remainder |-> left]

GetProofOfStakeReward(nCoinAge, nMoneySupply) ==
    3 * (((nCoinAge * YearNum) \div YearDen) * RewardCoinYear)
        + ((nMoneySupply * InflationNum) \div InflationDen) \div YearDen

(* What a proof-of-work block of a height, and a coinstake on a parent     *)
(* with the given money supply, may claim before its size is paid for.     *)
SpendablePow(height) ==
    IF IsIssuanceSplitEnabled
    THEN SplitIssuanceBudget(PowLimit[height]).pow_budget
    ELSE PowLimit[height]

SpendablePos(nCoinAge, supply) ==
    LET limit == GetProofOfStakeReward(nCoinAge, supply)
    IN  IF IsIssuanceSplitEnabled THEN SplitIssuanceBudget(limit).pos_budget
                                  ELSE limit

-----------------------------------------------------------------------------
(* The rules: the coinbase check of CheckBlock, and the coinstake check of *)
(* CheckTxInputs, which is skipped while the parent's money supply is 0.   *)

CoinbaseAllowed(value, height, cost) ==
    /\ cost <= SpendablePow(height)
    /\ value <= SpendablePow(height) - cost

CoinstakeAllowed(reward, nCoinAge, supply, cost) ==
    supply # 0 =>
        /\ cost <= SpendablePos(nCoinAge, supply)
        /\ reward <= SpendablePos(nCoinAge, supply) - cost

Tip == chain[Len(chain)]

Height == Len(chain) - 1

(* A coinstake needs a kernel that is worth something: the target its hash *)
(* must meet is the value of the coin times a weight.  Where the money     *)
(* supply is 0 no coin is worth anything.                                  *)
KernelExists == Tip.nMoneySupply > 0

Genesis == [pos |-> FALSE, age |-> 0, reward |-> 0, nMint |-> 0,
            nMoneySupply |-> 0]

Init ==
    /\ chain = <<Genesis>>      \* ConnectBlock skips the genesis coinbase
    /\ build = NoBuild

(* ConnectBlock: with V the outputs less the inputs of the whole block,    *)
(* nMint is V plus the fees and the money supply grows by V: what the      *)
(* coinbase holds and what the coinstake earns is created, the fees are    *)
(* destroyed.  reward is the part of it that is compared with a limit: the *)
(* coinbase of a proof-of-work block, the coinstake of the other kind.     *)
ConnectBlock(pos, age, coinbase, coinstake, fee) ==
    chain' = Append(chain,
                    [pos |-> pos, age |-> age,
                     reward |-> IF pos THEN coinstake ELSE coinbase,
                     nMint |-> coinbase + coinstake,
                     nMoneySupply |-> Tip.nMoneySupply + coinbase + coinstake - fee])

-----------------------------------------------------------------------------
(* A block of another node extends the active chain.  Its transactions'    *)
(* fees, and the input of a coinstake that pays more than it earns, come   *)
(* out of coins that exist.  cs_main is held while a coinstake is being    *)
(* put together.                                                           *)

ReceivePowBlock(value, cost, fee) ==
    /\ build.stage # "signing"
    /\ Height < MaxHeight
    /\ value >= 0
    /\ fee <= Tip.nMoneySupply
    /\ CoinbaseAllowed(value, Height + 1, cost)
    /\ ConnectBlock(FALSE, 0, value, 0, fee)
    /\ UNCHANGED build

(* The first output of the coinbase is empty; coinbase is what the others  *)
(* hold together, which no rule compares with a limit.                     *)
ReceivePosBlock(coinbase, reward, age, cost, fee) ==
    /\ build.stage # "signing"
    /\ Height < MaxHeight
    /\ KernelExists
    /\ fee - reward <= Tip.nMoneySupply /\ fee <= Tip.nMoneySupply
    /\ CoinstakeAllowed(reward, age, Tip.nMoneySupply, cost)
    /\ ConnectBlock(TRUE, age, coinbase, reward, fee)
    /\ UNCHANGED build

(* A reorganisation takes the tip off.                                     *)
DisconnectTip ==
    /\ Height > 0
    /\ build.stage # "signing"
    /\ chain' = SubSeq(chain, 1, Len(chain) - 1)
    /\ UNCHANGED build

-----------------------------------------------------------------------------
(* The node's own blocks.                                                  *)

(* CreateNewBlock without a wallet: the coinbase claims the whole          *)
(* proof-of-work part.  Its size is below the free part.                   *)
CreateNewBlock ==
    /\ build.stage = "none"
    /\ Height < MaxHeight
    /\ build' = [stage |-> "ready", pos |-> FALSE, height |-> Height + 1,
                 supply |-> Tip.nMoneySupply, age |-> 0,
                 value |-> SpendablePow(Height + 1), cost |-> 0]
    /\ UNCHANGED chain

(* CreateCoinStake up to the loop: no coinstake without a reward.          *)
CreateCoinStake(age) ==
    /\ build.stage = "none"
    /\ Height < MaxHeight
    /\ KernelExists
    /\ SpendablePos(age, Tip.nMoneySupply) > 0
    /\ build' = [stage |-> "signing", height |-> Height + 1,
                 supply |-> Tip.nMoneySupply, age |-> age,
                 reward |-> SpendablePos(age, Tip.nMoneySupply),
                 minFee |-> 0, outputs |-> MaxOutputs]
    /\ UNCHANGED chain

(* Mutant: the fee is not taken off the outputs.                           *)
CoinStakeDoneEarly(needed) ==
    build' = [stage |-> "ready", pos |-> TRUE, height |-> build.height,
              supply |-> build.supply, age |-> build.age,
              value |-> build.reward, cost |-> needed]

(* The loop ends: the outputs hold the reward less the fee paid.           *)
CoinStakeDone(needed) ==
    build' = [stage |-> "ready", pos |-> TRUE, height |-> build.height,
              supply |-> build.supply, age |-> build.age,
              value |-> build.reward - build.minFee, cost |-> needed]

(* Mutant: the loop has no end.                                            *)
RetryAlways(needed, outputs) == TRUE

(* Another turn: the fee paid does not cover the size, or the outputs did  *)
(* not fit and their number was lowered.                                   *)
Retry(needed, outputs) == build.minFee < needed \/ outputs < build.outputs

(* One turn of the loop: split into outputs, sign, measure.  The size, and *)
(* with it the fee needed, differs from turn to turn with the amounts and  *)
(* the signatures.  The outputs either fit or are cut to fewer; when not   *)
(* even the first fits no coinstake is made.                               *)
SignCoinStake(needed, outputs) ==
    /\ build.stage = "signing"
    /\ outputs \in 0 .. build.outputs
    /\ \/ outputs = 0 /\ build' = NoBuild
       \/ /\ outputs > 0
          /\ Retry(needed, outputs)
          /\ build' = [build EXCEPT !.minFee = needed, !.outputs = outputs]
       \/ /\ outputs > 0
          /\ ~Retry(needed, outputs)
          /\ CoinStakeDone(needed)
    /\ UNCHANGED chain

(* The rules, applied to the block that was built, on its own parent.      *)
BuildAllowed ==
    IF build.pos
    THEN CoinstakeAllowed(build.value, build.age, build.supply, build.cost)
    ELSE CoinbaseAllowed(build.value, build.height, build.cost)

(* The built block joins the chain; the coinbase beside a coinstake is     *)
(* empty.                                                                  *)
ConnectBuild(fee) ==
    IF build.pos THEN ConnectBlock(TRUE, build.age, 0, build.value, fee)
                 ELSE ConnectBlock(FALSE, 0, build.value, 0, fee)

(* Mutant: the parent the block was built on need not be the tip.          *)
SubmitBlockStale(fee) ==
    /\ build.stage = "ready"
    /\ fee <= Tip.nMoneySupply
    /\ IF BuildAllowed /\ Height < MaxHeight
                       /\ fee - build.value <= Tip.nMoneySupply
       THEN ConnectBuild(fee)
       ELSE UNCHANGED chain
    /\ build' = NoBuild

(* The block is handed to ProcessNewBlock, and extends the chain if it is  *)
(* allowed and its parent is still the tip.                                *)
SubmitBlock(fee) ==
    /\ build.stage = "ready"
    /\ fee <= Tip.nMoneySupply
    /\ IF BuildAllowed /\ build.height = Height + 1
                       /\ build.supply = Tip.nMoneySupply
                       /\ fee - build.value <= Tip.nMoneySupply
       THEN ConnectBuild(fee)
       ELSE UNCHANGED chain
    /\ build' = NoBuild

Next ==
    \/ \E value \in Mints, cost \in Costs, fee \in Fees :
          ReceivePowBlock(value, cost, fee)
    \/ \E coinbase \in Outputs, reward \in Mints, age \in CoinAges,
          cost \in Costs, fee \in Fees :
          ReceivePosBlock(coinbase, reward, age, cost, fee)
    \/ DisconnectTip
    \/ CreateNewBlock
    \/ \E age \in CoinAges : CreateCoinStake(age)
    \/ \E needed \in Costs, outputs \in 0 .. MaxOutputs :
          SignCoinStake(needed, outputs)
    \/ \E fee \in Fees : SubmitBlock(fee)

Spec ==
    /\ Init /\ [][Next]_vars
    /\ WF_vars(\E needed \in Costs, outputs \in 0 .. MaxOutputs :
                   SignCoinStake(needed, outputs))

-----------------------------------------------------------------------------
(* The limits that matter in the present state.                            *)
Limits ==
    {PowLimit[h] : h \in 1 .. MaxHeight} \union
    {GetProofOfStakeReward(age, Tip.nMoneySupply) : age \in CoinAges}

(* SplitIssuanceBudget gives proof of work its share rounded down, as the  *)
(* exact product would; loses at most one unit to rounding; and accounts   *)
(* for every unit: with the remainder carried the two parts are the whole  *)
(* limit, without it they fall short by exactly the remainder.             *)
SplitExact ==
    \A total \in Limits :
        LET split == SplitIssuanceBudget(total)
        IN  /\ split.pow_budget = (total * NormalizeSplitBasisPoints)
                                      \div BASIS_POINTS_DENOMINATOR
            /\ split.rounding_remainder \in {0, 1}
            /\ split.pos_budget \in 0 .. total
            /\ split.pow_budget + split.pos_budget =
                   IF fIssuanceCarryRemainder
                   THEN total ELSE total - split.rounding_remainder

(* What the rules compare with a limit stays within its own part, on every *)
(* branch and after any reorganisation: the coinbase of a proof-of-work    *)
(* block within the part of its height, a coinstake within the part that   *)
(* follows from the money supply of its own parent, for the check          *)
(* CheckTxInputs skips at a money supply of 0 is never skipped for a       *)
(* coinstake with a kernel.  The coinbase beside a coinstake comes on top: *)
(* nMint of such a block is not bounded.                                   *)
ClaimsWithinBudget ==
    \A i \in 2 .. Len(chain) :
        IF chain[i].pos
        THEN chain[i].reward <= SpendablePos(chain[i].age, chain[i - 1].nMoneySupply)
        ELSE chain[i].nMint <= SpendablePow(i - 1)

(* A block the node builds passes the rules on the parent it was built on, *)
(* however often the coinstake was signed anew and whatever became of the  *)
(* chain since: unless the size of the coinstake costs more than all it    *)
(* may earn, when CreateCoinStake builds a block no rule allows.           *)
OwnBlockAllowed ==
    build.stage = "ready" =>
        \/ BuildAllowed
        \/ build.pos /\ build.cost > SpendablePos(build.age, build.supply)

(* CreateCoinStake comes to an end: each turn either lowers the number of  *)
(* outputs or raises the fee.                                              *)
CoinStakeEnds == (build.stage = "signing") ~> (build.stage # "signing")
=============================================================================

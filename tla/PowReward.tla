------------------------------ MODULE PowReward ------------------------------
(***************************************************************************)
(* The proof-of-work subsidy, GetProofOfWorkReward of validation.cpp: a    *)
(* bisection for the amount m with                                         *)
(*                                                                         *)
(*      (MaxMint / m)^4  =  TargetLimit / target                           *)
(*                                                                         *)
(* so that the subsidy halves when the difficulty grows sixteenfold.  One  *)
(* step is one turn of the while loop.  The code works on CBigNum, which   *)
(* has no width, so the integers here are unbounded.  Every protocol       *)
(* switch time lies before the network's genesis, so the cap is the V10    *)
(* one.  A block reaches the computation only with a target its header     *)
(* check allows: positive and at most the limit.                           *)
(***************************************************************************)
EXTENDS Integers

CONSTANTS
    CENT,           \* the granularity of the subsidy (amount.h)
    MaxMint,        \* MAX_MINT_PROOF_OF_WORK, the subsidy at TargetLimit
    MaxMintV10,     \* MAX_MINT_PROOF_OF_WORK_V10, the cap since V10
    TargetLimit,    \* powLimit rounded through its compact form
    Targets         \* the targets considered

ASSUME AmountAssumption ==
    /\ CENT \in Nat /\ CENT >= 2
    /\ MaxMint \in Nat /\ MaxMint >= CENT
    /\ MaxMintV10 \in Nat /\ MaxMintV10 >= CENT

ASSUME TargetAssumption ==
    /\ TargetLimit \in Nat \ {0}
    /\ Targets \subseteq 1 .. TargetLimit

VARIABLES
    target,         \* bnTarget
    lower,          \* bnLowerBound
    upper           \* bnUpperBound

searchVars == <<target, lower, upper>>

Fourth(m) == m * m * m * m

(* The amount m is more than the difficulty allows.                        *)
TooMuch(m) == Fourth(m) * TargetLimit > Fourth(MaxMint) * target

-----------------------------------------------------------------------------
SearchInit ==
    /\ target \in Targets
    /\ lower = CENT
    /\ upper = MaxMint

(* Mutant: the search goes on below a cent.                                *)
SearchingFine == lower + 1 <= upper

(* The condition of the loop.                                              *)
Searching == lower + CENT <= upper

Mid == (lower + upper) \div 2

(* One turn of the loop keeps the half in which the root lies.             *)
Test(m) == IF TooMuch(m) THEN upper' = m /\ lower' = lower
                         ELSE lower' = m /\ upper' = upper

Narrow ==
    /\ Searching
    /\ Test(Mid)
    /\ UNCHANGED target

Least(a, b) == IF a <= b THEN a ELSE b

(* Mutant: the lower bound is returned.                                    *)
RewardOfLower == Least((lower \div CENT) * CENT, MaxMintV10)

(* The value returned: the upper bound, to the cent below, and capped.     *)
Reward == Least((upper \div CENT) * CENT, MaxMintV10)

SearchSpec == SearchInit /\ [][Narrow]_searchVars /\ WF_searchVars(Narrow)

-----------------------------------------------------------------------------
(* The two bounds enclose the root at every turn: nothing that was ruled   *)
(* out is kept and nothing that is still possible is lost.  The ends of    *)
(* the range are never tested themselves, hence the disjunctions.          *)
Bracket ==
    /\ target \in Targets
    /\ lower \in CENT .. upper
    /\ upper \in CENT .. MaxMint
    /\ lower = CENT \/ ~TooMuch(lower)
    /\ upper = MaxMint \/ TooMuch(upper)

(* The greatest amount of the range the difficulty allows (a cent when it  *)
(* allows none): the definition the search is compared with.               *)
Root ==
    LET allowed == {CENT} \union {m \in CENT .. MaxMint : ~TooMuch(m)}
    IN  CHOOSE m \in allowed : \A n \in allowed : n <= m

(* The subsidy is a whole number of cents, at least one and at most the    *)
(* cap, less than a cent below the root and at most a cent above it.       *)
RewardIsRoot ==
    ~Searching =>
        /\ Reward % CENT = 0 \/ Reward = MaxMintV10
        /\ Reward \in CENT .. MaxMintV10
        /\ Reward > Least(Root, MaxMintV10) - CENT
        /\ Reward <= Root + CENT

(* Every turn of the loop makes the range strictly smaller: the bisection  *)
(* has no turn that tests the lower bound itself, which would never end.   *)
RangeShrinks == [][upper' - lower' < upper - lower]_searchVars

(* GetProofOfWorkReward returns.                                           *)
Returns == Searching ~> ~Searching
=============================================================================

--------------------------- MODULE BlockRewardProofs ---------------------------
(***************************************************************************)
(* The subsidy search and the issuance rules, apart and together.  The     *)
(* bisection keeps the root enclosed, makes progress at every turn and     *)
(* returns the root to the cent.  The split is exact, what is compared     *)
(* with a limit stays within its part, and the node's own blocks are       *)
(* allowed: for all limits, basis points, coin ages, costs, targets and    *)
(* chain lengths.                                                          *)
(***************************************************************************)
EXTENDS BlockReward, WellFoundedInduction, TLAPS

(* The least-number principle: a set that holds any natural number holds a  *)
(* least one.                                                               *)
LEMMA LeastNatural ==
    ASSUME NEW S \in SUBSET Nat, S # {}
    PROVE  \E m \in S : \A n \in S : m <= n
  <1>1. OpToRel(<, Nat) = {ss \in Nat \X Nat : ss[1] < ss[2]}
    BY Zenon DEF OpToRel
  <1>2. PICK m \in S : \A n \in S : <<n, m>> \notin OpToRel(<, Nat)
    BY Zenon, WFMin, NatLessThanWellFounded
  <1>3. ASSUME NEW n \in S PROVE m <= n
    <2>1. <<n, m>> \notin {ss \in Nat \X Nat : ss[1] < ss[2]}
      BY <1>1, <1>2, Zenon
    <2>2. <<n, m>> \in Nat \X Nat /\ <<n, m>>[1] = n /\ <<n, m>>[2] = m
      BY Zenon
    <2>3. ~(n < m)
      BY <2>1, <2>2, Zenon
    <2> QED
      BY <2>3
  <1> QED
    BY Zenon, <1>3

-----------------------------------------------------------------------------
(* The midpoint lies strictly inside the range while the loop runs: this   *)
(* is where the cent must be more than one unit.                           *)
LEMMA MidInside ==
    ASSUME Bracket, Searching
    PROVE  Mid \in Nat /\ lower < Mid /\ Mid < upper
  BY AmountAssumption DEF Bracket, Searching, Mid

(* The first range encloses the root.                                      *)
LEMMA InitBracket == SearchInit => Bracket
  BY AmountAssumption DEF SearchInit, Bracket

(* One turn keeps it enclosed: a midpoint that is too much becomes the     *)
(* upper bound, one that is allowed the lower.                             *)
LEMMA NarrowBracket == Bracket /\ [Narrow]_searchVars => Bracket'
  <1> SUFFICES ASSUME Bracket, [Narrow]_searchVars PROVE Bracket'
    BY Zenon
  <1>1. CASE Narrow
    <2>1. PICK m \in Nat : m = Mid /\ lower < m /\ m < upper
      BY Zenon, <1>1, MidInside DEF Narrow
    <2>2. /\ target' = target
          /\ \/ TooMuch(m) /\ upper' = m /\ lower' = lower
             \/ ~TooMuch(m) /\ lower' = m /\ upper' = upper
      BY Zenon, <1>1, <2>1 DEF Narrow, Test
    <2>3. target' \in Targets /\ lower' \in CENT .. upper'
             /\ upper' \in CENT .. MaxMint
      BY <2>1, <2>2, AmountAssumption DEF Bracket
    <2>4. lower' = CENT \/ ~(Fourth(lower') * TargetLimit
                                 > Fourth(MaxMint) * target')
      BY Zenon, <2>2 DEF Bracket, TooMuch
    <2>5. upper' = MaxMint \/ Fourth(upper') * TargetLimit
                                 > Fourth(MaxMint) * target'
      BY Zenon, <2>2 DEF Bracket, TooMuch
    <2> QED
      BY Zenon, <2>3, <2>4, <2>5 DEF Bracket, TooMuch, Fourth
  <1>2. CASE UNCHANGED searchVars
    BY Zenon, <1>2 DEF searchVars, Bracket, TooMuch, Fourth
  <1> QED
    BY Zenon, <1>1, <1>2

(* The bounds of the bisection enclose the root throughout.                *)
THEOREM AlwaysBracket == SearchSpec => []Bracket
  BY InitBracket, NarrowBracket, PTL DEF SearchSpec

(* A product grows with its factors.                                       *)
LEMMA ProductGrows ==
    ASSUME NEW a \in Nat, NEW b \in Nat, NEW c \in Nat, NEW d \in Nat, a <= b, c <= d
    PROVE  a * c \in Nat /\ b * d \in Nat /\ a * c <= b * d
  <1>1. PICK e \in Nat, f \in Nat : b = a + e /\ d = c + f
    <2>1. b - a \in Nat /\ d - c \in Nat /\ b = a + (b - a) /\ d = c + (d - c)
      OBVIOUS
    <2> QED
      BY Zenon, <2>1
  <1>2. PICK ac \in Nat, af \in Nat, ec \in Nat, ef \in Nat :
            ac = a * c /\ af = a * f /\ ec = e * c /\ ef = e * f
    OBVIOUS
  <1>3. b * d = ac + af + ec + ef
    BY <1>1, <1>2
  <1> QED
    BY <1>2, <1>3

(* What is above an amount that is too much is too much.                   *)
LEMMA TooMuchAbove ==
    ASSUME target \in Targets, NEW m \in Nat, NEW n \in Nat, m <= n, TooMuch(m)
    PROVE  TooMuch(n)
  <1>1. PICK mm \in Nat, nn \in Nat : mm = m * m /\ nn = n * n /\ mm <= nn
    BY Zenon, ProductGrows
  <1>2. PICK m4 \in Nat, n4 \in Nat : m4 = mm * mm /\ n4 = nn * nn /\ m4 <= n4
    BY <1>1, ProductGrows
  <1>3. m4 = Fourth(m) /\ n4 = Fourth(n)
    BY <1>1, <1>2 DEF Fourth
  <1>4. PICK p \in Nat, q \in Nat : p = m4 * TargetLimit /\ q = n4 * TargetLimit /\ p <= q
    BY <1>2, ProductGrows, TargetAssumption
  <1>5. PICK t \in Nat : t = Fourth(MaxMint) * target
    <2>1. target \in Nat
      BY TargetAssumption
    <2>2. PICK M \in Nat : M = MaxMint * MaxMint
      BY AmountAssumption
    <2>3. PICK M4 \in Nat : M4 = M * M
      OBVIOUS
    <2>4. M4 = Fourth(MaxMint)
      BY <2>2, <2>3, AmountAssumption DEF Fourth
    <2>5. M4 * target \in Nat
      BY <2>1
    <2> QED
      BY Zenon, <2>4, <2>5
  <1>6. p > t
    BY Zenon, <1>3, <1>4, <1>5 DEF TooMuch
  <1>7. q > t
    BY <1>4, <1>5, <1>6
  <1> QED
    BY Zenon, <1>3, <1>4, <1>5, <1>7 DEF TooMuch

(* The root exists: a bounded set of amounts has a greatest one.           *)
LEMMA RootIsGreatest ==
    /\ Root \in CENT .. MaxMint
    /\ Root = CENT \/ ~TooMuch(Root)
    /\ \A m \in CENT .. MaxMint : ~TooMuch(m) => m <= Root
  <1> DEFINE allowed == {CENT} \union {m \in CENT .. MaxMint : ~TooMuch(m)}
             Gaps == {MaxMint - m : m \in allowed}
  <1>1. allowed \subseteq CENT .. MaxMint /\ CENT \in allowed
    BY AmountAssumption
  <1>2. Gaps \in SUBSET Nat /\ Gaps # {}
    BY <1>1, AmountAssumption
  <1>3. PICK k \in Gaps : \A j \in Gaps : k <= j
    <2> HIDE DEF Gaps
    <2> QED
      BY Zenon, <1>2, LeastNatural
  <1>4. PICK m \in allowed : k = MaxMint - m
    BY Zenon, <1>3
  <1>5. ASSUME NEW n \in allowed PROVE n <= m
    <2>1. MaxMint - m <= MaxMint - n
      BY Zenon, <1>3, <1>4
    <2> QED
      BY <1>1, <2>1, AmountAssumption
  <1>6. Root = CHOOSE x \in allowed : \A n \in allowed : n <= x
    BY Zenon DEF Root
  <1> HIDE DEF allowed
  <1>7. Root \in allowed /\ \A n \in allowed : n <= Root
    BY Zenon, <1>5, <1>6
  <1> QED
    BY Zenon, <1>1, <1>7 DEF allowed

(* The upper bound to the cent below.                                      *)
LEMMA WholeCents ==
    ASSUME NEW x \in Nat, NEW c \in Nat \ {0}
    PROVE  LET w == (x \div c) * c
           IN  /\ w \in Nat /\ w % c = 0 /\ x - c < w /\ w <= x
               /\ c <= x => c <= w
  <1>1. PICK q \in Nat, r \in Nat : q = x \div c /\ r < c /\ x = c * q + r
    OBVIOUS
  <1>2. PICK w \in Nat : w = q * c /\ w = c * q
    OBVIOUS
  <1>3. x - c < w /\ w <= x
    BY <1>1, <1>2
  <1>4. c <= x => c <= w
    <2> SUFFICES ASSUME c <= x PROVE c <= w
      BY Zenon
    <2>1. q # 0
      BY <1>1
    <2> QED
      BY <1>2, <2>1, ProductGrows
  <1>5. w % c = 0
    BY <1>2
  <1> QED
    BY Zenon, <1>1, <1>2, <1>3, <1>4, <1>5

(* When the loop ends the bounds are less than a cent apart, with the root *)
(* between them.                                                           *)
LEMMA BracketGivesRoot == Bracket => RewardIsRoot
  <1> SUFFICES ASSUME Bracket, ~Searching
               PROVE  /\ Reward % CENT = 0 \/ Reward = MaxMintV10
                      /\ Reward \in CENT .. MaxMintV10
                      /\ Reward > Least(Root, MaxMintV10) - CENT
                      /\ Reward <= Root + CENT
    BY Zenon DEF RewardIsRoot
  <1>1. /\ CENT \in Nat \ {0} /\ MaxMint \in Nat /\ MaxMintV10 \in Nat /\ MaxMintV10 >= CENT
        /\ lower \in Nat /\ upper \in Nat /\ CENT <= lower /\ lower <= upper
        /\ upper <= MaxMint /\ upper < lower + CENT
    BY AmountAssumption DEF Bracket, Searching
  <1>2. Root \in Nat /\ lower <= Root
    BY <1>1, RootIsGreatest DEF Bracket
  <1>3. Root <= upper
    <2> SUFFICES ASSUME ~(Root <= upper) PROVE FALSE
      BY Zenon
    <2>1. upper # MaxMint /\ upper <= Root /\ Root # CENT
      BY <1>1, <1>2, RootIsGreatest
    <2>2. TooMuch(Root)
      BY Zenon, <1>1, <1>2, <2>1, TooMuchAbove DEF Bracket
    <2> QED
      BY Zenon, <2>1, <2>2, RootIsGreatest
  <1>4. PICK w \in Nat : /\ w = (upper \div CENT) * CENT
                         /\ w % CENT = 0 /\ upper - CENT < w /\ w <= upper /\ CENT <= w
    <2>1. CENT <= upper
      BY <1>1
    <2> QED
      BY Zenon, <1>1, <2>1, WholeCents
  <1>5. Reward = IF w <= MaxMintV10 THEN w ELSE MaxMintV10
    BY Zenon, <1>4 DEF Reward, Least
  <1> QED
    BY <1>1, <1>2, <1>3, <1>4, <1>5 DEF Least

(* GetProofOfWorkReward returns the root of its equation, to the cent and  *)
(* within the cap, for every target.                                       *)
THEOREM RewardAlwaysRoot == SearchSpec => []RewardIsRoot
  BY AlwaysBracket, BracketGivesRoot, PTL

(* Every turn of the loop of GetProofOfWorkReward shrinks its range, so no *)
(* input makes it run for ever.                                            *)
THEOREM RangeAlwaysShrinks == SearchSpec => RangeShrinks
  <1>1. Bracket /\ [Narrow]_searchVars => [upper' - lower' < upper - lower]_searchVars
    <2> SUFFICES ASSUME Bracket, Narrow
                 PROVE  upper' - lower' < upper - lower
      BY Zenon
    <2>1. PICK m \in Nat : m = Mid /\ lower < m /\ m < upper
      BY Zenon, MidInside DEF Narrow
    <2>2. \/ upper' = m /\ lower' = lower
          \/ lower' = m /\ upper' = upper
      BY Zenon, <2>1 DEF Narrow, Test
    <2> QED
      BY <2>1, <2>2, AmountAssumption DEF Bracket
  <1> QED
    BY <1>1, AlwaysBracket, PTL DEF SearchSpec, RangeShrinks

-----------------------------------------------------------------------------
(* A product of naturals is a natural.                                     *)
LEMMA ProductNat ==
    ASSUME NEW a \in Nat, NEW b \in Nat
    PROVE  a * b \in Nat
  OBVIOUS

(* Division by the denominator, with the remainder.                        *)
LEMMA FloorExists ==
    ASSUME NEW x \in Nat
    PROVE  \E k, s \in Nat :
              /\ s < 10000 /\ x = 10000 * k + s
              /\ x \div 10000 = k /\ x % 10000 = s
  <1>1. /\ x \div 10000 \in Nat
        /\ x % 10000 \in Nat /\ x % 10000 < 10000
        /\ x = 10000 * (x \div 10000) + (x % 10000)
    OBVIOUS
  <1> QED
    BY <1>1

(* The quotient is determined by the division equation.                    *)
LEMMA FloorUnique ==
    ASSUME NEW x \in Nat, NEW k \in Nat, NEW s \in Nat, s < 10000,
           x = 10000 * k + s
    PROVE  x \div 10000 = k
  OBVIOUS

(* scale_by_basis_points computes the floor of the exact product, though   *)
(* it never forms the product.                                             *)
LEMMA ScaleIsFloor ==
    ASSUME NEW amount \in Nat, NEW bps \in Nat
    PROVE  /\ ScaleByBasisPoints(amount, bps) = (amount * bps) \div 10000
           /\ ScaleByBasisPoints(amount, bps) \in Nat
  <1>1. PICK q, r \in Nat :
            /\ r < 10000 /\ amount = 10000 * q + r
            /\ amount \div 10000 = q /\ amount % 10000 = r
    BY FloorExists
  <1>2. PICK x \in Nat : x = r * bps
    BY Zenon, ProductNat
  <1>3. PICK y \in Nat : y = q * bps
    BY ProductNat
  <1>4. PICK k, s \in Nat :
            /\ s < 10000 /\ x = 10000 * k + s
            /\ x \div 10000 = k /\ x % 10000 = s
    BY FloorExists
  <1>5. PICK z \in Nat : z = amount * bps
    BY ProductNat
  <1>6. z = 10000 * y + x
    BY <1>1, <1>2, <1>3, <1>5
  <1>7. PICK n \in Nat : n = y + k
    OBVIOUS
  <1>8. z = 10000 * n + s
    BY <1>4, <1>6, <1>7
  <1>9. z \div 10000 = n
    BY <1>4, <1>8, FloorUnique
  <1>10. ScaleByBasisPoints(amount, bps) = n
    BY <1>1, <1>2, <1>3, <1>4, <1>7
    DEF ScaleByBasisPoints, BASIS_POINTS_DENOMINATOR
  <1> QED
    BY <1>5, <1>9, <1>10

(* The basis points are clamped to the denominator.                        *)
LEMMA BasisPointsType ==
    NormalizeSplitBasisPoints \in Nat /\ NormalizeSplitBasisPoints <= 10000
  BY ParamsAssumption
  DEF NormalizeSplitBasisPoints, BASIS_POINTS_DENOMINATOR

(* The two floors fall short of the whole by at most one unit, for the two *)
(* remainders add up to a multiple of the denominator below twice it.      *)
LEMMA TwoFloors ==
    ASSUME NEW total \in Nat, NEW b \in Nat, NEW c \in Nat, b + c = 10000,
           NEW p \in Nat, p = (total * b) \div 10000,
           NEW o \in Nat, o = (total * c) \div 10000
    PROVE  p + o = total \/ p + o = total - 1
  <1>1. PICK x \in Nat : x = total * b
    BY ProductNat
  <1>2. PICK y \in Nat : y = total * c
    BY ProductNat
  <1>3. x + y = 10000 * total
    <2>1. x + y = total * (b + c)
      BY <1>1, <1>2
    <2> QED
      BY <2>1
  <1>4. PICK k, s \in Nat : s < 10000 /\ x = 10000 * k + s
                                 /\ x \div 10000 = k /\ x % 10000 = s
    BY FloorExists
  <1>5. PICK l, t \in Nat : t < 10000 /\ y = 10000 * l + t
                                 /\ y \div 10000 = l /\ y % 10000 = t
    BY FloorExists
  <1>6. p = k /\ o = l
    BY <1>1, <1>2, <1>4, <1>5
  <1> QED
    BY <1>3, <1>4, <1>5, <1>6

(* SplitExact for one limit.                                               *)
SplitOK(total) ==
    LET split == SplitIssuanceBudget(total)
    IN  /\ split.pow_budget = (total * NormalizeSplitBasisPoints)
                                  \div BASIS_POINTS_DENOMINATOR
        /\ split.rounding_remainder \in {0, 1}
        /\ split.pos_budget \in 0 .. total
        /\ split.pow_budget + split.pos_budget =
               IF fIssuanceCarryRemainder
               THEN total ELSE total - split.rounding_remainder

(* Every limit is split exactly.                                           *)
LEMMA SplitOfLimit ==
    ASSUME NEW total \in Nat
    PROVE  /\ SplitOK(total)
           /\ SplitIssuanceBudget(total).pow_budget \in Nat
           /\ SplitIssuanceBudget(total).pos_budget \in Nat
  <1>1. PICK b \in Nat : b = NormalizeSplitBasisPoints /\ b <= 10000
    BY BasisPointsType
  <1>2. PICK c \in Nat : c = 10000 - b /\ b + c = 10000
    BY <1>1
  <1>3. PICK p \in Nat : p = ScaleByBasisPoints(total, b)
                            /\ p = (total * b) \div 10000
    BY ScaleIsFloor
  <1>4. PICK o \in Nat : o = ScaleByBasisPoints(total, c)
                            /\ o = (total * c) \div 10000
    BY ScaleIsFloor
  <1>5. p + o = total \/ p + o = total - 1
    BY <1>2, <1>3, <1>4, TwoFloors
  <1>6. PICK left \in {0, 1} : left = total - (p + o)
    BY <1>5
  <1>7. SplitIssuanceBudget(total) =
            [pow_budget |-> p,
             pos_budget |-> IF fIssuanceCarryRemainder THEN o + left ELSE o,
             rounding_remainder |-> left]
    BY <1>1, <1>2, <1>3, <1>4, <1>6
    DEF SplitIssuanceBudget, BASIS_POINTS_DENOMINATOR
  <1>8. PICK e \in Nat : e = (IF fIssuanceCarryRemainder THEN o + left ELSE o)
                            /\ e <= total
                            /\ p + e = IF fIssuanceCarryRemainder
                                       THEN total ELSE total - left
    BY <1>6, ParamsAssumption
  <1> QED
    BY <1>1, <1>3, <1>6, <1>7, <1>8 DEF SplitOK, BASIS_POINTS_DENOMINATOR

-----------------------------------------------------------------------------
(* A quotient of naturals is a natural.                                    *)
LEMMA QuotientNat ==
    ASSUME NEW a \in Nat, NEW b \in Nat \ {0}
    PROVE  a \div b \in Nat
  OBVIOUS

(* The stake reward limit is a natural number.                             *)
LEMMA PosLimitType ==
    ASSUME NEW age \in Nat, NEW supply \in Nat
    PROVE  GetProofOfStakeReward(age, supply) \in Nat
  <1>1. /\ YearNum \in Nat /\ YearDen \in Nat \ {0}
        /\ InflationNum \in Nat /\ InflationDen \in Nat \ {0}
        /\ RewardCoinYear \in Nat
    BY Zenon, LimitAssumption
  <1>2. PICK x \in Nat : x = (age * YearNum) \div YearDen
    BY Zenon, <1>1, ProductNat, QuotientNat
  <1>3. PICK y \in Nat : y = x * RewardCoinYear
    BY Zenon, <1>1, ProductNat
  <1>4. PICK z \in Nat : z = (supply * InflationNum) \div InflationDen
    BY Zenon, <1>1, ProductNat, QuotientNat
  <1>5. PICK w \in Nat : w = z \div YearDen
    BY Zenon, <1>1, QuotientNat
  <1>6. GetProofOfStakeReward(age, supply) = 3 * y + w
    BY Zenon, <1>2, <1>3, <1>4, <1>5 DEF GetProofOfStakeReward
  <1> QED
    BY <1>6

(* So is what a coinstake, or a proof-of-work block, may spend of it.      *)
LEMMA SpendableType ==
    /\ \A age, supply \in Nat : SpendablePos(age, supply) \in Nat
    /\ \A height \in 1 .. MaxHeight : SpendablePow(height) \in Nat
  <1>1. ASSUME NEW age \in Nat, NEW supply \in Nat
        PROVE  SpendablePos(age, supply) \in Nat
    BY Zenon, PosLimitType, SplitOfLimit DEF SpendablePos
  <1>2. ASSUME NEW height \in 1 .. MaxHeight
        PROVE  SpendablePow(height) \in Nat
    <2>1. PowLimit[height] \in Nat
      BY Zenon, LimitAssumption
    <2> QED
      BY Zenon, <2>1, SplitOfLimit DEF SpendablePow
  <1> QED
    BY Zenon, <1>1, <1>2

-----------------------------------------------------------------------------
Entry == [pos : BOOLEAN, age : Nat, reward : Int, nMint : Int,
          nMoneySupply : Nat]

ChainOK == chain \in Seq(Entry) /\ Len(chain) >= 1

Signing == [stage : {"signing"}, height : 1 .. MaxHeight, supply : Nat,
            age : Nat, reward : Int, minFee : Nat, outputs : Nat]

Ready == [stage : {"ready"}, pos : BOOLEAN, height : 1 .. MaxHeight,
          supply : Nat, age : Nat, value : Int, cost : Nat]

(* A finished coinstake pays for its size out of its part of the limit, as *)
(* seen from the parent it was built on.                                   *)
ReadyOK ==
    IF build.pos
    THEN /\ build.supply > 0
         /\ build.value <= SpendablePos(build.age, build.supply) - build.cost
    ELSE /\ build.cost = 0
         /\ build.value = SpendablePow(build.height)

BuildOK ==
    \/ build = NoBuild
    \/ /\ build \in Signing
       /\ build.supply > 0
       /\ build.reward = SpendablePos(build.age, build.supply)
    \/ build \in Ready /\ ReadyOK

(* The inductive invariant.                                                *)
IInv == ChainOK /\ BuildOK /\ ClaimsWithinBudget

(* It holds of the genesis block alone.                                    *)
LEMMA InitIInv == Init => IInv
  BY DEF Init, IInv, ChainOK, BuildOK, ClaimsWithinBudget, Genesis, Entry

(* The tip, and the height above it.                                       *)
LEMMA TipType ==
    ASSUME ChainOK
    PROVE  /\ Tip \in Entry
           /\ Height \in Nat
           /\ Height < MaxHeight => Height + 1 \in 1 .. MaxHeight
  BY LimitAssumption DEF ChainOK, Tip, Height

(* For the provers that do no arithmetic.                                  *)
LEMMA ZeroInt == 0 \in Int /\ 0 \in Nat
  OBVIOUS

(* What is compared with a limit in a block that is being connected.       *)
Within(pos, age, coinbase, coinstake) ==
    IF pos THEN coinstake <= SpendablePos(age, Tip.nMoneySupply)
           ELSE coinstake = 0 /\ coinbase <= SpendablePow(Height + 1)

(* Connecting a block within its budget keeps the chain's invariant.       *)
LEMMA ConnectStep ==
    ASSUME ChainOK, ClaimsWithinBudget,
           NEW pos \in BOOLEAN, NEW age \in Nat, NEW coinbase \in Int,
           NEW coinstake \in Int, NEW fee \in Nat,
           fee - (coinbase + coinstake) <= Tip.nMoneySupply,
           Within(pos, age, coinbase, coinstake),
           ConnectBlock(pos, age, coinbase, coinstake, fee)
    PROVE  ChainOK' /\ ClaimsWithinBudget'
  <1> DEFINE e == [pos |-> pos, age |-> age,
                   reward |-> IF pos THEN coinstake ELSE coinbase,
                   nMint |-> coinbase + coinstake,
                   nMoneySupply |-> Tip.nMoneySupply + coinbase + coinstake - fee]
  <1>1. e \in Entry
    <2>1. Tip.nMoneySupply \in Nat
      BY Zenon, TipType DEF Entry
    <2>2. /\ coinbase + coinstake \in Int
          /\ Tip.nMoneySupply + coinbase + coinstake - fee \in Nat
      BY <2>1
    <2>3. (IF pos THEN coinstake ELSE coinbase) \in Int
      BY Zenon
    <2> QED
      BY Zenon, <2>2, <2>3 DEF Entry
  <1>2. chain' = Append(chain, e)
    BY Zenon DEF ConnectBlock
  <1>3. /\ e.pos = pos /\ e.age = age /\ e.nMint = coinbase + coinstake
        /\ pos => e.reward = coinstake
    BY Zenon
  <1> HIDE DEF e
  <1>4. ChainOK'
    BY <1>1, <1>2 DEF ChainOK
  <1>5. /\ Len(chain') = Len(chain) + 1
        /\ \A i \in 1 .. Len(chain) : chain'[i] = chain[i]
        /\ chain'[Len(chain) + 1] = e
    BY <1>1, <1>2 DEF ChainOK
  <1>6. ASSUME NEW i \in 2 .. Len(chain')
        PROVE  IF chain'[i].pos
               THEN chain'[i].reward <= SpendablePos(chain'[i].age,
                                                     chain'[i - 1].nMoneySupply)
               ELSE chain'[i].nMint <= SpendablePow(i - 1)
    <2>1. CASE i \in 2 .. Len(chain)
      <3>1. chain'[i] = chain[i] /\ chain'[i - 1] = chain[i - 1]
        BY <1>5, <2>1 DEF ChainOK
      <3> QED
        BY Zenon, <2>1, <3>1 DEF ClaimsWithinBudget
    <2>2. CASE i = Len(chain) + 1
      <3>1. chain'[i] = e /\ chain'[i - 1] = Tip /\ i - 1 = Height + 1
        BY <1>5, <2>2 DEF ChainOK, Tip, Height
      <3>2. ~pos => coinbase + coinstake = coinbase
        BY DEF Within
      <3> QED
        BY Zenon, <1>3, <3>1, <3>2 DEF Within
    <2> QED
      BY <1>5, <2>1, <2>2 DEF ChainOK
  <1> QED
    BY Zenon, <1>4, <1>6 DEF ClaimsWithinBudget

-----------------------------------------------------------------------------
(* A proof-of-work block of another node.                                  *)
LEMMA ReceivePowStep ==
    ASSUME IInv, NEW value \in Mints, NEW cost \in Costs, NEW fee \in Fees,
           ReceivePowBlock(value, cost, fee)
    PROVE  IInv'
  <1>1. value \in Int /\ cost \in Nat /\ fee \in Nat
    BY Zenon, InputAssumption
  <1>2. /\ value >= 0 /\ fee <= Tip.nMoneySupply /\ UNCHANGED build
        /\ CoinbaseAllowed(value, Height + 1, cost)
        /\ ConnectBlock(FALSE, 0, value, 0, fee)
        /\ Height < MaxHeight
    BY Zenon DEF ReceivePowBlock
  <1>3. SpendablePow(Height + 1) \in Nat /\ Tip.nMoneySupply \in Nat
    BY Zenon, <1>2, TipType, SpendableType DEF IInv, Entry
  <1>4. /\ Within(FALSE, 0, value, 0)
        /\ fee - (value + 0) <= Tip.nMoneySupply
    BY <1>1, <1>2, <1>3 DEF CoinbaseAllowed, Within
  <1>5. ChainOK' /\ ClaimsWithinBudget'
    BY Zenon, <1>1, <1>2, <1>4, ZeroInt, ConnectStep DEF IInv
  <1> QED
    BY Zenon, <1>2, <1>5 DEF IInv, BuildOK, ReadyOK

(* A proof-of-stake block of another node: its kernel shows that the       *)
(* parent's money supply is positive, so the limit applies.                *)
LEMMA ReceivePosStep ==
    ASSUME IInv, NEW coinbase \in Outputs, NEW reward \in Mints, NEW age \in CoinAges,
           NEW cost \in Costs, NEW fee \in Fees,
           ReceivePosBlock(coinbase, reward, age, cost, fee)
    PROVE  IInv'
  <1>1. coinbase \in Nat /\ reward \in Int /\ age \in Nat /\ cost \in Nat /\ fee \in Nat
    BY Zenon, InputAssumption
  <1>2. /\ Tip.nMoneySupply > 0 /\ UNCHANGED build
        /\ fee - reward <= Tip.nMoneySupply
        /\ CoinstakeAllowed(reward, age, Tip.nMoneySupply, cost)
        /\ ConnectBlock(TRUE, age, coinbase, reward, fee)
    BY Zenon DEF ReceivePosBlock, KernelExists
  <1>3. Tip.nMoneySupply \in Nat
    BY Zenon, TipType DEF IInv, Entry
  <1>4. SpendablePos(age, Tip.nMoneySupply) \in Nat
    BY Zenon, <1>1, <1>3, SpendableType
  <1>5. /\ Within(TRUE, age, coinbase, reward) /\ coinbase \in Int
        /\ fee - (coinbase + reward) <= Tip.nMoneySupply
    BY <1>1, <1>2, <1>3, <1>4 DEF CoinstakeAllowed, Within
  <1>6. ChainOK' /\ ClaimsWithinBudget'
    BY Zenon, <1>1, <1>2, <1>5, ConnectStep DEF IInv
  <1> QED
    BY Zenon, <1>2, <1>6 DEF IInv, BuildOK, ReadyOK

(* Disconnecting leaves a prefix.                                          *)
LEMMA DisconnectStep == IInv /\ DisconnectTip => IInv'
  <1> SUFFICES ASSUME IInv, DisconnectTip PROVE IInv'
    BY Zenon
  <1>1. /\ chain' = SubSeq(chain, 1, Len(chain) - 1) /\ Len(chain) >= 2
        /\ UNCHANGED build
    BY DEF DisconnectTip, IInv, ChainOK, Height
  <1>2. /\ chain' \in Seq(Entry) /\ Len(chain') = Len(chain) - 1
        /\ \A i \in 1 .. Len(chain) - 1 : chain'[i] = chain[i]
    BY <1>1 DEF IInv, ChainOK
  <1>3. ClaimsWithinBudget'
    <2>1. ASSUME NEW i \in 2 .. Len(chain')
          PROVE  i \in 2 .. Len(chain) /\ chain'[i] = chain[i]
                    /\ chain'[i - 1] = chain[i - 1]
      BY <1>1, <1>2 DEF IInv, ChainOK
    <2> QED
      BY Zenon, <2>1 DEF ClaimsWithinBudget, IInv
  <1> QED
    BY <1>1, <1>2, <1>3 DEF IInv, ChainOK, BuildOK, ReadyOK

(* The miner claims exactly the proof-of-work part.                        *)
LEMMA CreateNewBlockStep == IInv /\ CreateNewBlock => IInv'
  <1> SUFFICES ASSUME IInv, CreateNewBlock PROVE IInv'
    BY Zenon
  <1>1. /\ Height + 1 \in 1 .. MaxHeight
        /\ Tip.nMoneySupply \in Nat
        /\ SpendablePow(Height + 1) \in Nat
    BY Zenon, TipType, SpendableType DEF IInv, CreateNewBlock, Entry
  <1>2. build' \in Ready /\ ReadyOK'
    BY <1>1 DEF CreateNewBlock, Ready, ReadyOK
  <1> QED
    BY Zenon, <1>2 DEF IInv, ChainOK, BuildOK, ClaimsWithinBudget, CreateNewBlock

(* The minter starts from exactly the proof-of-stake part.                 *)
LEMMA CreateCoinStakeStep ==
    ASSUME IInv, NEW age \in CoinAges, CreateCoinStake(age)
    PROVE  IInv'
  <1>1. /\ Height + 1 \in 1 .. MaxHeight
        /\ Tip.nMoneySupply \in Nat /\ age \in Nat
    BY Zenon, TipType, InputAssumption DEF IInv, CreateCoinStake, Entry
  <1>2. SpendablePos(age, Tip.nMoneySupply) \in Nat
    BY Zenon, <1>1, SpendableType
  <1>3. /\ build' \in Signing /\ build'.supply > 0
        /\ build'.reward = SpendablePos(build'.age, build'.supply)
    BY <1>1, <1>2, InputAssumption DEF CreateCoinStake, KernelExists, Signing
  <1> QED
    BY Zenon, <1>3 DEF IInv, ChainOK, BuildOK, ClaimsWithinBudget, CreateCoinStake

(* A turn of the loop ends it only when the fee paid covers the fee        *)
(* needed.                                                                 *)
LEMMA SignCoinStakeStep ==
    ASSUME IInv, NEW needed \in Costs, NEW outputs \in 0 .. MaxOutputs,
           SignCoinStake(needed, outputs)
    PROVE  IInv'
  <1>1. needed \in Nat /\ outputs \in Nat
    BY InputAssumption
  <1>2. /\ build \in Signing /\ build.supply > 0
        /\ build.reward = SpendablePos(build.age, build.supply)
        /\ UNCHANGED chain
    BY DEF IInv, BuildOK, SignCoinStake, NoBuild, Ready
  <1>3. BuildOK'
    <2>1. CASE build' = NoBuild
      BY Zenon, <2>1 DEF BuildOK
    <2>2. CASE build' = [build EXCEPT !.minFee = needed, !.outputs = outputs]
      <3>1. /\ build' \in Signing /\ build'.supply = build.supply
            /\ build'.reward = build.reward /\ build'.age = build.age
        BY Zenon, <1>1, <1>2, <2>2 DEF Signing
      <3> QED
        BY Zenon, <1>2, <3>1 DEF BuildOK
    <2>3. CASE ~Retry(needed, outputs) /\ CoinStakeDone(needed)
      <3>1. build.minFee \in Nat /\ build.minFee >= needed
        BY <1>1, <1>2, <2>3 DEF Retry, Signing
      <3>2. build' \in Ready
        BY <1>1, <1>2, <2>3 DEF CoinStakeDone, Ready, Signing
      <3>3. /\ build'.pos = TRUE /\ build'.supply = build.supply
            /\ build'.age = build.age /\ build'.cost = needed
            /\ build'.value = build.reward - build.minFee
        BY Zenon, <2>3 DEF CoinStakeDone
      <3>4. build.reward - build.minFee <= build.reward - needed
        BY <1>1, <1>2, <3>1 DEF Signing
      <3> QED
        BY Zenon, <1>2, <3>2, <3>3, <3>4 DEF BuildOK, ReadyOK
    <2> QED
      BY Zenon, <2>1, <2>2, <2>3 DEF SignCoinStake
  <1> QED
    BY Zenon, <1>2, <1>3 DEF IInv, ChainOK, ClaimsWithinBudget

(* Handing in the node's own block.                                        *)
LEMMA SubmitBlockStep ==
    ASSUME IInv, NEW fee \in Fees, SubmitBlock(fee)
    PROVE  IInv'
  <1>1. /\ build \in Ready /\ ReadyOK /\ build' = NoBuild /\ fee \in Nat
    BY InputAssumption DEF IInv, BuildOK, SubmitBlock, NoBuild, Signing
  <1>2. ChainOK' /\ ClaimsWithinBudget'
    <2>1. CASE UNCHANGED chain
      BY Zenon, <2>1 DEF IInv, ChainOK, ClaimsWithinBudget
    <2>2. CASE /\ ConnectBuild(fee)
               /\ build.height = Height + 1
               /\ build.supply = Tip.nMoneySupply
               /\ fee - build.value <= Tip.nMoneySupply
      <3>1. /\ build.pos \in BOOLEAN /\ build.age \in Nat
            /\ build.value \in Int /\ build.cost \in Nat
            /\ build.supply \in Nat
        BY Zenon, <1>1 DEF Ready
      <3>2. SpendablePos(build.age, build.supply) \in Nat
        BY Zenon, <3>1, SpendableType
      <3>3. Tip.nMoneySupply \in Nat
        BY Zenon, TipType DEF IInv, Entry
      <3>4. CASE build.pos
        <4>1. ConnectBlock(TRUE, build.age, 0, build.value, fee)
          BY Zenon, <2>2, <3>4 DEF ConnectBuild
        <4>2. /\ Within(TRUE, build.age, 0, build.value)
              /\ fee - (0 + build.value) <= Tip.nMoneySupply
          BY <1>1, <2>2, <3>1, <3>2, <3>3, <3>4 DEF ReadyOK, Within
        <4> QED
          BY Zenon, <1>1, <3>1, <4>1, <4>2, ZeroInt, ConnectStep DEF IInv
      <3>5. CASE ~build.pos
        <4>1. ConnectBlock(FALSE, 0, build.value, 0, fee)
          BY Zenon, <2>2, <3>5 DEF ConnectBuild
        <4>2. SpendablePow(build.height) \in Nat
          BY Zenon, <1>1, SpendableType DEF Ready
        <4>3. /\ Within(FALSE, 0, build.value, 0)
              /\ fee - (build.value + 0) <= Tip.nMoneySupply
          BY <1>1, <2>2, <3>1, <3>3, <3>5, <4>2 DEF ReadyOK, Within
        <4> QED
          BY Zenon, <1>1, <3>1, <4>1, <4>3, ZeroInt, ConnectStep DEF IInv
      <3> QED
        BY Zenon, <3>4, <3>5
    <2> QED
      BY Zenon, <2>1, <2>2 DEF SubmitBlock
  <1> QED
    BY Zenon, <1>1, <1>2 DEF IInv, BuildOK

(* Every step preserves the invariant.                                     *)
LEMMA IInvInductive == IInv /\ [Next]_vars => IInv'
  <1> SUFFICES ASSUME IInv, [Next]_vars PROVE IInv'
    BY Zenon
  <1>1. CASE UNCHANGED vars
    BY Zenon, <1>1 DEF vars, IInv, ChainOK, BuildOK, ReadyOK, ClaimsWithinBudget
  <1> QED
    BY Zenon, <1>1, ReceivePowStep, ReceivePosStep, DisconnectStep,
       CreateNewBlockStep, CreateCoinStakeStep, SignCoinStakeStep,
       SubmitBlockStep DEF Next

(* The invariant holds throughout.                                         *)
LEMMA IInvHolds == Spec => []IInv
  BY InitIInv, IInvInductive, PTL DEF Spec

-----------------------------------------------------------------------------
(* Every limit the chain can give rise to is a natural number, and so is   *)
(* split exactly.                                                          *)
LEMMA SplitFromIInv == IInv => SplitExact
  <1> SUFFICES ASSUME IInv, NEW total \in Limits PROVE SplitOK(total)
    BY Zenon DEF SplitExact, SplitOK
  <1>1. total \in Nat
    <2>1. CASE \E h \in 1 .. MaxHeight : total = PowLimit[h]
      BY Zenon, <2>1, LimitAssumption
    <2>2. CASE \E age \in CoinAges :
                  total = GetProofOfStakeReward(age, Tip.nMoneySupply)
      <3>1. Tip.nMoneySupply \in Nat
        BY Zenon, TipType DEF IInv, Entry
      <3> QED
        BY Zenon, <2>2, <3>1, PosLimitType, InputAssumption
    <2> QED
      BY Zenon, <2>1, <2>2 DEF Limits
  <1> QED
    BY Zenon, <1>1, SplitOfLimit

(* SplitIssuanceBudget is exact for every limit the chain can give rise    *)
(* to, with any basis points and any money supply.                         *)
THEOREM SplitAlwaysExact == Spec => []SplitExact
  BY SplitFromIInv, IInvHolds, PTL

(* What CheckBlock and CheckTxInputs compare with a limit stays within it  *)
(* in every block of the active chain, through any number of               *)
(* reorganisations and of blocks built on a parent that is gone: a         *)
(* proof-of-work block creates at most its part of its limit, a coinstake  *)
(* earns at most its part of the limit that its own parent's money supply  *)
(* gives.  It says nothing of the coinbase beside a coinstake.             *)
THEOREM ClaimsAlwaysWithinBudget == Spec => []ClaimsWithinBudget
  BY IInvHolds, PTL DEF IInv

(* A finished block of the node passes the check that belongs to it.       *)
LEMMA OwnFromIInv == IInv => OwnBlockAllowed
  <1> SUFFICES ASSUME IInv, build.stage = "ready" PROVE OwnBlockAllowed
    BY Zenon DEF OwnBlockAllowed
  <1>1. build \in Ready /\ ReadyOK
    BY DEF IInv, BuildOK, NoBuild, Signing
  <1>2. CASE build.pos
    <2>1. /\ SpendablePos(build.age, build.supply) \in Nat
          /\ build.cost \in Nat
      BY Zenon, <1>1, SpendableType DEF Ready
    <2> QED
      BY <1>1, <1>2, <2>1
      DEF ReadyOK, OwnBlockAllowed, BuildAllowed, CoinstakeAllowed
  <1>3. CASE ~build.pos
    <2>1. SpendablePow(build.height) \in Nat
      BY Zenon, <1>1, SpendableType DEF Ready
    <2> QED
      BY <1>1, <1>3, <2>1
      DEF ReadyOK, OwnBlockAllowed, BuildAllowed, CoinbaseAllowed
  <1> QED
    BY Zenon, <1>2, <1>3

(* What CreateNewBlock and CreateCoinStake build is allowed by CheckBlock  *)
(* and CheckTxInputs, unless the coinstake's size costs more than all it   *)
(* may earn.                                                               *)
THEOREM OwnBlockAlwaysAllowed == Spec => []OwnBlockAllowed
  BY OwnFromIInv, IInvHolds, PTL

-----------------------------------------------------------------------------
(* The composition: every step of it is a step of the issuance rules or    *)
(* leaves the chain and the block being built alone.                       *)
LEMMA RewardStepIsIssuance == [RewardNext]_rewardVars => [Next]_vars
  BY Zenon DEF RewardNext, rewardVars, LookAtNext, ChainStep

(* A search begun for the next block of the chain starts in the bracket.   *)
LEMMA BeginBracket ==
    ASSUME NEW c \in Seq(Entry), Len(c) >= 1,
           BeginSearch(TargetOf[NextHeight(Len(c))])
    PROVE  Bracket'
  <1>1. NextHeight(Len(c)) \in 1 .. MaxHeight
    BY TargetOfAssumption, LimitAssumption DEF NextHeight, Least
  <1>2. target' \in Targets /\ lower' = CENT /\ upper' = MaxMint
    BY Zenon, <1>1, TargetOfAssumption DEF BeginSearch
  <1> QED
    BY <1>2, AmountAssumption DEF Bracket

(* The search stays in its bracket, and starts anew for another block.     *)
LEMMA RewardKeepsBracket ==
    ASSUME IInv, Bracket, [RewardNext]_rewardVars
    PROVE  Bracket'
  <1>1. CASE Narrow
    BY Zenon, <1>1, NarrowBracket
  <1>2. CASE LookAtNext
    BY Zenon, <1>2, BeginBracket DEF LookAtNext, IInv, ChainOK
  <1>3. CASE ChainStep
    <2>1. CASE UNCHANGED searchVars
      BY Zenon, <2>1, NarrowBracket
    <2>2. CASE BeginSearch(TargetOf[NextHeight(Len(chain'))])
      <3>1. ChainOK'
        BY Zenon, <1>3, IInvInductive DEF ChainStep, IInv
      <3> QED
        BY Zenon, <2>2, <3>1, BeginBracket DEF ChainOK
    <2> QED
      BY Zenon, <1>3, <2>1, <2>2 DEF ChainStep
  <1>4. CASE UNCHANGED rewardVars
    BY Zenon, <1>4, NarrowBracket DEF rewardVars
  <1> QED
    BY Zenon, <1>1, <1>2, <1>3, <1>4 DEF RewardNext

(* CheckBlock and CreateNewBlock with the search they call: whatever       *)
(* blocks are looked at in between and however the chain moves, the limit  *)
(* that is found is the root, the split of every limit is exact, what is   *)
(* compared with a limit keeps to its part of it and the node's own blocks *)
(* are allowed.                                                            *)
THEOREM RewardRulesHold ==
    RewardSpec => [](/\ RewardIsRoot /\ SplitExact
                     /\ ClaimsWithinBudget /\ OwnBlockAllowed)
  <1>1. RewardInit => IInv /\ Bracket
    BY InitIInv, InitBracket DEF RewardInit
  <1>2. IInv /\ Bracket /\ [RewardNext]_rewardVars => IInv' /\ Bracket'
    BY Zenon, RewardStepIsIssuance, IInvInductive, RewardKeepsBracket
  <1>3. IInv => ClaimsWithinBudget
    BY Zenon DEF IInv
  <1> QED
    BY <1>1, <1>2, <1>3, BracketGivesRoot, SplitFromIInv, OwnFromIInv, PTL
    DEF RewardSpec
=============================================================================

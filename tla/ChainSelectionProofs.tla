------------------------ MODULE ChainSelectionProofs ------------------------
(***************************************************************************)
(* The active chain is valid, setBlockIndexCandidates is what              *)
(* CheckBlockIndex asserts, and ActivateBestChain leaves the best usable   *)
(* chain: for every tree of blocks, every outcome of the checks, any       *)
(* number of RPCs or of restarts.                                          *)
(*                                                                         *)
(* SafeInv is what makes the chain valid: data and BLOCK_VALID_SCRIPTS are *)
(* closed under parents, on the disk too, and a thread that let go of      *)
(* cs_main comes back to an aim nobody could mark as failed meanwhile.     *)
(* CandInv compares the candidates with the tip ActivateBestChain found    *)
(* when it took cs_main, not with the one it has moved to: in the inner    *)
(* loop the way back must stay among the candidates.  GoalInv is what is   *)
(* still to be done.                                                       *)
(***************************************************************************)
EXTENDS ChainSelection, FiniteSetTheorems, WellFoundedInduction, TLAPS

-----------------------------------------------------------------------------
(* The inductive invariant.                                                *)

\* The index: data comes with that of all ancestors, BLOCK_VALID_SCRIPTS too.
IndexOk(dat, scr) ==
    /\ Genesis \in dat /\ dat \subseteq Block /\ scr \subseteq dat \ bad
    /\ \A b \in dat : Anc[b] \subseteq dat
    /\ \A b \in scr : Anc[b] \subseteq scr \cup {Genesis}

\* A branch that was connected from genesis up.
Checked(b, scr) == Anc[b] \subseteq scr \cup {Genesis}

\* A branch without failure marks.
Sound(b) == Anc[b] \cap Failed = {}

\* The tip the candidates are compared with: ActivateBestChain's own while it
\* holds cs_main.
Base == IF locked THEN startTip ELSE tip

TreeInv ==
    /\ bad \subseteq Block \ {Genesis}
    /\ data \subseteq index /\ index \subseteq Block /\ linked = data /\ unlinked = {}
    /\ IndexOk(data, scripts)
    /\ seq \in [Block -> Int] /\ nextSeq \in Int /\ reverseSeq \in Int
    /\ failedValid \subseteq Block \ {Genesis} /\ failedChild \subseteq Block \ {Genesis}
    /\ failedBlocks \subseteq failedValid
    /\ candidates \subseteq data
    /\ tip \in data /\ Checked(tip, scripts) /\ Sound(tip)

\* What the holders of m_chainstate_mutex remember while others run.
ThreadInv ==
    /\ mutex \in {"abc", "inv", "free"}
    /\ mostWork # None =>
          mutex = "abc" /\ mostWork \in data /\ tip \in Anc[mostWork] /\ Sound(mostWork)
    /\ locked => mutex = "abc" /\ startTip \in data /\ Checked(startTip, scripts) /\ Sound(startTip)
    /\ mutex = "inv" =>
          /\ target \in Block \ {Genesis} /\ toMark \in Block \ {Genesis}
          /\ toMark = target \/ toMark \notin Anc[tip]
          /\ byWork \subseteq data

\* The disk while a restart is still to come.
DiskInv ==
    LET fails == disk.failedValid \cup disk.failedChild IN
    /\ disk.data \subseteq disk.index /\ disk.index \subseteq Block
    /\ IndexOk(disk.data, disk.scripts)
    /\ disk.failedValid \subseteq Block \ {Genesis} /\ disk.failedChild \subseteq Block \ {Genesis}
    /\ disk.scripts \cap fails = {}
    /\ disk.tip \in disk.data /\ Checked(disk.tip, disk.scripts)

RestartInv ==
    /\ ops \in 0 .. MaxOps /\ restarts \in 0 .. MaxRestarts
    /\ restarts < MaxRestarts =>
          /\ ops = MaxOps /\ mutex # "inv"
          /\ scripts \cap Failed = {}
          /\ disk.tip \in data /\ Checked(disk.tip, scripts)
          /\ DiskInv

SafeInv == TreeInv /\ ThreadInv /\ RestartInv

\* Failure marks have a cause, in memory and on the disk.
Caused(fv, fc) == \A b \in fc : \E v \in Anc[b] : v \in fv

CausedInv ==
    /\ Caused(failedValid, failedChild)
    /\ restarts < MaxRestarts => Caused(disk.failedValid, disk.failedChild)

\* The candidates are the blocks that do not sort below the base, and the
\* branch under way leads above it.
CandInv ==
    /\ \A c \in candidates : ~Less(c, Base)
    /\ Base \in candidates
    /\ mutex # "inv" => \A b \in data \ Failed : ~Less(b, Base) => b \in candidates
    /\ locked => Less(tip, startTip)
    /\ mostWork # None => mostWork # tip /\ ~Less(mostWork, Base)

\* Nothing sorts above the aim, unless a thread is on its way to see it.
GoalInv ==
    ~todo => /\ mutex = "free" => \A b \in data : Sound(b) => ~Less(tip, b)
             /\ mostWork # None => \A b \in data : Sound(b) => ~Less(mostWork, b)

BestInv == SafeInv /\ CandInv /\ GoalInv

\* preciousblock takes no rank from the tip.
KeepsRank == restarts' = restarts => seq'[tip] <= seq[tip]

-----------------------------------------------------------------------------
(* The tree of blocks.                                                     *)

\* A set of natural numbers that is not empty has a least element.
LEMMA LeastNatural ==
    ASSUME NEW S \in SUBSET Nat, S # {}
    PROVE  \E m \in S : \A n \in S : m <= n
<1>1. OpToRel(<, Nat) = {ss \in Nat \X Nat : ss[1] < ss[2]}
  BY Zenon DEF OpToRel
<1>2. PICK m \in S : \A n \in S : <<n, m>> \notin OpToRel(<, Nat)
  BY Zenon, WFMin, NatLessThanWellFounded
<1>3. ASSUME NEW n \in S PROVE m <= n
  <2>1. <<n, m>> \notin {ss \in Nat \X Nat : ss[1] < ss[2]}
    BY <1>1, <1>2, Zenon
  <2>2. <<n, m>> \in Nat \X Nat /\ <<n, m>>[1] = n /\ <<n, m>>[2] = m
    BY Zenon
  <2>3. ~(n < m)
    BY <2>1, <2>2, Zenon
  <2> QED
    BY <2>3
<1> QED
  BY Zenon, <1>3

\* Induction along pprev: nChainTrust goes down from child to parent, so a set
\* with genesis that has every block whose parent it has, has all blocks.
LEMMA TreeInduction ==
    ASSUME NEW S, Genesis \in S, \A b \in Block \ {Genesis} : Parent[b] \in S => b \in S
    PROVE  Block \subseteq S
<1> DEFINE Left == {ChainTrust[b] : b \in Block \ S}
<1> SUFFICES ASSUME NEW x \in Block, x \notin S PROVE FALSE
  BY Zenon
<1>1. Left \in SUBSET Nat /\ Left # {}
  BY TreeAssumption
<1>2. PICK m \in Left : \A n \in Left : m <= n
  <2> HIDE DEF Left
  <2> QED
    BY Zenon, <1>1, LeastNatural
<1>3. PICK b \in Block \ S : m = ChainTrust[b]
  BY Zenon, <1>2
<1>4. Parent[b] \in Block \ S /\ ChainTrust[Parent[b]] < ChainTrust[b]
  BY Zenon, <1>3, TreeAssumption
<1>5. ChainTrust[Parent[b]] \in Left /\ ChainTrust[Parent[b]] \in Nat /\ ChainTrust[b] \in Nat
  BY <1>4, TreeAssumption
<1>6. m <= ChainTrust[Parent[b]]
  <2> HIDE DEF Left
  <2> QED
    BY Zenon, <1>2, <1>5
<1> QED
  BY <1>3, <1>4, <1>5, <1>6

\* The equation of Anc, and that a branch starts with genesis.
LEMMA AncOfBlock ==
    ASSUME NEW b \in Block
    PROVE  /\ b \in Anc[b] /\ Anc[b] \subseteq Block /\ Genesis \in Anc[b]
           /\ b # Genesis => /\ Parent[b] \in Block /\ Parent[b] \in Anc[b]
                             /\ Anc[b] = Anc[Parent[b]] \cup {b}
                             /\ b \notin Anc[Parent[b]]
<1> DEFINE S == {a \in Block : a \in Anc[a] /\ Genesis \in Anc[a]}
<1>1. Genesis \in S
  BY Zenon, TreeAssumption
<1>2. ASSUME NEW a \in Block \ {Genesis}, Parent[a] \in S PROVE a \in S
  BY <1>2, TreeAssumption
<1> HIDE DEF S
<1>3. Block \subseteq S
  BY Zenon, <1>1, <1>2, TreeInduction
<1>4. \A a \in Block : a \in Anc[a] /\ Genesis \in Anc[a]
  BY Zenon, <1>3 DEF S
<1> QED
  BY <1>4, TreeAssumption

\* An ancestor's ancestors are ancestors.
LEMMA AncTransitive == \A b \in Block : \A c \in Anc[b] : Anc[c] \subseteq Anc[b]
<1> DEFINE S == {b \in Block : \A c \in Anc[b] : Anc[c] \subseteq Anc[b]}
<1>1. Genesis \in S
  BY Zenon, TreeAssumption
<1>2. ASSUME NEW b \in Block \ {Genesis}, Parent[b] \in S PROVE b \in S
  BY <1>2, AncOfBlock
<1> HIDE DEF S
<1>3. Block \subseteq S
  BY Zenon, <1>1, <1>2, TreeInduction
<1> QED
  BY Zenon, <1>3 DEF S

\* Of two blocks of a branch one is an ancestor of the other.
LEMMA AncLinear == \A b \in Block : \A c, d \in Anc[b] : c \in Anc[d] \/ d \in Anc[c]
<1> DEFINE S == {b \in Block : \A c, d \in Anc[b] : c \in Anc[d] \/ d \in Anc[c]}
<1>1. Genesis \in S
  BY Zenon, TreeAssumption
<1>2. ASSUME NEW b \in Block \ {Genesis}, Parent[b] \in S PROVE b \in S
  BY <1>2, AncOfBlock
<1> HIDE DEF S
<1>3. Block \subseteq S
  BY Zenon, <1>1, <1>2, TreeInduction
<1> QED
  BY Zenon, <1>3 DEF S

\* A proper ancestor has less trust.
LEMMA AncTrust ==
    \A b \in Block : \A c \in Anc[b] : c = b \/ ChainTrust[c] < ChainTrust[b]
<1> DEFINE S == {b \in Block : \A c \in Anc[b] : c = b \/ ChainTrust[c] < ChainTrust[b]}
<1>1. Genesis \in S
  BY Zenon, TreeAssumption
<1>2. ASSUME NEW b \in Block \ {Genesis}, Parent[b] \in S PROVE b \in S
  <2>1. Parent[b] \in Block /\ Anc[Parent[b]] \subseteq Block /\ Anc[b] = Anc[Parent[b]] \cup {b}
    BY Zenon, AncOfBlock, TreeAssumption
  <2>2. ASSUME NEW c \in Anc[Parent[b]] PROVE ChainTrust[c] < ChainTrust[b]
    <3>1. c = Parent[b] \/ ChainTrust[c] < ChainTrust[Parent[b]]
      BY Zenon, <1>2
    <3>2. ChainTrust[c] \in Nat /\ ChainTrust[b] \in Nat /\ ChainTrust[Parent[b]] \in Nat
          /\ ChainTrust[Parent[b]] < ChainTrust[b]
      BY Zenon, <2>1, TreeAssumption
    <3> QED
      BY <3>1, <3>2
  <2> QED
    BY Zenon, <2>1, <2>2
<1> HIDE DEF S
<1>3. Block \subseteq S
  BY Zenon, <1>1, <1>2, TreeInduction
<1> QED
  BY Zenon, <1>3 DEF S

\* Blocks of one branch have a highest among them.
LEMMA HighestFacts ==
    ASSUME NEW b \in Block, NEW T \in SUBSET Anc[b], T # {}
    PROVE  Highest(T) \in T /\ T \subseteq Anc[Highest(T)]
<1> DEFINE S == {a \in Block : \A X \in SUBSET Anc[a] : X # {} => \E h \in X : X \subseteq Anc[h]}
<1>1. Genesis \in S
  BY Zenon, TreeAssumption
<1>2. ASSUME NEW a \in Block \ {Genesis}, Parent[a] \in S PROVE a \in S
  <2> SUFFICES ASSUME NEW X \in SUBSET Anc[a], X # {} PROVE \E h \in X : X \subseteq Anc[h]
    BY Zenon
  <2>1. CASE a \in X
    BY Zenon, <2>1
  <2>2. CASE a \notin X
    <3>1. X \in SUBSET Anc[Parent[a]]
      BY Zenon, <2>2, AncOfBlock
    <3> QED
      BY Zenon, <1>2, <3>1
  <2> QED
    BY Zenon, <2>1, <2>2
<1> HIDE DEF S
<1>3. Block \subseteq S
  BY Zenon, <1>1, <1>2, TreeInduction
<1>4. \E h \in T : T \subseteq Anc[h]
  BY <1>3 DEF S
<1> QED
  BY Zenon, <1>4 DEF Highest

-----------------------------------------------------------------------------
(* The order of the candidates.                                            *)

\* CBlockIndexWorkComparator is a strict total order: ids decide between equal
\* trust, and addresses between equal ids.
LEMMA LessOrder ==
    ASSUME NEW s \in [Block -> Int]
    PROVE  /\ \A a \in Block : ~LessIn(s, a, a)
           /\ \A a, b \in Block : LessIn(s, a, b) => ~LessIn(s, b, a)
           /\ \A a, b \in Block : LessIn(s, a, b) \/ LessIn(s, b, a) \/ a = b
           /\ \A a, b, c \in Block : LessIn(s, a, b) /\ LessIn(s, b, c) => LessIn(s, a, c)
<1>1. \A a \in Block : ChainTrust[a] \in Nat /\ Addr[a] \in Nat /\ s[a] \in Int
  BY Zenon, TreeAssumption
<1>2. \A a, b \in Block : Addr[a] = Addr[b] => a = b
  BY Zenon, TreeAssumption
<1>3. \A a \in Block : ~LessIn(s, a, a)
  BY <1>1 DEF LessIn
<1>4. \A a, b \in Block : LessIn(s, a, b) => ~LessIn(s, b, a)
  BY <1>1 DEF LessIn
<1>5. \A a, b \in Block : LessIn(s, a, b) \/ LessIn(s, b, a) \/ a = b
  BY <1>1, <1>2 DEF LessIn
<1>6. \A a, b, c \in Block : LessIn(s, a, b) /\ LessIn(s, b, c) => LessIn(s, a, c)
  BY <1>1 DEF LessIn
<1> QED
  BY Zenon, <1>3, <1>4, <1>5, <1>6

\* A proper ancestor sorts below.
LEMMA AncestorLess ==
    ASSUME NEW s, NEW b \in Block, NEW a \in Anc[b], a # b
    PROVE  LessIn(s, a, b)
  BY Zenon, AncTrust DEF LessIn

\* Every set of blocks that is not empty has one that sorts above all others.
LEMMA BestFacts ==
    ASSUME seq \in [Block -> Int], NEW S \in SUBSET Block, S # {}
    PROVE  Best(S) \in S /\ \A c \in S : ~Less(Best(S), c)
<1> DEFINE Above(b) == {c \in S : Less(b, c)}
           Counts == {Cardinality(Above(b)) : b \in S}
<1>1. ASSUME NEW b \in S PROVE IsFiniteSet(Above(b)) /\ Cardinality(Above(b)) \in Nat
  <2>1. Above(b) \subseteq Block /\ IsFiniteSet(Block)
    BY Zenon, TreeAssumption
  <2> HIDE DEF Above
  <2> QED
    BY Zenon, <2>1, FS_Subset, FS_CardinalityType
<1>2. Counts \in SUBSET Nat /\ Counts # {}
  <2> HIDE DEF Above
  <2> QED
    BY Zenon, <1>1
<1>3. PICK m \in Counts : \A n \in Counts : m <= n
  <2> HIDE DEF Counts
  <2> QED
    BY Zenon, <1>2, LeastNatural
<1>4. PICK b \in S : m = Cardinality(Above(b))
  <2> HIDE DEF Above
  <2> QED
    BY Zenon, <1>3
<1>5. ASSUME NEW c \in S, Less(b, c) PROVE FALSE
  <2>1. Above(c) \subseteq Above(b) /\ c \in Above(b) /\ c \notin Above(c)
    BY Zenon, <1>5, LessOrder DEF Less
  <2>2. Cardinality(Above(c)) \in Counts
    BY Zenon
  <2>3. m <= Cardinality(Above(c))
    <3> HIDE DEF Counts, Above
    <3> QED
      BY Zenon, <1>3, <2>2
  <2>4. Cardinality(Above(c)) < Cardinality(Above(b))
    <3> HIDE DEF Above
    <3> QED
      BY <1>1, <2>1, FS_Subset
  <2> HIDE DEF Counts, Above
  <2> QED
    BY <1>1, <1>4, <2>3, <2>4
<1>6. \E a \in S : \A c \in S : ~Less(a, c)
  BY Zenon, <1>5
<1> QED
  BY Zenon, <1>6 DEF Best

-----------------------------------------------------------------------------
(* What FindMostWorkChain finds and ActivateBestChainStep does.            *)

\* Failure marks below an unmarked block's branch are marks on the branch.
LEMMA SoundDown ==
    ASSUME NEW b \in Block, Sound(b), NEW a \in Anc[b]
    PROVE  Sound(a) /\ a \notin Failed /\ a \in Block
  BY Zenon, AncOfBlock, AncTransitive DEF Sound

\* FindMostWorkChain returns an unmarked branch that no unmarked candidate
\* sorts above.  What it erases is marked as failed, before or by it, and it
\* marks only blocks above one that was.
LEMMA MostWorkFacts ==
    ASSUME TreeInv, ThreadInv, NEW fmw, fmw = MostWork
    PROVE  /\ fmw.found # None => fmw.found \in data /\ Sound(fmw.found)
           /\ \A x \in fmw.children : x \in Block /\ \E h \in Anc[x] : h # x /\ h \in Failed
           /\ fmw.erased \subseteq Failed \cup fmw.children
           /\ mostWork = None =>
                 /\ fmw.found # None => fmw.found \in candidates
                 /\ \A c \in candidates : Sound(c) => fmw.found # None /\ ~Less(fmw.found, c)
           /\ mostWork # None => fmw.found = mostWork
<1>0. tip \in Block /\ Sound(tip) /\ candidates \subseteq data /\ data \subseteq Block
      /\ seq \in [Block -> Int] /\ None \notin Block
  BY Zenon, TreeAssumption DEF TreeInv, IndexOk
<1>1. CASE mostWork # None
  BY Zenon, <1>1 DEF MostWork, ThreadInv
<1>2. CASE mostWork = None
  <2> DEFINE usable == {c \in candidates : FailedOn(c) = {}}
             found  == Best(usable)
             culled == {c \in candidates : /\ FailedOn(c) # {}
                                           /\ found = None \/ Less(found, c)}
             FromFailed(c) == {x \in Anc[c] : Highest(FailedOn(c)) \in Anc[x]}
  <2>1. /\ fmw.found = found
        /\ fmw.erased = UNION {FromFailed(c) : c \in culled}
        /\ fmw.children = UNION {FromFailed(c) \ {Highest(FailedOn(c))} : c \in culled}
    BY Zenon, <1>2 DEF MostWork, FindMostWorkChain
  <2>2. ASSUME NEW c \in Block PROVE FailedOn(c) = {} <=> Sound(c)
    BY Zenon, <1>0, AncOfBlock DEF FailedOn, Branch, Sound
  <2>3. usable # {} => found \in usable /\ \A c \in usable : ~Less(found, c)
    <3>1. usable \in SUBSET Block
      BY Zenon, <1>0
    <3> HIDE DEF usable
    <3> QED
      BY Zenon, <1>0, <3>1, BestFacts
  <2>4. usable = {} => found = None
    BY Zenon DEF Best
  <2>5. found # None => found \in data /\ Sound(found) /\ found \in candidates
    BY Zenon, <1>0, <2>2, <2>3, <2>4
  <2>6. \A c \in candidates : Sound(c) => found # None /\ ~Less(found, c)
    BY Zenon, <1>0, <2>2, <2>3
  <2>7. ASSUME NEW c \in culled
        PROVE  c \in Block /\ Highest(FailedOn(c)) \in Failed
    <3>1. c \in Block /\ FailedOn(c) \in SUBSET Anc[c] /\ FailedOn(c) # {}
      BY Zenon, <1>0 DEF FailedOn, Branch
    <3>2. Highest(FailedOn(c)) \in FailedOn(c)
      BY Zenon, <3>1, HighestFacts
    <3> QED
      BY Zenon, <3>1, <3>2 DEF FailedOn
  <2> HIDE DEF usable, found, culled
  <2>8. ASSUME NEW x \in fmw.children
        PROVE  x \in Block /\ \E h \in Anc[x] : h # x /\ h \in Failed
    <3>1. PICK c \in culled : x \in FromFailed(c) \ {Highest(FailedOn(c))}
      BY Zenon, <2>1
    <3> QED
      BY Zenon, <2>7, <3>1, AncOfBlock
  <2>9. ASSUME NEW x \in fmw.erased PROVE x \in Failed \cup fmw.children
    <3>1. PICK c \in culled : x \in FromFailed(c)
      BY Zenon, <2>1
    <3>2. CASE x = Highest(FailedOn(c))
      BY Zenon, <2>7, <3>2
    <3>3. CASE x # Highest(FailedOn(c))
      BY <2>1, <3>1, <3>3
    <3> QED
      BY Zenon, <3>2, <3>3
  <2> QED
    BY Zenon, <1>2, <2>1, <2>5, <2>6, <2>8, <2>9
<1> QED
  BY Zenon, <1>1, <1>2

\* ActivateBestChainStep ends on the branch it aims at.  What it connected
\* passed ConnectBlock and completes the part the chains share; a block it
\* rejected did not, and is the next one above the new tip.
LEMMA StepFacts ==
    ASSUME NEW mw \in Block, tip \in Block, NEW step, step = StepTowards(mw)
    PROVE  /\ step.tip \in Anc[mw]
           /\ step.connected \subseteq Anc[mw] \cap Anc[step.tip]
           /\ step.connected \cap bad = {}
           /\ Anc[step.tip] \subseteq Anc[tip] \cup step.connected
           /\ step.passed \subseteq Anc[tip]
           /\ step.rejected \subseteq bad \cap Anc[mw]
           /\ step.rejected \cap Anc[step.tip] = {}
           /\ step.connected = {} => step.tip \in Anc[tip]
<1> DEFINE common    == Anc[mw] \cap Anc[tip]
           fork      == Highest(common)
           toConnect == Anc[mw] \ Anc[fork]
           better    == {b \in toConnect : ChainTrust[b] > ChainTrust[tip]}
           Reach     == {fork} \cup {b \in toConnect : /\ Connects(b, toConnect)
                                                       /\ better \cap Anc[Parent[b]] = {}}
           newTip    == Highest(Reach)
<1>1. /\ step.tip = newTip
      /\ step.passed = {Parent[b] : b \in Anc[tip] \ Anc[fork]}
      /\ step.connected = toConnect \cap Anc[newTip]
      /\ step.rejected = IF newTip \in better THEN {} ELSE {b \in toConnect : Parent[b] = newTip}
  BY Zenon DEF StepTowards
<1>2. fork \in Anc[mw] /\ fork \in Anc[tip] /\ common \subseteq Anc[fork]
  <2>1. common \in SUBSET Anc[mw] /\ common # {}
    BY Zenon, AncOfBlock
  <2>2. fork \in common /\ common \subseteq Anc[fork]
    <3> HIDE DEF common
    <3> QED
      BY Zenon, <2>1, HighestFacts
  <2> QED
    BY Zenon, <2>2
<1>3. newTip \in Reach /\ Reach \subseteq Anc[newTip]
  <2>1. Reach \in SUBSET Anc[mw] /\ Reach # {}
    BY Zenon, <1>2
  <2> HIDE DEF Reach
  <2> QED
    BY Zenon, <2>1, HighestFacts
<1>4. newTip \in Anc[mw] /\ newTip \in Block /\ fork \in Block /\ fork \in Anc[newTip]
  BY Zenon, <1>2, <1>3, AncOfBlock
<1>5. \A b \in Block : b # Genesis => Anc[b] = Anc[Parent[b]] \cup {b} /\ b \notin Anc[Parent[b]]
                                      /\ Parent[b] \in Anc[b]
  BY Zenon, AncOfBlock
<1>6. Anc[fork] \subseteq Anc[tip] /\ Genesis \in Anc[fork] /\ Anc[newTip] \subseteq Anc[mw]
  <2> HIDE DEF newTip, fork
  <2> QED
    BY Zenon, <1>2, <1>4, AncOfBlock, AncTransitive
<1>7. newTip = fork \/ (newTip \in toConnect /\ Connects(newTip, toConnect))
  BY Zenon, <1>3
<1>8. (toConnect \cap Anc[newTip]) \cap bad = {}
  BY Zenon, <1>7 DEF Connects
<1>9. toConnect \cap Anc[newTip] = {} => newTip = fork
  BY Zenon, <1>4, <1>7, AncOfBlock
<1>10. {Parent[b] : b \in Anc[tip] \ Anc[fork]} \subseteq Anc[tip]
  <2> SUFFICES ASSUME NEW b \in Anc[tip] \ Anc[fork] PROVE Parent[b] \in Anc[tip]
    BY Zenon
  <2>1. b \in Block /\ b # Genesis
    BY Zenon, <1>6, AncOfBlock
  <2> QED
    BY Zenon, <1>5, <2>1, AncTransitive
<1>11. ASSUME NEW b \in toConnect, Parent[b] = newTip, newTip \notin better
       PROVE  b \in bad /\ b \in Anc[mw] /\ b \notin Anc[newTip]
  <2>1. b \in Block /\ b # Genesis /\ b \in Anc[mw]
    BY Zenon, <1>6, AncOfBlock
  <2>2. Anc[b] = Anc[newTip] \cup {b} /\ b \notin Anc[newTip]
    BY Zenon, <1>5, <1>11, <2>1
  <2>3. b \notin Reach
    BY Zenon, <1>3, <2>2
  <2>4. better \cap Anc[newTip] = {}
    <3> SUFFICES ASSUME NEW y \in better, y \in Anc[newTip] PROVE FALSE
      BY Zenon
    <3>1. newTip \in toConnect
      BY Zenon, <1>7
    <3>2. y = newTip \/ ChainTrust[y] < ChainTrust[newTip]
      BY Zenon, <1>4, AncTrust
    <3>3. y \in Block /\ ChainTrust[y] > ChainTrust[tip]
      BY Zenon, <1>4, AncOfBlock
    <3>4. ChainTrust[y] \in Nat /\ ChainTrust[tip] \in Nat /\ ChainTrust[newTip] \in Nat
      BY Zenon, <1>4, <3>3, TreeAssumption
    <3>5. ChainTrust[newTip] > ChainTrust[tip]
      <4> HIDE DEF newTip
      <4> QED
        BY <3>2, <3>3, <3>4
    <3> QED
      BY Zenon, <1>11, <3>1, <3>5
  <2>5. ~Connects(b, toConnect)
    BY Zenon, <1>11, <2>3, <2>4
  <2>6. PICK z \in toConnect \cap Anc[b] : z \in bad
    BY Zenon, <2>5 DEF Connects
  <2> QED
    BY Zenon, <1>8, <2>1, <2>2, <2>6
<1> HIDE DEF newTip, better, Reach
<1>12. Anc[newTip] \subseteq Anc[tip] \cup (toConnect \cap Anc[newTip])
  BY Zenon, <1>6
<1>13. step.rejected \subseteq bad \cap Anc[mw] /\ step.rejected \cap Anc[newTip] = {}
  BY Zenon, <1>1, <1>11
<1> HIDE DEF toConnect, fork
<1>14. toConnect \subseteq Anc[mw]
  BY Zenon DEF toConnect
<1> QED
  BY Zenon, <1>1, <1>2, <1>4, <1>8, <1>9, <1>10, <1>12, <1>13, <1>14

-----------------------------------------------------------------------------
(* The tree, the threads and the disk.                                     *)

\* A new node has genesis only; with Apart it has no restart to come or no RPC.
LEMMA SafeInit ==
    ASSUME Init, Apart
    PROVE  SafeInv
<1>1. TreeInv
  BY TreeAssumption, BoundsAssumption DEF Init, TreeInv, IndexOk, Checked, Sound, Failed
<1>2. ThreadInv
  BY Zenon DEF Init, ThreadInv
<1>3. RestartInv
  <2>1. DiskInv
    BY Zenon, TreeAssumption DEF Init, DiskInv, IndexOk, Checked
  <2> QED
    BY <2>1, TreeAssumption, BoundsAssumption DEF Init, RestartInv, Checked, Failed
<1> QED
  BY Zenon, <1>1, <1>2, <1>3 DEF SafeInv

\* A header that descends from a failed block marks what lies between them; none
\* of that is on an unmarked branch, or on one that was connected.
LEMMA HeaderMarks ==
    ASSUME TreeInv, NEW b \in Block, AcceptBlockHeader(b)
    PROVE  /\ \A x \in Block : Sound(x) => Sound(x)'
           /\ failedChild' \subseteq Block \ {Genesis}
           /\ \A x \in failedChild' \ failedChild :
                 x \in Block /\ \E v \in Anc[x] : v \in failedValid
<1>1. CASE failedChild' = failedChild
  BY Zenon, <1>1 DEF AcceptBlockHeader, Sound, Failed, TreeInv
<1>2. ASSUME NEW f \in Culprits(b), failedChild' = failedChild \cup MarkedBetween(b, f)
      PROVE  /\ \A x \in Block : Sound(x) => Sound(x)'
             /\ failedChild' \subseteq Block \ {Genesis}
             /\ \A x \in failedChild' \ failedChild :
                   x \in Block /\ \E v \in Anc[x] : v \in failedValid
  <2>1. Parent[b] \in Block
    BY Zenon, TreeAssumption DEF AcceptBlockHeader, HeaderConnects
  <2>2. f \in Anc[Parent[b]] /\ f \in failedValid /\ f \in Block
    BY Zenon, <1>2 DEF Culprits, TreeInv
  <2>3. ASSUME NEW x \in MarkedBetween(b, f) PROVE x \in Block /\ f \in Anc[x]
    BY Zenon, <2>1, <2>2, AncOfBlock, AncLinear DEF MarkedBetween
  <2>4. Genesis \notin MarkedBetween(b, f)
    BY Zenon, <2>2, AncOfBlock DEF MarkedBetween
  <2>5. ASSUME NEW x \in Block, Sound(x) PROVE Sound(x)'
    <3>1. failedValid' = failedValid
      BY Zenon DEF AcceptBlockHeader
    <3>2. ASSUME NEW y \in Anc[x] PROVE y \notin MarkedBetween(b, f)
      BY Zenon, <2>2, <2>3, <2>5, SoundDown, AncTransitive DEF Sound, Failed
    <3> QED
      BY Zenon, <1>2, <2>5, <3>1, <3>2 DEF Sound, Failed
  <2> QED
    BY Zenon, <1>2, <2>2, <2>3, <2>4, <2>5 DEF TreeInv
<1> QED
  BY Zenon, <1>1, <1>2 DEF AcceptBlockHeader

\* AcceptBlockHeader adds an entry to the index, or marks.
LEMMA HeaderKeepsSafe ==
    ASSUME SafeInv, NEW b \in Block, AcceptBlockHeader(b)
    PROVE  SafeInv'
<1>0. /\ UNCHANGED <<bad, data, linked, scripts, seq, unlinked, failedValid, failedBlocks,
                     candidates, tip, nextSeq, reverseSeq, mutex, locked, mostWork, startTip,
                     target, toMark, byWork, disk, ops, restarts>>
      /\ index \subseteq index' /\ index' \subseteq index \cup {b}
  BY Zenon DEF AcceptBlockHeader, AddToBlockIndex, counters, activation, invalidation, bounds
<1>1. /\ TreeInv /\ ThreadInv /\ RestartInv
      /\ tip \in Block /\ data \subseteq Block
  BY Zenon DEF SafeInv, TreeInv, IndexOk
<1>2. /\ \A x \in Block : Sound(x) => Sound(x)'
      /\ failedChild' \subseteq Block \ {Genesis}
      /\ \A x \in failedChild' \ failedChild : x \in Block /\ \E v \in Anc[x] : v \in failedValid
  BY Zenon, <1>1, HeaderMarks
<1>3. TreeInv'
  BY Zenon, <1>0, <1>1, <1>2 DEF TreeInv, IndexOk, Checked
<1>4. ThreadInv'
  BY Zenon, <1>0, <1>1, <1>2 DEF ThreadInv, Checked
<1>5. RestartInv'
  <2>1. DiskInv' <=> DiskInv
    BY Zenon, <1>0 DEF DiskInv, IndexOk, Checked
  <2>2. ASSUME scripts \cap Failed = {} PROVE scripts \cap Failed' = {}
    <3> SUFFICES ASSUME NEW x \in scripts, x \in failedChild' \ failedChild PROVE FALSE
      BY Zenon, <1>0, <2>2 DEF Failed
    <3>1. PICK v \in Anc[x] : v \in failedValid
      BY Zenon, <1>2
    <3>2. v # Genesis /\ Anc[x] \subseteq scripts \cup {Genesis}
      BY Zenon, <1>1, <3>1 DEF TreeInv, IndexOk
    <3> QED
      BY Zenon, <2>2, <3>1, <3>2 DEF Failed
  <2> QED
    BY Zenon, <1>0, <1>1, <2>1, <2>2 DEF RestartInv, Checked
<1> QED
  BY Zenon, <1>3, <1>4, <1>5 DEF SafeInv

\* AcceptBlock marks only a block without data, and stores one whose parent has
\* its data.
LEMMA AcceptKeepsSafe ==
    ASSUME SafeInv, NEW b \in Block, NEW fRequested, NEW passes, AcceptBlock(b, fRequested, passes)
    PROVE  /\ SafeInv'
           /\ data \subseteq data' /\ data' \subseteq data \cup {b}
           /\ \A x \in data : Sound(x)' <=> Sound(x)
<1>0. /\ UNCHANGED <<bad, scripts, failedChild, failedBlocks, tip, reverseSeq, mutex, locked,
                     mostWork, startTip, target, toMark, byWork, disk, ops, restarts>>
      /\ ~locked /\ ParentChecked(b)
      /\ index' = index \cup {b}
  BY Zenon DEF AcceptBlock, AddToBlockIndex, activation, invalidation, bounds
<1>1. /\ TreeInv /\ ThreadInv /\ RestartInv
      /\ data \subseteq Block /\ Genesis \in data
  BY Zenon DEF SafeInv, TreeInv, IndexOk
<1>2. \/ UNCHANGED <<failedValid, data, linked, seq, nextSeq, candidates, unlinked>>
      \/ /\ b \notin data /\ failedValid' = failedValid \cup {b}
         /\ UNCHANGED <<data, linked, seq, nextSeq, candidates, unlinked>>
      \/ b \notin data /\ ReceivedBlockTransactions(b) /\ UNCHANGED failedValid
  BY Zenon DEF AcceptBlock
<1>3. b \notin data => b # Genesis /\ Parent[b] \in data
  BY Zenon, <1>0, <1>1 DEF ParentChecked, ValidTransactions
<1>4. /\ data \subseteq data' /\ data' \subseteq data \cup {b}
      /\ linked' = data' /\ unlinked' = {} /\ candidates' \subseteq data'
      /\ seq' \in [Block -> Int] /\ nextSeq' \in Int
      /\ failedValid \subseteq failedValid'
      /\ failedValid' \subseteq failedValid \cup ({b} \ data)
  <2>0. /\ linked = data /\ unlinked = {} /\ candidates \subseteq data
        /\ seq \in [Block -> Int] /\ nextSeq \in Int
    BY Zenon, <1>1 DEF TreeInv
  <2>1. CASE UNCHANGED <<failedValid, data, linked, seq, nextSeq, candidates, unlinked>>
    BY Zenon, <2>0, <2>1
  <2>2. CASE /\ b \notin data /\ failedValid' = failedValid \cup {b}
             /\ UNCHANGED <<data, linked, seq, nextSeq, candidates, unlinked>>
    BY Zenon, <2>0, <2>2
  <2>3. CASE b \notin data /\ ReceivedBlockTransactions(b) /\ UNCHANGED failedValid
    <3>1. Parent[b] \in linked
      BY Zenon, <1>3, <2>0, <2>3
    <3>2. /\ data' = data \cup {b} /\ linked' = linked \cup {b}
          /\ seq' = [seq EXCEPT ![b] = nextSeq] /\ nextSeq' = nextSeq + 1
          /\ unlinked' = unlinked /\ candidates' \subseteq candidates \cup {b}
      BY Zenon, <2>3, <3>1 DEF ReceivedBlockTransactions
    <3> QED
      BY <2>0, <2>3, <3>2
  <2> QED
    BY Zenon, <1>2, <2>1, <2>2, <2>3
<1>5. ASSUME NEW x \in data PROVE Sound(x)' <=> Sound(x)
  <2>1. Anc[x] \subseteq data
    BY Zenon, <1>1 DEF TreeInv, IndexOk
  <2> QED
    BY Zenon, <1>0, <1>4, <2>1 DEF Sound, Failed
<1>6. IndexOk(data, scripts)'
  <2>1. ASSUME NEW x \in data' PROVE Anc[x] \subseteq data'
    BY SMTT(60), <1>1, <1>3, <1>4, AncOfBlock DEF TreeInv, IndexOk
  <2> QED
    BY Zenon, <1>0, <1>1, <1>4, <2>1 DEF TreeInv, IndexOk
<1>7. TreeInv'
  BY Zenon, <1>0, <1>1, <1>3, <1>4, <1>5, <1>6 DEF TreeInv, Checked
<1>8. ThreadInv'
  BY Zenon, <1>0, <1>1, <1>4, <1>5 DEF ThreadInv, Checked
<1>9. RestartInv'
  <2>1. DiskInv' <=> DiskInv
    BY Zenon, <1>0 DEF DiskInv, IndexOk, Checked
  <2>2. scripts \cap Failed = {} => scripts \cap Failed' = {}
    BY Zenon, <1>0, <1>1, <1>4 DEF TreeInv, IndexOk, Failed
  <2> QED
    BY Zenon, <1>0, <1>1, <1>4, <2>1, <2>2 DEF RestartInv, Checked
<1> QED
  BY Zenon, <1>4, <1>5, <1>7, <1>8, <1>9 DEF SafeInv

\* FindMostWorkChain finds nothing to do.  Its marks are on no unmarked branch.
LEMMA StopKeepsSafe ==
    ASSUME SafeInv, NEW fmw, fmw = MostWork, StopActivating(fmw), mutex = "abc"
    PROVE  /\ SafeInv'
           /\ \A x \in Block : Sound(x) => Sound(x)'
<1>0. /\ UNCHANGED <<bad, index, data, linked, scripts, seq, unlinked, failedValid, failedBlocks,
                     tip, nextSeq, reverseSeq, target, toMark, byWork, disk, ops, restarts>>
      /\ failedChild' = failedChild \cup fmw.children
      /\ candidates' \subseteq candidates
      /\ mutex' \in {"abc", "free"} /\ mostWork' = None /\ locked' = FALSE
  BY Zenon DEF StopActivating, tree, counters, invalidation, bounds
<1>1. /\ TreeInv /\ ThreadInv /\ RestartInv
      /\ data \subseteq Block /\ tip \in Block /\ scripts \subseteq Block
      /\ Failed \in SUBSET Block
  BY Zenon DEF SafeInv, TreeInv, IndexOk, Failed
<1>2. \A x \in fmw.children : x \in Block /\ \E h \in Anc[x] : h # x /\ h \in Failed
  BY Zenon, <1>1, MostWorkFacts
<1>3. Failed' = Failed \cup fmw.children
  BY Zenon, <1>0 DEF Failed
<1>4. ASSUME NEW x \in Block, Sound(x) PROVE Sound(x)'
  <2>1. ASSUME NEW y \in Anc[x], y \in fmw.children PROVE FALSE
    <3>1. PICK h \in Anc[y] : h \in Failed
      BY Zenon, <1>2, <2>1
    <3> QED
      BY Zenon, <1>4, <3>1, AncTransitive DEF Sound
  <2> QED
    BY Zenon, <1>3, <1>4, <2>1 DEF Sound
<1>5. Genesis \notin fmw.children
  BY Zenon, <1>2, TreeAssumption
<1>6. TreeInv'
  BY Zenon, <1>0, <1>1, <1>2, <1>4, <1>5 DEF TreeInv, IndexOk, Checked
<1>7. ThreadInv'
  BY Zenon, <1>0 DEF ThreadInv
<1>8. RestartInv'
  <2>1. DiskInv' <=> DiskInv
    BY Zenon, <1>0 DEF DiskInv, IndexOk, Checked
  <2>2. scripts \cap Failed = {} => scripts \cap Failed' = {}
    <3> SUFFICES ASSUME scripts \cap Failed = {}, NEW x \in scripts, x \in fmw.children PROVE FALSE
      BY Zenon, <1>3
    <3>1. PICK h \in Anc[x] : h \in Failed
      BY Zenon, <1>2
    <3>2. h \in scripts \/ h = Genesis
      BY Zenon, <1>1, <3>1 DEF TreeInv, IndexOk
    <3>3. Genesis \notin Failed
      BY Zenon, <1>1 DEF TreeInv, Failed
    <3> QED
      BY Zenon, <3>1, <3>2, <3>3
  <2> QED
    BY Zenon, <1>0, <1>1, <2>1, <2>2 DEF RestartInv, Checked
<1> QED
  BY Zenon, <1>4, <1>6, <1>7, <1>8 DEF SafeInv

\* One turn of ActivateBestChain's inner loop.
LEMMA ReorganizeKeepsSafe ==
    ASSUME SafeInv, mutex = "abc", NEW fmw, fmw = MostWork, fmw.found \notin {None, tip},
           NEW step, step = StepTowards(fmw.found), Reorganize(fmw, step)
    PROVE  /\ SafeInv'
           /\ \A x \in Block : Sound(x)' => Sound(x)
           /\ \A x \in Block : Sound(x) /\ Anc[x] \cap bad = {} => Sound(x)'
<1> DEFINE mw == fmw.found
           start == IF locked THEN startTip ELSE tip
           aim == Aim(mw, step.rejected)
<1>0. /\ UNCHANGED <<bad, index, data, linked, seq, unlinked, nextSeq, reverseSeq,
                     target, toMark, byWork, ops, restarts>>
      /\ tip' = step.tip
      /\ scripts' = scripts \cup step.connected
      /\ failedValid' = failedValid \cup step.rejected
      /\ failedChild' = failedChild \cup fmw.children
      /\ failedBlocks' = failedBlocks \cup step.rejected
      /\ candidates' \subseteq candidates
      /\ mutex' \in {"abc", "free"}
      /\ FlushDuring(step.passed \cup step.connected, step.connected)
  BY Zenon DEF Reorganize, counters, invalidation, bounds, Prune
<1>0a. /\ mostWork' # None => mutex' = "abc" /\ mostWork' = mw /\ step.rejected = {}
       /\ locked' => mutex' = "abc" /\ startTip' = start
  BY Zenon DEF Reorganize, Aim
<1>1. /\ TreeInv /\ ThreadInv /\ RestartInv
      /\ data \subseteq Block /\ tip \in Block /\ scripts \subseteq Block
      /\ Failed \in SUBSET Block /\ Genesis \notin Failed
      /\ bad \subseteq Block \ {Genesis}
      /\ IndexOk(data, scripts) /\ Checked(tip, scripts) /\ Sound(tip)
  BY Zenon DEF SafeInv, TreeInv, IndexOk, Failed
<1>2. /\ mw \in data /\ Sound(mw) /\ mw \in Block
      /\ \A x \in fmw.children : x \in Block /\ \E h \in Anc[x] : h # x /\ h \in Failed
  BY Zenon, <1>1, MostWorkFacts
<1>3. /\ step.tip \in Anc[mw]
      /\ step.connected \subseteq Anc[mw] \cap Anc[step.tip]
      /\ step.connected \cap bad = {}
      /\ Anc[step.tip] \subseteq Anc[tip] \cup step.connected
      /\ step.passed \subseteq Anc[tip]
      /\ step.rejected \subseteq bad \cap Anc[mw]
      /\ step.rejected \cap Anc[step.tip] = {}
  BY SMTT(60), <1>1, <1>2, StepFacts
<1>4. Failed' = Failed \cup fmw.children \cup step.rejected
  BY Zenon, <1>0 DEF Failed
<1>5. ASSUME NEW x \in Block, Sound(x), Anc[x] \cap step.rejected = {} PROVE Sound(x)'
  <2>1. ASSUME NEW y \in Anc[x], y \in fmw.children PROVE FALSE
    <3>1. PICK h \in Anc[y] : h \in Failed
      BY Zenon, <1>2, <2>1
    <3> QED
      BY Zenon, <1>5, <3>1, AncTransitive DEF Sound
  <2> QED
    BY Zenon, <1>4, <1>5, <2>1 DEF Sound
<1>6. Anc[mw] \subseteq data /\ step.tip \in data /\ step.connected \subseteq data
  BY Zenon, <1>1, <1>2, <1>3 DEF IndexOk
<1>7. /\ Anc[step.tip] \subseteq scripts \cup step.connected \cup {Genesis}
      /\ \A x \in step.connected : Anc[x] \subseteq Anc[step.tip]
  BY Zenon, <1>1, <1>3, <1>6, AncTransitive DEF Checked
<1>8. Genesis \notin fmw.children
  BY Zenon, <1>2, TreeAssumption
<1>9. IndexOk(data, scripts)'
  BY SMTT(60), <1>0, <1>1, <1>3, <1>6, <1>7 DEF IndexOk
<1>10. Sound(step.tip)'
  BY SMTT(60), <1>1, <1>2, <1>3, <1>5, <1>6, SoundDown
<1>11. TreeInv'
  <2>1. Sound(tip)'
    BY Zenon, <1>0, <1>10 DEF Sound
  <2>2. Checked(tip, scripts)'
    BY Zenon, <1>0, <1>7 DEF Checked
  <2> QED
    BY <1>0, <1>1, <1>2, <1>3, <1>6, <1>8, <1>9, <2>1, <2>2 DEF TreeInv
<1>12. start \in data /\ Checked(start, scripts) /\ Sound(start)
  BY Zenon, <1>1 DEF ThreadInv, TreeInv
<1>13. ThreadInv'
  <2>1. ASSUME mostWork' # None
        PROVE  mutex' = "abc" /\ mostWork' \in data' /\ tip' \in Anc[mostWork'] /\ Sound(mostWork)'
    <3>1. Sound(mw)'
      BY Zenon, <1>0a, <1>2, <1>5, <2>1
    <3>2. mostWork' = mw
      BY Zenon, <1>0a, <2>1
    <3>3. Sound(mostWork)'
      BY Zenon, <3>1, <3>2 DEF Sound
    <3> QED
      BY Zenon, <1>0, <1>0a, <1>2, <1>3, <2>1, <3>2, <3>3
  <2>2. ASSUME locked'
        PROVE  mutex' = "abc" /\ startTip' \in data' /\ Checked(startTip, scripts)' /\ Sound(startTip)'
    <3>1. startTip' = start /\ mutex' = "abc"
      BY Zenon, <1>0a, <2>2
    <3>2. PICK s : s = start
      BY Zenon
    <3> HIDE DEF start
    <3>3. s \in data /\ Checked(s, scripts) /\ Sound(s) /\ s \in Block
      BY Zenon, <1>1, <1>12, <3>2
    <3>4. Anc[s] \cap step.rejected = {}
      BY Zenon, <1>1, <1>3, <3>3 DEF Checked, IndexOk
    <3>5. Sound(s)'
      BY Zenon, <1>5, <3>3, <3>4
    <3>6. Checked(s, scripts)'
      BY Zenon, <1>0, <3>3 DEF Checked
    <3> QED
      BY Zenon, <1>0, <3>1, <3>2, <3>3, <3>5, <3>6 DEF Sound, Checked
  <2>3. mutex' # "inv" /\ mutex' \in {"abc", "inv", "free"}
    BY Zenon, <1>0
  <2> QED
    BY Zenon, <2>1, <2>2, <2>3 DEF ThreadInv
<1>14. RestartInv'
  <2>0. CASE restarts = MaxRestarts
    <3>1. ~(restarts < MaxRestarts)
      BY SMTT(60), <2>0, BoundsAssumption
    <3> QED
      BY Zenon, <1>0, <1>1, <3>1 DEF RestartInv
  <2>1. CASE restarts < MaxRestarts
    <3>1. /\ ops = MaxOps /\ scripts \cap Failed = {}
          /\ disk.tip \in data /\ Checked(disk.tip, scripts) /\ DiskInv
      BY Zenon, <1>1, <2>1 DEF RestartInv
    <3>2. scripts' \cap Failed' = {}
      <4>1. ASSUME NEW x \in scripts' PROVE x \notin Failed /\ x \notin step.rejected /\ x \in Block
        BY Zenon, <1>0, <1>1, <1>2, <1>3, <3>1, AncOfBlock DEF IndexOk, Sound
      <4>2. ASSUME NEW x \in scripts', x \in fmw.children PROVE FALSE
        <5>1. PICK h \in Anc[x] : h \in Failed
          BY Zenon, <1>2, <4>2
        <5>2. Anc[x] \subseteq scripts' \cup {Genesis}
          BY Zenon, <1>9 DEF IndexOk
        <5> QED
          BY Zenon, <1>1, <4>1, <5>1, <5>2
      <4> QED
        BY Zenon, <1>4, <4>1, <4>2
    <3>3. CASE disk' = disk
      <4>1. DiskInv'
        BY Zenon, <1>0, <3>1, <3>3 DEF DiskInv, IndexOk, Checked
      <4> QED
        BY Zenon, <1>0, <1>1, <3>1, <3>2, <3>3, <4>1 DEF RestartInv, Checked
    <3>4. CASE \E t \in step.passed \cup step.connected :
                  disk' = Written(t, step.connected \cap Anc[t])
      <4>1. PICK t \in step.passed \cup step.connected :
                  disk' = Written(t, step.connected \cap Anc[t])
        BY Zenon, <3>4
      <4> DEFINE scr == scripts \cup (step.connected \cap Anc[t])
      <4>2. /\ disk'.index = index /\ disk'.data = data /\ disk'.scripts = scr
            /\ disk'.failedValid = failedValid /\ disk'.failedChild = failedChild /\ disk'.tip = t
        BY Zenon, <4>1 DEF Written
      <4>3. t \in Anc[tip] \/ t \in step.connected
        BY Zenon, <1>3
      <4>4. t \in data /\ t \in Block
        BY Zenon, <1>1, <1>6, <4>3, AncOfBlock DEF IndexOk, TreeInv
      <4>5. Anc[t] \subseteq scr \cup {Genesis}
        <5>1. CASE t \in Anc[tip]
          BY Zenon, <1>1, <5>1, AncTransitive DEF Checked
        <5>2. CASE t \in step.connected
          BY Zenon, <1>7, <5>2
        <5> QED
          BY Zenon, <4>3, <5>1, <5>2
      <4>6. ASSUME NEW x \in scr PROVE x \in data /\ x \notin bad /\ Anc[x] \subseteq scr \cup {Genesis}
        <5>1. CASE x \in scripts
          BY Zenon, <1>1, <5>1 DEF IndexOk
        <5>2. CASE x \in step.connected \cap Anc[t]
          BY Zenon, <1>3, <1>6, <4>4, <4>5, <5>2, AncTransitive
        <5> QED
          BY Zenon, <5>1, <5>2
      <4>7. scr \cap (failedValid \cup failedChild) = {}
        BY Zenon, <1>2, <1>3, <3>1 DEF Failed, Sound
      <4> HIDE DEF scr
      <4>8. DiskInv'
        <5>1. IndexOk(disk.data, disk.scripts)'
          BY Zenon, <1>0, <1>1, <4>2, <4>6 DEF IndexOk
        <5> QED
          BY Zenon, <1>1, <4>2, <4>4, <4>5, <4>7, <5>1 DEF DiskInv, TreeInv, Checked
      <4>9. disk'.tip \in data' /\ Checked(disk.tip, scripts)'
        BY Zenon, <1>0, <4>2, <4>4, <4>5 DEF Checked, scr
      <4> QED
        BY Zenon, <1>0, <1>1, <3>1, <3>2, <4>8, <4>9 DEF RestartInv
    <3> QED
      BY Zenon, <1>0, <3>3, <3>4 DEF FlushDuring
  <2> QED
    BY SMTT(60), <1>1, <2>0, <2>1, BoundsAssumption DEF RestartInv
<1>15. ASSUME NEW x \in Block, Sound(x)' PROVE Sound(x)
  BY Zenon, <1>4, <1>15 DEF Sound
<1>16. ASSUME NEW x \in Block, Sound(x), Anc[x] \cap bad = {} PROVE Sound(x)'
  BY SMTT(60), <1>3, <1>5, <1>16
<1> QED
  BY Zenon, <1>11, <1>13, <1>14, <1>15, <1>16 DEF SafeInv

\* Steps that leave the tree, the marks and the disk alone.
LEMMA FrameKeepsSafe ==
    ASSUME SafeInv, ThreadInv',
           UNCHANGED <<bad, index, data, linked, scripts, unlinked, failedValid, failedChild,
                       failedBlocks, tip, disk, restarts>>,
           seq' \in [Block -> Int], nextSeq' \in Int, reverseSeq' \in Int,
           candidates' \subseteq data, ops' \in ops .. MaxOps,
           restarts < MaxRestarts => mutex' # "inv"
    PROVE  SafeInv' /\ \A x \in Block : Sound(x)' <=> Sound(x)
<1>1. TreeInv'
  BY Zenon DEF SafeInv, TreeInv, IndexOk, Checked, Sound, Failed
<1>2. RestartInv'
  <2>1. DiskInv' <=> DiskInv
    BY Zenon DEF DiskInv, IndexOk, Checked
  <2>2. ops \in 0 .. MaxOps /\ ops' \in 0 .. MaxOps /\ (ops = MaxOps => ops' = MaxOps)
    BY BoundsAssumption DEF SafeInv, RestartInv
  <2> QED
    BY Zenon, <2>1, <2>2 DEF SafeInv, RestartInv, Checked, Failed
<1>3. \A x \in Block : Sound(x)' <=> Sound(x)
  BY Zenon DEF Sound, Failed
<1> QED
  BY Zenon, <1>1, <1>2, <1>3 DEF SafeInv

\* ActivateBestChain takes m_chainstate_mutex.
LEMMA StartKeepsSafe ==
    ASSUME SafeInv, ActivateBestChain
    PROVE  SafeInv' /\ \A x \in Block : Sound(x)' <=> Sound(x)
<1>1. /\ UNCHANGED <<bad, index, data, linked, scripts, unlinked, failedValid, failedChild,
                     failedBlocks, tip, disk, restarts, seq, nextSeq, reverseSeq, candidates, ops>>
      /\ ~locked /\ UNCHANGED locked /\ mutex' = "abc" /\ mostWork' = None
  BY Zenon DEF ActivateBestChain, tree, failure, counters, bounds
<1>2. /\ seq \in [Block -> Int] /\ nextSeq \in Int /\ reverseSeq \in Int /\ candidates \subseteq data
      /\ ops \in ops .. MaxOps
  BY BoundsAssumption DEF SafeInv, TreeInv, RestartInv
<1>3. ThreadInv'
  BY Zenon, <1>1 DEF ThreadInv
<1> QED
  BY Zenon, <1>1, <1>2, <1>3, FrameKeepsSafe

\* An RPC is called only in a behaviour without restarts to come.
LEMMA RPCWithoutRestart ==
    ASSUME SafeInv, NEW name, UseRPC(name)
    PROVE  ~locked /\ ops' \in ops .. MaxOps /\ ops' \in 0 .. MaxOps /\ restarts = MaxRestarts
  BY BoundsAssumption DEF SafeInv, RestartInv, UseRPC

\* InvalidateBlock takes m_chainstate_mutex and looks for later candidates.
LEMMA InvalidateKeepsSafe ==
    ASSUME SafeInv, NEW b \in Block, InvalidateBlock(b)
    PROVE  SafeInv' /\ \A x \in Block : Sound(x)' <=> Sound(x)
<1>1. /\ UNCHANGED <<bad, index, data, linked, scripts, unlinked, failedValid, failedChild,
                     failedBlocks, tip, disk, restarts, seq, nextSeq, reverseSeq, candidates>>
      /\ UseRPC("invalidateblock") /\ mutex = "free" /\ b \in index \ {Genesis}
      /\ mutex' = "inv" /\ target' = b /\ toMark' = b /\ UNCHANGED <<locked, mostWork>>
      /\ byWork' \subseteq linked
  BY Zenon DEF InvalidateBlock, tree, failure, counters, activation
<1>2. /\ seq \in [Block -> Int] /\ nextSeq \in Int /\ reverseSeq \in Int /\ candidates \subseteq data
      /\ linked = data
  BY Zenon DEF SafeInv, TreeInv
<1>3. ~locked /\ ops' \in ops .. MaxOps /\ restarts = MaxRestarts
  BY Zenon, <1>1, RPCWithoutRestart
<1>4. ~(restarts < MaxRestarts)
  BY <1>3, BoundsAssumption
<1>5. ThreadInv'
  BY Zenon, <1>1, <1>2, <1>3 DEF SafeInv, ThreadInv
<1> QED
  BY Zenon, <1>1, <1>2, <1>3, <1>4, <1>5, FrameKeepsSafe

\* InvalidateBlock disconnects a block: it is marked and leaves the chain with
\* its mark.  The block below it has none, so the condition for replacing
\* BLOCK_FAILED_VALID by BLOCK_FAILED_CHILD never holds.
LEMMA DisconnectKeepsSafe ==
    ASSUME SafeInv, InvalidateDisconnect
    PROVE  /\ SafeInv'
           /\ tip # Genesis /\ tip' = Parent[tip]
           /\ failedValid' = failedValid \cup {tip} /\ failedChild' = failedChild
           /\ \A x \in Block : Sound(x)' => Sound(x)
<1> DEFINE prev == Parent[tip]
           remark == prev = toMark /\ toMark \in failedValid
<1>0. /\ UNCHANGED <<bad, index, data, linked, scripts, unlinked, failedBlocks, seq, nextSeq,
                     reverseSeq, mutex, locked, mostWork, startTip, target, ops, restarts>>
      /\ ~locked /\ mutex = "inv" /\ target \in Anc[tip]
      /\ tip' = prev /\ toMark' = tip /\ byWork' \subseteq byWork
      /\ candidates' \subseteq candidates \cup {prev} \cup byWork
  BY Zenon DEF InvalidateDisconnect, tree, counters, activation, bounds
<1>1. /\ TreeInv /\ ThreadInv /\ RestartInv
      /\ data \subseteq Block /\ tip \in data /\ IndexOk(data, scripts) /\ Sound(tip)
      /\ Checked(tip, scripts) /\ byWork \subseteq data /\ target # Genesis
  BY Zenon, <1>0 DEF SafeInv, TreeInv, ThreadInv, IndexOk
<1>2. tip # Genesis
  BY Zenon, <1>0, <1>1, TreeAssumption
<1>3. /\ prev \in Block /\ prev \in Anc[tip] /\ Anc[tip] = Anc[prev] \cup {tip}
      /\ tip \notin Anc[prev]
  BY Zenon, <1>1, <1>2, AncOfBlock
<1>4. ~remark
  BY Zenon, <1>1, <1>3 DEF Sound, Failed
<1>5. failedValid' = failedValid \cup {tip} /\ failedChild' = failedChild
  BY Zenon, <1>4 DEF InvalidateDisconnect
<1>6. prev \in data
  BY Zenon, <1>1, <1>3 DEF IndexOk
<1>7. TreeInv'
  BY SMTT(60), <1>0, <1>1, <1>2, <1>3, <1>5, <1>6 DEF TreeInv, IndexOk, Checked, Sound, Failed
<1>8. ThreadInv'
  BY Zenon, <1>0, <1>1, <1>2, <1>3 DEF ThreadInv
<1>9. RestartInv'
  BY Zenon, <1>0, <1>1 DEF RestartInv
<1>10. \A x \in Block : Sound(x)' => Sound(x)
  BY Zenon, <1>5 DEF Sound, Failed
<1> QED
  BY Zenon, <1>0, <1>2, <1>5, <1>7, <1>8, <1>9, <1>10 DEF SafeInv

\* The last part of InvalidateBlock marks a block outside the active chain.
LEMMA FinishKeepsSafe ==
    ASSUME SafeInv, InvalidateFinish
    PROVE  SafeInv' /\ toMark \notin Anc[tip]
<1>0. /\ UNCHANGED <<bad, index, data, linked, scripts, unlinked, seq, nextSeq, failedChild, tip,
                     reverseSeq, locked, mostWork, startTip, disk, ops, restarts>>
      /\ ~locked /\ mutex = "inv" /\ target \notin Anc[tip] /\ mutex' = "free"
      /\ failedValid' = failedValid \cup {toMark} /\ failedBlocks' = failedBlocks \cup {toMark}
      /\ candidates' \subseteq candidates \cup linked
  BY Zenon DEF InvalidateFinish, Missed, tree, counters, activation, bounds
<1>1. TreeInv /\ ThreadInv /\ RestartInv
  BY Zenon DEF SafeInv
<1>2. toMark \in Block \ {Genesis} /\ toMark \notin Anc[tip] /\ mostWork = None
  BY Zenon, <1>0, <1>1 DEF ThreadInv
<1>3. TreeInv'
  BY Zenon, <1>0, <1>1, <1>2 DEF TreeInv, IndexOk, Checked, Sound, Failed
<1>4. ThreadInv'
  BY Zenon, <1>0, <1>2 DEF ThreadInv
<1>5. RestartInv'
  BY Zenon, <1>0, <1>1 DEF RestartInv
<1> QED
  BY Zenon, <1>2, <1>3, <1>4, <1>5 DEF SafeInv

\* reconsiderblock only takes marks away.
LEMMA ReconsiderKeepsSafe ==
    ASSUME SafeInv, NEW b \in Block, ReconsiderBlock(b)
    PROVE  SafeInv'
<1>0. /\ UNCHANGED <<bad, index, data, linked, scripts, unlinked, seq, nextSeq, tip, reverseSeq,
                     mutex, locked, mostWork, startTip, target, toMark, byWork, disk, restarts>>
      /\ UseRPC("reconsiderblock")
      /\ failedValid' \subseteq failedValid /\ failedChild' \subseteq failedChild
      /\ candidates' \subseteq candidates \cup linked
  BY Zenon DEF ReconsiderBlock, ClearFailure, tree, counters, activation, invalidation
<1>1. failedBlocks \subseteq failedValid => failedBlocks' \subseteq failedValid'
  BY Zenon DEF ReconsiderBlock, ClearFailure
<1>2. TreeInv /\ ThreadInv /\ RestartInv
  BY Zenon DEF SafeInv
<1>3. ops' \in 0 .. MaxOps /\ restarts = MaxRestarts
  BY Zenon, <1>0, RPCWithoutRestart
<1>4. \A x : Sound(x) => Sound(x)'
  BY Zenon, <1>0 DEF Sound, Failed
<1>5. TreeInv'
  BY Zenon, <1>0, <1>1, <1>2, <1>4 DEF TreeInv, IndexOk, Checked
<1>6. ThreadInv'
  BY Zenon, <1>0, <1>2, <1>4 DEF ThreadInv, Checked
<1>7. RestartInv'
  BY <1>0, <1>2, <1>3, BoundsAssumption DEF RestartInv
<1> QED
  BY Zenon, <1>5, <1>6, <1>7 DEF SafeInv

\* preciousblock changes ids and candidates only.
LEMMA PreciousKeepsSafe ==
    ASSUME SafeInv, NEW b \in Block, PreciousBlock(b)
    PROVE  SafeInv' /\ \A x \in Block : Sound(x)' <=> Sound(x)
<1> DEFINE rs == IF ChainTrust[tip] > lastPrecious THEN -1 ELSE reverseSeq
<1>1. /\ UNCHANGED <<bad, index, data, linked, scripts, unlinked, failedValid, failedChild,
                     failedBlocks, tip, nextSeq, mutex, locked, mostWork, startTip, target, toMark,
                     byWork, disk, restarts>>
      /\ UseRPC("preciousblock")
  BY Zenon DEF PreciousBlock, failure, activation, invalidation
<1>2. \/ UNCHANGED <<seq, candidates, reverseSeq>>
      \/ /\ seq' = [seq EXCEPT ![b] = rs] /\ reverseSeq' = rs - 1
         /\ candidates' \subseteq candidates \cup ({b} \cap data)
  BY Zenon DEF PreciousBlock, ValidTransactions, Prune
<1>3. /\ seq \in [Block -> Int] /\ nextSeq \in Int /\ reverseSeq \in Int /\ candidates \subseteq data
      /\ ThreadInv
  BY Zenon DEF SafeInv, TreeInv
<1>4. ops' \in ops .. MaxOps /\ restarts = MaxRestarts
  BY Zenon, <1>1, RPCWithoutRestart
<1>5. ~(restarts < MaxRestarts) /\ rs \in Int
  BY <1>3, <1>4, BoundsAssumption
<1> HIDE DEF rs
<1>6. seq' \in [Block -> Int] /\ reverseSeq' \in Int /\ candidates' \subseteq data
  BY <1>2, <1>3, <1>5
<1>7. ThreadInv'
  BY Zenon, <1>1, <1>3 DEF ThreadInv, Checked, Sound, Failed
<1> QED
  BY Zenon, <1>1, <1>3, <1>4, <1>5, <1>6, <1>7, FrameKeepsSafe

\* FlushStateToDisk writes a tree that a restart can start from.
LEMMA FlushKeepsSafe ==
    ASSUME SafeInv, FlushStateToDisk
    PROVE  SafeInv' /\ \A x \in Block : Sound(x)' <=> Sound(x)
<1>0. /\ UNCHANGED <<bad, index, data, linked, scripts, unlinked, failedValid, failedChild, seq,
                     failedBlocks, candidates, tip, nextSeq, reverseSeq, mutex, locked, mostWork,
                     startTip, target, toMark, byWork, ops, restarts>>
      /\ restarts < MaxRestarts
  BY Zenon DEF FlushStateToDisk, tree, failure, counters, activation, invalidation, bounds
<1>1. TreeInv /\ ThreadInv /\ RestartInv
  BY Zenon DEF SafeInv
<1>2. PICK t \in {disk.tip, tip} : disk' = Written(t, {})
  BY Zenon DEF FlushStateToDisk
<1>3. /\ disk'.index = index /\ disk'.data = data /\ disk'.scripts = scripts
      /\ disk'.failedValid = failedValid /\ disk'.failedChild = failedChild /\ disk'.tip = t
  BY Zenon, <1>2 DEF Written
<1>4. t \in data /\ Checked(t, scripts) /\ scripts \cap Failed = {}
  BY Zenon, <1>0, <1>1, <1>2 DEF RestartInv, TreeInv
<1>5. DiskInv'
  BY Zenon, <1>0, <1>1, <1>3, <1>4 DEF DiskInv, TreeInv, IndexOk, Checked, Failed
<1>6. RestartInv'
  BY Zenon, <1>0, <1>1, <1>3, <1>4, <1>5 DEF RestartInv, Checked, Failed
<1>7. TreeInv'
  BY Zenon, <1>0, <1>1 DEF TreeInv, IndexOk, Checked, Sound, Failed
<1>8. ThreadInv'
  BY Zenon, <1>0, <1>1 DEF ThreadInv, Checked, Sound, Failed
<1> QED
  BY Zenon, <1>0, <1>6, <1>7, <1>8 DEF SafeInv, Sound, Failed

\* A node that starts finds a tree that was written whole; the marks
\* LoadBlockIndex adds are on no branch that was connected.
LEMMA RestartKeepsSafe ==
    ASSUME SafeInv, Restart
    PROVE  /\ SafeInv'
           /\ {b \in disk.data : Anc[b] \subseteq disk.data} = data'
           /\ \A x \in failedChild' \ disk.failedChild :
                 x \in Block /\ \E v \in Anc[x] : v \in disk.failedValid \cup disk.failedChild
<1> DEFINE fails == disk.failedValid \cup disk.failedChild
           more  == {b \in disk.index \ disk.failedValid : (Anc[b] \ {b}) \cap fails # {}}
           whole == {b \in disk.data : Anc[b] \subseteq disk.data}
<1>0. /\ UNCHANGED <<bad, disk, ops>>
      /\ restarts < MaxRestarts /\ restarts' = restarts + 1
      /\ index' = disk.index /\ data' = disk.data /\ scripts' = disk.scripts
      /\ linked' = whole /\ unlinked' = disk.data \ whole
      /\ seq' = [b \in Block |-> 0]
      /\ failedValid' = disk.failedValid /\ failedChild' = disk.failedChild \cup more
      /\ failedBlocks' = {} /\ tip' = disk.tip /\ candidates' \subseteq whole
      /\ nextSeq' = 1 /\ reverseSeq' = -1
      /\ mutex' = "free" /\ locked' = FALSE /\ mostWork' = None
  BY Zenon DEF Restart, Prune
<1>1. /\ TreeInv /\ ThreadInv /\ RestartInv /\ DiskInv
      /\ ops = MaxOps
  BY Zenon, <1>0 DEF SafeInv, RestartInv
<1>2. /\ disk.data \subseteq disk.index /\ disk.index \subseteq Block
      /\ IndexOk(disk.data, disk.scripts)
      /\ disk.failedValid \subseteq Block \ {Genesis} /\ disk.failedChild \subseteq Block \ {Genesis}
      /\ disk.scripts \cap fails = {} /\ Genesis \notin fails
      /\ disk.tip \in disk.data /\ Checked(disk.tip, disk.scripts)
  BY Zenon, <1>1 DEF DiskInv
<1>3. whole = disk.data
  BY Zenon, <1>2 DEF IndexOk
<1>4. \A x \in more : x \in Block /\ x # Genesis /\ \E v \in Anc[x] : v \in fails
  BY Zenon, <1>2, TreeAssumption
<1>5. ASSUME NEW x \in disk.scripts PROVE x \notin fails \cup more
  BY Zenon, <1>2, <1>4 DEF IndexOk
<1> HIDE DEF more, fails
<1>6. Failed' = fails \cup more
  BY Zenon, <1>0 DEF Failed, fails
<1>7. Sound(tip)'
  <2>1. Genesis \notin more
    BY Zenon, <1>4
  <2>2. Anc[disk.tip] \cap (fails \cup more) = {}
    BY Zenon, <1>2, <1>5, <2>1 DEF Checked
  <2> QED
    BY Zenon, <1>0, <1>6, <2>2 DEF Sound
<1>8. TreeInv'
  <2>1. IndexOk(data, scripts)' /\ Checked(tip, scripts)'
    BY Zenon, <1>0, <1>2 DEF IndexOk, Checked
  <2> QED
    BY SMTT(60), <1>0, <1>1, <1>2, <1>3, <1>4, <1>7, <2>1 DEF TreeInv
<1>9. ThreadInv'
  BY Zenon, <1>0 DEF ThreadInv
<1>10. RestartInv'
  <2>1. DiskInv'
    BY Zenon, <1>0, <1>1 DEF DiskInv, IndexOk, Checked
  <2>2. scripts' \cap Failed' = {}
    BY Zenon, <1>0, <1>5, <1>6
  <2>3. restarts' \in 0 .. MaxRestarts /\ ops \in 0 .. MaxOps
    BY SMTT(60), <1>0, <1>1, BoundsAssumption DEF RestartInv
  <2> QED
    BY Zenon, <1>0, <1>1, <1>2, <2>1, <2>2, <2>3 DEF RestartInv, Checked
<1> QED
  BY SMTT(60), <1>0, <1>3, <1>4, <1>8, <1>9, <1>10 DEF SafeInv, fails

\* Every step keeps the invariant of the tree, the threads and the disk.
LEMMA SafeNext ==
    ASSUME SafeInv, [Next]_vars
    PROVE  SafeInv'
<1>1. ASSUME NEW b \in Block, AcceptBlockHeader(b) PROVE SafeInv'
  BY Zenon, <1>1, HeaderKeepsSafe
<1>2. ASSUME NEW b \in Block, NEW fRequested \in BOOLEAN, NEW passes \in BOOLEAN,
             AcceptBlock(b, fRequested, passes)
      PROVE  SafeInv'
  BY Zenon, <1>2, AcceptKeepsSafe
<1>3. ASSUME NEW b \in Block, InvalidateBlock(b) PROVE SafeInv'
  BY Zenon, <1>3, InvalidateKeepsSafe
<1>4. ASSUME NEW b \in Block, ReconsiderBlock(b) PROVE SafeInv'
  BY Zenon, <1>4, ReconsiderKeepsSafe
<1>5. ASSUME NEW b \in Block, PreciousBlock(b) PROVE SafeInv'
  BY Zenon, <1>5, PreciousKeepsSafe
<1>6. CASE ActivateBestChain
  BY Zenon, <1>6, StartKeepsSafe
<1>7. CASE ActivateBestChainStep
  <2>1. PICK fmw : /\ fmw = MostWork /\ mutex = "abc"
                   /\ \/ StopActivating(fmw)
                      \/ /\ fmw.found \notin {None, tip}
                         /\ \E step \in {StepTowards(fmw.found)} : Reorganize(fmw, step)
    BY Zenon, <1>7 DEF ActivateBestChainStep
  <2>2. CASE StopActivating(fmw)
    BY Zenon, <2>1, <2>2, StopKeepsSafe
  <2>3. ASSUME NEW step, step = StepTowards(fmw.found), fmw.found \notin {None, tip},
               Reorganize(fmw, step)
        PROVE  SafeInv'
    BY Zenon, <2>1, <2>3, ReorganizeKeepsSafe
  <2> QED
    BY Zenon, <2>1, <2>2, <2>3
<1>8. CASE InvalidateDisconnect
  BY Zenon, <1>8, DisconnectKeepsSafe
<1>9. CASE InvalidateFinish
  BY Zenon, <1>9, FinishKeepsSafe
<1>10. CASE FlushStateToDisk
  BY Zenon, <1>10, FlushKeepsSafe
<1>11. CASE Restart
  BY Zenon, <1>11, RestartKeepsSafe
<1>12. CASE UNCHANGED vars
  BY Zenon, <1>12 DEF vars, tree, failure, counters, activation, invalidation, bounds, SafeInv, TreeInv,
               ThreadInv, RestartInv, DiskInv, IndexOk, Checked, Sound, Failed
<1> QED
  BY Zenon, <1>1, <1>2, <1>3, <1>4, <1>5, <1>6, <1>7, <1>8, <1>9, <1>10, <1>11, <1>12 DEF Next

\* So it always holds.
LEMMA SafeHolds == ASSUME Apart PROVE Spec => []SafeInv
  BY SafeInit, SafeNext, PTL DEF Spec

\* Whatever blocks arrive, whatever the operator invalidates and reconsiders and
\* wherever the node stops: the active chain holds no block that ConnectBlock
\* rejects or that is marked as failed, and BLOCK_VALID_SCRIPTS is only set on
\* branches that were connected from genesis up.
THEOREM ActiveChainAlwaysValid == ASSUME Apart PROVE Spec => []ActiveChainValid
<1>1. ASSUME SafeInv PROVE ActiveChainValid
  BY Zenon, <1>1 DEF SafeInv, TreeInv, IndexOk, Checked, Sound, ActiveChainValid
<1> QED
  BY <1>1, SafeHolds, PTL

-----------------------------------------------------------------------------
(* Failure marks have a cause.                                             *)

\* A block is marked above one that failed itself, and reconsiderblock takes the
\* marks above away with the cause.
LEMMA CausedNext ==
    ASSUME SafeInv, CausedInv, RootsOnly, [Next]_vars
    PROVE  CausedInv'
<1> DEFINE Same == UNCHANGED <<failedValid, failedChild, disk, restarts>>
<1>0. Same => CausedInv'
  BY Zenon DEF CausedInv, Caused
<1>00. Failed \subseteq Block /\ Caused(failedValid, failedChild) /\ TreeInv /\ ThreadInv
  BY Zenon DEF SafeInv, TreeInv, Failed, CausedInv
<1>1. ASSUME NEW b \in Block, AcceptBlockHeader(b) PROVE CausedInv'
  <2>1. UNCHANGED <<failedValid, disk, restarts>>
    BY Zenon, <1>1 DEF AcceptBlockHeader, bounds
  <2>2. \A x \in failedChild' \ failedChild : \E v \in Anc[x] : v \in failedValid
    BY Zenon, <1>1, <1>00, HeaderMarks
  <2> QED
    BY Zenon, <2>1, <2>2 DEF CausedInv, Caused
<1>2. ASSUME NEW b \in Block, NEW fRequested \in BOOLEAN, NEW passes \in BOOLEAN,
             AcceptBlock(b, fRequested, passes)
      PROVE  CausedInv'
  <2>1. UNCHANGED <<failedChild, disk, restarts>> /\ failedValid \subseteq failedValid'
    BY Zenon, <1>2 DEF AcceptBlock, bounds
  <2> QED
    BY Zenon, <2>1 DEF CausedInv, Caused
<1>3. ASSUME NEW b \in Block, InvalidateBlock(b) PROVE CausedInv'
  BY Zenon, <1>0, <1>3 DEF InvalidateBlock, failure
<1>4. ASSUME NEW b \in Block, ReconsiderBlock(b) PROVE CausedInv'
  <2>1. PICK gone : /\ gone = {x \in Failed : b \in Anc[x]} \cup (Failed \cap Anc[b])
                    /\ failedValid' = failedValid \ gone /\ failedChild' = failedChild \ gone
                    /\ UNCHANGED <<disk, restarts>>
                    /\ Failed \cap Anc[b] \subseteq {b}
    BY Zenon, <1>4 DEF ReconsiderBlock, ClearFailure
  <2>2. ASSUME NEW x \in failedChild' PROVE \E v \in Anc[x] : v \in failedValid'
    <3>1. PICK v \in Anc[x] : v \in failedValid
      BY Zenon, <1>00, <2>1 DEF Caused
    <3>2. x \in Block /\ b \notin Anc[x] /\ v \in Block
      BY Zenon, <1>00, <2>1, <3>1 DEF Failed
    <3>3. b \notin Anc[v] /\ v # b
      BY Zenon, <3>1, <3>2, AncOfBlock, AncTransitive
    <3> QED
      BY Zenon, <2>1, <3>1, <3>3
  <2> QED
    BY Zenon, <2>1, <2>2 DEF CausedInv, Caused
<1>5. ASSUME NEW b \in Block, PreciousBlock(b) PROVE CausedInv'
  BY Zenon, <1>0, <1>5 DEF PreciousBlock, failure
<1>6. CASE ActivateBestChain
  BY Zenon, <1>0, <1>6 DEF ActivateBestChain, failure, bounds
<1>7. CASE ActivateBestChainStep
  <2>1. PICK fmw : /\ fmw = MostWork /\ mutex = "abc"
                   /\ \/ StopActivating(fmw)
                      \/ \E step \in {StepTowards(fmw.found)} : Reorganize(fmw, step)
    BY Zenon, <1>7 DEF ActivateBestChainStep
  <2>2. \A x \in fmw.children : x \in Block /\ \E h \in Anc[x] : h \in Failed
    BY Zenon, <1>00, <2>1, MostWorkFacts
  <2>3. /\ failedChild' = failedChild \cup fmw.children /\ failedValid \subseteq failedValid'
        /\ UNCHANGED restarts
        /\ \/ UNCHANGED disk
           \/ disk'.failedValid = failedValid /\ disk'.failedChild = failedChild
    <3>1. CASE StopActivating(fmw)
      BY Zenon, <3>1 DEF StopActivating, bounds
    <3>2. ASSUME NEW step, Reorganize(fmw, step)
          PROVE  /\ failedChild' = failedChild \cup fmw.children
                 /\ failedValid \subseteq failedValid' /\ UNCHANGED restarts
                 /\ \/ UNCHANGED disk
                    \/ disk'.failedValid = failedValid /\ disk'.failedChild = failedChild
      <4>1. /\ failedChild' = failedChild \cup fmw.children
            /\ failedValid \subseteq failedValid' /\ UNCHANGED restarts
            /\ FlushDuring(step.passed \cup step.connected, step.connected)
        BY Zenon, <3>2 DEF Reorganize, bounds
      <4> QED
        BY SMTT(60), <4>1 DEF FlushDuring, Written
    <3> QED
      BY Zenon, <2>1, <3>1, <3>2
  <2>4. ASSUME NEW x \in fmw.children PROVE \E v \in Anc[x] : v \in failedValid
    <3>1. PICK h \in Anc[x] : h \in Failed
      BY Zenon, <2>2
    <3>2. PICK v \in Anc[h] : v \in failedValid
      BY Zenon, <1>00, <3>1, AncOfBlock DEF Caused, Failed
    <3> QED
      BY Zenon, <2>2, <3>1, <3>2, AncTransitive
  <2> QED
    BY Zenon, <2>3, <2>4 DEF CausedInv, Caused
<1>8. CASE InvalidateDisconnect
  <2>1. /\ failedValid \subseteq failedValid' /\ UNCHANGED <<failedChild, restarts>>
        /\ \/ UNCHANGED disk
           \/ disk'.failedValid = failedValid /\ disk'.failedChild = failedChild
    <3>1. failedValid' = failedValid \cup {tip} /\ failedChild' = failedChild
      BY Zenon, <1>8, DisconnectKeepsSafe
    <3>2. FlushDuring({Parent[tip]}, {}) /\ restarts' = restarts
      BY Zenon, <1>8 DEF InvalidateDisconnect, bounds
    <3>3. \/ UNCHANGED disk
          \/ disk'.failedValid = failedValid /\ disk'.failedChild = failedChild
      BY SMTT(60), <3>2 DEF FlushDuring, Written
    <3> QED
      BY Zenon, <3>1, <3>2, <3>3
  <2> QED
    BY Zenon, <2>1 DEF CausedInv, Caused
<1>9. CASE InvalidateFinish
  <2>1. failedValid \subseteq failedValid' /\ UNCHANGED <<failedChild, disk, restarts>>
    BY Zenon, <1>9 DEF InvalidateFinish, bounds
  <2> QED
    BY Zenon, <2>1 DEF CausedInv, Caused
<1>10. CASE FlushStateToDisk
  <2>1. /\ UNCHANGED <<failedValid, failedChild, restarts>>
        /\ disk'.failedValid = failedValid /\ disk'.failedChild = failedChild
    BY SMTT(60), <1>10 DEF FlushStateToDisk, failure, bounds, Written
  <2> QED
    BY Zenon, <2>1 DEF CausedInv, Caused
<1>11. CASE Restart
  <2>1. /\ UNCHANGED disk /\ failedValid' = disk.failedValid /\ restarts < MaxRestarts
        /\ disk.failedChild \subseteq Block
    BY Zenon, <1>11 DEF Restart, SafeInv, RestartInv, DiskInv
  <2>2. \A x \in failedChild' \ disk.failedChild :
           x \in Block /\ \E v \in Anc[x] : v \in disk.failedValid \cup disk.failedChild
    BY Zenon, <1>11, RestartKeepsSafe
  <2>3. Caused(disk.failedValid, disk.failedChild)
    BY Zenon, <2>1 DEF CausedInv
  <2>4. ASSUME NEW x \in failedChild' PROVE \E v \in Anc[x] : v \in disk.failedValid
    BY Zenon, <2>1, <2>2, <2>3, AncTransitive DEF Caused
  <2> QED
    BY Zenon, <2>1, <2>3, <2>4 DEF CausedInv, Caused
<1>12. CASE UNCHANGED vars
  BY Zenon, <1>0, <1>12 DEF vars, failure, bounds
<1> QED
  BY Zenon, <1>1, <1>2, <1>3, <1>4, <1>5, <1>6, <1>7, <1>8, <1>9, <1>10, <1>11, <1>12 DEF Next

-----------------------------------------------------------------------------
(* The candidates, and the aim of ActivateBestChain.                       *)

\* Ids of other blocks do not matter to the order of two.
LEMMA LessSame ==
    ASSUME NEW s, NEW t, NEW a, NEW b, s[a] = t[a], s[b] = t[b]
    PROVE  LessIn(s, a, b) <=> LessIn(t, a, b)
  BY Zenon DEF LessIn

\* Genesis is the tip and the only candidate.
LEMMA BestInit ==
    ASSUME Init, Apart
    PROVE  BestInv
<1>1. SafeInv
  BY Zenon, SafeInit
<1>2. seq \in [Block -> Int] /\ Genesis \in Block
  BY Zenon, <1>1, TreeAssumption DEF SafeInv, TreeInv
<1>3. ~Less(Genesis, Genesis)
  BY Zenon, <1>2, LessOrder DEF Less
<1>4. CandInv
  BY Zenon, <1>3 DEF Init, CandInv, Base
<1>5. GoalInv
  BY Zenon, <1>3 DEF Init, GoalInv
<1> QED
  BY Zenon, <1>1, <1>4, <1>5 DEF BestInv

\* The base is an unmarked branch that was connected, so that no step rejects
\* a block of it.
LEMMA BaseFacts ==
    ASSUME SafeInv
    PROVE  /\ Base \in data /\ Base \in Block /\ tip \in Block /\ Sound(Base) /\ Anc[Base] \cap bad = {}
           /\ seq \in [Block -> Int] /\ data \subseteq Block /\ candidates \subseteq data
           /\ Base \notin Failed /\ TreeInv /\ ThreadInv
<1>1. TreeInv /\ ThreadInv /\ data \subseteq Block
  BY Zenon DEF SafeInv, TreeInv, IndexOk
<1>2. Base \in data /\ Sound(Base) /\ Checked(Base, scripts)
  BY Zenon, <1>1 DEF TreeInv, ThreadInv, Base
<1>3. Anc[Base] \cap bad = {}
  BY Zenon, <1>1, <1>2 DEF Checked, TreeInv, IndexOk
<1>4. Base \notin Failed
  BY Zenon, <1>1, <1>2, SoundDown, AncOfBlock
<1> QED
  BY Zenon, <1>1, <1>2, <1>3, <1>4 DEF TreeInv

\* More failure marks ask for fewer candidates.
LEMMA MarksKeepBest ==
    ASSUME BestInv,
           UNCHANGED <<seq, candidates, data, tip, locked, startTip, mutex, mostWork>>,
           ~todo' => ~todo, Failed \cap data \subseteq Failed', \A x \in data : Sound(x)' => Sound(x)
    PROVE  CandInv' /\ GoalInv'
<1>1. CandInv'
  BY Zenon DEF BestInv, CandInv, Base, Less
<1>2. GoalInv'
  BY Zenon DEF BestInv, GoalInv, Less
<1> QED
  BY Zenon, <1>1, <1>2

\* AcceptBlock makes the block it stores a candidate unless it sorts below the
\* tip, and somebody will call ActivateBestChain.
LEMMA AcceptKeepsBest ==
    ASSUME BestInv, NEW b \in Block, NEW fRequested, NEW passes, AcceptBlock(b, fRequested, passes)
    PROVE  CandInv' /\ GoalInv'
<1>0. /\ UNCHANGED <<failedChild, tip, mutex, locked, mostWork, startTip>>
      /\ ~locked /\ ParentChecked(b)
  BY Zenon DEF AcceptBlock, activation
<1>1. /\ SafeInv /\ SafeInv' /\ CandInv /\ GoalInv
      /\ \A x \in data : Sound(x)' <=> Sound(x)
  BY Zenon, AcceptKeepsSafe DEF BestInv
<1>2. \/ UNCHANGED <<failedValid, data, seq, candidates>> /\ todo' = TRUE
      \/ /\ failedValid' = failedValid \cup {b}
         /\ UNCHANGED <<todo, data, seq, candidates>>
      \/ b \notin data /\ ReceivedBlockTransactions(b) /\ UNCHANGED failedValid /\ todo' = TRUE
  BY Zenon DEF AcceptBlock
<1>3. CASE UNCHANGED <<failedValid, data, seq, candidates>> /\ todo' = TRUE
  <2>1. Failed \cap data \subseteq Failed'
    BY Zenon, <1>0, <1>3 DEF Failed
  <2> QED
    BY Zenon, <1>0, <1>1, <1>3, <2>1, MarksKeepBest
<1>4. CASE failedValid' = failedValid \cup {b} /\ UNCHANGED <<todo, data, seq, candidates>>
  <2>1. Failed \cap data \subseteq Failed'
    BY Zenon, <1>0, <1>4 DEF Failed
  <2> QED
    BY Zenon, <1>0, <1>1, <1>4, <2>1, MarksKeepBest
<1>5. CASE b \notin data /\ ReceivedBlockTransactions(b) /\ UNCHANGED failedValid /\ todo' = TRUE
  <2>1. b # Genesis /\ Parent[b] \in data /\ linked = data
    BY Zenon, <1>0, <1>1, <1>5 DEF ParentChecked, ValidTransactions, SafeInv, TreeInv, IndexOk
  <2>2. /\ data' = data \cup {b} /\ seq' = [seq EXCEPT ![b] = nextSeq]
        /\ candidates' = candidates \cup (IF ~LessIn(seq', b, tip) THEN {b} ELSE {})
    BY Zenon, <1>5, <2>1 DEF ReceivedBlockTransactions, BecomesCandidate
  <2>3. /\ tip \in data /\ data \subseteq Block /\ candidates \subseteq data
        /\ seq \in [Block -> Int] /\ (mostWork # None => mostWork \in data)
    BY Zenon, <1>1 DEF SafeInv, TreeInv, IndexOk, ThreadInv
  <2>4. Base = tip /\ Base' = tip
    BY Zenon, <1>0 DEF Base
  <2>5. ASSUME NEW c \in data PROVE Less(c, tip)' <=> Less(c, tip)
    <3>1. seq'[c] = seq[c] /\ seq'[tip] = seq[tip]
      BY Zenon, <1>5, <2>2, <2>3, <2>5
    <3> QED
      BY Zenon, <1>0, <3>1, LessSame DEF Less
  <2>6. Less(b, tip)' <=> LessIn(seq', b, tip)
    BY Zenon, <1>0 DEF Less
  <2>7. Failed' = Failed
    BY Zenon, <1>0, <1>5 DEF Failed
  <2>8. \A c \in candidates' : ~Less(c, Base)'
    BY Zenon, <1>0, <1>1, <2>2, <2>3, <2>4, <2>5, <2>6 DEF CandInv, Less
  <2>9. mutex' # "inv" => \A c \in data' \ Failed' : ~Less(c, Base)' => c \in candidates'
    BY Zenon, <1>0, <1>1, <2>2, <2>3, <2>4, <2>5, <2>6, <2>7 DEF CandInv, Less
  <2>10. mostWork' # None => mostWork' # tip' /\ ~Less(mostWork, Base)'
    BY Zenon, <1>0, <1>1, <2>3, <2>4, <2>5 DEF CandInv, Less
  <2>11. CandInv'
    BY Zenon, <1>0, <1>1, <2>2, <2>4, <2>8, <2>9, <2>10 DEF CandInv
  <2>12. GoalInv'
    BY Zenon, <1>5 DEF GoalInv
  <2> QED
    BY Zenon, <2>11, <2>12
<1> QED
  BY Zenon, <1>2, <1>3, <1>4, <1>5

\* FindMostWorkChain aims at an unmarked branch that does not sort below the
\* base, and at one nothing sorts above unless a thread waits to look again.
\* Of the base it erases nothing.
LEMMA AimFacts ==
    ASSUME SafeInv, CandInv, GoalInv, mutex = "abc", NEW fmw, fmw = MostWork
    PROVE  /\ fmw.found \in data /\ Sound(fmw.found) /\ ~Less(fmw.found, Base)
           /\ mostWork = None \/ ~todo => \A b \in data : Sound(b) => ~Less(fmw.found, b)
           /\ fmw.found = tip => mostWork = None /\ ~locked
           /\ fmw.erased \subseteq Failed \cup fmw.children
<1>1. /\ Base \in data /\ Base \in Block /\ tip \in Block /\ Sound(Base) /\ seq \in [Block -> Int]
      /\ data \subseteq Block /\ candidates \subseteq data /\ TreeInv /\ ThreadInv
  BY Zenon, BaseFacts
<1>2. /\ fmw.found # None => fmw.found \in data /\ Sound(fmw.found)
      /\ fmw.erased \subseteq Failed \cup fmw.children
      /\ mostWork = None =>
            /\ fmw.found # None => fmw.found \in candidates
            /\ \A c \in candidates : Sound(c) => fmw.found # None /\ ~Less(fmw.found, c)
      /\ mostWork # None => fmw.found = mostWork
  BY Zenon, <1>1, MostWorkFacts
<1>3. CASE mostWork # None
  <2>1. fmw.found = mostWork /\ mostWork # tip /\ ~Less(mostWork, Base)
    BY Zenon, <1>2, <1>3 DEF CandInv
  <2>2. ~todo => \A b \in data : Sound(b) => ~Less(fmw.found, b)
    BY Zenon, <1>3, <2>1 DEF GoalInv
  <2> QED
    BY Zenon, <1>2, <1>3, <2>1, <2>2
<1>4. CASE mostWork = None
  <2>1. Base \in candidates
    BY Zenon DEF CandInv
  <2>2. fmw.found # None /\ fmw.found \in candidates
    BY Zenon, <1>1, <1>2, <1>4, <2>1
  <2>3. ~Less(fmw.found, Base)
    BY Zenon, <2>2 DEF CandInv
  <2>4. ASSUME NEW b \in data, Sound(b) PROVE ~Less(fmw.found, b)
    <3>1. b \in Block /\ b \notin Failed /\ fmw.found \in Block
      BY Zenon, <1>1, <2>2, <2>4, SoundDown, AncOfBlock
    <3>2. CASE Less(b, Base)
      BY Zenon, <1>1, <2>3, <3>1, <3>2, LessOrder DEF Less
    <3>3. CASE ~Less(b, Base)
      <4>1. b \in candidates
        BY Zenon, <2>4, <3>1, <3>3 DEF CandInv
      <4> QED
        BY Zenon, <1>2, <1>4, <2>4, <4>1
    <3> QED
      BY Zenon, <3>2, <3>3
  <2>5. fmw.found = tip => ~locked
    BY Zenon, <2>3 DEF CandInv, Base
  <2> QED
    BY Zenon, <1>2, <1>4, <2>2, <2>3, <2>4, <2>5
<1> QED
  BY Zenon, <1>3, <1>4

\* ActivateBestChain ends where it started only if that is the best.
LEMMA StopKeepsBest ==
    ASSUME BestInv, mutex = "abc", NEW fmw, fmw = MostWork, StopActivating(fmw)
    PROVE  CandInv' /\ GoalInv' /\ ~locked /\ tip' = tip
<1>0. /\ UNCHANGED <<data, seq, failedValid, tip, todo>>
      /\ fmw.found \in {None, tip}
      /\ failedChild' = failedChild \cup fmw.children
      /\ candidates' = candidates \ fmw.erased
      /\ mutex' \in {"abc", "free"} /\ mostWork' = None /\ locked' = FALSE
  BY Zenon DEF StopActivating, tree
<1>1. SafeInv /\ CandInv /\ GoalInv
  BY Zenon DEF BestInv
<1>2. /\ fmw.found \in data /\ ~Less(fmw.found, Base)
      /\ mostWork = None \/ ~todo => \A b \in data : Sound(b) => ~Less(fmw.found, b)
      /\ fmw.found = tip => mostWork = None /\ ~locked
      /\ fmw.erased \subseteq Failed \cup fmw.children
  BY Zenon, <1>1, AimFacts
<1>3. None \notin data
  BY Zenon, <1>1, TreeAssumption DEF SafeInv, TreeInv, IndexOk
<1>4. fmw.found = tip /\ mostWork = None /\ ~locked
  BY Zenon, <1>0, <1>2, <1>3
<1>5. SafeInv' /\ Failed' = Failed \cup fmw.children
  BY Zenon, <1>0, <1>1, StopKeepsSafe DEF Failed
<1>6. Base = tip /\ Base' = tip
  BY Zenon, <1>0, <1>4 DEF Base
<1>7. tip' \notin Failed'
  <2>1. Sound(tip)' /\ tip' \in Block
    BY Zenon, <1>5 DEF SafeInv, TreeInv, IndexOk
  <2> QED
    BY Zenon, <2>1, AncOfBlock DEF Sound
<1>8. CandInv'
  BY Zenon, <1>0, <1>1, <1>2, <1>5, <1>6, <1>7 DEF CandInv, Less
<1>9. GoalInv'
  <2>1. ASSUME NEW b \in data, Sound(b)' PROVE Sound(b)
    BY Zenon, <1>5, <2>1 DEF Sound
  <2> QED
    BY Zenon, <1>0, <1>2, <1>4, <2>1 DEF GoalInv, Less
<1> QED
  BY Zenon, <1>0, <1>4, <1>8, <1>9

\* A step that leaves the inner loop does not end below the base, and what it
\* leaves as candidates does not sort below the new tip: if nothing was
\* connected, the tip did not move.
LEMMA ReorganizeKeepsBest ==
    ASSUME BestInv, mutex = "abc", NEW fmw, fmw = MostWork, fmw.found \notin {None, tip},
           NEW step, step = StepTowards(fmw.found), Reorganize(fmw, step)
    PROVE  CandInv' /\ GoalInv' /\ (~locked' => ~Less(tip', Base))
<1>0. SafeInv /\ CandInv /\ GoalInv
  BY Zenon DEF BestInv
<1>1. /\ fmw.found \in data /\ Sound(fmw.found) /\ ~Less(fmw.found, Base)
      /\ mostWork = None \/ ~todo => \A b \in data : Sound(b) => ~Less(fmw.found, b)
      /\ fmw.erased \subseteq Failed \cup fmw.children
  BY Zenon, <1>0, AimFacts
<1>2. /\ Base \in data /\ Base \in Block /\ tip \in Block /\ Sound(Base) /\ Anc[Base] \cap bad = {}
      /\ seq \in [Block -> Int] /\ data \subseteq Block /\ candidates \subseteq data
  BY Zenon, <1>0, BaseFacts
<1>3. PICK start : start = Base
  BY Zenon
<1>4. PICK mw : mw = fmw.found
  BY Zenon
<1> DEFINE left    == (candidates \ fmw.erased) \ step.rejected
           again   == Less(step.tip, start)
           aim     == Aim(mw, step.rejected)
           release == ~again /\ step.tip = aim
<1>5. /\ UNCHANGED <<bad, data, seq, todo>>
      /\ tip' = step.tip
      /\ failedValid' = failedValid \cup step.rejected
      /\ failedChild' = failedChild \cup fmw.children
      /\ candidates' = IF step.connected = {} THEN left ELSE Prune(left, seq, step.tip)
      /\ mutex' = IF release THEN "free" ELSE "abc"
      /\ mostWork' = IF release THEN None ELSE aim
      /\ locked' = again
      /\ startTip' = IF again THEN start ELSE None
  BY Zenon, <1>3, <1>4 DEF Reorganize, Base, StillWorse, Reached
<1>6. /\ step.tip \in Anc[mw] /\ step.tip \in Block /\ mw \in Block
      /\ step.rejected \subseteq bad
      /\ step.rejected \cap Anc[step.tip] = {}
      /\ step.connected = {} => step.tip \in Anc[tip]
  <2>1. mw \in Block /\ tip \in Block
    BY Zenon, <1>1, <1>2, <1>4
  <2>2. /\ step.tip \in Anc[mw]
        /\ step.rejected \subseteq bad \cap Anc[mw]
        /\ step.rejected \cap Anc[step.tip] = {}
        /\ step.connected = {} => step.tip \in Anc[tip]
    BY SMTT(60), <1>4, <2>1, StepFacts
  <2> QED
    BY Zenon, <2>1, <2>2, AncOfBlock
<1>7. /\ SafeInv'
      /\ \A x \in Block : Sound(x)' => Sound(x)
      /\ \A x \in Block : Sound(x) /\ Anc[x] \cap bad = {} => Sound(x)'
  BY Zenon, <1>0, ReorganizeKeepsSafe
<1>8. Failed' = Failed \cup fmw.children \cup step.rejected
  BY Zenon, <1>5 DEF Failed
<1>9. ASSUME NEW b \in data, b \notin Failed', ~Less(b, start) PROVE b \in left
  <2>1. b \in candidates
    BY Zenon, <1>0, <1>3, <1>8, <1>9 DEF CandInv
  <2> QED
    BY Zenon, <1>1, <1>8, <1>9, <2>1
<1>10. start \in data /\ start \in Block /\ start \notin Failed' /\ start \in left
  <2>1. Sound(start)'
    BY Zenon, <1>2, <1>3, <1>7
  <2>2. start \notin Failed'
    BY Zenon, <1>2, <1>3, <2>1, AncOfBlock DEF Sound
  <2>3. ~Less(start, start)
    BY Zenon, <1>2, <1>3, LessOrder DEF Less
  <2> QED
    BY Zenon, <1>2, <1>3, <1>9, <2>2, <2>3
<1>11. \A c \in left : ~Less(c, start) /\ c \in Block
  BY Zenon, <1>0, <1>2, <1>3 DEF CandInv
<1>12. step.tip \in data /\ step.tip \notin Failed'
  <2>1. Sound(tip)' /\ tip' \in data' /\ tip' \in Block
    BY Zenon, <1>5, <1>6, <1>7 DEF SafeInv, TreeInv
  <2> QED
    BY Zenon, <1>5, <2>1, AncOfBlock DEF Sound
<1>13. mostWork' # None => mostWork' = mw /\ (~again => step.tip # mw)
  BY Zenon, <1>5 DEF Aim
<1>14. mutex' = "free" => step.tip = mw
  BY Zenon, <1>5, <1>6, TreeAssumption DEF Aim
<1>15. mutex' # "inv"
  BY Zenon, <1>5
<1>16. ASSUME again PROVE CandInv'
  <2>1. candidates' \subseteq left /\ \A c \in left : ~Less(c, step.tip) => c \in candidates'
    BY Zenon, <1>5 DEF Prune, Less
  <2>2. ASSUME NEW c \in Block, ~Less(c, start) PROVE ~Less(c, step.tip)
    BY Zenon, <1>2, <1>6, <1>10, <1>16, <2>2, LessOrder DEF Less
  <2>3. ~Less(start, start) /\ mw # step.tip
    BY Zenon, <1>1, <1>2, <1>3, <1>4, <1>10, <1>16, LessOrder DEF Less
  <2>4. Base' = start /\ locked'
    BY Zenon, <1>5, <1>16 DEF Base
  <2>5. \A c \in candidates' : ~Less(c, Base)'
    BY Zenon, <1>5, <1>11, <2>1, <2>4 DEF Less
  <2>6. Base' \in candidates'
    BY Zenon, <1>10, <2>1, <2>2, <2>3, <2>4
  <2>7. \A b \in data' \ Failed' : ~Less(b, Base)' => b \in candidates'
    BY Zenon, <1>2, <1>5, <1>9, <2>1, <2>2, <2>4 DEF Less
  <2>8. Less(tip, startTip)'
    BY Zenon, <1>5, <1>16 DEF Less
  <2>9. mostWork' # None => mostWork' # tip' /\ ~Less(mostWork, Base)'
    BY Zenon, <1>1, <1>3, <1>4, <1>5, <1>13, <2>3, <2>4 DEF Less
  <2> QED
    BY Zenon, <2>4, <2>5, <2>6, <2>7, <2>8, <2>9 DEF CandInv
<1>17. ASSUME ~again PROVE CandInv'
  <2>1. ~locked' /\ Base' = step.tip /\ ~Less(step.tip, start)
    BY Zenon, <1>5, <1>17 DEF Base
  <2>2. ASSUME step.connected = {} PROVE step.tip = start
    <3>1. step.tip = tip \/ Less(step.tip, tip)
      BY Zenon, <1>2, <1>6, <2>2, AncestorLess DEF Less
    <3>2. tip = start \/ Less(tip, start)
      BY Zenon, <1>0, <1>3 DEF CandInv, Base
    <3> QED
      BY Zenon, <1>2, <1>6, <1>10, <2>1, <3>1, <3>2, LessOrder DEF Less
  <2>3. candidates' = Prune(left, seq, step.tip)
    <3>1. CASE step.connected = {}
      BY Zenon, <1>5, <1>11, <2>2, <3>1 DEF Prune, Less
    <3>2. CASE step.connected # {}
      BY Zenon, <1>5, <3>2
    <3> QED
      BY Zenon, <3>1, <3>2
  <2>4. \A c : c \in candidates' <=> c \in left /\ ~Less(c, step.tip)
    BY Zenon, <2>3 DEF Prune, Less
  <2>5. ~Less(step.tip, step.tip) /\ (mw # step.tip => ~Less(mw, step.tip))
    BY Zenon, <1>2, <1>6, LessOrder, AncestorLess DEF Less
  <2>6. \A c \in candidates' : ~Less(c, Base)'
    BY Zenon, <1>5, <2>1, <2>4 DEF Less
  <2>7. Base' \in candidates'
    BY Zenon, <1>9, <1>12, <2>1, <2>4, <2>5
  <2>8. ASSUME NEW b \in data', b \notin Failed', ~Less(b, Base)' PROVE b \in candidates'
    <3>1. b \in data /\ b \in Block /\ ~Less(b, step.tip)
      BY Zenon, <1>2, <1>5, <2>1, <2>8 DEF Less
    <3>2. ~Less(b, start)
      BY Zenon, <1>2, <1>6, <1>10, <2>1, <3>1, LessOrder DEF Less
    <3> QED
      BY Zenon, <1>9, <2>4, <2>8, <3>1, <3>2
  <2>9. mostWork' # None => mostWork' # tip' /\ ~Less(mostWork, Base)'
    BY Zenon, <1>5, <1>13, <1>17, <2>1, <2>5 DEF Less
  <2> QED
    BY Zenon, <2>1, <2>6, <2>7, <2>8, <2>9 DEF CandInv
<1>18. GoalInv'
  <2> SUFFICES ASSUME ~todo', NEW b \in data', Sound(b)'
               PROVE  /\ mutex' = "free" => ~Less(tip, b)'
                      /\ mostWork' # None => ~Less(mostWork, b)'
    BY Zenon DEF GoalInv
  <2>1. b \in data /\ Sound(b) /\ ~todo
    BY Zenon, <1>2, <1>5, <1>7
  <2>2. ~Less(mw, b)
    BY Zenon, <1>1, <1>4, <2>1
  <2> QED
    BY Zenon, <1>5, <1>13, <1>14, <2>2 DEF Less
<1>19. ~locked' => ~Less(tip', Base)
  BY Zenon, <1>3, <1>5
<1> QED
  BY Zenon, <1>16, <1>17, <1>18, <1>19

\* ActivateBestChain starts without an aim.
LEMMA StartKeepsBest ==
    ASSUME BestInv, ActivateBestChain
    PROVE  CandInv' /\ GoalInv'
<1>1. /\ UNCHANGED <<data, seq, failedValid, failedChild, candidates, tip, locked, startTip>>
      /\ mutex = "free" /\ mutex' = "abc" /\ mostWork' = None
  BY Zenon DEF ActivateBestChain, tree, failure
<1>2. CandInv'
  BY Zenon, <1>1 DEF BestInv, CandInv, Base, Less, Failed
<1>3. GoalInv'
  BY Zenon, <1>1 DEF GoalInv
<1> QED
  BY Zenon, <1>2, <1>3

\* InvalidateBlock starts while nobody has an aim.
LEMMA InvalidateKeepsBest ==
    ASSUME BestInv, NEW b \in Block, InvalidateBlock(b)
    PROVE  CandInv' /\ GoalInv'
<1>1. /\ UNCHANGED <<seq, candidates, tip, locked, startTip, mostWork>>
      /\ mutex = "free" /\ mutex' = "inv"
  BY Zenon DEF InvalidateBlock, tree, activation
<1>2. mostWork = None
  BY Zenon, <1>1 DEF BestInv, SafeInv, ThreadInv
<1>3. CandInv'
  BY Zenon, <1>1, <1>2 DEF BestInv, CandInv, Base, Less
<1>4. GoalInv'
  BY Zenon, <1>1, <1>2 DEF GoalInv
<1> QED
  BY Zenon, <1>3, <1>4

\* The tip moves down, so every candidate still does not sort below it.
LEMMA DisconnectKeepsBest ==
    ASSUME BestInv, InvalidateDisconnect
    PROVE  CandInv' /\ GoalInv'
<1> DEFINE prev == Parent[tip]
           revived == {c \in byWork : ~Less(c, prev)}
<1>1. /\ UNCHANGED <<seq, locked, mostWork, mutex>>
      /\ ~locked /\ mutex = "inv"
      /\ tip' = prev /\ candidates' = (candidates \ {tip}) \cup {prev} \cup revived
  BY Zenon DEF InvalidateDisconnect, tree, activation
<1>2. /\ tip \in Block /\ tip # Genesis /\ seq \in [Block -> Int] /\ mostWork = None
      /\ candidates \subseteq Block
  BY Zenon, <1>1, DisconnectKeepsSafe DEF BestInv, SafeInv, TreeInv, IndexOk, ThreadInv
<1>3. prev \in Block /\ prev \in Anc[tip] /\ prev # tip
  BY Zenon, <1>2, AncOfBlock
<1>4. Less(prev, tip) /\ ~Less(prev, prev)
  BY Zenon, <1>2, <1>3, AncestorLess, LessOrder DEF Less
<1>5. Base = tip /\ Base' = prev
  BY Zenon, <1>1 DEF Base
<1>6. ASSUME NEW c \in candidates' PROVE ~Less(c, prev)
  <2>1. CASE c \in candidates
    <3>1. ~Less(c, tip) /\ c \in Block
      BY Zenon, <1>2, <1>5, <2>1 DEF BestInv, CandInv
    <3> QED
      BY Zenon, <1>2, <1>3, <1>4, <3>1, LessOrder DEF Less
  <2> QED
    BY Zenon, <1>1, <1>4, <1>6, <2>1
<1> HIDE DEF prev, revived
<1>7. CandInv'
  BY Zenon, <1>1, <1>2, <1>5, <1>6 DEF CandInv, Less
<1>8. GoalInv'
  BY Zenon, <1>1, <1>2 DEF GoalInv
<1> QED
  BY Zenon, <1>7, <1>8

\* InvalidateBlock ends with a search of the whole index.
LEMMA FinishKeepsBest ==
    ASSUME BestInv, InvalidateFinish
    PROVE  CandInv' /\ GoalInv'
<1>1. /\ UNCHANGED <<seq, data, locked, mostWork, tip, failedChild>>
      /\ ~locked /\ mutex = "inv" /\ mutex' = "free" /\ todo' = TRUE
      /\ failedValid' = failedValid \cup {toMark}
      /\ candidates' = (candidates \ {toMark}) \cup Missed(failedValid' \cup failedChild)
  BY Zenon DEF InvalidateFinish, tree, activation
<1>2. /\ mostWork = None /\ linked = data /\ toMark \notin Anc[tip] /\ tip \in Block
  BY Zenon, <1>1, FinishKeepsSafe DEF BestInv, SafeInv, TreeInv, IndexOk, ThreadInv
<1>3. toMark # tip
  BY SMTT(60), <1>2, AncOfBlock
<1>4. Base = tip /\ Base' = tip
  BY Zenon, <1>1 DEF Base
<1>5. Missed(failedValid' \cup failedChild) = {b \in data \ Failed' : ~Less(b, tip)}
  BY Zenon, <1>1, <1>2 DEF Missed, Failed
<1>6. CandInv'
  BY Zenon, <1>1, <1>2, <1>3, <1>4, <1>5 DEF BestInv, CandInv, Less
<1>7. GoalInv'
  BY Zenon, <1>1 DEF GoalInv
<1> QED
  BY Zenon, <1>6, <1>7

\* reconsiderblock puts back what it unmarks, if nothing below it is marked.
LEMMA ReconsiderKeepsBest ==
    ASSUME BestInv, RootsOnly, NEW b \in Block, ReconsiderBlock(b)
    PROVE  CandInv' /\ GoalInv'
<1> DEFINE cleared == {x \in Failed : b \in Anc[x]}
<1>1. /\ UNCHANGED <<seq, data, locked, startTip, mostWork, tip, mutex>>
      /\ UseRPC("reconsiderblock") /\ todo' = TRUE
      /\ Failed \cap Anc[b] \subseteq {b}
      /\ failedValid' = failedValid \ (cleared \cup (Failed \cap Anc[b]))
      /\ failedChild' = failedChild \ (cleared \cup (Failed \cap Anc[b]))
      /\ candidates' = candidates \cup {x \in cleared \cap linked : Less(tip, x)}
  BY Zenon DEF ReconsiderBlock, ClearFailure, tree, activation
<1>2. /\ tip \in Block /\ seq \in [Block -> Int] /\ linked = data /\ data \subseteq Block
      /\ candidates \subseteq Block /\ CandInv
  BY Zenon DEF BestInv, SafeInv, TreeInv, IndexOk
<1>3. ~locked
  BY Zenon, <1>1 DEF UseRPC
<1>4. Base = tip /\ Base' = tip
  BY Zenon, <1>1, <1>3 DEF Base
<1>5. \A x \in Failed \ Failed' : x \in cleared
  BY Zenon, <1>1, AncOfBlock DEF Failed
<1>6. \A c \in candidates' : ~Less(c, tip)
  BY Zenon, <1>1, <1>2, <1>4, LessOrder DEF CandInv, Less
<1>7. ASSUME mutex # "inv", NEW x \in data, x \notin Failed', ~Less(x, tip) PROVE x \in candidates'
  <2>1. CASE x \notin Failed
    BY Zenon, <1>1, <1>2, <1>4, <1>7, <2>1 DEF CandInv
  <2>2. CASE x \in Failed
    <3>1. x \in cleared /\ x \in Block
      BY Zenon, <1>2, <1>5, <1>7, <2>2
    <3>2. x = tip \/ Less(tip, x)
      BY Zenon, <1>2, <1>7, <3>1, LessOrder DEF Less
    <3> QED
      BY Zenon, <1>1, <1>2, <1>4, <1>7, <3>1, <3>2 DEF CandInv
  <2> QED
    BY Zenon, <2>1, <2>2
<1> HIDE DEF cleared
<1>8. CandInv'
  BY Zenon, <1>1, <1>2, <1>3, <1>4, <1>6, <1>7 DEF CandInv, Less
<1>9. GoalInv'
  BY Zenon, <1>1 DEF GoalInv
<1> QED
  BY Zenon, <1>8, <1>9

\* preciousblock prunes with the new ids.  What did not sort below the tip
\* before does not now, as long as the tip keeps its rank.
LEMMA PreciousKeepsBest ==
    ASSUME BestInv, NEW b \in Block, PreciousBlock(b), KeepsRank
    PROVE  CandInv' /\ GoalInv'
<1>1. /\ UNCHANGED <<data, linked, failedValid, failedChild, locked, startTip, mostWork, tip, mutex,
                     restarts>>
      /\ UseRPC("preciousblock")
  BY Zenon DEF PreciousBlock, failure, activation
<1>2. /\ tip \in Block /\ tip \in data /\ tip \notin Failed /\ seq \in [Block -> Int] /\ linked = data
      /\ data \subseteq Block /\ candidates \subseteq data /\ CandInv /\ SafeInv
      /\ (mostWork # None => mostWork \in Block /\ tip \in Anc[mostWork])
  BY Zenon, BaseFacts, SoundDown, AncOfBlock DEF BestInv, SafeInv, TreeInv, ThreadInv
<1>3. ~locked
  BY Zenon, <1>1 DEF UseRPC
<1>4. Base = tip /\ Base' = tip /\ Failed' = Failed
  BY Zenon, <1>1, <1>3 DEF Base, Failed
<1>5. seq' \in [Block -> Int] /\ seq'[tip] <= seq[tip]
  BY Zenon, <1>1, <1>2, PreciousKeepsSafe DEF SafeInv, TreeInv, KeepsRank
<1>6. mostWork # None => mostWork # tip /\ ~LessIn(seq', mostWork, tip)
  BY Zenon, <1>2, <1>5, AncestorLess, LessOrder DEF CandInv
<1>7. ~LessIn(seq', tip, tip)
  BY Zenon, <1>2, <1>5, LessOrder
<1>8. CASE UNCHANGED <<seq, candidates, todo>>
  <2>1. \A x \in data : Sound(x)' => Sound(x)
    BY Zenon, <1>1 DEF Sound, Failed
  <2> QED
    BY Zenon, <1>1, <1>4, <1>8, <2>1, MarksKeepBest
<1>9. CASE /\ \A x \in Block \ {b} : seq'[x] = seq[x]
           /\ todo' = TRUE
           /\ candidates' = IF b \in data \ Failed THEN Prune(candidates \cup {b}, seq', tip)
                            ELSE candidates \ {b}
  <2>1. ASSUME NEW x \in Block, x # b, Less(x, tip) PROVE LessIn(seq', x, tip)
    <3>1. seq'[x] = seq[x] /\ seq[x] \in Int /\ seq[tip] \in Int /\ seq'[tip] \in Int
      BY Zenon, <1>2, <1>5, <1>9, <2>1
    <3> QED
      BY SMTT(60), <1>5, <2>1, <3>1 DEF Less, LessIn
  <2>2. ASSUME b \in data \ Failed PROVE CandInv'
    <3>1. \A c : c \in candidates' <=> c \in candidates \cup {b} /\ ~LessIn(seq', c, tip)
      BY Zenon, <1>9, <2>2 DEF Prune
    <3>2. tip \in candidates'
      BY Zenon, <1>2, <1>4, <1>7, <3>1 DEF CandInv
    <3>3. ASSUME mutex # "inv", NEW x \in data, x \notin Failed, ~LessIn(seq', x, tip)
          PROVE  x \in candidates'
      <4>1. x = b \/ ~Less(x, tip)
        BY Zenon, <1>2, <2>1, <3>3
      <4> QED
        BY Zenon, <1>2, <1>4, <3>1, <3>3, <4>1 DEF CandInv
    <3> QED
      BY Zenon, <1>1, <1>3, <1>4, <1>6, <3>1, <3>2, <3>3 DEF CandInv, Less
  <2>3. ASSUME b \notin data \ Failed PROVE CandInv'
    <3>1. candidates' = candidates \ {b} /\ b # tip
      BY Zenon, <1>2, <1>9, <2>3
    <3>2. ASSUME NEW x \in Block, x # b PROVE LessIn(seq', x, tip) <=> Less(x, tip)
      BY SMTT(60), <1>2, <1>9, <3>1, <3>2, LessSame DEF Less
    <3>3. \A c \in candidates' : ~LessIn(seq', c, tip)
      BY Zenon, <1>2, <1>4, <3>1, <3>2 DEF CandInv
    <3>4. tip \in candidates'
      BY Zenon, <1>2, <1>4, <3>1 DEF CandInv
    <3>5. ASSUME mutex # "inv", NEW x \in data, x \notin Failed, ~LessIn(seq', x, tip)
          PROVE  x \in candidates'
      BY Zenon, <1>2, <1>4, <2>3, <3>1, <3>2, <3>5 DEF CandInv
    <3> QED
      BY Zenon, <1>1, <1>3, <1>4, <1>6, <3>3, <3>4, <3>5 DEF CandInv, Less
  <2>4. CandInv'
    BY Zenon, <2>2, <2>3
  <2> QED
    BY Zenon, <1>9, <2>4 DEF GoalInv
<1>10. \/ UNCHANGED <<seq, candidates, todo>>
       \/ \E rs : /\ seq' = [seq EXCEPT ![b] = rs]
                  /\ todo' = TRUE
                  /\ candidates' = IF ValidTransactions(b) /\ b \in linked
                                   THEN Prune(candidates \cup {b}, seq', tip)
                                   ELSE candidates \ {b}
  BY Zenon DEF PreciousBlock
<1> QED
  BY Zenon, <1>2, <1>8, <1>9, <1>10 DEF ValidTransactions

\* A node that starts has the candidates LoadBlockIndex finds in the index.
LEMMA RestartKeepsBest ==
    ASSUME BestInv, Restart
    PROVE  CandInv' /\ GoalInv'
<1> DEFINE whole == {b \in disk.data : Anc[b] \subseteq disk.data}
<1>1. /\ data' = disk.data /\ tip' = disk.tip
      /\ candidates' = Prune(whole \ Failed', seq', disk.tip)
      /\ mutex' = "free" /\ todo' = TRUE /\ locked' = FALSE /\ mostWork' = None
  BY Zenon DEF Restart, Failed
<1>2. SafeInv' /\ whole = data'
  BY Zenon, RestartKeepsSafe DEF BestInv
<1>3. seq' \in [Block -> Int] /\ tip' \in data' /\ tip' \in Block /\ Sound(tip)'
  BY Zenon, <1>2 DEF SafeInv, TreeInv, IndexOk
<1>4. tip' \notin Failed' /\ ~LessIn(seq', tip', tip')
  BY Zenon, <1>3, AncOfBlock, LessOrder DEF Sound
<1>5. Base' = tip'
  BY Zenon, <1>1 DEF Base
<1> HIDE DEF whole
<1>6. candidates' = {c \in data' \ Failed' : ~LessIn(seq', c, tip')}
  BY Zenon, <1>1, <1>2 DEF Prune
<1>7. CandInv'
  BY Zenon, <1>1, <1>3, <1>4, <1>5, <1>6 DEF CandInv, Less
<1>8. GoalInv'
  BY Zenon, <1>1 DEF GoalInv
<1> QED
  BY Zenon, <1>7, <1>8

\* Every step keeps the invariant of the candidates and the aim.
LEMMA BestNext ==
    ASSUME BestInv, RootsOnly, [Next]_vars, [KeepsRank]_vars
    PROVE  BestInv'
<1>0. SafeInv /\ SafeInv'
  BY Zenon, SafeNext DEF BestInv
<1> SUFFICES CandInv' /\ GoalInv'
  BY Zenon, <1>0 DEF BestInv
<1>1. ASSUME NEW b \in Block, AcceptBlockHeader(b) PROVE CandInv' /\ GoalInv'
  <2>1. /\ UNCHANGED <<seq, candidates, data, tip, locked, startTip, mutex, mostWork, todo, failedValid>>
        /\ failedChild \subseteq failedChild'
    BY Zenon, <1>1 DEF AcceptBlockHeader, activation
  <2>2. Failed \cap data \subseteq Failed' /\ \A x \in data : Sound(x)' => Sound(x)
    BY Zenon, <2>1 DEF Sound, Failed
  <2> QED
    BY Zenon, <2>1, <2>2, MarksKeepBest
<1>2. ASSUME NEW b \in Block, NEW fRequested \in BOOLEAN, NEW passes \in BOOLEAN,
             AcceptBlock(b, fRequested, passes)
      PROVE  CandInv' /\ GoalInv'
  BY Zenon, <1>2, AcceptKeepsBest
<1>3. ASSUME NEW b \in Block, InvalidateBlock(b) PROVE CandInv' /\ GoalInv'
  BY Zenon, <1>3, InvalidateKeepsBest
<1>4. ASSUME NEW b \in Block, ReconsiderBlock(b) PROVE CandInv' /\ GoalInv'
  BY Zenon, <1>4, ReconsiderKeepsBest
<1>5. ASSUME NEW b \in Block, PreciousBlock(b) PROVE CandInv' /\ GoalInv'
  <2>1. ops' # ops
    BY SMTT(60), <1>0, <1>5, BoundsAssumption DEF PreciousBlock, UseRPC, SafeInv, RestartInv
  <2>2. KeepsRank
    BY Zenon, <2>1 DEF vars, bounds
  <2> QED
    BY Zenon, <1>5, <2>2, PreciousKeepsBest
<1>6. CASE ActivateBestChain
  BY Zenon, <1>6, StartKeepsBest
<1>7. CASE ActivateBestChainStep
  <2>1. PICK fmw : /\ fmw = MostWork /\ mutex = "abc"
                   /\ \/ StopActivating(fmw)
                      \/ /\ fmw.found \notin {None, tip}
                         /\ \E step \in {StepTowards(fmw.found)} : Reorganize(fmw, step)
    BY Zenon, <1>7 DEF ActivateBestChainStep
  <2>2. CASE StopActivating(fmw)
    BY Zenon, <2>1, <2>2, StopKeepsBest
  <2>3. ASSUME NEW step, step = StepTowards(fmw.found), fmw.found \notin {None, tip},
               Reorganize(fmw, step)
        PROVE  CandInv' /\ GoalInv'
    BY Zenon, <2>1, <2>3, ReorganizeKeepsBest
  <2> QED
    BY Zenon, <2>1, <2>2, <2>3
<1>8. CASE InvalidateDisconnect
  BY Zenon, <1>8, DisconnectKeepsBest
<1>9. CASE InvalidateFinish
  BY Zenon, <1>9, FinishKeepsBest
<1>10. CASE FlushStateToDisk
  <2>1. UNCHANGED <<seq, candidates, data, tip, locked, startTip, mutex, mostWork, todo, failedValid,
                    failedChild>>
    BY Zenon, <1>10 DEF FlushStateToDisk, tree, failure, activation
  <2>2. Failed \cap data \subseteq Failed' /\ \A x \in data : Sound(x)' => Sound(x)
    BY Zenon, <2>1 DEF Sound, Failed
  <2> QED
    BY Zenon, <2>1, <2>2, MarksKeepBest
<1>11. CASE Restart
  BY Zenon, <1>11, RestartKeepsBest
<1>12. CASE UNCHANGED vars
  <2>1. UNCHANGED <<seq, candidates, data, tip, locked, startTip, mutex, mostWork, todo, failedValid,
                    failedChild>>
    BY Zenon, <1>12 DEF vars, tree, failure, activation
  <2>2. Failed \cap data \subseteq Failed' /\ \A x \in data : Sound(x)' => Sound(x)
    BY Zenon, <2>1 DEF Sound, Failed
  <2> QED
    BY Zenon, <2>1, <2>2, MarksKeepBest
<1> QED
  BY Zenon, <1>1, <1>2, <1>3, <1>4, <1>5, <1>6, <1>7, <1>8, <1>9, <1>10, <1>11, <1>12 DEF Next

-----------------------------------------------------------------------------
(* The theorems about the choice of the chain.                             *)

\* Failure marks always have a cause.
LEMMA CausedHolds == ASSUME Apart, RootsOnly PROVE Spec => []CausedInv
<1>1. ASSUME Init PROVE CausedInv
  BY Zenon, <1>1 DEF Init, CausedInv, Caused
<1> QED
  BY <1>1, CausedNext, SafeHolds, PTL DEF Spec

\* The candidates are always right, as long as the tip keeps its rank.
LEMMA BestHolds == ASSUME Apart, RootsOnly PROVE Spec /\ [][KeepsRank]_vars => []BestInv
  BY BestInit, BestNext, PTL DEF Spec

\* As long as preciousblock takes no rank from the tip, CheckBlockIndex always
\* passes: setBlockIndexCandidates has exactly the blocks that may be next, the
\* tip among them, every failure mark has a cause, and m_blocks_unlinked stays
\* empty.  For any tree, any number of calls and of restarts.
THEOREM BlockIndexAlwaysChecks ==
    ASSUME Apart, RootsOnly
    PROVE  Spec /\ [][KeepsRank]_vars => []CheckBlockIndex
<1>1. ASSUME BestInv, CausedInv PROVE CheckBlockIndex
  <2>1. TreeInv /\ CandInv /\ data \subseteq Block /\ Failed \subseteq Block
    BY Zenon, <1>1 DEF BestInv, SafeInv, TreeInv, IndexOk, Failed
  <2>2. NothingUnlinked
    BY Zenon, <2>1, AncOfBlock DEF TreeInv, IndexOk, NothingUnlinked
  <2>3. ~locked => Base = tip
    BY Zenon DEF Base
  <2>4. FailedMaskHasInvalidParent
    BY Zenon, <1>1, <2>1, AncOfBlock DEF CausedInv, Caused, FailedMaskHasInvalidParent, Failed
  <2>5. CandidatesRight
    <3> SUFFICES ASSUME ~locked, NEW b \in index
                 PROVE  IF b \in linked /\ ~Less(b, tip)
                        THEN (mutex # "inv" /\ Anc[b] \cap failedValid = {}) => b \in candidates
                        ELSE b \notin candidates
      BY Zenon DEF CandidatesRight
    <3>1. CASE b \in linked /\ ~Less(b, tip)
      <4> SUFFICES ASSUME mutex # "inv", Anc[b] \cap failedValid = {} PROVE b \in candidates
        BY Zenon, <3>1
      <4>1. b \notin Failed
        BY Zenon, <2>4 DEF FailedMaskHasInvalidParent
      <4>2. b \in data \ Failed /\ ~Less(b, Base)
        BY Zenon, <2>1, <2>3, <3>1, <4>1 DEF TreeInv
      <4> QED
        BY Zenon, <2>1, <4>2 DEF CandInv
    <3>2. CASE ~(b \in linked /\ ~Less(b, tip))
      BY Zenon, <2>1, <2>3, <3>2 DEF CandInv, TreeInv
    <3> QED
      BY Zenon, <3>1, <3>2
  <2>6. TipIsCandidate /\ FailedBlocksFailed
    BY Zenon, <2>1, <2>3 DEF CandInv, TreeInv, TipIsCandidate, FailedBlocksFailed
  <2> QED
    BY Zenon, <2>2, <2>4, <2>5, <2>6 DEF CheckBlockIndex
<1> QED
  BY <1>1, CausedHolds, BestHolds, PTL

\* Under the same condition, no usable block sorts above the tip when no thread
\* is in ActivateBestChain or on its way there.
THEOREM AlwaysSettled ==
    ASSUME Apart, RootsOnly
    PROVE  Spec /\ [][KeepsRank]_vars => []Settled
<1>1. ASSUME BestInv PROVE Settled
  BY Zenon, <1>1 DEF BestInv, SafeInv, TreeInv, GoalInv, Settled, Usable, Sound
<1> QED
  BY <1>1, BestHolds, PTL

\* Under the same condition, ActivateBestChain never releases cs_main with a tip
\* that sorts below the one it found: a failed reorganization is undone first.
THEOREM GroundAlwaysHeld ==
    ASSUME Apart, RootsOnly
    PROVE  Spec /\ [][KeepsRank]_vars => HoldsGround
<1> DEFINE Held == mutex = "abc" /\ ~locked' /\ restarts' = restarts =>
                      ~Less(tip', IF locked THEN startTip ELSE tip)
<1>1. ASSUME BestInv, [Next]_vars PROVE [Held]_vars
  <2> SUFFICES ASSUME mutex = "abc", ~locked', restarts' = restarts PROVE ~Less(tip', Base)
    BY Zenon DEF Base
  <2>0. /\ SafeInv /\ Base \in Block /\ seq \in [Block -> Int]
        /\ (~locked => Base = tip) /\ ~Less(Base, Base)
    BY Zenon, <1>1, BaseFacts, LessOrder DEF BestInv, Less, Base
  <2>1. CASE ~locked /\ tip' = tip
    BY Zenon, <2>0, <2>1
  <2>2. CASE ActivateBestChainStep
    <3>1. PICK fmw : /\ fmw = MostWork
                     /\ \/ StopActivating(fmw)
                        \/ /\ fmw.found \notin {None, tip}
                           /\ \E step \in {StepTowards(fmw.found)} : Reorganize(fmw, step)
      BY Zenon, <2>2 DEF ActivateBestChainStep
    <3>2. CASE StopActivating(fmw)
      BY Zenon, <1>1, <2>0, <3>1, <3>2, StopKeepsBest
    <3>3. ASSUME NEW step, step = StepTowards(fmw.found), fmw.found \notin {None, tip},
                 Reorganize(fmw, step)
          PROVE  ~Less(tip', Base)
      BY Zenon, <1>1, <3>1, <3>3, ReorganizeKeepsBest
    <3> QED
      BY Zenon, <3>1, <3>2, <3>3
  <2>3. CASE Restart
    <3>1. restarts' = restarts + 1
      BY Zenon, <2>3 DEF Restart
    <3>2. restarts \in 0 .. MaxRestarts
      BY Zenon, <2>0 DEF SafeInv, RestartInv
    <3> QED
      BY SMTT(60), <3>1, <3>2, BoundsAssumption
  <2>4. CASE UNCHANGED vars
    BY Zenon, <2>0, <2>4 DEF vars, activation
  <2>5. ASSUME NEW b \in Block,
               \/ AcceptBlockHeader(b)
               \/ \E fRequested, passes \in BOOLEAN : AcceptBlock(b, fRequested, passes)
               \/ InvalidateBlock(b) \/ ReconsiderBlock(b) \/ PreciousBlock(b)
        PROVE  ~locked /\ tip' = tip
    BY Zenon, <2>5 DEF AcceptBlockHeader, AcceptBlock, InvalidateBlock, ReconsiderBlock, PreciousBlock, UseRPC
  <2>6. CASE ActivateBestChain \/ InvalidateDisconnect \/ InvalidateFinish \/ FlushStateToDisk
    BY Zenon, <2>1, <2>6 DEF ActivateBestChain, InvalidateDisconnect, InvalidateFinish, FlushStateToDisk
  <2> QED
    BY Zenon, <1>1, <2>1, <2>2, <2>3, <2>4, <2>5, <2>6 DEF Next
<1> QED
  BY <1>1, BestHolds, PTL DEF Spec, HoldsGround

\* Ids go down by at most one with every call of an RPC.
RankInv ==
    /\ \A b \in Block : seq[b] >= 0 - ops
    /\ reverseSeq <= -1 /\ reverseSeq >= -1 - ops
    /\ nextSeq >= 0

\* AcceptBlock's ids go up, preciousblock's down one by one.
LEMMA RankNext ==
    ASSUME SafeInv, RankInv, [Next]_vars
    PROVE  RankInv' /\ (MaxOps <= 2 \/ "preciousblock" \notin Operator => KeepsRank)
<1>0. /\ seq \in [Block -> Int] /\ nextSeq \in Int /\ reverseSeq \in Int /\ ops \in Nat /\ ops <= MaxOps
      /\ restarts \in Nat /\ tip \in Block /\ tip \in data /\ MaxOps \in Nat
  BY SMTT(60), BoundsAssumption DEF SafeInv, TreeInv, IndexOk, RestartInv
<1>1. ASSUME UNCHANGED <<seq, reverseSeq, nextSeq>>, ops' = ops \/ ops' = ops + 1
      PROVE  RankInv' /\ KeepsRank
  BY <1>0, <1>1 DEF RankInv, KeepsRank
<1>2. ASSUME NEW b \in Block, NEW fRequested \in BOOLEAN, NEW passes \in BOOLEAN,
             AcceptBlock(b, fRequested, passes)
      PROVE  RankInv' /\ KeepsRank
  <2>1. \/ UNCHANGED <<seq, nextSeq>>
        \/ b \notin data /\ seq' = [seq EXCEPT ![b] = nextSeq] /\ nextSeq' = nextSeq + 1
    BY Zenon, <1>2 DEF AcceptBlock, ReceivedBlockTransactions
  <2>2. UNCHANGED <<reverseSeq, ops, restarts>>
    BY Zenon, <1>2 DEF AcceptBlock, bounds
  <2> QED
    BY SMTT(60), <1>0, <1>1, <2>1, <2>2 DEF RankInv, KeepsRank
<1>3. ASSUME NEW b \in Block, PreciousBlock(b)
      PROVE  RankInv' /\ (MaxOps <= 2 \/ "preciousblock" \notin Operator => KeepsRank)
  <2>1. /\ ops < MaxOps /\ ops' = ops + 1 /\ nextSeq' = nextSeq /\ "preciousblock" \in Operator
    BY Zenon, <1>3 DEF PreciousBlock, UseRPC
  <2>2. \/ UNCHANGED <<seq, reverseSeq>>
        \/ \E rs \in {-1, reverseSeq} : seq' = [seq EXCEPT ![b] = rs] /\ reverseSeq' = rs - 1
    BY Zenon, <1>3 DEF PreciousBlock
  <2>3. ASSUME NEW rs \in {-1, reverseSeq}, seq' = [seq EXCEPT ![b] = rs], reverseSeq' = rs - 1
        PROVE  RankInv' /\ (MaxOps <= 2 => KeepsRank)
    <3>1. rs \in Int /\ rs <= -1 /\ rs >= -1 - ops
      BY <1>0, <2>3 DEF RankInv
    <3>2. RankInv'
      BY <1>0, <2>1, <2>3, <3>1 DEF RankInv
    <3>3. MaxOps <= 2 => seq'[tip] <= seq[tip]
      BY SMTT(60), <1>0, <2>1, <2>3, <3>1 DEF RankInv
    <3> QED
      BY Zenon, <3>2, <3>3 DEF KeepsRank
  <2> QED
    BY Zenon, <1>1, <2>1, <2>2, <2>3
<1>4. CASE Restart
  <2>1. /\ seq' = [b \in Block |-> 0] /\ reverseSeq' = -1 /\ nextSeq' = 1 /\ ops' = ops
        /\ restarts' = restarts + 1
    BY Zenon, <1>4 DEF Restart
  <2> QED
    BY <1>0, <2>1 DEF RankInv, KeepsRank
<1>5. ASSUME NEW b \in Block,
             AcceptBlockHeader(b) \/ InvalidateBlock(b) \/ ReconsiderBlock(b)
      PROVE  RankInv' /\ KeepsRank
  BY Zenon, <1>1, <1>5 DEF AcceptBlockHeader, InvalidateBlock, ReconsiderBlock, UseRPC, tree, counters, bounds
<1>6. CASE ActivateBestChain \/ InvalidateDisconnect \/ InvalidateFinish \/ FlushStateToDisk
  BY Zenon, <1>1, <1>6 DEF ActivateBestChain, InvalidateDisconnect, InvalidateFinish, FlushStateToDisk,
                    tree, counters, bounds
<1>7. CASE ActivateBestChainStep
  <2>1. UNCHANGED <<seq, reverseSeq, nextSeq, ops>>
    BY Zenon, <1>7 DEF ActivateBestChainStep, StopActivating, Reorganize, tree, counters, bounds
  <2> QED
    BY Zenon, <1>1, <2>1
<1>8. CASE UNCHANGED vars
  BY Zenon, <1>1, <1>8 DEF vars, tree, counters, bounds
<1> QED
  BY Zenon, <1>2, <1>3, <1>4, <1>5, <1>6, <1>7, <1>8 DEF Next

\* The condition holds when preciousblock is not used, and when RPCs are called
\* at most twice: the tip can lose rank only by a third call, after the first
\* two gave it a lower id than the counter starts again from.
THEOREM RankAlwaysKept ==
    ASSUME Apart, MaxOps <= 2 \/ "preciousblock" \notin Operator
    PROVE  Spec => [][KeepsRank]_vars
<1>1. ASSUME Init PROVE RankInv
  BY SMTT(60), <1>1, BoundsAssumption DEF Init, RankInv
<1>2. ASSUME SafeInv, RankInv, [Next]_vars PROVE RankInv' /\ [KeepsRank]_vars
  BY Zenon, <1>2, RankNext
<1> QED
  BY <1>1, <1>2, SafeHolds, PTL DEF Spec

\* So without preciousblock, or with at most two RPCs, the checks of
\* CheckBlockIndex hold, the tip is the best usable block at rest, and
\* ActivateBestChain loses no ground, whatever the tree and the failing checks.
THEOREM SelectionCorrect ==
    ASSUME Apart, RootsOnly, MaxOps <= 2 \/ "preciousblock" \notin Operator
    PROVE  Spec => []CheckBlockIndex /\ []Settled /\ HoldsGround
BY RankAlwaysKept, BlockIndexAlwaysChecks, AlwaysSettled, GroundAlwaysHeld, PTL

=============================================================================

------------------------------ MODULE TreeProofs ------------------------------
(***************************************************************************)
(* Facts about the tree of blocks, and the two parts of the node that walk *)
(* along its branches: an optional index (IndexSync) and the anchor of the *)
(* difficulty (AnchorCache).  For every tree, every number of moves of the *)
(* chain and of restarts, and any threads.                                 *)
(*                                                                         *)
(* The index.  What the properties leave open is why the callbacks still   *)
(* in the queue do the rest.  The invariant says so: each BlockConnected   *)
(* joins what the one before it leaves, the last one leads to the tip, and *)
(* an index that is synced has the tip or will join one of them.  For a    *)
(* caller who waits, the same holds of the callbacks before its marker.    *)
(*                                                                         *)
(* The anchor.  The walk passes no block at which it could stop: a block   *)
(* between the skip pointer's target and the current block has a V14       *)
(* parent, because the target is under V14 and V14 is inherited.  What the *)
(* walk stores is the last anchor of the branch it walked, and a branch    *)
(* that is the same up to the first V14 block has the same anchors.        *)
(***************************************************************************)
EXTENDS IndexSync, AnchorCache, WellFoundedInduction, TLAPS

(* The index: what the invariant is made of.                               *)

Event == [type : {"connected", "flushed", "marker"}, block : Block \cup {None}]

IndexTypes ==
    /\ tip \in Block \cup {None} /\ coinsTip \in Block \cup {None}
    /\ queue \in Seq(Event)
    /\ \A i \in 1 .. Len(queue) : queue[i].type = "connected" => queue[i].block \in Block
    /\ best \in Block \cup {None}
    /\ pc \in {"next", "locator", "append", "commit", "done"}
    /\ pindex \in Block \cup {None}
    /\ handler \in [at : {"idle", "append", "commit", "setbest"}, block : Block \cup {None}]
    /\ indexed \subseteq Block /\ locator \in Block \cup {None}
    /\ reader \in [at : {"none", "waiting", "true"}, block : Block \cup {None}]

\* Where the index will be once the callback that runs now has ended.
Position == IF handler.at = "idle" THEN best ELSE handler.block

\* BlockConnected takes a block when the index is at p.
Joins(b, p) == Parent[b] = None \/ Parent[b] \in AncOf(p)

\* A BlockConnected callback joins what the one before it leaves.
Chained(q) ==
    \A i, j \in 1 .. Len(q) :
        /\ i < j /\ q[i].type = "connected" /\ q[j].type = "connected"
        /\ \A k \in (i + 1) .. (j - 1) : q[k].type # "connected"
        => Joins(q[j].block, q[i].block)

\* The last BlockConnected of the first n callbacks is for t or a block above.
LeadsTo(q, n, t) ==
    \A i \in 1 .. n :
        /\ q[i].type = "connected"
        /\ \A k \in (i + 1) .. n : q[k].type # "connected"
        => t \in AncOf(q[i].block)

\* An index at p has t, or one of the first n callbacks will take it there.
Covers(q, n, t, p) ==
    \/ t \in AncOf(p)
    \/ \E i \in 1 .. n : q[i].type = "connected" /\ Joins(q[i].block, p)

ThreadInv ==
    /\ pc \in {"next", "locator", "append"} => ~synced
    /\ pc = "next" => AncOf(pindex) \subseteq indexed
    /\ pc \in {"locator", "append"} => pindex \in Block /\ AncOf(Parent[pindex]) \subseteq indexed

HandlerInv ==
    /\ handler.at = "idle" => handler = Idle
    /\ handler.at # "idle" => synced /\ handler.block \in Block /\ best = Parent[handler.block]
    /\ handler.at = "setbest" => handler.block \in indexed

QueueInv ==
    /\ Chained(queue)
    /\ tip # None => LeadsTo(queue, Len(queue), tip)
    /\ tip # None /\ synced => Covers(queue, Len(queue), tip, Position)

MarkerAt(k) ==
    /\ queue[k].type = "marker"
    /\ \A j \in 1 .. Len(queue) : queue[j].type = "marker" => j = k
    /\ LeadsTo(queue, k - 1, reader.block)
    /\ Covers(queue, k - 1, reader.block, Position)

ReaderInv ==
    /\ reader.at = "waiting" => /\ synced /\ reader.block \in Block
                                /\ \E k \in 1 .. Len(queue) : MarkerAt(k)
    /\ reader.at # "waiting" => \A j \in 1 .. Len(queue) : queue[j].type # "marker"
    /\ ReaderSeesChain

IndexInv ==
    /\ IndexTypes
    /\ NoHoles
    /\ ThreadInv
    /\ HandlerInv
    /\ QueueInv
    /\ ReaderInv

\* A step that leaves thread, handler, database and reader alone keeps the types
\* if the chain and the queue of callbacks keep theirs.
LEMMA ChainTypesSuffice ==
    ASSUME IndexTypes, UNCHANGED <<best, thread, handler, db, reader>>,
           tip' \in Block \cup {None}, coinsTip' \in Block \cup {None}, queue' \in Seq(Event),
           \A i \in 1 .. Len(queue') : queue'[i].type = "connected" => queue'[i].block \in Block
    PROVE  IndexTypes'
BY SMTT(60) DEF IndexTypes, thread, db

-----------------------------------------------------------------------------
(* The tree of blocks.                                                     *)

\* A set of natural numbers that is not empty has a least element.
LEMMA LeastNatural ==
    ASSUME NEW S \in SUBSET Nat, S # {}
    PROVE  \E m \in S : \A n \in S : m <= n
<1>1. OpToRel(<, Nat) = {ss \in Nat \X Nat : ss[1] < ss[2]}
  BY Zenon DEF OpToRel
<1>2. PICK m \in S : \A n \in S : <<n, m>> \notin OpToRel(<, Nat)
  BY Zenon, WFMin, NatLessThanWellFounded
<1>3. ASSUME NEW n \in S PROVE m <= n
  <2>1. <<n, m>> \notin {ss \in Nat \X Nat : ss[1] < ss[2]}
    BY <1>1, <1>2, Zenon
  <2>2. <<n, m>> \in Nat \X Nat /\ <<n, m>>[1] = n /\ <<n, m>>[2] = m
    BY Zenon
  <2>3. ~(n < m)
    BY <2>1, <2>2, Zenon
  <2> QED
    BY <2>3
<1> QED
  BY Zenon, <1>3

\* Induction along pprev: heights go down from child to parent, so a set that
\* has every block whose parent it has, and the first blocks, has all blocks.
LEMMA TreeInduction ==
    ASSUME NEW S, \A b \in Block : Parent[b] = None \/ Parent[b] \in S => b \in S
    PROVE  Block \subseteq S
<1> DEFINE Left == {Height[b] : b \in Block \ S}
<1> SUFFICES ASSUME NEW x \in Block, x \notin S PROVE FALSE
  BY Zenon
<1>1. Left \in SUBSET Nat /\ Left # {}
  BY TreeAssumption
<1>2. PICK m \in Left : \A n \in Left : m <= n
  <2> HIDE DEF Left
  <2> QED
    BY Zenon, <1>1, LeastNatural
<1>3. PICK b \in Block \ S : m = Height[b]
  BY Zenon, <1>2
<1>4. Parent[b] \in Block \ S /\ Height[b] = Height[Parent[b]] + 1
  BY <1>3, TreeAssumption
<1>5. Height[Parent[b]] \in Left /\ Height[Parent[b]] \in Nat
  BY Zenon, <1>4, TreeAssumption
<1>6. m <= Height[Parent[b]]
  <2> HIDE DEF Left
  <2> QED
    BY Zenon, <1>2, <1>5
<1> QED
  BY <1>3, <1>4, <1>5, <1>6

\* The equation of Anc, by cases.
LEMMA AncOfBlock ==
    ASSUME NEW b \in Block
    PROVE  /\ b \in Anc[b] /\ Anc[b] \subseteq Block
           /\ Parent[b] = None => Anc[b] = {b} /\ Height[b] = 0
           /\ Parent[b] # None => /\ Parent[b] \in Block /\ Parent[b] \in Anc[Parent[b]]
                                  /\ Anc[b] = {b} \cup Anc[Parent[b]]
                                  /\ Height[b] = Height[Parent[b]] + 1
           /\ AncOf(b) = {b} \cup AncOf(Parent[b])
           /\ Height[b] \in Nat
<1>1. Anc[b] = {b} \cup IF Parent[b] = None THEN {} ELSE Anc[Parent[b]]
  BY Zenon, TreeAssumption
<1>2. Parent[b] # None => Parent[b] \in Block
  BY Zenon, TreeAssumption
<1>3. Parent[b] # None => Parent[b] \in Anc[Parent[b]]
  BY <1>2, TreeAssumption
<1> QED
  BY Zenon, <1>1, <1>2, <1>3, TreeAssumption DEF AncOf

\* An ancestor's ancestors are ancestors.
LEMMA AncTransitive == \A b \in Block : \A c \in Anc[b] : Anc[c] \subseteq Anc[b]
<1> DEFINE S == {b \in Block : \A c \in Anc[b] : Anc[c] \subseteq Anc[b]}
<1>1. ASSUME NEW b \in Block, Parent[b] = None \/ Parent[b] \in S PROVE b \in S
  BY <1>1, AncOfBlock
<1> HIDE DEF S
<1>2. Block \subseteq S
  BY Zenon, <1>1, TreeInduction
<1> QED
  BY Zenon, <1>2 DEF S

\* A proper ancestor is lower.
LEMMA AncLower ==
    \A b \in Block : \A c \in Anc[b] : c = b \/ Height[c] < Height[b]
<1> DEFINE S == {b \in Block : \A c \in Anc[b] : c = b \/ Height[c] < Height[b]}
<1>1. ASSUME NEW b \in Block, Parent[b] = None \/ Parent[b] \in S PROVE b \in S
  <2>1. CASE Parent[b] = None
    BY Zenon, <2>1, AncOfBlock
  <2>2. CASE Parent[b] # None
    <3>1. Parent[b] \in Block /\ Parent[b] \in S /\ Anc[Parent[b]] \subseteq Block
      BY Zenon, <1>1, <2>2, AncOfBlock
    <3>2. ASSUME NEW c \in Anc[Parent[b]] PROVE Height[c] < Height[b]
      BY <2>2, <3>1, AncOfBlock
    <3> QED
      BY Zenon, <2>2, <3>2, AncOfBlock
  <2> QED
    BY Zenon, <2>1, <2>2
<1> HIDE DEF S
<1>2. Block \subseteq S
  BY Zenon, <1>1, TreeInduction
<1> QED
  BY Zenon, <1>2 DEF S

\* Of two blocks of a branch one is an ancestor of the other.
LEMMA AncLinear == \A b \in Block : \A c, d \in Anc[b] : c \in Anc[d] \/ d \in Anc[c]
<1> DEFINE S == {b \in Block : \A c, d \in Anc[b] : c \in Anc[d] \/ d \in Anc[c]}
<1>1. ASSUME NEW b \in Block, Parent[b] = None \/ Parent[b] \in S PROVE b \in S
  BY <1>1, AncOfBlock
<1> HIDE DEF S
<1>2. Block \subseteq S
  BY Zenon, <1>1, TreeInduction
<1> QED
  BY Zenon, <1>2 DEF S

\* A branch has one block of each height.
LEMMA AncUnique ==
    ASSUME NEW b \in Block, NEW c \in Anc[b], NEW d \in Anc[b], Height[c] = Height[d]
    PROVE  c = d
<1>1. c \in Block /\ d \in Block /\ Height[c] \in Nat
  BY Zenon, AncOfBlock
<1> QED
  BY <1>1, AncLinear, AncLower

\* GetAncestor finds a block of every height up to the block's own.
LEMMA AncAt == \A b \in Block : \A h \in 0 .. Height[b] : \E c \in Anc[b] : Height[c] = h
<1> DEFINE S == {b \in Block : \A h \in 0 .. Height[b] : \E c \in Anc[b] : Height[c] = h}
<1>1. ASSUME NEW b \in Block, Parent[b] = None \/ Parent[b] \in S PROVE b \in S
  <2> SUFFICES ASSUME NEW h \in 0 .. Height[b] PROVE \E c \in Anc[b] : Height[c] = h
    BY Zenon
  <2>1. CASE h = Height[b]
    BY Zenon, <2>1, AncOfBlock
  <2>2. CASE h # Height[b]
    <3>1. Parent[b] # None /\ Parent[b] \in S
      BY <1>1, <2>2, AncOfBlock
    <3>2. Height[b] = Height[Parent[b]] + 1 /\ Height[Parent[b]] \in Nat
      BY Zenon, <3>1, AncOfBlock
    <3>3. h \in 0 .. Height[Parent[b]]
      BY <2>2, <3>2
    <3> QED
      BY Zenon, <3>1, <3>3, AncOfBlock
  <2> QED
    BY Zenon, <2>1, <2>2
<1> HIDE DEF S
<1>2. Block \subseteq S
  BY Zenon, <1>1, TreeInduction
<1> QED
  BY Zenon, <1>2 DEF S

\* Below a block lies a first block, and above each ancestor another one.
LEMMA ChildToward ==
    \A t \in Block :
        /\ \E b \in Anc[t] : Parent[b] = None
        /\ \A f \in Anc[t] : f # t => \E b \in Anc[t] : Parent[b] = f
<1> DEFINE S == {t \in Block : /\ \E b \in Anc[t] : Parent[b] = None
                               /\ \A f \in Anc[t] : f # t => \E b \in Anc[t] : Parent[b] = f}
<1>1. ASSUME NEW t \in Block, Parent[t] = None \/ Parent[t] \in S PROVE t \in S
  <2>1. CASE Parent[t] = None
    BY <2>1, AncOfBlock
  <2>2. CASE Parent[t] # None
    BY <1>1, <2>2, AncOfBlock
  <2> QED
    BY Zenon, <2>1, <2>2
<1> HIDE DEF S
<1>2. Block \subseteq S
  BY Zenon, <1>1, TreeInduction
<1> QED
  BY Zenon, <1>2 DEF S

\* FindFork returns the highest block two branches share.
LEMMA ForkFacts ==
    ASSUME NEW a \in Block \cup {None}, NEW b \in Block \cup {None}
    PROVE  \/ ForkOf(a, b) = None /\ AncOf(a) \cap AncOf(b) = {}
           \/ /\ ForkOf(a, b) \in AncOf(a) \cap AncOf(b) /\ ForkOf(a, b) \in Block
              /\ AncOf(a) \cap AncOf(b) \subseteq Anc[ForkOf(a, b)]
<1> DEFINE common == AncOf(a) \cap AncOf(b)
           depth == {Height[b] - Height[c] : c \in common}
<1>1. CASE common = {}
  BY Zenon, <1>1 DEF ForkOf
<1>2. CASE common # {}
  <2>1. b \in Block /\ AncOf(b) = Anc[b] /\ common \subseteq Block
    BY Zenon, <1>2, AncOfBlock DEF AncOf
  <2>2. depth \in SUBSET Nat /\ depth # {}
    <3>1. ASSUME NEW c \in common PROVE Height[b] - Height[c] \in Nat
      BY <2>1, AncLower, AncOfBlock DEF AncOf
    <3> QED
      BY Zenon, <1>2, <3>1
  <2>3. PICK m \in depth : \A n \in depth : m <= n
    <3> HIDE DEF depth
    <3> QED
      BY Zenon, <2>2, LeastNatural
  <2>4. PICK c \in common : m = Height[b] - Height[c]
    BY Zenon, <2>3
  <2>5. ASSUME NEW d \in common PROVE d \in Anc[c]
    <3>1. c \in Block /\ d \in Block /\ Height[c] \in Nat /\ Height[d] \in Nat /\ Height[b] \in Nat
      BY Zenon, <2>1, AncOfBlock
    <3>2. Height[d] <= Height[c]
      <4>1. m <= Height[b] - Height[d]
        BY Zenon, <2>3
      <4> HIDE DEF depth, common
      <4> QED
        BY <2>4, <3>1, <4>1
    <3>3. d \in Anc[c] \/ c \in Anc[d]
      BY Zenon, <2>1, AncLinear
    <3> QED
      BY <3>1, <3>2, <3>3, AncLower, AncOfBlock
  <2>6. \E x \in common : common \subseteq Anc[x]
    BY Zenon, <2>5
  <2>7. ForkOf(a, b) = CHOOSE x \in common : common \subseteq Anc[x]
    BY Zenon, <1>2 DEF ForkOf
  <2>8. ForkOf(a, b) \in common /\ common \subseteq Anc[ForkOf(a, b)]
    <3> HIDE DEF common
    <3> QED
      BY Zenon, <2>6, <2>7
  <2> QED
    BY Zenon, <2>1, <2>8
<1> QED
  BY Zenon, <1>1, <1>2

\* GetAncestor returns the ancestor of that height; its parent is one lower.
LEMMA AncestorAtFacts ==
    ASSUME NEW b \in Block, NEW h \in 0 .. Height[b]
    PROVE  /\ AncestorAt(b, h) \in Anc[b] /\ AncestorAt(b, h) \in Block
           /\ Height[AncestorAt(b, h)] = h
           /\ h = 0 => Parent[AncestorAt(b, h)] = None
           /\ h > 0 => Parent[AncestorAt(b, h)] = AncestorAt(b, h - 1)
<1>1. ASSUME NEW k \in 0 .. Height[b]
      PROVE  /\ AncestorAt(b, k) \in Anc[b] /\ AncestorAt(b, k) \in Block
             /\ Height[AncestorAt(b, k)] = k
  <2>1. \E c \in Anc[b] : Height[c] = k
    BY Zenon, AncAt
  <2>2. AncestorAt(b, k) \in Anc[b] /\ Height[AncestorAt(b, k)] = k
    BY Zenon, <2>1 DEF AncestorAt
  <2> QED
    BY Zenon, <2>2, AncOfBlock
<1> DEFINE c == AncestorAt(b, h)
<1>2. c \in Anc[b] /\ c \in Block /\ Height[c] = h
  BY Zenon, <1>1
<1>3. CASE Parent[c] = None
  <2>1. h = 0
    BY Zenon, <1>2, <1>3, AncOfBlock
  <2> QED
    BY <1>2, <1>3, <2>1
<1>4. CASE Parent[c] # None
  <2>1. Parent[c] \in Block /\ Parent[c] \in Anc[c] /\ Height[c] = Height[Parent[c]] + 1
             /\ Height[Parent[c]] \in Nat
    BY Zenon, <1>2, <1>4, AncOfBlock
  <2>2. Parent[c] \in Anc[b] /\ Height[Parent[c]] = h - 1 /\ h - 1 \in 0 .. Height[b]
    BY <1>2, <2>1, AncTransitive, AncOfBlock
  <2>3. AncestorAt(b, h - 1) \in Anc[b] /\ Height[AncestorAt(b, h - 1)] = h - 1
    BY Zenon, <1>1, <2>2
  <2>4. Parent[c] = AncestorAt(b, h - 1)
    BY Zenon, <2>2, <2>3, AncUnique
  <2> QED
    BY <1>2, <2>2, <2>4
<1> QED
  BY Zenon, <1>3, <1>4

\* The blocks ActivateBestChainStep connects are a path from the fork to the
\* new tip.
LEMMA PathFacts ==
    ASSUME NEW a \in Block \cup {None}, NEW b \in Block, HeightOf(b) > HeightOf(a),
           NEW n, n = Len(PathTo(a, b))
    PROVE  /\ PathTo(a, b) \in Seq(Block)
           /\ n \in Nat /\ n >= 1
           /\ PathTo(a, b)[n] = b
           /\ Parent[PathTo(a, b)[1]] \in {None} \cup AncOf(a)
           /\ \A i \in 1 .. (n - 1) : Parent[PathTo(a, b)[i + 1]] = PathTo(a, b)[i]
<1> DEFINE f == HeightOf(ForkOf(a, b))
<1>1. /\ f \in Int /\ f >= -1 /\ f < Height[b]
      /\ f = -1 \/ (ForkOf(a, b) \in Anc[b] /\ Height[ForkOf(a, b)] = f /\ ForkOf(a, b) \in AncOf(a))
  <2>1. b # None /\ HeightOf(b) = Height[b] /\ Height[b] \in Nat /\ AncOf(b) = Anc[b]
    BY Zenon, AncOfBlock, TreeAssumption DEF HeightOf, AncOf
  <2>2. CASE ForkOf(a, b) = None
    BY <2>1, <2>2 DEF HeightOf
  <2>3. CASE ForkOf(a, b) # None
    <3>1. ForkOf(a, b) \in AncOf(a) \cap Anc[b] /\ ForkOf(a, b) \in Block
      BY Zenon, <2>1, <2>3, ForkFacts
    <3>2. a \in Block /\ HeightOf(a) = Height[a] /\ AncOf(a) = Anc[a]
      BY Zenon, <3>1, TreeAssumption DEF AncOf, HeightOf
    <3>3. f = Height[ForkOf(a, b)] /\ f \in Nat
      BY Zenon, <2>3, <3>1, AncOfBlock DEF HeightOf
    <3>4. f <= Height[a] /\ Height[a] \in Nat
      BY <3>1, <3>2, <3>3, AncLower, AncOfBlock
    <3> QED
      BY <2>1, <3>1, <3>2, <3>3, <3>4
  <2> QED
    BY Zenon, <2>2, <2>3
<1>2. Height[b] \in Nat /\ HeightOf(b) = Height[b]
  BY Zenon, AncOfBlock, TreeAssumption DEF HeightOf
<1> HIDE DEF f
<1>3. PathTo(a, b) = [i \in 1 .. (Height[b] - f) |-> AncestorAt(b, f + i)]
  BY Zenon, <1>2 DEF PathTo, f
<1>4. Height[b] - f \in Nat /\ Height[b] - f >= 1
  BY <1>1, <1>2
<1>5. ASSUME NEW i \in 1 .. (Height[b] - f) PROVE f + i \in 0 .. Height[b] /\ AncestorAt(b, f + i) \in Block
  <2>1. f + i \in 0 .. Height[b]
    BY <1>1, <1>2
  <2> QED
    BY Zenon, <2>1, AncestorAtFacts
<1>6. n = Height[b] - f
  BY <1>3, <1>4
<1>7. PathTo(a, b) \in Seq(Block)
  BY <1>3, <1>4, <1>5
<1>8. PathTo(a, b)[n] = b
  <2>1. PathTo(a, b)[n] = AncestorAt(b, f + n) /\ f + n = Height[b]
    BY <1>1, <1>2, <1>3, <1>4, <1>6
  <2>2. Height[b] \in 0 .. Height[b]
    BY <1>2
  <2>3. AncestorAt(b, Height[b]) \in Anc[b] /\ Height[AncestorAt(b, Height[b])] = Height[b]
    BY Zenon, <2>2, AncestorAtFacts
  <2> QED
    BY <2>1, <2>3, AncUnique, AncOfBlock
<1>9. Parent[PathTo(a, b)[1]] \in {None} \cup AncOf(a)
  <2>1. PathTo(a, b)[1] = AncestorAt(b, f + 1) /\ f + 1 \in 0 .. Height[b]
    BY <1>3, <1>4, <1>5
  <2>2. CASE f = -1
    BY <2>1, <2>2, AncestorAtFacts
  <2>3. CASE f # -1
    <3>1. f + 1 > 0 /\ (f + 1) - 1 = f /\ f \in 0 .. Height[b]
      BY <1>1, <1>2, <2>3
    <3>2. Parent[PathTo(a, b)[1]] = AncestorAt(b, f)
      BY Zenon, <2>1, <3>1, AncestorAtFacts
    <3>3. AncestorAt(b, f) = ForkOf(a, b)
      BY <1>1, <2>3, <3>1, AncestorAtFacts, AncUnique
    <3> QED
      BY Zenon, <1>1, <2>3, <3>2, <3>3
  <2> QED
    BY Zenon, <2>2, <2>3
<1>10. ASSUME NEW i \in 1 .. (n - 1) PROVE Parent[PathTo(a, b)[i + 1]] = PathTo(a, b)[i]
  <2>1. i \in 1 .. (Height[b] - f) /\ i + 1 \in 1 .. (Height[b] - f)
    BY <1>4, <1>6
  <2>2. PathTo(a, b)[i + 1] = AncestorAt(b, f + (i + 1)) /\ PathTo(a, b)[i] = AncestorAt(b, f + i)
    BY Zenon, <1>3, <2>1
  <2>3. f + (i + 1) \in 0 .. Height[b] /\ f + (i + 1) > 0 /\ (f + (i + 1)) - 1 = f + i
    BY <1>1, <1>5, <2>1
  <2> QED
    BY <2>2, <2>3, AncestorAtFacts
<1> QED
  BY Zenon, <1>4, <1>6, <1>7, <1>8, <1>9, <1>10

-----------------------------------------------------------------------------
(* The queue of callbacks.                                                 *)

\* What lies below a block that the index has, it has too.
LEMMA AncOfFacts ==
    ASSUME NEW p \in Block \cup {None}
    PROVE  /\ AncOf(p) \subseteq Block
           /\ p \in Block => p \in AncOf(p) /\ AncOf(p) = {p} \cup AncOf(Parent[p])
           /\ \A c \in AncOf(p) : AncOf(c) \subseteq AncOf(p) /\ c # None
BY Zenon, AncOfBlock, AncTransitive, TreeAssumption DEF AncOf

\* Callbacks are taken from the front.
LEMMA TakeFirst ==
    ASSUME NEW q \in Seq(Event), q # <<>>
    PROVE  /\ Tail(q) \in Seq(Event) /\ Len(q) \in Nat /\ Len(q) >= 1
           /\ Len(Tail(q)) = Len(q) - 1 /\ Head(q) = q[1]
           /\ \A i \in 1 .. (Len(q) - 1) : Tail(q)[i] = q[i + 1]
OBVIOUS

\* The order among the callbacks left does not change.
LEMMA TakeChained ==
    ASSUME NEW q \in Seq(Event), q # <<>>, Chained(q)
    PROVE  Chained(Tail(q))
<1> DEFINE r == Tail(q)
<1> SUFFICES ASSUME NEW i \in 1 .. Len(r), NEW j \in 1 .. Len(r),
                    i < j, r[i].type = "connected", r[j].type = "connected",
                    \A k \in (i + 1) .. (j - 1) : r[k].type # "connected"
             PROVE  Joins(r[j].block, r[i].block)
  BY Zenon DEF Chained
<1>1. /\ i + 1 \in 1 .. Len(q) /\ j + 1 \in 1 .. Len(q) /\ r[i] = q[i + 1] /\ r[j] = q[j + 1]
      /\ i \in Nat /\ j \in Nat /\ j <= Len(q) - 1
  BY TakeFirst
<1>2. ASSUME NEW k \in ((i + 1) + 1) .. ((j + 1) - 1) PROVE q[k].type # "connected"
  <2>1. k - 1 \in (i + 1) .. (j - 1) /\ k - 1 \in 1 .. (Len(q) - 1)
    BY <1>1, TakeFirst
  <2>2. r[k - 1] = q[(k - 1) + 1] /\ (k - 1) + 1 = k
    BY <2>1, TakeFirst
  <2>3. r[k - 1].type # "connected"
    BY Zenon, <2>1
  <2> HIDE DEF r
  <2> QED
    BY Zenon, <2>2, <2>3
<1> QED
  BY <1>1, <1>2 DEF Chained

\* Taking the first callback does not change where the last one leads.
LEMMA TakeLeads ==
    ASSUME NEW q \in Seq(Event), q # <<>>, NEW n \in 1 .. Len(q), NEW t, LeadsTo(q, n, t)
    PROVE  LeadsTo(Tail(q), n - 1, t)
<1> DEFINE r == Tail(q)
<1> SUFFICES ASSUME NEW i \in 1 .. (n - 1), r[i].type = "connected",
                    \A k \in (i + 1) .. (n - 1) : r[k].type # "connected"
             PROVE  t \in AncOf(r[i].block)
  BY Zenon DEF LeadsTo
<1>1. i + 1 \in 1 .. n /\ r[i] = q[i + 1] /\ Len(q) \in Nat
  BY TakeFirst
<1>2. ASSUME NEW k \in ((i + 1) + 1) .. n PROVE q[k].type # "connected"
  <2>1. k - 1 \in (i + 1) .. (n - 1) /\ k - 1 \in 1 .. (Len(q) - 1)
    BY <1>1
  <2>2. r[k - 1] = q[(k - 1) + 1] /\ (k - 1) + 1 = k
    BY <2>1, TakeFirst
  <2>3. r[k - 1].type # "connected"
    BY Zenon, <2>1
  <2> HIDE DEF r
  <2> QED
    BY Zenon, <2>2, <2>3
<1> QED
  BY Zenon, <1>1, <1>2 DEF LeadsTo

\* A callback that joins takes the index to its own block, which the next one
\* joins; without a next one the goal is reached.
LEMMA TakeJoined ==
    ASSUME NEW q \in Seq(Event), q # <<>>, NEW n \in 1 .. Len(q), NEW t,
           Chained(q), LeadsTo(q, n, t), q[1].type = "connected"
    PROVE  Covers(Tail(q), n - 1, t, q[1].block)
<1> DEFINE later == {i \in 2 .. n : q[i].type = "connected"}
<1>0. Len(q) \in Nat /\ Len(q) >= 1 /\ n \in Nat
  BY TakeFirst
<1>1. CASE later = {}
  <2>1. 1 \in 1 .. n /\ \A k \in (1 + 1) .. n : q[k].type # "connected"
    BY <1>1
  <2> QED
    BY Zenon, <2>1 DEF LeadsTo, Covers
<1>2. CASE later # {}
  <2>1. later \in SUBSET Nat
    OBVIOUS
  <2>2. PICK j \in later : \A i \in later : j <= i
    <3> HIDE DEF later
    <3> QED
      BY Zenon, <1>2, <2>1, LeastNatural
  <2>3. j \in 2 .. n /\ q[j].type = "connected"
    BY Zenon, <2>2
  <2>4. ASSUME NEW k \in (1 + 1) .. (j - 1) PROVE q[k].type # "connected"
    <3>1. k \in 2 .. n /\ k < j
      BY <1>0, <2>3
    <3>2. k \notin later
      <4> HIDE DEF later
      <4> QED
        BY <2>2, <2>3, <3>1
    <3> QED
      BY Zenon, <3>1, <3>2
  <2>5. Joins(q[j].block, q[1].block)
    <3>1. 1 \in 1 .. Len(q) /\ j \in 1 .. Len(q) /\ 1 < j
      BY <1>0, <2>3
    <3> QED
      BY Zenon, <2>3, <2>4, <3>1 DEF Chained
  <2>6. j - 1 \in 1 .. (n - 1) /\ Tail(q)[j - 1] = q[j]
    <3>1. j - 1 \in 1 .. (n - 1) /\ j - 1 \in 1 .. (Len(q) - 1) /\ (j - 1) + 1 = j
      BY <1>0, <2>3
    <3> QED
      BY Zenon, <3>1, TakeFirst
  <2> QED
    BY Zenon, <2>3, <2>5, <2>6 DEF Covers
<1> QED
  BY Zenon, <1>1, <1>2

\* A callback that the index ignores was not the one that takes it on.
LEMMA TakeSkipped ==
    ASSUME NEW q \in Seq(Event), q # <<>>, NEW n \in 1 .. Len(q), NEW t, NEW p,
           Covers(q, n, t, p), q[1].type = "connected" => ~Joins(q[1].block, p)
    PROVE  Covers(Tail(q), n - 1, t, p)
<1>1. CASE t \in AncOf(p)
  BY Zenon, <1>1 DEF Covers
<1>2. CASE t \notin AncOf(p)
  <2>1. PICK i \in 1 .. n : q[i].type = "connected" /\ Joins(q[i].block, p)
    BY Zenon, <1>2 DEF Covers
  <2>2. i - 1 \in 1 .. (n - 1) /\ i - 1 \in 1 .. (Len(q) - 1) /\ (i - 1) + 1 = i
    BY <2>1, TakeFirst
  <2>3. Tail(q)[i - 1] = q[i]
    BY Zenon, <2>2, TakeFirst
  <2> QED
    BY Zenon, <2>1, <2>2, <2>3 DEF Covers
<1> QED
  BY Zenon, <1>1, <1>2

\* New callbacks at the end change nothing for those in front.
LEMMA SamePrefix ==
    ASSUME NEW q, NEW r, NEW n \in Nat, \A i \in 1 .. n : r[i] = q[i], NEW t, NEW p
    PROVE  /\ LeadsTo(q, n, t) => LeadsTo(r, n, t)
           /\ Covers(q, n, t, p) => Covers(r, n, t, p)
<1>1. ASSUME LeadsTo(q, n, t), NEW i \in 1 .. n, r[i].type = "connected",
             \A k \in (i + 1) .. n : r[k].type # "connected"
      PROVE  t \in AncOf(r[i].block)
  <2>1. \A k \in (i + 1) .. n : k \in 1 .. n
    OBVIOUS
  <2>2. \A k \in (i + 1) .. n : q[k].type # "connected"
    BY Zenon, <1>1, <2>1
  <2> QED
    BY Zenon, <1>1, <2>2 DEF LeadsTo
<1> QED
  BY Zenon, <1>1 DEF LeadsTo, Covers

\* A callback is added at the end.
WithCallback(q, e) == Append(q, e)

\* One of another kind leads where the queue did.
LEMMA AppendOther ==
    ASSUME NEW q \in Seq(Event), NEW e \in Event, e.type # "connected", Chained(q)
    PROVE  /\ WithCallback(q, e) \in Seq(Event) /\ Len(WithCallback(q, e)) = Len(q) + 1
           /\ \A i \in 1 .. Len(q) : WithCallback(q, e)[i] = q[i]
           /\ WithCallback(q, e)[Len(q) + 1] = e
           /\ Chained(WithCallback(q, e))
           /\ \A t : LeadsTo(q, Len(q), t) => LeadsTo(WithCallback(q, e), Len(q) + 1, t)
           /\ \A t, p : Covers(q, Len(q), t, p) => Covers(WithCallback(q, e), Len(q) + 1, t, p)
<1>0. PICK n, r : n = Len(q) /\ r = WithCallback(q, e)
  BY Zenon
<1>1. /\ r \in Seq(Event) /\ n \in Nat /\ Len(r) = n + 1
      /\ \A i \in 1 .. n : r[i] = q[i]
      /\ r[n + 1] = e
  BY <1>0 DEF WithCallback
<1>2. \A i \in 1 .. (n + 1) : r[i].type = "connected" => i \in 1 .. n
  BY <1>1
<1>3. Chained(r)
  <2> SUFFICES ASSUME NEW i \in 1 .. Len(r), NEW j \in 1 .. Len(r),
                      i < j, r[i].type = "connected", r[j].type = "connected",
                      \A k \in (i + 1) .. (j - 1) : r[k].type # "connected"
               PROVE  Joins(r[j].block, r[i].block)
    BY Zenon DEF Chained
  <2>1. i \in 1 .. n /\ j \in 1 .. n
    BY Zenon, <1>1, <1>2
  <2>2. \A k \in (i + 1) .. (j - 1) : k \in 1 .. n
    BY <1>1, <2>1
  <2>3. \A k \in (i + 1) .. (j - 1) : q[k].type # "connected"
    BY Zenon, <1>1, <2>2
  <2> QED
    BY Zenon, <1>0, <1>1, <2>1, <2>3 DEF Chained
<1>4. ASSUME NEW t, LeadsTo(q, n, t), NEW i \in 1 .. (n + 1), r[i].type = "connected",
             \A k \in (i + 1) .. (n + 1) : r[k].type # "connected"
      PROVE  t \in AncOf(r[i].block)
  <2>1. i \in 1 .. n /\ \A k \in (i + 1) .. n : k \in 1 .. n /\ k \in (i + 1) .. (n + 1)
    BY <1>1, <1>2, <1>4
  <2>2. \A k \in (i + 1) .. n : q[k].type # "connected"
    BY Zenon, <1>1, <1>4, <2>1
  <2> QED
    BY Zenon, <1>1, <1>4, <2>1, <2>2 DEF LeadsTo
<1>5. \A t : LeadsTo(q, n, t) => LeadsTo(r, n + 1, t)
  BY Zenon, <1>4 DEF LeadsTo
<1>6. \A t, p : Covers(q, n, t, p) => Covers(r, n + 1, t, p)
  <2>1. \A i \in 1 .. n : i \in 1 .. (n + 1) /\ r[i] = q[i]
    BY <1>1
  <2> QED
    BY Zenon, <2>1 DEF Covers
<1> QED
  BY Zenon, <1>0, <1>1, <1>3, <1>5, <1>6

\* A path of m blocks from what a has to b.
IsPath(path, m, a, b) ==
    /\ path[m] = b /\ Parent[path[1]] \in {None} \cup AncOf(a)
    /\ \A i \in 1 .. (m - 1) : Parent[path[i + 1]] = path[i]

\* r is q and a callback for each of m blocks.
Queued(q, r, n, m, path) ==
    /\ Len(q) = n /\ Len(r) = n + m
    /\ \A i \in 1 .. n : r[i] = q[i]
    /\ \A i \in (n + 1) .. (n + m) : /\ i - n \in 1 .. m
                                     /\ r[i].type = "connected"
                                     /\ r[i].block = path[i - n] /\ path[i - n] \in Block

\* The callbacks of a path from a, which the last callback leads to, to b.
LEMMA PathChained ==
    ASSUME NEW q \in Seq(Event), NEW r \in Seq(Event), Chained(q),
           NEW a \in Block \cup {None}, NEW b \in Block, NEW p \in Block \cup {None},
           NEW n \in Nat, NEW m \in Nat, m >= 1, NEW path,
           Queued(q, r, n, m, path), IsPath(path, m, a, b),
           a # None => LeadsTo(q, n, a)
    PROVE  /\ Chained(r)
           /\ LeadsTo(r, n + m, b)
           /\ (a # None => Covers(q, n, a, p)) => Covers(r, n + m, b, p)
<1>0. /\ path[m] = b /\ Parent[path[1]] \in {None} \cup AncOf(a)
      /\ \A i \in 1 .. (m - 1) : Parent[path[i + 1]] = path[i]
      /\ Len(q) = n /\ Len(r) = n + m
      /\ \A i \in 1 .. n : r[i] = q[i]
      /\ \A i \in (n + 1) .. (n + m) : /\ i - n \in 1 .. m
                                       /\ r[i].type = "connected"
                                       /\ r[i].block = path[i - n] /\ path[i - n] \in Block
  BY Zenon DEF IsPath, Queued
<1> USE <1>0
<1>1. Chained(r)
  <2> SUFFICES ASSUME NEW i \in 1 .. (n + m), NEW j \in 1 .. (n + m),
                      i < j, r[i].type = "connected", r[j].type = "connected",
                      \A k \in (i + 1) .. (j - 1) : r[k].type # "connected"
               PROVE  Joins(r[j].block, r[i].block)
    BY Zenon DEF Chained
  <2>1. CASE j <= n
    <3>1. i \in 1 .. n /\ j \in 1 .. n /\ \A k \in (i + 1) .. (j - 1) : k \in 1 .. n
      BY SMTT(60), <2>1
    <3>2. \A k \in (i + 1) .. (j - 1) : q[k].type # "connected"
      BY Zenon, <3>1
    <3> QED
      BY Zenon, <3>1, <3>2 DEF Chained
  <2>2. CASE i <= n /\ n < j
    <3>1. j = n + 1
      <4>1. n + 1 \in (i + 1) .. (j - 1) \/ j = n + 1
        BY <2>2
      <4>2. n + 1 \in (n + 1) .. (n + m)
        OBVIOUS
      <4> QED
        BY Zenon, <4>1, <4>2
    <3>2. r[j].block = path[1] /\ i \in 1 .. n /\ r[i] = q[i]
      BY <2>2, <3>1
    <3>3. \A k \in (i + 1) .. n : q[k].type # "connected"
      BY <2>2, <3>1
    <3>4. a # None => a \in AncOf(q[i].block)
      BY Zenon, <3>2, <3>3 DEF LeadsTo
    <3>5. q[i].block \in Block \cup {None}
      <4>1. q[i] \in Event
        BY SMTT(60), <3>2
      <4> QED
        BY Zenon, <4>1 DEF Event
    <3> QED
      BY SMTT(60), <3>2, <3>4, <3>5, AncOfFacts DEF Joins, AncOf
  <2>3. CASE n < i
    <3>1. j = i + 1
      <4>1. i + 1 \in (i + 1) .. (j - 1) \/ j = i + 1
        BY SMTT(60), <2>3
      <4>2. i + 1 \in (n + 1) .. (n + m)
        BY <2>3
      <4> QED
        BY Zenon, <4>1, <4>2
    <3>2. r[i].block = path[i - n] /\ r[j].block = path[(i - n) + 1] /\ i - n \in 1 .. (m - 1)
             /\ path[i - n] \in Block
      BY <2>3, <3>1
    <3> QED
      BY SMTT(60), <3>2, AncOfFacts DEF Joins
  <2> QED
    BY SMTT(60), <2>1, <2>2, <2>3
<1>2. LeadsTo(r, n + m, b)
  <2> SUFFICES ASSUME NEW i \in 1 .. (n + m), r[i].type = "connected",
                      \A k \in (i + 1) .. (n + m) : r[k].type # "connected"
               PROVE  b \in AncOf(r[i].block)
    BY Zenon DEF LeadsTo
  <2>1. n + m \in (n + 1) .. (n + m) /\ (n + m) - n = m /\ n + m \in Int
    BY SMTT(60)
  <2>2. r[n + m].type = "connected" /\ r[n + m].block = b
    BY Zenon, <2>1
  <2>3. i = n + m
    BY SMTT(60), <2>1, <2>2
  <2> QED
    BY Zenon, <2>2, <2>3, AncOfFacts
<1>3. ASSUME a # None => Covers(q, n, a, p) PROVE Covers(r, n + m, b, p)
  <2>1. n + 1 \in (n + 1) .. (n + m) /\ n + 1 \in 1 .. (n + m) /\ (n + 1) - n = 1
    OBVIOUS
  <2>2. r[n + 1].type = "connected" /\ r[n + 1].block = path[1]
    BY Zenon, <2>1
  <2>3. CASE a = None \/ a \in AncOf(p)
    <3>1. Joins(path[1], p)
      BY SMTT(60), <2>3, AncOfFacts DEF Joins, AncOf
    <3> QED
      BY Zenon, <2>1, <2>2, <3>1 DEF Covers
  <2>4. CASE ~(a = None \/ a \in AncOf(p))
    <3>1. PICK i \in 1 .. n : q[i].type = "connected" /\ Joins(q[i].block, p)
      BY Zenon, <1>3, <2>4 DEF Covers
    <3>2. i \in 1 .. (n + m) /\ r[i] = q[i]
      BY SMTT(60)
    <3> QED
      BY Zenon, <3>1, <3>2 DEF Covers
  <2> QED
    BY Zenon, <2>3, <2>4
<1> QED
  BY Zenon, <1>1, <1>2, <1>3

\* ActivateBestChainStep queues a callback for every block it connects.
WithPath(q, a, b) == q \o [i \in DOMAIN PathTo(a, b) |-> Connected(PathTo(a, b)[i])]

\* The callbacks of a change of the tip continue the queue.
LEMMA AppendPath ==
    ASSUME NEW q \in Seq(Event), Chained(q), NEW a \in Block \cup {None}, NEW b \in Block,
           HeightOf(b) > HeightOf(a), NEW p \in Block \cup {None},
           NEW n, n = Len(q), a # None => LeadsTo(q, n, a),
           NEW r, r = WithPath(q, a, b)
    PROVE  /\ r \in Seq(Event) /\ n \in Nat /\ Len(r) \in Nat /\ Len(r) >= n
           /\ \A i \in 1 .. n : r[i] = q[i]
           /\ \A i \in (n + 1) .. Len(r) : r[i].type = "connected" /\ r[i].block \in Block
           /\ Chained(r)
           /\ LeadsTo(r, Len(r), b)
           /\ (a # None => Covers(q, n, a, p)) => Covers(r, Len(r), b, p)
<1> DEFINE path == PathTo(a, b)
           m == Len(path)
           e == [i \in DOMAIN path |-> Connected(path[i])]
<1>1. /\ path \in Seq(Block) /\ m \in Nat /\ m >= 1 /\ path[m] = b
      /\ Parent[path[1]] \in {None} \cup AncOf(a)
      /\ \A i \in 1 .. (m - 1) : Parent[path[i + 1]] = path[i]
  BY SMTT(60), PathFacts
<1> HIDE DEF path, m, e
<1>2. e \in Seq(Event) /\ Len(e) = m /\ \A i \in 1 .. m : e[i] = Connected(path[i]) /\ path[i] \in Block
  <2>1. DOMAIN path = 1 .. m /\ \A i \in 1 .. m : path[i] \in Block
    BY SMTT(60), <1>1 DEF m
  <2>2. \A i \in 1 .. m : Connected(path[i]) \in Event
    BY Zenon, <2>1 DEF Connected, Event
  <2> QED
    BY <1>1, <2>1, <2>2 DEF e
<1>3. r = q \o e
  BY Zenon DEF path, e, WithPath
<1>4. /\ r \in Seq(Event) /\ n \in Nat /\ Len(r) = n + m
      /\ \A i \in 1 .. n : r[i] = q[i]
      /\ \A i \in 1 .. m : r[n + i] = e[i]
  <2>1. n \in Nat
    OBVIOUS
  <2>2. q \o e \in Seq(Event) /\ Len(q \o e) = n + m
    BY <1>2
  <2>3. \A i \in 1 .. n : (q \o e)[i] = q[i]
    BY <1>2
  <2>4. \A i \in 1 .. m : (q \o e)[n + i] = e[i]
    BY <1>1, <1>2
  <2> QED
    BY Zenon, <1>3, <2>1, <2>2, <2>3, <2>4
<1>5. \A i \in (n + 1) .. (n + m) : /\ i - n \in 1 .. m
                                    /\ r[i].type = "connected"
                                    /\ r[i].block = path[i - n] /\ path[i - n] \in Block
  <2> SUFFICES ASSUME NEW i \in (n + 1) .. (n + m)
               PROVE  /\ i - n \in 1 .. m /\ r[i].type = "connected"
                      /\ r[i].block = path[i - n] /\ path[i - n] \in Block
    BY Zenon
  <2>1. i - n \in 1 .. m /\ n + (i - n) = i
    BY <1>1, <1>4
  <2>2. r[i] = Connected(path[i - n])
    BY Zenon, <1>2, <1>4, <2>1
  <2> QED
    BY <1>2, <2>1, <2>2 DEF Connected
<1>6. n + m \in Nat /\ n + m >= n
  BY <1>1, <1>4
<1>7. /\ Chained(r)
      /\ LeadsTo(r, n + m, b)
      /\ (a # None => Covers(q, n, a, p)) => Covers(r, n + m, b, p)
  <2>1. Len(q) = n /\ Len(r) = n + m /\ n \in Nat /\ m \in Nat
    BY Zenon, <1>1, <1>4
  <2>2. Queued(q, r, n, m, path)
    BY Zenon, <1>4, <1>5, <2>1 DEF Queued
  <2>3. IsPath(path, m, a, b)
    BY Zenon, <1>1 DEF IsPath
  <2> QED
    BY Zenon, <1>1, <1>4, <2>1, <2>2, <2>3, PathChained
<1> QED
  BY Zenon, <1>4, <1>5, <1>6, <1>7

-----------------------------------------------------------------------------
(* The index: the inductive invariant.                                     *)

\* What the queue still has to do does not depend on what else an action
\* changes, as long as queue, tip, position and reader stay.
LEMMA QueueStays ==
    ASSUME QueueInv, UNCHANGED <<queue, tip>>, Position' = Position, synced' = synced
    PROVE  QueueInv'
BY Zenon DEF QueueInv

\* The same for what a waiting reader was promised.
LEMMA ReaderStays ==
    ASSUME ReaderInv, UNCHANGED <<queue, reader, synced>>, Position' = Position,
           indexed \subseteq indexed'
    PROVE  ReaderInv'
<1>1. \A k \in 1 .. Len(queue) : MarkerAt(k) => MarkerAt(k)'
  BY Zenon DEF MarkerAt
<1> QED
  BY Zenon, <1>1 DEF ReaderInv, ReaderSeesChain

\* ThreadSync finds no next block only when its own block is on top of the tip.
LEMMA NextSyncFacts ==
    ASSUME pindex \in Block \cup {None}, tip \in Block \cup {None}
    PROVE  /\ NextSyncBlock = None => tip = None \/ tip \in AncOf(pindex)
           /\ NextSyncBlock # None => /\ NextSyncBlock \in Block
                                      /\ Parent[NextSyncBlock] \in {None} \cup AncOf(pindex)
<1> DEFINE from == ForkOf(pindex, tip)
           next == {b \in AncOf(tip) : Parent[b] = from}
<1>1. from = None \/ (from \in AncOf(pindex) \cap AncOf(tip) /\ from \in Block)
  BY Zenon, ForkFacts
<1>2. next \subseteq Block
  BY Zenon, AncOfFacts
<1>3. CASE next = {}
  <2>1. NextSyncBlock = None
    BY Zenon, <1>3 DEF NextSyncBlock
  <2>2. ASSUME tip # None PROVE tip \in AncOf(pindex)
    <3>1. tip \in Block /\ AncOf(tip) = Anc[tip]
      BY Zenon, <2>2 DEF AncOf
    <3>2. from # None
      BY Zenon, <1>3, <3>1, ChildToward
    <3>3. from = tip
      BY <1>1, <1>3, <3>1, <3>2, ChildToward
    <3> QED
      BY Zenon, <1>1, <3>2, <3>3
  <2> QED
    BY Zenon, <2>1, <2>2
<1>4. CASE next # {}
  <2>1. NextSyncBlock = CHOOSE b \in next : TRUE
    BY Zenon, <1>4 DEF NextSyncBlock
  <2>2. NextSyncBlock \in next
    <3> HIDE DEF next
    <3> QED
      BY Zenon, <1>4, <2>1
  <2> QED
    BY Zenon, <1>1, <1>2, <2>2, TreeAssumption
<1> QED
  BY Zenon, <1>3, <1>4

\* The node starts the index with nothing queued and no reader.
LEMMA IndexInit == Init => IndexInv
<1> SUFFICES ASSUME Init PROVE IndexInv
  BY Zenon
<1>1. IndexTypes
  BY SMTT(60) DEF Init, IndexTypes, Idle, NotReading
<1>2. NoHoles /\ ThreadInv /\ HandlerInv
  BY Zenon DEF Init, NoHoles, ThreadInv, HandlerInv, Idle, AncOf
<1>3. QueueInv
  <2>1. Len(queue) = 0 /\ ~(tip # None /\ synced)
    BY Zenon DEF Init
  <2> QED
    BY <2>1 DEF QueueInv, Chained, LeadsTo
<1>4. ReaderInv
  BY DEF Init, ReaderInv, NotReading, ReaderSeesChain
<1> QED
  BY Zenon, <1>1, <1>2, <1>3, <1>4 DEF IndexInv

\* The chain moves: queued callbacks keep leading to the tip.
LEMMA ChainKeepsIndexInv ==
    ASSUME IndexInv,
           (\E b \in Block : ActivateBestChainStep(b)) \/ DisconnectTip \/ FlushStateToDisk
    PROVE  IndexInv'
<1> USE DEF IndexInv
<1>0. /\ UNCHANGED <<best, synced, thread, handler, db, reader>> /\ Position' = Position
      /\ Position \in Block \cup {None}
  BY Zenon DEF ActivateBestChainStep, DisconnectTip, FlushStateToDisk, Position, IndexTypes
<1>1. NoHoles' /\ ThreadInv' /\ HandlerInv'
  BY Zenon, <1>0 DEF NoHoles, ThreadInv, HandlerInv, thread, db
<1>2. ASSUME NEW b \in Block, ActivateBestChainStep(b) PROVE IndexTypes' /\ QueueInv' /\ ReaderInv'
  <2> DEFINE n == Len(queue)
  <2>1. queue' = WithPath(queue, tip, b) /\ tip' = b /\ HeightOf(b) > HeightOf(tip)
          /\ coinsTip' = coinsTip
    BY Zenon, <1>2 DEF ActivateBestChainStep, WithPath
  <2>2. /\ queue' \in Seq(Event) /\ n \in Nat /\ Len(queue') \in Nat /\ Len(queue') >= n
        /\ \A i \in 1 .. n : queue'[i] = queue[i]
        /\ \A i \in (n + 1) .. Len(queue') : queue'[i].type = "connected" /\ queue'[i].block \in Block
        /\ Chained(queue')
        /\ LeadsTo(queue', Len(queue'), b)
        /\ (tip # None => Covers(queue, n, tip, Position)) => Covers(queue', Len(queue'), b, Position)
    BY SMTT(60), <1>0, <2>1, AppendPath DEF IndexTypes, QueueInv
  <2> HIDE DEF n
  <2>3. \A i \in 1 .. Len(queue') : i \in 1 .. n \/ i \in (n + 1) .. Len(queue')
    <3>1. n \in Nat /\ Len(queue') \in Nat
      BY Zenon, <2>2
    <3> QED
      BY SMTT(60), <3>1
  <2>4. IndexTypes'
    <3>1. \A i \in 1 .. Len(queue') : queue'[i].type = "connected" => queue'[i].block \in Block
      BY Zenon, <2>2, <2>3 DEF IndexTypes, n
    <3> QED
      <4>1. coinsTip' \in Block \cup {None} /\ tip' \in Block \cup {None}
        BY Zenon, <1>2, <2>1 DEF IndexTypes
      <4> QED
        BY Zenon, <1>0, <2>2, <3>1, <4>1, ChainTypesSuffice
  <2>5. QueueInv'
    BY Zenon, <1>0, <2>1, <2>2 DEF QueueInv, n
  <2>6. ASSUME NEW k \in 1 .. n, MarkerAt(k) PROVE k \in 1 .. Len(queue') /\ MarkerAt(k)'
    <3>1. k - 1 \in Nat /\ k \in 1 .. Len(queue') /\ \A i \in 1 .. (k - 1) : queue'[i] = queue[i]
      <4>1. /\ n \in Nat /\ Len(queue') \in Nat /\ Len(queue') >= n
            /\ \A i \in 1 .. n : queue'[i] = queue[i]
        BY Zenon, <2>2
      <4> QED
        BY SMTT(60), <4>1
    <3>2. LeadsTo(queue', k - 1, reader.block) /\ Covers(queue', k - 1, reader.block, Position)
      BY Zenon, <2>6, <3>1, SamePrefix DEF MarkerAt
    <3> QED
      BY Zenon, <1>0, <2>2, <2>3, <2>6, <3>1, <3>2 DEF MarkerAt, n
  <2>7. (\A j \in 1 .. n : queue[j].type # "marker") => \A j \in 1 .. Len(queue') : queue'[j].type # "marker"
    BY Zenon, <2>2, <2>3
  <2>8. ReaderInv'
    BY Zenon, <1>0, <2>6, <2>7 DEF ReaderInv, ReaderSeesChain, n, db
  <2> QED
    BY Zenon, <2>4, <2>5, <2>8
<1>3. ASSUME DisconnectTip PROVE IndexTypes' /\ QueueInv' /\ ReaderInv'
  <2>1. /\ tip \in Block /\ tip' = Parent[tip] /\ tip' \in Block /\ queue' = queue /\ coinsTip' = coinsTip
    BY Zenon, <1>3, TreeAssumption DEF DisconnectTip, IndexTypes
  <2>2. \A p \in Block \cup {None} : tip \in AncOf(p) => tip' \in AncOf(p)
    BY Zenon, <2>1, AncOfFacts
  <2>3. \A i \in 1 .. Len(queue) : queue[i].block \in Block \cup {None}
    <3>1. \A i \in 1 .. Len(queue) : queue[i] \in Event
      BY SMTT(60) DEF IndexTypes
    <3> QED
      BY Zenon, <3>1 DEF Event
  <2>4. LeadsTo(queue, Len(queue), tip) => LeadsTo(queue, Len(queue), tip')
    BY Zenon, <2>2, <2>3 DEF LeadsTo
  <2>5. Covers(queue, Len(queue), tip, Position) => Covers(queue, Len(queue), tip', Position)
    BY Zenon, <1>0, <2>2 DEF Covers
  <2>6. QueueInv'
    BY Zenon, <1>0, <2>1, <2>4, <2>5, TreeAssumption DEF QueueInv
  <2>7. ReaderInv'
    BY Zenon, <1>0, <2>1, ReaderStays DEF db
  <2> QED
    BY SMTT(60), <1>0, <2>1, <2>6, <2>7 DEF IndexTypes, thread, db
<1>4. ASSUME FlushStateToDisk PROVE IndexTypes' /\ QueueInv' /\ ReaderInv'
  <2>0. PICK n \in Nat, e \in Event : n = Len(queue) /\ e = Flushed(tip)
    <3>1. Flushed(tip) \in Event
      BY Zenon DEF Flushed, Event, IndexTypes
    <3> QED
      BY <3>1 DEF IndexTypes
  <2>1. queue' = WithCallback(queue, e) /\ tip' = tip /\ coinsTip' = tip
    BY Zenon, <1>4, <2>0 DEF FlushStateToDisk, WithCallback
  <2>2. e \in Event /\ e.type # "connected" /\ e.type # "marker"
    BY Zenon, <2>0 DEF Flushed
  <2>3. /\ queue' \in Seq(Event) /\ n \in Nat /\ Len(queue') = n + 1
        /\ \A i \in 1 .. n : queue'[i] = queue[i]
        /\ queue'[n + 1] = e
        /\ Chained(queue')
        /\ LeadsTo(queue, n, tip) => LeadsTo(queue', n + 1, tip)
        /\ Covers(queue, n, tip, Position) => Covers(queue', n + 1, tip, Position)
    <3>1. n = Len(queue) /\ queue \in Seq(Event) /\ Chained(queue)
      BY Zenon, <2>0 DEF IndexTypes, QueueInv
    <3>2. queue' = WithCallback(queue, e) /\ e.type # "connected"
      BY Zenon, <2>1, <2>2
    <3> HIDE DEF IndexInv
    <3> QED
      BY Zenon, <3>1, <3>2, AppendOther
  <2>4. \A i \in 1 .. Len(queue') : i \in 1 .. n \/ i = n + 1
    BY <2>3
  <2>5. IndexTypes'
    <3>1. \A i \in 1 .. Len(queue') : queue'[i].type = "connected" => queue'[i].block \in Block
      BY Zenon, <2>2, <2>3, <2>4, <2>0 DEF IndexTypes
    <3> QED
      <4>1. coinsTip' \in Block \cup {None} /\ tip' \in Block \cup {None}
        BY Zenon, <2>1 DEF IndexTypes
      <4> QED
        BY Zenon, <1>0, <2>1, <2>3, <3>1, <4>1, ChainTypesSuffice
  <2>6. QueueInv'
    BY Zenon, <1>0, <2>0, <2>1, <2>3 DEF QueueInv
  <2>7. ASSUME NEW k \in 1 .. n, MarkerAt(k) PROVE k \in 1 .. Len(queue') /\ MarkerAt(k)'
    <3>1. k - 1 \in Nat /\ k \in 1 .. Len(queue') /\ \A i \in 1 .. (k - 1) : queue'[i] = queue[i]
      BY <2>3
    <3>2. LeadsTo(queue', k - 1, reader.block) /\ Covers(queue', k - 1, reader.block, Position)
      BY Zenon, <2>7, <3>1, SamePrefix DEF MarkerAt
    <3> QED
      BY Zenon, <1>0, <2>2, <2>3, <2>4, <2>7, <3>1, <3>2, <2>0 DEF MarkerAt
  <2>8. ReaderInv'
    BY Zenon, <1>0, <2>0, <2>2, <2>3, <2>4, <2>7 DEF ReaderInv, ReaderSeesChain, db
  <2> QED
    BY Zenon, <2>5, <2>6, <2>8
<1> QED
  BY Zenon, <1>1, <1>2, <1>3, <1>4

\* ThreadSync: it has what lies below its own block, and hands over only when
\* that is on top of the tip.
LEMMA SyncKeepsIndexInv ==
    ASSUME IndexInv, ThreadSync \/ SyncInterrupt
    PROVE  IndexInv'
<1> USE DEF IndexInv
<1>0. UNCHANGED <<tip, coinsTip, queue, handler, reader>> /\ indexed \subseteq indexed'
  BY Zenon DEF ThreadSync, SyncNext, SyncLocator, SyncAppend, SyncCommit, SyncInterrupt, chain
<1>1. ASSUME pc = "next" PROVE handler = Idle /\ reader.at # "waiting" /\ Position = best
  BY Zenon, <1>1 DEF HandlerInv, ThreadInv, ReaderInv, Position
<1>2. ASSUME SyncNext PROVE IndexInv'
  <2> DEFINE next == NextSyncBlock
  <2>1. /\ next = None => tip = None \/ tip \in AncOf(pindex)
        /\ next # None => next \in Block /\ Parent[next] \in {None} \cup AncOf(pindex)
    BY Zenon, NextSyncFacts DEF IndexTypes
  <2>2. /\ pc = "next" /\ AncOf(pindex) \subseteq indexed /\ ~synced
        /\ UNCHANGED <<written, indexed>>
        /\ \/ /\ next = None
              /\ best' = pindex /\ synced' = TRUE /\ pc' = "commit"
              /\ UNCHANGED <<pindex, locator>>
           \/ /\ next # None /\ Parent[next] = pindex
              /\ pindex' = next /\ pc' = "locator"
              /\ UNCHANGED <<best, synced, locator>>
           \/ /\ next # None /\ best' = Parent[next] /\ locator' = CommitOf(Parent[next])
              /\ pindex' = next /\ pc' = "locator" /\ UNCHANGED synced
           \/ UNCHANGED <<best, locator, pindex, pc, synced>>
    BY Zenon, <1>2 DEF SyncNext, ThreadInv
  <2> HIDE DEF next
  <2>3. next # None => AncOf(Parent[next]) \subseteq indexed /\ Parent[next] \in Block \cup {None}
    BY Zenon, <2>1, <2>2, AncOfFacts DEF AncOf, IndexTypes
  <2>4. IndexTypes'
    BY SMTT(60), <1>0, <2>1, <2>2, <2>3 DEF IndexTypes, CommitOf
  <2>5. NoHoles'
    BY Zenon, <2>1, <2>2, <2>3 DEF NoHoles, CommitOf
  <2>6. ThreadInv'
    BY <2>1, <2>2, <2>3 DEF ThreadInv
  <2>7. HandlerInv'
    BY Zenon, <1>0, <1>1, <2>2 DEF HandlerInv, Idle
  <2>8. QueueInv'
    <3>1. Position' = best'
      BY <1>0, <1>1, <2>2 DEF Position, Idle
    <3>2. tip # None /\ synced' => tip \in AncOf(best')
      BY Zenon, <2>1, <2>2
    <3> QED
      BY Zenon, <1>0, <3>1, <3>2 DEF QueueInv, Covers
  <2>9. ReaderInv'
    BY Zenon, <1>0, <1>1, <2>2 DEF ReaderInv, ReaderSeesChain
  <2> QED
    BY Zenon, <2>4, <2>5, <2>6, <2>7, <2>8, <2>9
<1>3. ASSUME SyncLocator \/ SyncAppend PROVE IndexInv'
  <2>1. /\ pc \in {"locator", "append"} /\ pindex \in Block /\ ~synced /\ handler.at = "idle"
        /\ reader.at # "waiting" /\ AncOf(Parent[pindex]) \subseteq indexed
        /\ pindex' = pindex /\ synced' = synced
    BY Zenon, <1>3 DEF SyncLocator, SyncAppend, ThreadInv, HandlerInv, ReaderInv
  <2>2. Parent[pindex] \in Block \cup {None} /\ AncOf(pindex) = {pindex} \cup AncOf(Parent[pindex])
    BY Zenon, <2>1, AncOfFacts, TreeAssumption
  <2>3. IndexTypes' /\ NoHoles' /\ ThreadInv'
    BY Zenon, <1>0, <1>3, <2>1, <2>2 DEF SyncLocator, SyncAppend, IndexTypes, NoHoles, ThreadInv, CommitOf
  <2>4. HandlerInv' /\ QueueInv' /\ ReaderInv'
    BY Zenon, <1>0, <2>1 DEF HandlerInv, QueueInv, ReaderInv, ReaderSeesChain
  <2> QED
    BY Zenon, <2>3, <2>4
<1>4. ASSUME SyncCommit PROVE IndexInv'
  <2>1. UNCHANGED <<best, synced, pindex, written, indexed>> /\ pc' = "done" /\ locator' = CommitOf(best)
          /\ Position' = Position
    BY Zenon, <1>0, <1>4 DEF SyncCommit, Position
  <2>2. IndexTypes' /\ NoHoles' /\ ThreadInv' /\ HandlerInv'
    BY SMTT(60), <1>0, <2>1 DEF IndexTypes, NoHoles, ThreadInv, HandlerInv, CommitOf
  <2>3. QueueInv' /\ ReaderInv'
    BY Zenon, <1>0, <2>1, QueueStays, ReaderStays
  <2> QED
    BY Zenon, <2>2, <2>3
<1>5. ASSUME SyncInterrupt PROVE IndexInv'
  <2>1. /\ pc = "next" /\ ~synced /\ handler = Idle /\ reader.at # "waiting"
        /\ AncOf(pindex) \subseteq indexed
        /\ UNCHANGED <<synced, pindex, written, indexed>> /\ pc' = "done"
        /\ best' = pindex /\ locator' = CommitOf(pindex)
    BY Zenon, <1>1, <1>5 DEF SyncInterrupt, ThreadInv
  <2>2. IndexTypes' /\ NoHoles' /\ ThreadInv'
    BY Zenon, <1>0, <2>1 DEF IndexTypes, NoHoles, ThreadInv, CommitOf
  <2>3. HandlerInv' /\ QueueInv' /\ ReaderInv'
    BY Zenon, <1>0, <2>1 DEF HandlerInv, QueueInv, ReaderInv, ReaderSeesChain, Idle
  <2> QED
    BY Zenon, <2>2, <2>3
<1> QED
  BY Zenon, <1>2, <1>3, <1>4, <1>5 DEF ThreadSync

\* A callback was taken from the queue, and the index is where it was or at
\* the callback's block.
LEMMA TakenKeeps ==
    ASSUME IndexInv, queue # <<>>, queue' = Tail(queue), queue[1].type # "marker",
           UNCHANGED <<tip, synced, reader, indexed>>,
           \/ /\ Position' = Position
              /\ synced /\ queue[1].type = "connected" => ~Joins(queue[1].block, Position)
           \/ Position' = queue[1].block /\ queue[1].type = "connected"
    PROVE  QueueInv' /\ ReaderInv'
<1> USE DEF IndexInv
<1> DEFINE n == Len(queue)
<1>1. queue \in Seq(Event) /\ Chained(queue)
  BY Zenon DEF IndexTypes, QueueInv
<1>2. /\ queue' \in Seq(Event) /\ n \in Nat /\ n >= 1 /\ Len(queue') = n - 1
      /\ \A i \in 1 .. (n - 1) : queue'[i] = queue[i + 1]
  BY Zenon, <1>1, TakeFirst
<1>3. ASSUME NEW m \in 1 .. n, NEW t, LeadsTo(queue, m, t), synced => Covers(queue, m, t, Position)
      PROVE  LeadsTo(queue', m - 1, t) /\ (synced => Covers(queue', m - 1, t, Position'))
  <2>1. LeadsTo(queue', m - 1, t)
    BY Zenon, <1>1, <1>3, TakeLeads
  <2>2. CASE Position' = queue[1].block /\ queue[1].type = "connected"
    BY Zenon, <1>1, <1>3, <2>1, <2>2, TakeJoined
  <2>3. CASE Position' = Position /\ (synced /\ queue[1].type = "connected" => ~Joins(queue[1].block, Position))
    BY Zenon, <1>1, <1>3, <2>1, <2>3, TakeSkipped
  <2> QED
    BY Zenon, <2>2, <2>3
<1>4. QueueInv'
  <2>1. Chained(queue')
    BY Zenon, <1>1, TakeChained
  <2>2. n \in 1 .. n
    BY <1>2
  <2> QED
    BY Zenon, <1>2, <1>3, <2>1, <2>2 DEF QueueInv
<1>5. ASSUME NEW k \in 1 .. n, MarkerAt(k), synced PROVE k - 1 \in 1 .. Len(queue') /\ MarkerAt(k - 1)'
  <2>1. k # 1
    BY Zenon, <1>5 DEF MarkerAt
  <2>2. k - 1 \in 1 .. n /\ k - 1 \in 1 .. (n - 1) /\ (k - 1) + 1 = k
    BY <1>2, <2>1
  <2>3. LeadsTo(queue', (k - 1) - 1, reader.block) /\ Covers(queue', (k - 1) - 1, reader.block, Position')
    BY Zenon, <1>3, <1>5, <2>2 DEF MarkerAt
  <2>4. queue'[k - 1] = queue[k]
    BY Zenon, <1>2, <2>2
  <2>5. ASSUME NEW j \in 1 .. Len(queue'), queue'[j].type = "marker" PROVE j = k - 1
    <3>1. j + 1 \in 1 .. n /\ queue'[j] = queue[j + 1]
      BY <1>2
    <3>2. j + 1 = k
      BY Zenon, <1>5, <2>5, <3>1 DEF MarkerAt
    <3> QED
      BY <1>2, <3>2
  <2> QED
    BY Zenon, <1>2, <1>5, <2>2, <2>3, <2>4, <2>5 DEF MarkerAt
<1>6. ASSUME \A j \in 1 .. n : queue[j].type # "marker", NEW j \in 1 .. Len(queue')
      PROVE  queue'[j].type # "marker"
  <2>1. j + 1 \in 1 .. n /\ queue'[j] = queue[j + 1]
    BY <1>2
  <2> QED
    BY Zenon, <1>6, <2>1
<1>7. ReaderInv'
  <2>1. reader.at = "waiting" => \E k \in 1 .. Len(queue') : MarkerAt(k)'
    BY Zenon, <1>5 DEF ReaderInv
  <2> QED
    BY Zenon, <1>6, <2>1 DEF ReaderInv, ReaderSeesChain
<1> QED
  BY Zenon, <1>4, <1>7

\* The types of the callbacks that are left.
LEMMA TakenTyped ==
    ASSUME IndexTypes, queue # <<>>, queue' = Tail(queue)
    PROVE  /\ queue' \in Seq(Event)
           /\ \A i \in 1 .. Len(queue') : queue'[i].type = "connected" => queue'[i].block \in Block
           /\ queue[1].type = "connected" => queue[1].block \in Block
           /\ Head(queue) = queue[1] /\ 1 \in 1 .. Len(queue)
<1> USE DEF IndexTypes
<1>1. /\ queue' \in Seq(Event) /\ Len(queue) \in Nat /\ Len(queue) >= 1 /\ Head(queue) = queue[1]
      /\ Len(queue') = Len(queue) - 1
      /\ \A i \in 1 .. (Len(queue) - 1) : queue'[i] = queue[i + 1]
  BY Zenon, TakeFirst
<1>2. ASSUME NEW i \in 1 .. Len(queue'), queue'[i].type = "connected" PROVE queue'[i].block \in Block
  <2>1. i + 1 \in 1 .. Len(queue) /\ queue'[i] = queue[i + 1]
    BY <1>1
  <2> QED
    BY Zenon, <1>2, <2>1
<1> QED
  BY <1>1, <1>2

\* The callbacks: BlockConnected moves the index only to a block whose parent
\* it has, and every queued change of the tip is taken or not needed.
LEMMA CallbackKeepsIndexInv ==
    ASSUME IndexInv, Callback
    PROVE  IndexInv'
<1> USE DEF IndexInv
<1>0. UNCHANGED <<tip, coinsTip, synced, pc, pindex>> /\ indexed \subseteq indexed'
  BY Zenon DEF Callback, BlockConnected, BlockConnectedCommit, BlockConnectedAppend, BlockConnectedSetBest,
         ChainStateFlushed, QueueSynced, chain, thread, db
<1>1. ASSUME BlockConnected PROVE IndexInv'
  <2> DEFINE b == queue[1].block
  <2>1. /\ handler = Idle /\ queue # <<>> /\ Head(queue).type = "connected" /\ queue' = Tail(queue)
        /\ UNCHANGED <<reader, indexed, locator>>
    BY Zenon, <1>1 DEF BlockConnected, CallbackIs, db
  <2>2. /\ queue' \in Seq(Event)
        /\ \A i \in 1 .. Len(queue') : queue'[i].type = "connected" => queue'[i].block \in Block
        /\ b \in Block /\ queue[1].type = "connected" /\ Head(queue) = queue[1] /\ Position = best
    BY Zenon, <2>1, TakenTyped DEF Position, Idle
  <2>3. \/ (~synced \/ ~Joins(b, best)) /\ best' = best /\ handler' = handler
        \/ /\ synced /\ Joins(b, best) /\ best' = Parent[b]
           /\ handler' \in {[at |-> "append", block |-> b], [at |-> "commit", block |-> b]}
    BY Zenon, <1>1, <2>2 DEF BlockConnected, ConnectsToBest, Joins
  <2> HIDE DEF b
  <2>4. \/ Position' = Position /\ (~synced \/ ~Joins(b, Position))
        \/ Position' = b
    BY SMTT(60), <2>2, <2>3 DEF Position
  <2>5. QueueInv' /\ ReaderInv'
    BY Zenon, <1>0, <2>1, <2>2, <2>4, TakenKeeps DEF b
  <2>6. Joins(b, best) => AncOf(Parent[b]) \subseteq indexed /\ Parent[b] \in Block \cup {None}
    BY Zenon, <2>2, AncOfFacts, TreeAssumption DEF Joins, AncOf, NoHoles, IndexTypes
  <2>7. IndexTypes'
    BY SMTT(60), <1>0, <2>1, <2>2, <2>3, <2>6 DEF IndexTypes
  <2>8. NoHoles' /\ ThreadInv'
    BY Zenon, <1>0, <2>1, <2>3, <2>6 DEF NoHoles, ThreadInv
  <2>9. HandlerInv'
    BY SMTT(60), <1>0, <2>1, <2>2, <2>3 DEF HandlerInv, Idle
  <2> QED
    BY Zenon, <2>5, <2>7, <2>8, <2>9
<1>2. ASSUME BlockConnectedCommit \/ BlockConnectedAppend \/ BlockConnectedSetBest PROVE IndexInv'
  <2>1. /\ handler.at # "idle" /\ synced /\ handler.block \in Block /\ best = Parent[handler.block]
        /\ handler \in [at : {"idle", "append", "commit", "setbest"}, block : Block \cup {None}]
        /\ UNCHANGED <<queue, reader>>
    BY Zenon, <1>2 DEF BlockConnectedCommit, BlockConnectedAppend, BlockConnectedSetBest, HandlerInv, IndexTypes
  <2>2. Position' = Position /\ IndexTypes'
    BY <1>0, <1>2, <2>1 DEF BlockConnectedCommit, BlockConnectedAppend, BlockConnectedSetBest,
                            Position, IndexTypes, CommitOf, Idle, db
  <2>3. NoHoles'
    BY Zenon, <1>0, <1>2, <2>1, AncOfFacts DEF BlockConnectedCommit, BlockConnectedAppend, BlockConnectedSetBest,
                            NoHoles, CommitOf, db, HandlerInv
  <2>4. HandlerInv' /\ ThreadInv'
    BY <1>0, <1>2, <2>1 DEF BlockConnectedCommit, BlockConnectedAppend, BlockConnectedSetBest,
                            HandlerInv, ThreadInv, Idle
  <2>5. QueueInv' /\ ReaderInv'
    BY Zenon, <1>0, <2>1, <2>2, QueueStays, ReaderStays
  <2> QED
    BY Zenon, <2>2, <2>3, <2>4, <2>5
<1>3. ASSUME ChainStateFlushed PROVE IndexInv'
  <2>1. /\ handler = Idle /\ queue # <<>> /\ Head(queue).type = "flushed" /\ queue' = Tail(queue)
        /\ UNCHANGED <<best, handler, indexed, reader>> /\ Position' = Position
        /\ locator' \in {locator, CommitOf(best)}
    BY Zenon, <1>3 DEF ChainStateFlushed, CallbackIs, Position
  <2>2. /\ queue' \in Seq(Event)
        /\ \A i \in 1 .. Len(queue') : queue'[i].type = "connected" => queue'[i].block \in Block
        /\ queue[1].type = "flushed"
    BY Zenon, <2>1, TakenTyped
  <2>3. QueueInv' /\ ReaderInv'
    BY Zenon, <1>0, <2>1, <2>2, TakenKeeps
  <2>4. IndexTypes' /\ NoHoles' /\ ThreadInv' /\ HandlerInv'
    BY SMTT(60), <1>0, <2>1, <2>2 DEF IndexTypes, NoHoles, ThreadInv, HandlerInv, CommitOf
  <2> QED
    BY Zenon, <2>3, <2>4
<1>4. ASSUME QueueSynced PROVE IndexInv'
  <2>1. /\ handler = Idle /\ queue # <<>> /\ Head(queue).type = "marker" /\ queue' = Tail(queue)
        /\ UNCHANGED <<best, handler, indexed, locator>> /\ Position' = Position /\ Position = best
        /\ reader' = [reader EXCEPT !.at = "true"]
    BY Zenon, <1>4 DEF QueueSynced, CallbackIs, Position, db, Idle
  <2>2. /\ queue' \in Seq(Event)
        /\ \A i \in 1 .. Len(queue') : queue'[i].type = "connected" => queue'[i].block \in Block
        /\ queue[1].type = "marker" /\ 1 \in 1 .. Len(queue) /\ queue \in Seq(Event)
    BY Zenon, <2>1, TakenTyped DEF IndexTypes
  <2>3. reader.at = "waiting"
    BY Zenon, <2>2 DEF ReaderInv
  <2>4. synced /\ reader.block \in Block /\ MarkerAt(1)
    BY Zenon, <2>2, <2>3 DEF ReaderInv, MarkerAt
  <2>5. reader.block \in AncOf(best)
    BY <2>1, <2>4 DEF MarkerAt, Covers
  <2>6. AncOf(reader.block) \subseteq indexed
    BY SMTT(60), <2>5, AncOfFacts DEF NoHoles, IndexTypes
  <2>7. reader'.at = "true" /\ reader'.block = reader.block
          /\ reader' \in [at : {"none", "waiting", "true"}, block : Block \cup {None}]
    BY Zenon, <2>1 DEF IndexTypes
  <2>8. QueueInv'
    <3>1. /\ Chained(queue') /\ Len(queue) \in Nat /\ Len(queue) \in 1 .. Len(queue)
          /\ Len(queue') = Len(queue) - 1
      BY <2>1, <2>2, TakeFirst, TakeChained DEF QueueInv
    <3> HIDE DEF IndexInv
    <3>2. LeadsTo(queue, Len(queue), tip) => LeadsTo(queue', Len(queue'), tip)
      BY Zenon, <2>1, <2>2, <3>1, TakeLeads
    <3>3. Covers(queue, Len(queue), tip, Position) => Covers(queue', Len(queue'), tip, Position)
      BY Zenon, <2>1, <2>2, <3>1, TakeSkipped
    <3> QED
      BY Zenon, <1>0, <2>1, <3>1, <3>2, <3>3 DEF QueueInv, IndexInv
  <2>9. ReaderInv'
    <3>1. ASSUME NEW j \in 1 .. Len(queue') PROVE queue'[j].type # "marker"
      <4>1. j + 1 \in 1 .. Len(queue) /\ queue'[j] = queue[j + 1] /\ j + 1 # 1
        BY <2>1, <2>2, TakeFirst
      <4> QED
        BY Zenon, <2>4, <4>1 DEF MarkerAt
    <3> QED
      BY Zenon, <2>1, <2>6, <2>7, <3>1 DEF ReaderInv, ReaderSeesChain
  <2>10. IndexTypes' /\ NoHoles' /\ ThreadInv' /\ HandlerInv'
    BY <1>0, <2>1, <2>2, <2>7 DEF IndexTypes, NoHoles, ThreadInv, HandlerInv
  <2> QED
    BY Zenon, <2>8, <2>9, <2>10
<1> QED
  BY Zenon, <1>1, <1>2, <1>3, <1>4 DEF Callback

\* A caller waits behind the callbacks that lead to the tip of its time.
LEMMA CallKeepsIndexInv ==
    ASSUME IndexInv, BlockUntilSynced
    PROVE  IndexInv'
<1> USE DEF IndexInv
<1>0. /\ UNCHANGED <<tip, coinsTip, synced, pc, pindex, best, handler, indexed, locator>>
      /\ Position' = Position /\ synced /\ tip \in Block /\ reader.at # "waiting"
  BY Zenon DEF BlockUntilSynced, chain, thread, db, Position, IndexTypes
<1>1. NoHoles' /\ ThreadInv' /\ HandlerInv'
  BY Zenon, <1>0 DEF NoHoles, ThreadInv, HandlerInv
<1>2. CASE AheadOfTip
  <2>1. queue' = queue /\ reader' = [at |-> "true", block |-> tip]
    BY Zenon, <1>2 DEF BlockUntilSynced
  <2>2. AncOf(tip) \subseteq indexed
    BY Zenon, <1>2, AncOfFacts DEF AheadOfTip, NoHoles, IndexTypes
  <2>3. IndexTypes' /\ QueueInv'
    BY Zenon, <1>0, <2>1, QueueStays DEF IndexTypes
  <2>4. ReaderInv'
    BY Zenon, <1>0, <2>1, <2>2 DEF ReaderInv, ReaderSeesChain
  <2> QED
    BY Zenon, <1>1, <2>3, <2>4
<1>3. CASE ~AheadOfTip
  <2>0. PICK n \in Nat, e \in Event : n = Len(queue) /\ e = Marker
    <3>1. Marker \in Event
      BY Zenon DEF Marker, Event
    <3> QED
      BY SMTT(60), <3>1 DEF IndexTypes
  <2>1. queue' = WithCallback(queue, e) /\ reader' = [at |-> "waiting", block |-> tip]
    BY Zenon, <1>3, <2>0 DEF BlockUntilSynced, WithCallback
  <2>2. e \in Event /\ e.type # "connected" /\ e.type = "marker"
    BY Zenon, <2>0 DEF Marker
  <2>3. /\ queue' \in Seq(Event) /\ n \in Nat /\ Len(queue') = n + 1
        /\ \A i \in 1 .. n : queue'[i] = queue[i]
        /\ queue'[n + 1] = e
        /\ Chained(queue')
        /\ LeadsTo(queue, n, tip) => LeadsTo(queue', n + 1, tip)
        /\ Covers(queue, n, tip, Position) => Covers(queue', n + 1, tip, Position)
    <3>1. n = Len(queue) /\ queue \in Seq(Event) /\ Chained(queue)
      BY Zenon, <2>0 DEF IndexTypes, QueueInv
    <3>2. queue' = WithCallback(queue, e) /\ e.type # "connected"
      BY Zenon, <2>1, <2>2
    <3> HIDE DEF IndexInv
    <3> QED
      BY Zenon, <3>1, <3>2, AppendOther
  <2>4. LeadsTo(queue, n, tip) /\ Covers(queue, n, tip, Position)
    BY Zenon, <1>0, <2>0, TreeAssumption DEF QueueInv
  <2>5. \A i \in 1 .. Len(queue') : i \in 1 .. n \/ i = n + 1
    BY <2>3
  <2>6. IndexTypes'
    <3>1. \A i \in 1 .. Len(queue') : queue'[i].type = "connected" => queue'[i].block \in Block
      BY Zenon, <2>0, <2>2, <2>3, <2>5 DEF IndexTypes
    <3> QED
      BY Zenon, <1>0, <2>1, <2>3, <3>1 DEF IndexTypes
  <2>7. QueueInv'
    BY Zenon, <1>0, <2>3, <2>4 DEF QueueInv
  <2>8. n + 1 \in 1 .. Len(queue') /\ MarkerAt(n + 1)'
    <3>1. (n + 1) - 1 = n /\ n + 1 \in 1 .. Len(queue')
      BY <2>3
    <3>2. LeadsTo(queue', n, tip) /\ Covers(queue', n, tip, Position)
      BY Zenon, <2>3, <2>4, SamePrefix
    <3>3. \A j \in 1 .. n : queue[j].type # "marker"
      BY Zenon, <1>0, <2>0 DEF ReaderInv
    <3>4. \A j \in 1 .. Len(queue') : queue'[j].type = "marker" => j = n + 1
      BY Zenon, <2>3, <2>5, <3>3
    <3>5. reader'.block = tip
      BY Zenon, <2>1
    <3> QED
      BY Zenon, <1>0, <2>2, <2>3, <3>1, <3>2, <3>4, <3>5 DEF MarkerAt
  <2>9. ReaderInv'
    BY Zenon, <1>0, <2>1, <2>8 DEF ReaderInv, ReaderSeesChain
  <2> QED
    BY Zenon, <1>1, <2>6, <2>7, <2>9
<1> QED
  BY Zenon, <1>2, <1>3

\* After a restart the index stands at the fork of its locator with the chain,
\* below which it has everything.
LEMMA RestartKeepsIndexInv ==
    ASSUME IndexInv, Restart
    PROVE  IndexInv'
<1> USE DEF IndexInv
<1>1. /\ tip' = coinsTip /\ coinsTip' = coinsTip /\ queue' = <<>> /\ best' = ForkOf(locator, coinsTip)
      /\ synced' = (best' = coinsTip) /\ pc' = (IF synced' THEN "done" ELSE "next") /\ pindex' = best'
      /\ handler' = Idle /\ reader' = NotReading /\ UNCHANGED <<indexed, locator>>
  BY Zenon DEF Restart, db
<1>2. /\ best' \in Block \cup {None} /\ AncOf(best') \subseteq indexed
  BY Zenon, <1>1, ForkFacts, AncOfFacts DEF IndexTypes, NoHoles, AncOf
<1>3. pc' \in {"next", "done"} /\ (pc' = "next" => ~synced') /\ (synced' => best' = coinsTip)
  BY Zenon, <1>1
<1>4. IndexTypes'
  BY SMTT(60), <1>1, <1>2, <1>3 DEF IndexTypes, Idle, NotReading
<1>5. NoHoles' /\ ThreadInv' /\ HandlerInv'
  BY Zenon, <1>1, <1>2, <1>3 DEF NoHoles, ThreadInv, HandlerInv, Idle
<1>6. QueueInv'
  <2>1. Len(queue') = 0 /\ Position' = best'
    BY Zenon, <1>1 DEF Position, Idle
  <2>2. tip' # None /\ synced' => tip' \in AncOf(Position')
    BY Zenon, <1>1, <1>3, <2>1, AncOfFacts DEF IndexTypes
  <2>3. 1 .. Len(queue') = {}
    BY SMTT(60), <2>1
  <2> QED
    BY Zenon, <2>2, <2>3 DEF QueueInv, Chained, LeadsTo, Covers
<1>7. ReaderInv'
  <2>1. Len(queue') = 0 /\ reader'.at = "none"
    BY SMTT(60), <1>1 DEF NotReading
  <2>2. 1 .. Len(queue') = {}
    BY SMTT(60), <2>1
  <2> QED
    BY Zenon, <2>1, <2>2 DEF ReaderInv, ReaderSeesChain
<1> QED
  BY Zenon, <1>4, <1>5, <1>6, <1>7

\* The inductive invariant.
LEMMA IndexInvHolds == Spec => []IndexInv
<1>1. IndexInv /\ [Next]_vars => IndexInv'
  <2>1. ASSUME IndexInv, UNCHANGED vars PROVE IndexInv'
    <3>1. UNCHANGED <<tip, coinsTip, queue, best, synced, pc, pindex, written, handler, indexed,
                      locator, reader>>
      BY Zenon, <2>1 DEF vars, chain, thread, db
    <3>2. IndexTypes' /\ NoHoles' /\ ThreadInv' /\ HandlerInv'
      <4>1. IndexTypes'
        BY Zenon, <2>1, <3>1, ChainTypesSuffice DEF IndexInv, IndexTypes, thread, db
      <4>2. NoHoles' /\ ThreadInv' /\ HandlerInv'
        BY Zenon, <2>1, <3>1 DEF IndexInv, NoHoles, ThreadInv, HandlerInv
      <4> QED
        BY Zenon, <4>1, <4>2
    <3>3. QueueInv'
      BY Zenon, <2>1, <3>1 DEF IndexInv, QueueInv, Position
    <3>4. ReaderInv'
      BY Zenon, <2>1, <3>1 DEF IndexInv, ReaderInv, ReaderSeesChain, MarkerAt, Position
    <3> QED
      BY Zenon, <3>2, <3>3, <3>4 DEF IndexInv
  <2> QED
    BY Zenon, <2>1, ChainKeepsIndexInv, SyncKeepsIndexInv, CallbackKeepsIndexInv, CallKeepsIndexInv,
       RestartKeepsIndexInv DEF Next
<1> QED
  BY <1>1, IndexInit, PTL DEF Spec

\* The index never has a hole below its best block or its stored locator, for
\* any tree of blocks, any moves of the chain and any number of restarts.
THEOREM IndexNeverHasHoles == Spec => []NoHoles
<1>1. IndexInv => NoHoles
  BY Zenon DEF IndexInv
<1> QED
  BY <1>1, IndexInvHolds, PTL

\* A caller for whom BlockUntilSyncedToCurrentChain returned true finds every
\* block of the chain of the time of the call in the index.
THEOREM ReaderAlwaysSeesChain == Spec => []ReaderSeesChain
<1>1. IndexInv => ReaderSeesChain
  BY Zenon DEF IndexInv, ReaderInv
<1> QED
  BY <1>1, IndexInvHolds, PTL

-----------------------------------------------------------------------------
(* GetASERTAnchorBlock.                                                    *)

\* What the walk needs of the tree.
LEMMA TreeFacts ==
    /\ None \notin Block
    /\ Parent \in [Block -> Block \cup {None}]
    /\ Anc \in [Block -> SUBSET Block]
    /\ \A b \in Block : b \in Anc[b]
    /\ \A b \in Block : Anc[b] = {b} \cup IF Parent[b] = None THEN {} ELSE Anc[Parent[b]]
    /\ \A b \in Block : \A c \in Anc[b] : Anc[c] \subseteq Anc[b]
    /\ \A b \in Block : \A c, d \in Anc[b] : c \in Anc[d] \/ d \in Anc[c]
BY Zenon, TreeAssumption, AncOfBlock, AncTransitive, AncLinear

\* All anchors of a branch are at or below a block.
NoneAbove(a, p) == a \in Anc[p] /\ \A c \in Anc[p] : IsAnchor(c) => c \in Anc[a]

CallOK(c) ==
    /\ c.at \in {"idle", "walk", "done"}
    /\ c.at = "walk" => c.pindex \in Block /\ c.via = c.pindex /\ NoneAbove(c.anchor, c.pindex)
    /\ c.at = "done" => /\ c.pindex \in Block /\ c.via \in Block
                        /\ c.anchor \in Anc[c.pindex]
                        /\ IsLastAnchor(c.anchor, c.via)

AnchorInv ==
    /\ call \in [Thread -> [at : {"idle", "walk", "done"}, pindex : Block \cup {None},
                            anchor : Block \cup {None}, via : Block \cup {None}]]
    /\ \A t \in Thread : CallOK(call[t])
    /\ cachedAnchor # None => filledBy \in Block /\ IsLastAnchor(cachedAnchor, filledBy)
    /\ cachedAnchor \in Block \cup {None}

-----------------------------------------------------------------------------
\* A block is on its own branch, and so is what is below it.
LEMMA AncFacts ==
    /\ \A b \in Block : b \in Anc[b] /\ Anc[b] \subseteq Block
    /\ \A b \in Block : \A c \in Anc[b] : c \in Block /\ Anc[c] \subseteq Anc[b]
BY Zenon, TreeFacts

\* The while loop of GetASERTAnchorBlock follows pskip only to a V14 block:
\* no possible anchor lies between.
LEMMA SkipPassesNoAnchor ==
    ASSUME NEW p \in Block, NEW a \in Anc[p], NoneAbove(a, p), CanSkip(a)
    PROVE  NoneAbove(Skip[a], p)
<1>1. a \in Block /\ Skip[a] \in Block /\ Skip[a] \in Anc[a] /\ Skip[a] \in Anc[p]
  BY Zenon, TreeFacts, SkipAssumption DEF CanSkip
<1>2. ASSUME NEW c \in Anc[p], IsAnchor(c)
      PROVE  c \in Anc[Skip[a]]
  <2>1. c \in Block /\ c \in Anc[a]
    BY Zenon, <1>2, TreeFacts DEF NoneAbove
  <2>2. c \in Anc[Skip[a]] \/ Skip[a] \in Anc[c]
    BY Zenon, <1>1, <2>1, TreeFacts
  <2>3. CASE Skip[a] \in Anc[c] /\ Skip[a] # c
    <3>1. Parent[c] \in Block /\ Anc[c] = {c} \cup Anc[Parent[c]]
      BY Zenon, <1>2, <2>1, TreeFacts DEF IsAnchor
    <3>2. Skip[a] \in Anc[Parent[c]] \cap V14
      BY Zenon, <2>3, <3>1 DEF CanSkip
    <3>3. Parent[c] \in V14
      BY Zenon, <3>1, <3>2, V14Assumption
    <3> QED
      BY Zenon, <1>2, <3>3 DEF IsAnchor
  <2>4. CASE Skip[a] = c
    BY Zenon, <2>1, <2>4, TreeFacts
  <2> QED
    BY Zenon, <2>2, <2>3, <2>4
<1> QED
  BY Zenon, <1>1, <1>2 DEF NoneAbove

\* A step to pprev leaves only a block that is no anchor.
LEMMA StepPassesNoAnchor ==
    ASSUME NEW p \in Block, NEW a \in Anc[p], NoneAbove(a, p), Parent[a] # None, ~IsAnchor(a)
    PROVE  NoneAbove(Parent[a], p)
<1>1. a \in Block /\ Parent[a] \in Block /\ Anc[a] = {a} \cup Anc[Parent[a]]
  BY Zenon, TreeFacts
<1>2. Parent[a] \in Anc[a] /\ Anc[a] \subseteq Anc[p]
  BY Zenon, <1>1, TreeFacts
<1> QED
  BY Zenon, <1>1, <1>2 DEF NoneAbove

\* Branches that are the same up to the first V14 block share their anchors.
LEMMA SameAnchors ==
    ASSUME NEW p \in Block, NEW q \in Block, NEW a \in Anc[p],
           SameActivation(q, p), IsLastAnchor(a, q)
    PROVE  IsLastAnchor(a, p)
BY Zenon DEF SameActivation, IsLastAnchor, IsAnchor

-----------------------------------------------------------------------------
\* The inductive invariant: a running walk has passed no possible anchor, and
\* the cache holds the last anchor of the branch that filled it.
LEMMA AnchorInvHolds == AnchorSpec => []AnchorInv
<1>1. AnchorInit => AnchorInv
  <2> SUFFICES ASSUME AnchorInit PROVE AnchorInv
    BY Zenon
  <2>1. /\ call \in [Thread -> [at : {"idle", "walk", "done"}, pindex : Block \cup {None},
                              anchor : Block \cup {None}, via : Block \cup {None}]]
        /\ \A t \in Thread : call[t].at = "idle"
    BY SMTT(60) DEF AnchorInit, NoCall
  <2>2. \A t \in Thread : CallOK(call[t])
    BY Zenon, <2>1 DEF CallOK
  <2> QED
    BY Zenon, <2>1, <2>2 DEF AnchorInit, AnchorInv
<1>2. AnchorInv /\ [AnchorNext]_anchorVars => AnchorInv'
  <2> SUFFICES ASSUME AnchorInv, [AnchorNext]_anchorVars PROVE AnchorInv'
    BY Zenon
  <2> USE DEF AnchorInv
  <2>1. ASSUME NEW t \in Thread, NEW p \in Block, Ask(t, p) PROVE AnchorInv'
    <3>1. p \in Anc[p]
      BY Zenon, AncFacts
    <3>2. CallOK(call[t])'
      <4>1. CASE CacheApplies(p)
        <5>1. call'[t] = [at |-> "done", pindex |-> p, anchor |-> cachedAnchor, via |-> filledBy]
          BY Zenon, <2>1, <4>1 DEF Ask
        <5>2. IsLastAnchor(cachedAnchor, filledBy)'
          BY Zenon, <2>1, <4>1 DEF Ask, CacheApplies, IsLastAnchor, IsAnchor
        <5> QED
          BY Zenon, <2>1, <4>1, <5>1, <5>2 DEF CallOK, CacheApplies, Ask
      <4>2. CASE ~CacheApplies(p)
        <5>1. call'[t] = [at |-> "walk", pindex |-> p, anchor |-> p, via |-> p]
          BY Zenon, <2>1, <4>2 DEF Ask
        <5>2. /\ call'[t].at = "walk" /\ call'[t].pindex = p
              /\ call'[t].via = p /\ call'[t].anchor = p
          <6> HIDE DEF AnchorInv
          <6> QED
            BY SMTT(60), <5>1
        <5>3. NoneAbove(p, p)'
          BY Zenon, <3>1 DEF NoneAbove
        <5> QED
          BY Zenon, <5>2, <5>3 DEF CallOK, NoneAbove
      <4> QED
        BY Zenon, <4>1, <4>2
    <3>3. call' \in [Thread -> [at : {"idle", "walk", "done"}, pindex : Block \cup {None},
                            anchor : Block \cup {None}, via : Block \cup {None}]]
      BY Zenon, <2>1 DEF Ask, CacheApplies
    <3>4. \A u \in Thread : u # t => call'[u] = call[u]
      BY Zenon, <2>1 DEF Ask
    <3>5. \A u \in Thread : CallOK(call[u])'
      <4>1. ASSUME NEW u \in Thread, u # t PROVE CallOK(call[u])'
        <5>1. call'[u] = call[u] /\ work' = work /\ CallOK(call[u])
          BY Zenon, <2>1, <3>4, <4>1 DEF Ask
        <5> QED
          BY Zenon, <5>1 DEF CallOK, NoneAbove, IsLastAnchor, IsAnchor
      <4> QED
        BY Zenon, <3>2, <4>1
    <3> QED
      BY Zenon, <2>1, <3>3, <3>5 DEF Ask, IsLastAnchor, IsAnchor
  <2>2. ASSUME NEW t \in Thread, SkipBack(t) \/ WalkBack(t) PROVE AnchorInv'
    <3> DEFINE a == call[t].anchor
               p == call[t].pindex
               n == IF SkipBack(t) THEN Skip[a] ELSE Parent[a]
    <3>1. p \in Block /\ a \in Anc[p] /\ NoneAbove(a, p) /\ call[t].at = "walk" /\ Parent[a] # None
      BY Zenon, <2>2 DEF CallOK, NoneAbove, SkipBack, WalkBack
    <3>2. NoneAbove(n, p)
      BY Zenon, <2>2, <3>1, SkipPassesNoAnchor, StepPassesNoAnchor DEF SkipBack, WalkBack
    <3>3. n \in Block
      <4> HIDE DEF n
      <4> QED
        BY Zenon, <3>1, <3>2, AncOfBlock DEF NoneAbove
    <3>4. call' = [call EXCEPT ![t].anchor = n] /\ UNCHANGED <<work, cachedAnchor, filledBy>>
      BY Zenon, <2>2 DEF SkipBack, WalkBack
    <3>5. n \in Anc[p] /\ \A c \in Anc[p] : IsAnchor(c)' => c \in Anc[n]
      BY Zenon, <3>2, <3>4 DEF NoneAbove, IsAnchor
    <3> HIDE DEF n
    <3>6. call'[t] = [call[t] EXCEPT !.anchor = n] /\ \A u \in Thread : u # t => call'[u] = call[u]
      BY Zenon, <3>4
    <3>7. CallOK(call[t])'
      <4>1. call'[t].at = "walk" /\ call'[t].pindex = p /\ call'[t].via = p /\ call'[t].anchor = n
        BY Zenon, <3>1, <3>6 DEF CallOK
      <4> QED
        BY Zenon, <3>1, <3>5, <4>1 DEF CallOK, NoneAbove
    <3>8. \A u \in Thread : CallOK(call[u])'
      BY <3>4, <3>6, <3>7 DEF CallOK, NoneAbove, IsLastAnchor, IsAnchor
    <3>9. call' \in [Thread -> [at : {"idle", "walk", "done"}, pindex : Block \cup {None},
                            anchor : Block \cup {None}, via : Block \cup {None}]]
      BY Zenon, <3>3, <3>4
    <3> QED
      BY Zenon, <3>4, <3>8, <3>9 DEF IsLastAnchor, IsAnchor
  <2>3. ASSUME NEW t \in Thread, Found(t) PROVE AnchorInv'
    <3> DEFINE a == call[t].anchor
               p == call[t].pindex
    <3>1. p \in Block /\ call[t].via = p /\ NoneAbove(a, p) /\ a \in Block
      BY <2>3, TreeFacts DEF CallOK, NoneAbove, Found
    <3>2. IsLastAnchor(a, p)
      BY Zenon, <2>3, <3>1 DEF IsLastAnchor, NoneAbove, Found
    <3>3. /\ call'[t] = [call[t] EXCEPT !.at = "done"]
          /\ \A u \in Thread : u # t => call'[u] = call[u]
          /\ work' = work /\ cachedAnchor' = a /\ filledBy' = p
      BY Zenon, <2>3 DEF Found
    <3>4. CallOK(call[t])'
      BY <3>1, <3>2, <3>3 DEF CallOK, NoneAbove, IsLastAnchor, IsAnchor
    <3>5. \A u \in Thread : CallOK(call[u])'
      BY SMTT(60), <3>3, <3>4 DEF CallOK, NoneAbove, IsLastAnchor, IsAnchor
    <3>6. call' \in [Thread -> [at : {"idle", "walk", "done"}, pindex : Block \cup {None},
                            anchor : Block \cup {None}, via : Block \cup {None}]]
      BY Zenon, <2>3 DEF Found
    <3> QED
      BY Zenon, <3>1, <3>2, <3>3, <3>5, <3>6 DEF IsLastAnchor, IsAnchor
  <2>4. ASSUME NEW t \in Thread, Return(t) PROVE AnchorInv'
    <3>1. call'[t] = NoCall /\ \A u \in Thread : u # t => call'[u] = call[u]
      BY Zenon, <2>4 DEF Return
    <3>2. \A u \in Thread : CallOK(call[u])'
      BY <2>4, <3>1 DEF CallOK, NoCall, NoneAbove, IsLastAnchor, IsAnchor, Return
    <3>3. call' \in [Thread -> [at : {"idle", "walk", "done"}, pindex : Block \cup {None},
                            anchor : Block \cup {None}, via : Block \cup {None}]]
      BY Zenon, <2>4 DEF Return, NoCall
    <3> QED
      BY Zenon, <2>4, <3>2, <3>3 DEF Return, IsLastAnchor, IsAnchor
  <2>5. CASE ResetASERTAnchorBlockCache
    BY Zenon, <2>5 DEF ResetASERTAnchorBlockCache, CallOK, NoneAbove, IsLastAnchor, IsAnchor
  <2>6. CASE UNCHANGED anchorVars
    BY Zenon, <2>6 DEF anchorVars, CallOK, NoneAbove, IsLastAnchor, IsAnchor
  <2> QED
    BY Zenon, <2>1, <2>2, <2>3, <2>4, <2>5, <2>6 DEF AnchorNext, GetASERTAnchorBlock
<1> QED
  BY <1>1, <1>2, PTL DEF AnchorSpec

\* GetASERTAnchorBlock answers with the highest proof-of-work block with a
\* parent before V14, for all trees, threads and distributions of proof of
\* work, when the branch that filled the cache shares the first V14 block.
THEOREM AnchorCorrect == AnchorSpec => []AnchorOfActivation
<1>1. AnchorInv => AnchorOfActivation
  BY Zenon, SameAnchors DEF AnchorInv, CallOK, AnchorOfActivation
<1> QED
  BY <1>1, AnchorInvHolds, PTL

==============================================================================

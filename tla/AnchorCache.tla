----------------------------- MODULE AnchorCache -----------------------------
(***************************************************************************)
(* GetASERTAnchorBlock: the block from which the proof-of-work targets of  *)
(* protocol V14 are computed, found by a walk back along the skip pointers *)
(* and kept in the global cachedAnchor.  Callers run concurrently: the     *)
(* cache is an atomic pointer, read at the start and written at the end.   *)
(*                                                                         *)
(* Blocks are any tree; a block is under V14 from some height on, so its   *)
(* descendants are too.                                                    *)
(***************************************************************************)
EXTENDS BlockTree

CONSTANTS
    Thread,
    Skip,           \* pskip
    V14             \* the blocks for which IsProtocolV14

\* n & (n - 1)
InvertLowestOne(n) ==
    IF n <= 0 THEN 0
    ELSE n - (CHOOSE p \in {2^i : i \in 0..n} : n % p = 0 /\ (n \div p) % 2 = 1)

GetSkipHeight(height) ==
    IF height < 2 THEN 0
    ELSE IF height % 2 = 1
         THEN InvertLowestOne(InvertLowestOne(height - 1)) + 1
         ELSE InvertLowestOne(height)

\* BuildSkip: the ancestor at GetSkipHeight, lower than the block itself.
ASSUME SkipAssumption ==
    /\ Skip \in [Block -> Block \cup {None}]
    /\ \A b \in Block : Skip[b] # None => Skip[b] \in Anc[b] \ {b}

ASSUME SkipHeightAssumption ==
    \A b \in Block : Parent[b] # None => Height[Skip[b]] = GetSkipHeight(Height[b])

\* nHeight > 1000000, at times long after the switch.
ASSUME V14Assumption ==
    /\ V14 \subseteq Block
    /\ \A b \in Block : Anc[b] \cap V14 # {} => b \in V14

VARIABLES
    work,           \* the blocks that are proof of work, genesis among them
    cachedAnchor,
    filledBy,       \* history: the block whose walk filled the cache
    call            \* each thread's call: pindex, anchor, and via, the block
                    \* whose walk found the anchor

anchorVars == <<work, cachedAnchor, filledBy, call>>

NoCall == [at |-> "idle", pindex |-> None, anchor |-> None, via |-> None]

AnchorInit ==
    /\ work \in SUBSET Block
    /\ \A b \in Block : Parent[b] = None => b \in work
    /\ cachedAnchor = None /\ filledBy = None
    /\ call = [t \in Thread |-> NoCall]

\* pindex->GetAncestor(lastCached->nHeight) == lastCached
CacheApplies(p) == cachedAnchor # None /\ cachedAnchor \in Anc[p]

\* GetNextTargetRequired asks for the last proof-of-work block of a branch.
Ask(t, p) ==
    /\ call[t].at = "idle"
    /\ p \in V14 \cap work
    /\ call' = [call EXCEPT ![t] =
          IF CacheApplies(p)
          THEN [at |-> "done", pindex |-> p, anchor |-> cachedAnchor, via |-> filledBy]
          ELSE [at |-> "walk", pindex |-> p, anchor |-> p, via |-> p]]
    /\ UNCHANGED <<work, cachedAnchor, filledBy>>

\* Mutant of CanSkip: the block skipped to need not be under V14.
CanSkipBelow(a) == Skip[a] # None /\ a \in V14

\* anchor->pskip && IsProtocolV14(anchor->pskip)
CanSkip(a) == Skip[a] # None /\ Skip[a] \in V14

\* !IsProtocolV14(anchor->pprev) && anchor->IsProofOfWork()
IsAnchor(a) == Parent[a] # None /\ Parent[a] \notin V14 /\ a \in work

SkipBack(t) ==
    LET a == call[t].anchor
    IN  /\ call[t].at = "walk"
        /\ Parent[a] # None /\ CanSkip(a)
        /\ call' = [call EXCEPT ![t].anchor = Skip[a]]
        /\ UNCHANGED <<work, cachedAnchor, filledBy>>

WalkBack(t) ==
    LET a == call[t].anchor
    IN  /\ call[t].at = "walk"
        /\ Parent[a] # None /\ ~CanSkip(a) /\ ~IsAnchor(a)
        /\ call' = [call EXCEPT ![t].anchor = Parent[a]]
        /\ UNCHANGED <<work, cachedAnchor, filledBy>>

Found(t) ==
    LET a == call[t].anchor
    IN  /\ call[t].at = "walk"
        /\ Parent[a] = None \/ (~CanSkip(a) /\ IsAnchor(a))
        /\ cachedAnchor' = a /\ filledBy' = call[t].pindex
        /\ call' = [call EXCEPT ![t].at = "done"]
        /\ UNCHANGED work

Return(t) ==
    /\ call[t].at = "done"
    /\ call' = [call EXCEPT ![t] = NoCall]
    /\ UNCHANGED <<work, cachedAnchor, filledBy>>

\* UnloadBlockIndex, when nothing asks.
ResetASERTAnchorBlockCache ==
    /\ \A t \in Thread : call[t].at = "idle"
    /\ cachedAnchor' = None /\ filledBy' = None
    /\ UNCHANGED <<work, call>>

GetASERTAnchorBlock(t) == SkipBack(t) \/ WalkBack(t) \/ Found(t) \/ Return(t)

AnchorNext ==
    \/ \E t \in Thread, p \in Block : Ask(t, p)
    \/ \E t \in Thread : GetASERTAnchorBlock(t)
    \/ ResetASERTAnchorBlockCache

AnchorSpec == AnchorInit /\ [][AnchorNext]_anchorVars

-----------------------------------------------------------------------------
(* Properties.                                                             *)

\* The highest block of p's branch at which the walk may stop, or its root.
IsLastAnchor(a, p) ==
    /\ a \in Anc[p]
    /\ Parent[a] = None \/ IsAnchor(a)
    /\ \A c \in Anc[p] : IsAnchor(c) => c \in Anc[a]

\* Two branches are one up to their first V14 block.
SameActivation(p, q) ==
    {c \in Anc[p] : c \notin V14 \/ Parent[c] \notin V14} =
    {c \in Anc[q] : c \notin V14 \/ Parent[c] \notin V14}

\* GetASERTAnchorBlock: from the cache or by a walk, whatever other threads
\* ask meanwhile, the answer is the highest proof-of-work block of the own
\* branch with a parent before V14, as long as the cache was filled from a
\* branch that is the same up to the first V14 block.
AnchorOfActivation ==
    \A t \in Thread :
        call[t].at = "done" /\ SameActivation(call[t].via, call[t].pindex)
            => IsLastAnchor(call[t].anchor, call[t].pindex)

\* The comment's "last (highest) POW block", of the block's own branch,
\* whoever filled the cache.
AnchorIsLast ==
    \A t \in Thread : call[t].at = "done" => IsLastAnchor(call[t].anchor, call[t].pindex)

\* The comment's postcondition: a block "for which IsProtocolV14 is false".
AnchorBeforeV14 ==
    \A t \in Thread : call[t].at = "done" => call[t].anchor \notin V14

==============================================================================

--------------------------- MODULE ChainSelection ---------------------------
(***************************************************************************)
(* The block tree of a node and its choice of the active chain:            *)
(* AcceptBlockHeader, AcceptBlock, ActivateBestChain and the operator's    *)
(* invalidateblock, reconsiderblock and preciousblock, with the writing of *)
(* the block index and of the coins' best block, and a restart from them.  *)
(*                                                                         *)
(* A block is a node of a fixed tree.  Its nStatus is split into sets of   *)
(* blocks.  An action is what its code does while it holds cs_main without *)
(* a break; ActivateBestChain and InvalidateBlock hold m_chainstate_mutex  *)
(* and let go of cs_main between their steps, and then the others run.     *)
(***************************************************************************)
EXTENDS Integers, FiniteSets

CONSTANTS
    Block, Genesis,
    None,           \* nullptr
    Parent,         \* pprev
    Anc,            \* a block's ancestors and itself, by GetAncestor
    ChainTrust,     \* nChainTrust
    Addr,           \* the addresses of the CBlockIndex objects, the last tie break
    MaybeBad,       \* the blocks that ConnectBlock may turn out to reject
    MayFailCheck,   \* the blocks that AcceptBlock's own checks may reject
    Operator,       \* the RPCs the operator uses
    RootsOnly,      \* the operator reconsiders no block below another failed one
    MaxOps,         \* bound: calls of these RPCs
    MaxRestarts,    \* bound: restarts
    Apart           \* a behaviour has calls of the RPCs or restarts, not both

ASSUME TreeAssumption ==
    /\ Genesis \in Block /\ IsFiniteSet(Block)
    /\ None \notin Block
    /\ Parent \in [Block \ {Genesis} -> Block]
    /\ Anc \in [Block -> SUBSET Block]
    /\ Anc[Genesis] = {Genesis}
    /\ \A b \in Block \ {Genesis} : /\ Anc[b] = Anc[Parent[b]] \cup {b}
                                    /\ b \notin Anc[Parent[b]]
    /\ ChainTrust \in [Block -> Nat]
    /\ \A b \in Block \ {Genesis} : ChainTrust[Parent[b]] < ChainTrust[b]
    /\ Addr \in [Block -> Nat]
    /\ \A a, b \in Block : Addr[a] = Addr[b] => a = b

ASSUME BoundsAssumption ==
    /\ MaybeBad \subseteq Block \ {Genesis}
    /\ MayFailCheck \subseteq Block \ {Genesis}
    /\ Operator \subseteq {"invalidateblock", "reconsiderblock", "preciousblock"}
    /\ RootsOnly \in BOOLEAN
    /\ MaxOps \in Nat
    /\ MaxRestarts \in Nat
    /\ Apart \in BOOLEAN

VARIABLES
    bad,            \* the blocks ConnectBlock rejects; it never changes
    \* m_block_index and the status of its entries
    index,          \* the entries; each is at least BLOCK_VALID_TREE
    data,           \* BLOCK_HAVE_DATA, nTx > 0, BLOCK_VALID_TRANSACTIONS
    linked,         \* HaveTxsDownloaded(): nChainTx is set
    scripts,        \* BLOCK_VALID_SCRIPTS
    failedValid,    \* BLOCK_FAILED_VALID
    failedChild,    \* BLOCK_FAILED_CHILD
    seq,            \* nSequenceId
    unlinked,       \* the blocks in m_blocks_unlinked
    \* the chainstate
    candidates,     \* setBlockIndexCandidates
    tip,            \* m_chain.Tip()
    failedBlocks,   \* m_failed_blocks
    bestHeader,     \* m_best_header
    bestInvalid,    \* m_best_invalid
    nextSeq,        \* nBlockSequenceId
    reverseSeq,     \* nBlockReverseSequenceId
    lastPrecious,   \* nLastPreciousChainwork
    \* the threads
    mutex,          \* who holds m_chainstate_mutex: "abc", "inv" or "free"
    todo,           \* some thread is about to call ActivateBestChain
    locked,         \* ActivateBestChain goes round its inner loop, in cs_main
    mostWork,       \* its pindexMostWork
    startTip,       \* its starting_tip
    target,         \* InvalidateBlock's pindex
    toMark,         \* its to_mark_failed
    byWork,         \* its candidate_blocks_by_work
    \* the disk and the bounds
    disk,           \* the block index and the best block in the databases
    ops, restarts

tree == <<index, data, linked, scripts, seq, unlinked>>
failure == <<failedValid, failedChild, failedBlocks, bestInvalid>>
counters == <<nextSeq, reverseSeq, lastPrecious>>
activation == <<locked, mostWork, startTip>>
invalidation == <<target, toMark, byWork>>
bounds == <<ops, restarts>>
vars == <<bad, tree, failure, candidates, tip, bestHeader, counters, mutex, todo,
          activation, invalidation, disk, bounds>>

-----------------------------------------------------------------------------
Failed == failedValid \cup failedChild

\* IsValid(BLOCK_VALID_TRANSACTIONS)
ValidTransactions(b) == b \in data /\ b \notin Failed

\* CBlockIndexWorkComparator with the sequence ids s: a sorts before b.
LessIn(s, a, b) ==
    \/ ChainTrust[a] < ChainTrust[b]
    \/ /\ ChainTrust[a] = ChainTrust[b]
       /\ \/ s[a] > s[b]
          \/ s[a] = s[b] /\ Addr[a] > Addr[b]

Less(a, b) == LessIn(seq, a, b)

Best(S) == IF S = {} THEN None ELSE CHOOSE b \in S : \A c \in S : ~Less(b, c)

\* The highest block of a non-empty set of blocks on one branch.
Highest(S) == CHOOSE b \in S : S \subseteq Anc[b]

\* m_best_invalid, after a look at the invalid block b.
MoreTrusted(inv, b) ==
    IF inv = None THEN b ELSE IF ChainTrust[b] > ChainTrust[inv] THEN b ELSE inv

\* m_best_header, after InvalidChainFound(b) with the active tip t.
HeaderWithout(h, b, t) == IF b \in Anc[h] THEN t ELSE h

\* Mutant: nothing is erased.
PruneNothing(S, s, t) == S

\* The set PruneBlockIndexCandidates leaves, for the tip t.
Prune(S, s, t) == {c \in S : ~LessIn(s, c, t)}

-----------------------------------------------------------------------------
Init ==
    /\ bad \in SUBSET MaybeBad
    /\ index = {Genesis} /\ data = {Genesis} /\ linked = {Genesis} /\ scripts = {}
    /\ seq = [b \in Block |-> IF b = Genesis THEN 1 ELSE 0]
    /\ unlinked = {}
    /\ failedValid = {} /\ failedChild = {} /\ failedBlocks = {}
    /\ bestInvalid = None
    /\ candidates = {Genesis}
    /\ tip = Genesis
    /\ bestHeader = Genesis
    /\ nextSeq = 2 /\ reverseSeq = -1 /\ lastPrecious = 0
    /\ mutex = "free" /\ todo = FALSE
    /\ locked = FALSE /\ mostWork = None /\ startTip = None
    /\ target = None /\ toMark = None /\ byWork = {}
    /\ disk = [index |-> {Genesis}, data |-> {Genesis}, scripts |-> {},
               failedValid |-> {}, failedChild |-> {}, tip |-> Genesis]
    /\ IF Apart THEN \/ ops = MaxOps /\ restarts = 0
                     \/ ops = 0 /\ restarts = MaxRestarts
       ELSE ops = 0 /\ restarts = 0

-----------------------------------------------------------------------------
(* Headers and blocks arrive, each under cs_main.                          *)

\* A new header on a known block that is not marked failed passes as far as
\* the m_failed_blocks scan of AcceptBlockHeader.
HeaderConnects(b) ==
    b \notin index /\ b # Genesis /\ Parent[b] \in index \ Failed

\* The blocks known to be invalid that the scan finds below the header.  It is
\* skipped when the previous block is BLOCK_VALID_SCRIPTS.
Culprits(b) ==
    IF Parent[b] \in scripts THEN {} ELSE failedBlocks \cap Anc[Parent[b]]

\* AddToBlockIndex
AddToBlockIndex(b) ==
    /\ index' = index \cup {b}
    /\ bestHeader' = IF b \notin index /\ ChainTrust[bestHeader] < ChainTrust[b]
                     THEN b ELSE bestHeader

\* The blocks between a new header and the invalid block the scan found.
MarkedBetween(b, failedit) == Anc[Parent[b]] \ Anc[failedit]

AcceptBlockHeader(b) ==
    /\ ~locked
    /\ HeaderConnects(b)
    /\ \/ /\ Culprits(b) = {}
          /\ AddToBlockIndex(b)
          /\ UNCHANGED failedChild
       \/ \E failedit \in Culprits(b) :
             /\ failedChild' = failedChild \cup MarkedBetween(b, failedit)
             /\ UNCHANGED <<index, bestHeader>>
    /\ UNCHANGED <<bad, data, linked, scripts, seq, unlinked, failedValid, failedBlocks,
                   bestInvalid, candidates, tip, counters, mutex, todo, activation,
                   invalidation, disk, bounds>>

\* A block that does not sort below the tip becomes a candidate.
BecomesCandidate(b, s) == ~LessIn(s, b, tip)

\* The block is new: its data is stored.  m_blocks_unlinked is empty (see
\* NothingUnlinked), so no other block becomes connectable with it.
ReceivedBlockTransactions(b) ==
    /\ data' = data \cup {b}
    /\ IF Parent[b] \in linked
       THEN /\ linked' = linked \cup {b}
            /\ seq' = [seq EXCEPT ![b] = nextSeq]
            /\ nextSeq' = nextSeq + 1
            /\ candidates' = candidates \cup (IF BecomesCandidate(b, seq') THEN {b} ELSE {})
            /\ UNCHANGED unlinked
       ELSE /\ unlinked' = unlinked \cup {b}
            /\ UNCHANGED <<linked, seq, nextSeq, candidates>>

\* Mutant: a block is stored as soon as its parent's header is known.
ParentCheckedHeader(b) == b # Genesis => Parent[b] \notin Failed

\* The parent is BLOCK_VALID_TRANSACTIONS, without which its checks of stake
\* would have nothing to start from.
ParentChecked(b) == b # Genesis => ValidTransactions(Parent[b])

\* AcceptBlock, from ProcessNewBlock, for a block whose header is known or
\* passes AcceptBlockHeader and whose parent passed the proof-of-stake checks
\* with its data.  passes is the outcome of CheckBlock, ContextualCheckBlock
\* and PeercoinContextualBlockChecks; it is free where the block may fail, as
\* the last of them also depends on what txindex has caught up with.
AcceptBlock(b, fRequested, passes) ==
    /\ ~locked
    /\ \/ b \in index \ Failed
       \/ HeaderConnects(b) /\ Culprits(b) = {}
    /\ ParentChecked(b)
    /\ passes \/ b \in MayFailCheck
    /\ AddToBlockIndex(b)
    /\ IF b \in data \/ (~fRequested /\ ChainTrust[b] < ChainTrust[tip])
       THEN /\ todo' = TRUE
            /\ UNCHANGED <<failedValid, data, linked, seq, nextSeq, candidates, unlinked>>
       ELSE IF ~passes
       THEN /\ failedValid' = failedValid \cup {b}
            /\ UNCHANGED <<todo, data, linked, seq, nextSeq, candidates, unlinked>>
       ELSE /\ ReceivedBlockTransactions(b)
            /\ todo' = TRUE
            /\ UNCHANGED failedValid
    /\ UNCHANGED <<bad, scripts, failedChild, failedBlocks, bestInvalid, tip, reverseSeq,
                   lastPrecious, mutex, activation, invalidation, disk, bounds>>

-----------------------------------------------------------------------------
(* ActivateBestChain.                                                      *)

\* LOCK(m_chainstate_mutex), by a thread that stored a block or ran an RPC.
ActivateBestChain ==
    /\ ~locked
    /\ mutex = "free" /\ todo
    /\ mutex' = "abc"
    /\ todo' = FALSE
    /\ mostWork' = None
    /\ UNCHANGED <<bad, tree, failure, candidates, tip, bestHeader, counters, locked,
                   startTip, invalidation, disk, bounds>>

\* The part of a candidate's branch that FindMostWorkChain walks, and the
\* failed blocks it may meet there.
Branch(c) == Anc[c] \ Anc[tip]
FailedOn(c) == Branch(c) \cap Failed

\* FindMostWorkChain: the candidates that sort above the first usable one are
\* erased with their branches down to the failed block that was met first, and
\* the blocks above that one become BLOCK_FAILED_CHILD.
FindMostWorkChain ==
    LET found  == Best({c \in candidates : FailedOn(c) = {}})
        culled == {c \in candidates : /\ FailedOn(c) # {}
                                      /\ found = None \/ Less(found, c)}
        FromFailed(c) == {x \in Anc[c] : Highest(FailedOn(c)) \in Anc[x]}
    IN [found    |-> found,
        erased   |-> UNION {FromFailed(c) : c \in culled},
        children |-> UNION {FromFailed(c) \ {Highest(FailedOn(c))} : c \in culled},
        invalid  |-> IF culled = {} THEN bestInvalid ELSE MoreTrusted(bestInvalid, Best(culled))]

\* pindexMostWork is looked up only when it is not cached from an earlier turn.
MostWork ==
    IF mostWork = None THEN FindMostWorkChain
    ELSE [found |-> mostWork, erased |-> {}, children |-> {}, invalid |-> bestInvalid]

\* Mutant: the index is written as it was before the blocks were connected.
WrittenBefore(t, ok) ==
    [index |-> index, data |-> data, scripts |-> scripts,
     failedValid |-> failedValid, failedChild |-> failedChild, tip |-> t]

\* What a full FlushStateToDisk writes when the coins' best block is t and the
\* blocks of ok have been connected: the index first, then the coins.  Only the
\* entries queued in m_dirty_blockindex are written; the BLOCK_FAILED_CHILD of
\* FindMostWorkChain is not queued, but LoadBlockIndex sets it again on all that
\* descends from a failed block.
Written(t, ok) ==
    [index |-> index, data |-> data, scripts |-> scripts \cup ok,
     failedValid |-> failedValid, failedChild |-> failedChild, tip |-> t]

\* FlushStateToDisk inside ConnectTip or DisconnectTip.  The disk is only
\* followed while a restart is still to come.
FlushDuring(passed, ok) ==
    \/ UNCHANGED disk
    \/ /\ restarts < MaxRestarts
       /\ \E t \in passed : disk' = Written(t, ok \cap Anc[t])

\* Mutant: a block is connected whatever ConnectBlock says of it.
ConnectsAny(b, toConnect) == TRUE

\* ConnectTip succeeds for b and the blocks below it.
Connects(b, toConnect) == toConnect \cap Anc[b] \cap bad = {}

\* ActivateBestChainStep towards mw: the active chain is disconnected down to
\* the fork, and the blocks towards mw are connected until the tip has more
\* trust than before, or a block fails.  The batches of 32 blocks are longer
\* than any branch here.
StepTowards(mw) ==
    LET fork      == Highest(Anc[mw] \cap Anc[tip])
        toConnect == Anc[mw] \ Anc[fork]
        better    == {b \in toConnect : ChainTrust[b] > ChainTrust[tip]}
        newTip    == Highest({fork} \cup
                        {b \in toConnect : /\ Connects(b, toConnect)
                                          /\ better \cap Anc[Parent[b]] = {}})
    IN [tip       |-> newTip,
        passed    |-> {Parent[b] : b \in Anc[tip] \ Anc[fork]},
        connected |-> toConnect \cap Anc[newTip],
        rejected  |-> IF newTip \in better THEN {}
                      ELSE {b \in toConnect : Parent[b] = newTip}]

\* There is nothing to do.  If blocks were connected in this turn of cs_main,
\* the outer loop goes round once more unless the tip is the aim.
StopActivating(fmw) ==
    /\ fmw.found \in {None, tip}
    /\ failedChild' = failedChild \cup fmw.children
    /\ candidates' = candidates \ fmw.erased
    /\ bestInvalid' = fmw.invalid
    /\ mutex' = IF locked /\ fmw.found = None THEN "abc" ELSE "free"
    /\ mostWork' = None /\ startTip' = None /\ locked' = FALSE
    /\ UNCHANGED <<bad, tree, failedValid, failedBlocks, tip, bestHeader, counters, todo,
                   invalidation, disk, bounds>>

\* Mutant: the inner loop is never taken twice.
StillWorseNever(t, start) == FALSE

\* The condition of the inner loop: the chain is worse than at its start.
StillWorse(t, start) == Less(t, start)

\* Mutant: pindexMostWork is kept after a block on its branch failed.
AimKept(found, rejected) == found

\* pindexMostWork after a step: "Wipe cache, we may need another branch now".
Aim(found, rejected) == IF rejected = {} THEN found ELSE None

\* Mutant: one step is enough.
ReachedAlways(t, aim) == TRUE

\* The end of the outer loop.
Reached(t, aim) == t = aim

\* One turn of the inner loop, with PruneBlockIndexCandidates after the blocks
\* that were connected and InvalidBlockFound for the one that failed.  cs_main
\* is kept for another turn if the chain is now worse than when it was taken;
\* otherwise it is released, and the outer loop ends if the tip is the aim.
Reorganize(fmw, step) ==
    LET start   == IF locked THEN startTip ELSE tip
        left    == (candidates \ fmw.erased) \ step.rejected
        aim     == Aim(fmw.found, step.rejected)
        again   == StillWorse(step.tip, start)
        release == ~again /\ Reached(step.tip, aim)
    IN
    /\ tip' = step.tip
    /\ scripts' = scripts \cup step.connected
    /\ failedValid' = failedValid \cup step.rejected
    /\ failedChild' = failedChild \cup fmw.children
    /\ failedBlocks' = failedBlocks \cup step.rejected
    /\ IF step.rejected = {}
       THEN bestInvalid' = fmw.invalid /\ UNCHANGED bestHeader
       ELSE /\ bestInvalid' = MoreTrusted(MoreTrusted(fmw.invalid, Highest(step.rejected)), fmw.found)
            /\ bestHeader' = HeaderWithout(bestHeader, Highest(step.rejected), step.tip)
    /\ candidates' = IF step.connected = {} THEN left ELSE Prune(left, seq, step.tip)
    /\ mutex' = IF release THEN "free" ELSE "abc"
    /\ mostWork' = IF release THEN None ELSE aim
    /\ locked' = again
    /\ startTip' = IF again THEN start ELSE None
    /\ FlushDuring(step.passed \cup step.connected, step.connected)
    /\ UNCHANGED <<bad, index, data, linked, seq, unlinked, counters, todo, invalidation, bounds>>

ActivateBestChainStep ==
    /\ mutex = "abc"
    /\ \E fmw \in {MostWork} :
          \/ StopActivating(fmw)
          \/ /\ fmw.found \notin {None, tip}
             /\ \E step \in {StepTowards(fmw.found)} : Reorganize(fmw, step)

-----------------------------------------------------------------------------
(* The operator's RPCs.                                                    *)

UseRPC(name) ==
    /\ ~locked
    /\ name \in Operator
    /\ ops < MaxOps
    /\ ops' = ops + 1

\* invalidateblock: the first part of InvalidateBlock.
InvalidateBlock(b) ==
    /\ UseRPC("invalidateblock")
    /\ mutex = "free"
    /\ b \in index \ {Genesis}
    /\ mutex' = "inv"
    /\ target' = b /\ toMark' = b
    /\ byWork' = {c \in linked \ Anc[tip] : ValidTransactions(c) /\ ~Less(c, Parent[b])}
    /\ UNCHANGED <<bad, tree, failure, candidates, tip, bestHeader, counters, todo, activation,
                   disk, restarts>>

\* Its loop, in cs_main once per disconnected block.
InvalidateDisconnect ==
    LET walk    == tip
        prev    == Parent[walk]
        remark  == prev = toMark /\ toMark \in failedValid
        revived == {c \in byWork : ~Less(c, prev)}
    IN
    /\ ~locked
    /\ mutex = "inv" /\ target \in Anc[tip]
    /\ tip' = prev
    /\ failedValid' = (failedValid \cup {walk}) \ (IF remark THEN {toMark} ELSE {})
    /\ failedChild' = failedChild \cup (IF remark THEN {toMark} ELSE {})
    /\ candidates' = (candidates \ {walk}) \cup {prev} \cup revived
    /\ byWork' = byWork \ revived
    /\ toMark' = walk
    /\ FlushDuring({prev}, {})
    /\ UNCHANGED <<bad, tree, failedBlocks, bestInvalid, bestHeader, counters, mutex, todo,
                   activation, target, bounds>>

\* Mutant: the index is not searched again.
MissedNothing(fails) == {}

\* "If any new blocks somehow arrived while we were disconnecting": the blocks
\* the last part inserts into the candidates.
Missed(fails) == {b \in linked \ fails : ~Less(b, tip)}

\* Its last part; the RPC then calls ActivateBestChain.
InvalidateFinish ==
    LET fv == failedValid \cup {toMark} IN
    /\ ~locked
    /\ mutex = "inv" /\ target \notin Anc[tip]
    /\ failedValid' = fv
    /\ failedBlocks' = failedBlocks \cup {toMark}
    /\ candidates' = (candidates \ {toMark}) \cup Missed(fv \cup failedChild)
    /\ bestInvalid' = MoreTrusted(bestInvalid, toMark)
    /\ bestHeader' = HeaderWithout(bestHeader, toMark, tip)
    /\ mutex' = "free" /\ todo' = TRUE
    /\ target' = None /\ toMark' = None /\ byWork' = {}
    /\ UNCHANGED <<bad, tree, failedChild, tip, counters, activation, disk, bounds>>

\* The blocks lose BLOCK_FAILED_MASK and their place in m_failed_blocks.
ClearFailure(blocks) ==
    /\ failedValid' = failedValid \ blocks
    /\ failedChild' = failedChild \ blocks
    /\ failedBlocks' = failedBlocks \ blocks

\* reconsiderblock: ResetBlockFailureFlags.
ReconsiderBlock(b) ==
    LET cleared == {x \in Failed : b \in Anc[x]}
        above   == Failed \cap Anc[b]
    IN
    /\ UseRPC("reconsiderblock")
    /\ b \in index
    /\ RootsOnly => Failed \cap Anc[b] \subseteq {b}
    /\ ClearFailure(cleared \cup above)
    /\ candidates' = candidates \cup {x \in cleared \cap linked : Less(tip, x)}
    /\ bestInvalid' = IF bestInvalid \in cleared THEN None ELSE bestInvalid
    /\ todo' = TRUE
    /\ UNCHANGED <<bad, tree, tip, bestHeader, counters, mutex, activation, invalidation, disk,
                   restarts>>

\* preciousblock: PreciousBlock.
PreciousBlock(b) ==
    LET rs == IF ChainTrust[tip] > lastPrecious THEN -1 ELSE reverseSeq IN
    /\ UseRPC("preciousblock")
    /\ b \in index
    /\ IF ChainTrust[b] < ChainTrust[tip]
       THEN UNCHANGED <<seq, candidates, reverseSeq, lastPrecious, todo>>
       ELSE /\ lastPrecious' = ChainTrust[tip]
            /\ seq' = [seq EXCEPT ![b] = rs]
            /\ reverseSeq' = rs - 1
            /\ candidates' = IF ValidTransactions(b) /\ b \in linked
                             THEN Prune(candidates \cup {b}, seq', tip)
                             ELSE candidates \ {b}
            /\ todo' = TRUE
    /\ UNCHANGED <<bad, index, data, linked, scripts, unlinked, failure, tip, bestHeader, nextSeq,
                   mutex, activation, invalidation, disk, restarts>>

-----------------------------------------------------------------------------
(* FlushStateToDisk between blocks, and a restart.                         *)

\* Every DATABASE_WRITE_INTERVAL only the block index is written; a full flush
\* writes the coins after it.
FlushStateToDisk ==
    /\ ~locked
    /\ restarts < MaxRestarts
    /\ \E t \in {disk.tip, tip} : disk' = Written(t, {})
    /\ disk' # disk
    /\ UNCHANGED <<bad, tree, failure, candidates, tip, bestHeader, counters, mutex, todo,
                   activation, invalidation, bounds>>

\* The node stops anywhere, ActivateBestChain's inner loop included, and starts
\* again: LoadBlockIndex, LoadChainTip, and ActivateBestChain is called.
Restart ==
    LET child == disk.failedChild \cup
                   {b \in disk.index \ disk.failedValid :
                       (Anc[b] \ {b}) \cap (disk.failedValid \cup disk.failedChild) # {}}
        fails == disk.failedValid \cup child
        whole == {b \in disk.data : Anc[b] \subseteq disk.data}
    IN
    /\ restarts < MaxRestarts
    /\ restarts' = restarts + 1
    /\ index' = disk.index /\ data' = disk.data /\ scripts' = disk.scripts
    /\ linked' = whole
    /\ unlinked' = disk.data \ whole
    /\ seq' = [b \in Block |-> 0]
    /\ failedValid' = disk.failedValid /\ failedChild' = child
    /\ failedBlocks' = {}
    /\ bestInvalid' \in
          IF fails = {} THEN {None}
          ELSE {b \in fails : \A c \in fails : ChainTrust[c] <= ChainTrust[b]}
    /\ bestHeader' = CHOOSE b \in disk.index \ fails :
                       \A c \in disk.index \ fails : ~LessIn(seq', b, c)
    /\ tip' = disk.tip
    /\ candidates' = Prune(whole \ fails, seq', disk.tip)
    /\ nextSeq' = 1 /\ reverseSeq' = -1 /\ lastPrecious' = 0
    /\ mutex' = "free" /\ todo' = TRUE
    /\ locked' = FALSE /\ mostWork' = None /\ startTip' = None
    /\ target' = None /\ toMark' = None /\ byWork' = {}
    /\ UNCHANGED <<bad, disk, ops>>

-----------------------------------------------------------------------------
Next ==
    \/ \E b \in Block :
          \/ AcceptBlockHeader(b)
          \/ \E fRequested, passes \in BOOLEAN : AcceptBlock(b, fRequested, passes)
          \/ InvalidateBlock(b)
          \/ ReconsiderBlock(b)
          \/ PreciousBlock(b)
    \/ ActivateBestChain
    \/ ActivateBestChainStep
    \/ InvalidateDisconnect
    \/ InvalidateFinish
    \/ FlushStateToDisk
    \/ Restart

\* A thread that waits for m_chainstate_mutex gets it, and the loops of its
\* holder go on.
Fairness ==
    /\ WF_vars(ActivateBestChain)
    /\ WF_vars(ActivateBestChainStep)
    /\ WF_vars(InvalidateDisconnect)
    /\ WF_vars(InvalidateFinish)

Spec == Init /\ [][Next]_vars /\ Fairness

-----------------------------------------------------------------------------
(* Properties.                                                             *)

\* The block data a node keeps is closed under parents: AcceptBlock refuses a
\* block whose parent it has not checked, so that m_blocks_unlinked, which is
\* there for blocks that arrive before their parents, is never used.
NothingUnlinked ==
    /\ unlinked = {} /\ data = linked
    /\ \A b \in data \ {Genesis} : Parent[b] \in data

\* No block of the active chain was rejected by ConnectBlock or is marked as
\* failed, and BLOCK_VALID_SCRIPTS is only ever set on a branch from genesis up.
ActiveChainValid ==
    /\ Anc[tip] \cap (bad \cup Failed) = {}
    /\ Anc[tip] \subseteq scripts \cup {Genesis}
    /\ \A b \in scripts : Anc[b] \subseteq scripts \cup {Genesis}

\* A block with all its data and no block on its branch that failed is a
\* candidate if and only if it does not sort below the tip; one that sorts
\* below is none.  While InvalidateBlock has let go of cs_main the set may miss
\* late blocks.
CandidatesRight ==
    ~locked =>
        \A b \in index :
            IF b \in linked /\ ~Less(b, tip)
            THEN (mutex # "inv" /\ Anc[b] \cap failedValid = {}) => b \in candidates
            ELSE b \notin candidates

\* The tip is always a candidate, so that PruneBlockIndexCandidates never
\* empties the set and a failed reorganization finds its way back.
TipIsCandidate == ~locked => tip \in candidates

\* "The failed mask cannot be set for blocks without invalid parents": above or
\* at every block marked as failed there is one that failed itself.
FailedMaskHasInvalidParent == \A b \in Failed : Anc[b] \cap failedValid # {}

\* Every block in m_failed_blocks is BLOCK_FAILED_VALID, as AcceptBlockHeader
\* asserts when it finds one below a new header.
FailedBlocksFailed == failedBlocks \subseteq failedValid

\* What CheckBlockIndex asserts of the block index wherever it is called, with
\* the assertions of PruneBlockIndexCandidates and AcceptBlockHeader on the
\* same sets: the candidates are the blocks that may be next, failure marks have
\* a cause, and no block has data before its parent does.
CheckBlockIndex ==
    /\ NothingUnlinked
    /\ CandidatesRight
    /\ TipIsCandidate
    /\ FailedMaskHasInvalidParent
    /\ FailedBlocksFailed

\* A block that could be the tip: connectable, valid and nowhere marked failed.
Usable(b) == b \in linked /\ Anc[b] \cap (bad \cup Failed) = {}

\* When nobody is in ActivateBestChain or on the way to it, no usable block
\* sorts above the tip: more trust, or as much and seen first.
Settled == mutex = "free" /\ ~todo => \A b \in Block : Usable(b) => ~Less(tip, b)

\* ActivateBestChain never lets go of cs_main with a tip that sorts below the
\* one it started from: a reorganization that fails is undone first.
HoldsGround ==
    [][mutex = "abc" /\ ~locked' /\ restarts' = restarts =>
          ~Less(tip', IF locked THEN startTip ELSE tip)]_vars

\* The tip never stays below a usable block forever.
TipCatchesUp == \A b \in Block : []<>~(Usable(b) /\ Less(tip, b))

\* What the comment on m_best_header says of it: no header on a branch without
\* failed blocks has more trust, once ActivateBestChain is done.
BestHeaderSeen ==
    mutex = "free" /\ ~todo =>
        \A b \in index : Anc[b] \cap Failed = {} => ChainTrust[b] <= ChainTrust[bestHeader]

\* What the RPC's help says of preciousblock: the block is treated as if it had
\* been received before all others with the same work.
PreciousFirst ==
    [][\A b \in index : PreciousBlock(b) /\ seq' # seq =>
          \A c \in data \ {b} : ChainTrust[c] = ChainTrust[b] => LessIn(seq', c, b)]_vars

\* What InvalidateBlock's comment says of the blocks it disconnects: only the
\* last one is BLOCK_FAILED_VALID, its children are BLOCK_FAILED_CHILD.
OnlyRootFailedValid ==
    mutex = "inv" /\ target \notin Anc[tip] =>
        \A b \in failedValid : target \in Anc[b] => b = target
=============================================================================

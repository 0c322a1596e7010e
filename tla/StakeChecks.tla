----------------------------- MODULE StakeChecks -----------------------------
(***************************************************************************)
(* The proof-of-stake checks of a block (PeercoinContextualBlockChecks and *)
(* CheckProofOfStake in AcceptBlock, GetCoinAge in ConnectBlock) and the   *)
(* state they read: the transaction index, which follows the active chain  *)
(* from the callback queue, its map cachedTxs, the set setStakeSeen and    *)
(* the stake fields of the block index.  Threads hand over blocks with     *)
(* ProcessNewBlock and take cs_main and m_chainstate_mutex as the code     *)
(* does.                                                                   *)
(*                                                                         *)
(* Blocks are a fixed tree of blocks every other node accepts.  A block    *)
(* holds transactions; a proof-of-stake block spends outputs of some, the  *)
(* first being its kernel.  The hash of a kernel is over the header and    *)
(* the offset of the kernel's transaction in its block: it meets the       *)
(* target for the block of the own branch that holds the transaction.      *)
(* Trust is height.  Wrong blocks are left to module ChainSelection.       *)
(***************************************************************************)
EXTENDS Integers, FiniteSets, SequencesExt

CONSTANTS
    Thread,
    Free,           \* no owner of a lock
    Block,
    None,
    Genesis,        \* the chain before the forks, which the index has
    Parent,
    Anc,            \* a block's ancestors and itself
    Tx,
    Txs,            \* the transactions of a block
    Kernel,         \* the transaction whose output the kernel spends, or None
    Inputs,         \* those whose outputs the coinstake spends, in the order of vin
    Time,           \* a block's time
    TimedTx,        \* the blocks whose coinstake stores a time (nVersion < 3)
    Addr,           \* the addresses of the block index entries, the last tie break
    Wallet,         \* the transactions that pay to the wallet
    MaxSaveErrors,  \* bound: blocks that could not be written
    MaxRestarts     \* bound: restarts

VARIABLES
    pc,             \* where each thread is in ProcessNewBlock
    csMain,         \* the owner of cs_main
    chainMutex,     \* the owner of m_chainstate_mutex
    accepted,       \* blocks with BLOCK_HAVE_DATA
    failed,         \* blocks with BLOCK_FAILED_VALID
    tip,
    step,           \* ActivateBestChain's variables and the step under way
    queue,          \* BlockConnected callbacks the index has not run yet
    txPos,          \* FindTxPosition: the block of a transaction
    cachedTxs,      \* g_txindex->cachedTxs: the header of a transaction
    setStakeSeen,
    stakeFields,    \* blocks whose prevoutStake is set in the block index
    ageFrom,        \* history: the headers that gave a coinstake's age
    session,        \* the blocks accepted since the start, by nSequenceId
    saveErrors,
    restarts

locks == <<csMain, chainMutex>>
index == <<queue, txPos>>
stakes == <<setStakeSeen, stakeFields>>
process == <<saveErrors, restarts>>
vars == <<pc, locks, accepted, failed, tip, step, index, cachedTxs, stakes, ageFrom, session, process>>

-----------------------------------------------------------------------------
Height(b) == Cardinality(Anc[b])

IsProofOfStake(b) == Kernel[b] # None

ForkOf(a, b) == CHOOSE c \in Anc[a] \cap Anc[b] : Anc[a] \cap Anc[b] \subseteq Anc[c]

\* The block of b's own branch that holds a transaction.
BlockOf(b, tx) == CHOOSE c \in Anc[b] : tx \in Txs[c]

InvalidBranch(b) == Anc[b] \cap failed # {}

\* CBlockIndexWorkComparator: the block seen first is better; those loaded
\* from disk count as seen before.
SequenceId(b) == IF b \in ToSet(session) THEN CHOOSE i \in DOMAIN session : session[i] = b ELSE 0

Less(a, b) ==
    \/ Height(a) < Height(b)
    \/ /\ Height(a) = Height(b)
       /\ \/ SequenceId(a) > SequenceId(b)
          \/ SequenceId(a) = SequenceId(b) /\ Addr[a] > Addr[b]

NoStep == [goal |-> None, start |-> None, old |-> None, trace |-> <<>>]

Init ==
    /\ pc = [t \in Thread |-> [at |-> "idle", block |-> None]]
    /\ csMain = Free /\ chainMutex = Free
    /\ accepted = {Genesis} /\ failed = {} /\ tip = Genesis
    /\ step = NoStep
    /\ queue = <<>>
    /\ txPos = [x \in Tx |-> IF x \in Txs[Genesis] THEN Genesis ELSE None]
    /\ cachedTxs = [x \in Tx |-> None]
    /\ setStakeSeen = {} /\ stakeFields = {}
    /\ ageFrom = [b \in Block |-> {}]
    /\ session = <<>>
    /\ saveErrors = 0 /\ restarts = 0

At(t, where) == pc[t].at = where
GoTo(t, where) == pc' = [pc EXCEPT ![t].at = where]

-----------------------------------------------------------------------------
(* The checks.                                                             *)

\* The header the checks use: the cached one, else the one on disk.
HeaderOf(tx) == IF cachedTxs[tx] # None THEN cachedTxs[tx] ELSE txPos[tx]

\* CheckProofOfStake: the offset always comes from the index.
CheckProofOfStake(b) ==
    LET own == BlockOf(b, Kernel[b])
    IN  txPos[Kernel[b]] = own /\ HeaderOf(Kernel[b]) = own

\* block.GetProofOfStake(): the time of the coinstake transaction, which is
\* zero when its format stores none.
GetProofOfStake(b) == <<Kernel[b], IF b \in TimedTx THEN Time[b] ELSE 0>>

\* The pair that is remembered: prevoutStake and the time of the block.
StakeSeenKey(b) == <<Kernel[b], Time[b]>>

\* GetCoinAge goes through the inputs until it does not find one's header, and
\* caches those it finds on the way.
CoinAgeFound(b) == \A x \in ToSet(Inputs[b]) : HeaderOf(x) # None

LookedUp(b) ==
    {Inputs[b][i] : i \in {n \in DOMAIN Inputs[b] : \A m \in 1 .. n : HeaderOf(Inputs[b][m]) # None}}

CacheHeaders(b) ==
    cachedTxs' = [x \in Tx |-> IF x \in LookedUp(b) THEN HeaderOf(x) ELSE cachedTxs[x]]

-----------------------------------------------------------------------------
(* ProcessNewBlock, first part: AcceptBlock under cs_main.                 *)

\* What passes AcceptBlockHeader and connects to a validated block.
CanAccept(t, b) ==
    /\ At(t, "idle") /\ csMain = Free
    /\ b # Genesis /\ Parent[b] \in accepted
    /\ ~InvalidBranch(b)

AlreadyHave(t, b) ==
    /\ CanAccept(t, b)
    /\ b \in accepted
    /\ GoTo(t, "activate")
    /\ UNCHANGED <<locks, accepted, failed, tip, step, index, cachedTxs, stakes, ageFrom, session, process>>

\* The block index says that this very block's stake is known: the checks
\* call InvalidateBlock, with cs_main held.
StakeFieldsKnown(b) == IsProofOfStake(b) /\ b \in stakeFields

StakeSeen(b) == IsProofOfStake(b) /\ GetProofOfStake(b) \in setStakeSeen

\* A block that fails the checks is marked, whatever the reason.
RejectStake(t, b) ==
    /\ CanAccept(t, b) /\ b \notin accepted
    /\ \/ IsProofOfStake(b) /\ ~CheckProofOfStake(b)
       \/ StakeSeen(b) /\ ~StakeFieldsKnown(b)
    /\ failed' = failed \cup {b}
    /\ UNCHANGED <<pc, locks, accepted, tip, step, index, cachedTxs, stakes, ageFrom, session, process>>

EnterInvalidateBlock(t, b) ==
    /\ CanAccept(t, b) /\ b \notin accepted
    /\ StakeFieldsKnown(b) /\ CheckProofOfStake(b)
    /\ csMain' = t
    /\ pc' = [pc EXCEPT ![t] = [at |-> "invalidate", block |-> b]]
    /\ UNCHANGED <<chainMutex, accepted, failed, tip, step, index, cachedTxs, stakes, ageFrom, session, process>>

\* InvalidateBlock needs m_chainstate_mutex.  The block is not in the chain:
\* it is marked, and marked again by AcceptBlock.
InvalidateBlock(t) ==
    /\ At(t, "invalidate") /\ chainMutex = Free
    /\ failed' = failed \cup {pc[t].block}
    /\ csMain' = Free
    /\ pc' = [pc EXCEPT ![t] = [at |-> "idle", block |-> None]]
    /\ UNCHANGED <<chainMutex, accepted, tip, step, index, cachedTxs, stakes, ageFrom, session, process>>

\* Mutant of PassesChecks: a stake that was seen is let through.
PassesKernelOnly(b) == IsProofOfStake(b) => CheckProofOfStake(b) /\ ~StakeFieldsKnown(b)

PassesChecks(b) ==
    IsProofOfStake(b) => CheckProofOfStake(b) /\ ~StakeFieldsKnown(b) /\ ~StakeSeen(b)

\* The stake is remembered before the block is saved.
RememberStake(b) ==
    IF IsProofOfStake(b)
    THEN /\ stakeFields' = stakeFields \cup {b}
         /\ setStakeSeen' = setStakeSeen \cup {StakeSeenKey(b)}
    ELSE UNCHANGED stakes

AcceptBlock(t, b) ==
    /\ CanAccept(t, b) /\ b \notin accepted
    /\ PassesChecks(b)
    /\ RememberStake(b)
    /\ accepted' = accepted \cup {b} /\ session' = Append(session, b)
    /\ GoTo(t, "activate")
    /\ UNCHANGED <<locks, failed, tip, step, index, cachedTxs, ageFrom, process>>

\* SaveBlockToDisk returns no position: AbortNode has asked for a shutdown,
\* and until it comes blocks are still handled.
SaveBlockToDiskFails(t, b) ==
    /\ saveErrors < MaxSaveErrors
    /\ CanAccept(t, b) /\ b \notin accepted
    /\ PassesChecks(b)
    /\ RememberStake(b)
    /\ saveErrors' = saveErrors + 1
    /\ UNCHANGED <<pc, locks, accepted, failed, tip, step, index, cachedTxs, ageFrom, session, restarts>>

-----------------------------------------------------------------------------
(* ProcessNewBlock, second part: ActivateBestChain.                        *)

ActivateBestChain(t) ==
    /\ At(t, "activate") /\ chainMutex = Free
    /\ chainMutex' = t
    /\ GoTo(t, "best")
    /\ UNCHANGED <<csMain, accepted, failed, tip, step, index, cachedTxs, stakes, ageFrom, session, process>>

\* FindMostWorkChain.
MostWork ==
    LET valid == {b \in accepted : ~InvalidBranch(b)}
    IN  CHOOSE b \in valid : \A c \in valid : ~Less(b, c)

\* pindexMostWork is kept until it is reached or turns out to be invalid.
Goal == IF step.goal = None THEN MostWork ELSE step.goal

\* Nothing to do, or nothing more after a failure.
NothingBetter(t) ==
    /\ At(t, "best") /\ csMain \in {Free, t}
    /\ tip = Goal
    /\ csMain' = Free
    /\ step' = NoStep
    /\ IF csMain = t
       THEN GoTo(t, "leave") /\ UNCHANGED chainMutex
       ELSE GoTo(t, "idle") /\ chainMutex' = Free
    /\ UNCHANGED <<accepted, failed, tip, index, cachedTxs, stakes, ageFrom, session, process>>

\* The blocks above the fork are disconnected; the index takes no notice.
ActivateBestChainStep(t) ==
    /\ At(t, "best") /\ csMain \in {Free, t}
    /\ tip # Goal
    /\ tip' = ForkOf(tip, Goal)
    /\ step' = [goal |-> Goal, start |-> IF csMain = t THEN step.start ELSE tip,
                old |-> tip, trace |-> <<>>]
    /\ csMain' = t
    /\ GoTo(t, "connect")
    /\ UNCHANGED <<chainMutex, accepted, failed, index, cachedTxs, stakes, ageFrom, session, process>>

NextToConnect == CHOOSE c \in Anc[step.goal] : Parent[c] = tip

\* The step is over: the callbacks are queued, and cs_main is released unless
\* the tip is worse than the one ActivateBestChain took it with.
EndStep(t, newTip, goal, trace) ==
    LET worse == Less(newTip, step.start)
    IN  /\ queue' = queue \o trace
        /\ csMain' = IF worse THEN t ELSE Free
        /\ step' = [step EXCEPT !.goal = goal, !.trace = <<>>]
        /\ GoTo(t, IF ~worse /\ newTip = goal THEN "leave" ELSE "best")

\* ConnectTip of a block, with the coin age of its coinstake.  At the goal, or
\* with more trust than before the step, the step ends.
ConnectTip(t) ==
    LET b == NextToConnect
        trace == Append(step.trace, b)
    IN  /\ At(t, "connect")
        /\ CoinAgeFound(b)
        /\ ageFrom' = [ageFrom EXCEPT ![b] = {<<x, HeaderOf(x)>> : x \in ToSet(Inputs[b])}]
        /\ CacheHeaders(b)
        /\ tip' = b
        /\ IF b = step.goal \/ Height(b) > Height(step.old)
           THEN EndStep(t, b, step.goal, trace)
           ELSE /\ step' = [step EXCEPT !.trace = trace]
                /\ UNCHANGED <<queue, csMain, pc>>
        /\ UNCHANGED <<chainMutex, accepted, failed, txPos, stakes, session, process>>

\* Mutant of InvalidBlockFound: the block is not marked.
InvalidBlockFoundUnmarked(b) == failed' = failed

InvalidBlockFound(b) == failed' = failed \cup {b}

\* "unable to get coin age for coinstake": the block is marked, and another
\* branch is looked for.  The headers of the inputs before stay in the cache.
ConnectTipFails(t) ==
    LET b == NextToConnect
    IN  /\ At(t, "connect")
        /\ ~CoinAgeFound(b)
        /\ CacheHeaders(b)
        /\ InvalidBlockFound(b)
        /\ EndStep(t, tip, None, step.trace)
        /\ UNCHANGED <<chainMutex, accepted, tip, txPos, stakes, ageFrom, session, process>>

\* After its loops ActivateBestChain takes cs_main again, for m_disabled and the
\* periodic flush, before it gives back m_chainstate_mutex.
LeaveActivate(t) ==
    /\ At(t, "leave") /\ csMain = Free
    /\ chainMutex' = Free
    /\ step' = NoStep
    /\ GoTo(t, "idle")
    /\ UNCHANGED <<csMain, accepted, failed, tip, index, cachedTxs, stakes, ageFrom, session, process>>

-----------------------------------------------------------------------------
(* The index, the minter and the process.                                  *)

\* TxIndex::CustomAppend: the latest position of a transaction replaces an
\* earlier one, and none is ever erased.
CustomAppend ==
    /\ queue # <<>>
    /\ txPos' = [x \in Tx |-> IF x \in Txs[Head(queue)] THEN Head(queue) ELSE txPos[x]]
    /\ queue' = Tail(queue)
    /\ UNCHANGED <<pc, locks, accepted, failed, tip, step, cachedTxs, stakes, ageFrom, session, process>>

\* CreateCoinStake looks at a coin of the wallet, under cs_main.
CreateCoinStake(x) ==
    /\ csMain = Free
    /\ cachedTxs[x] = None /\ txPos[x] # None
    /\ cachedTxs' = [cachedTxs EXCEPT ![x] = txPos[x]]
    /\ UNCHANGED <<pc, locks, accepted, failed, tip, step, index, stakes, ageFrom, session, process>>

\* The node stops between two steps, with everything written, and starts again:
\* the block index is loaded with its stake fields, the maps start empty and
\* the index is built up to the tip.
Restart ==
    /\ restarts < MaxRestarts
    /\ \A t \in Thread : ~At(t, "connect")
    /\ restarts' = restarts + 1
    /\ pc' = [t \in Thread |-> [at |-> "idle", block |-> None]]
    /\ csMain' = Free /\ chainMutex' = Free
    /\ step' = NoStep
    /\ queue' = SelectSeq(queue, LAMBDA b : b \in Anc[tip])
    /\ cachedTxs' = [x \in Tx |-> None]
    /\ setStakeSeen' = {} /\ session' = <<>>
    /\ UNCHANGED <<accepted, failed, tip, txPos, stakeFields, ageFrom, saveErrors>>

-----------------------------------------------------------------------------
ThreadStep(t) ==
    \/ InvalidateBlock(t)
    \/ ActivateBestChain(t)
    \/ NothingBetter(t)
    \/ ActivateBestChainStep(t)
    \/ ConnectTip(t)
    \/ ConnectTipFails(t)
    \/ LeaveActivate(t)

ProcessNewBlock(t, b) ==
    \/ AlreadyHave(t, b)
    \/ RejectStake(t, b)
    \/ EnterInvalidateBlock(t, b)
    \/ AcceptBlock(t, b)
    \/ SaveBlockToDiskFails(t, b)

Next ==
    \/ \E t \in Thread, b \in Block : ProcessNewBlock(t, b)
    \/ \E t \in Thread : ThreadStep(t)
    \/ CustomAppend
    \/ \E x \in Wallet : CreateCoinStake(x)
    \/ Restart

\* A running thread goes on.  Waiting for m_chainstate_mutex is not assumed to
\* end: the mutex promises no order among those who wait.
Fairness == \A t \in Thread : WF_vars(ThreadStep(t))

Spec == Init /\ [][Next]_vars /\ Fairness

-----------------------------------------------------------------------------
(* Properties.                                                             *)

SameStake(b, c) == IsProofOfStake(b) /\ IsProofOfStake(c) /\ StakeSeenKey(b) = StakeSeenKey(c)

\* The "duplicity of stake" check of PeercoinContextualBlockChecks: two blocks
\* with one stake are not both accepted by one run of the node, when their
\* coinstakes store the time.
DuplicateRefused ==
    \A b, c \in ToSet(session) \cap TimedTx : SameStake(b, c) => b = c

\* ActivateBestChain gives m_chainstate_mutex back: failing coinstakes do not
\* keep its loop going for ever, and no thread that waits for the mutex keeps
\* cs_main, but for the one case in which the stake check calls InvalidateBlock
\* for a block whose stake is known and which could not be saved.
ActivationEnds ==
    (chainMutex # Free) ~> (chainMutex = Free \/ \E t \in Thread : At(t, "invalidate"))

\* What the check is there for, whatever the format of the coinstake and over
\* restarts of the node: of two blocks with one stake one is refused.
DuplicateNever ==
    \A b, c \in accepted : SameStake(b, c) => b = c

\* CheckProofOfStake refuses a good kernel only "during initial download or if
\* behind on block chain sync", that is while the index has blocks to append.
RefusedOnlyBehind ==
    [][failed' # failed => queue # <<>>]_vars

\* "do not error here as we expect this during initial block download": a
\* block refused for what the index does not know yet is not failed for good.
BehindIsNotFailed ==
    \A b \in failed : \E c \in accepted : SameStake(b, c)

\* GetCoinAge gives "a consistent view of the coin age of competing
\* branches": the headers it uses are those of the block's own branch.
CoinAgeOfBranch ==
    \A b \in Block : \A e \in ageFrom[b] : e[2] = BlockOf(b, e[1])

\* AssertLockNotHeld(::cs_main) at the start of InvalidateBlock.
InvalidateBlockUnlocked ==
    \A t \in Thread : At(t, "invalidate") => csMain # t

==============================================================================

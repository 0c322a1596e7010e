# A TLA+ model of equalishcoind

equalishcoind is a full node of a currency that is issued half by proof of work
and half by proof of stake. It descends from Peercoin, which descends from
Bitcoin Core. This directory models the parts of it that decide which chain is
the right one, which coins exist, how both survive a crash, how much a block may
create, which unconfirmed transactions are kept, how blocks and transactions are
asked of peers, and the threads and queues all of this runs on. The modules are
checked by TLC on small instances, and the properties that matter most are proved
with TLAPS for every instance.

Source paths below are relative to the repository's code directory `src/`.
`PROJECT.json` names the source lines behind every definition.

## 1. The system and its parts

| Part | State | Operations | What is hard about it | Modules |
|---|---|---|---|---|
| Coins cache (`coins.cpp`, `txdb.cpp`) | entries with DIRTY and FRESH flags in a stack of caches over the database | fetch, add, spend, flush, sync, uncache, merge | a wrong flag shows only several operations later, after a flush | `CoinsCache`, `CoinsMap` |
| Chain selection (`validation.cpp`, `node/blockstorage.cpp`) | block index, failure marks, candidates, active tip, two locks | AcceptBlockHeader, AcceptBlock, ActivateBestChain, three RPCs, restart | `cs_main` is released between steps; invalid blocks are found late; a crash sees index and coins of different ages | `ChainSelection` |
| Flush and recovery (`validation.cpp`, `txdb.cpp`) | coins in memory and on disk, best block, head blocks, undo data | ConnectTip, DisconnectTip, FlushStateToDisk, BatchWrite, ReplayBlocks | a stop between two batches, and during the repair of one | `CoinsRecovery` |
| One block (`validation.cpp`) | coins, undo records, the loop's position | ConnectBlock, DisconnectBlock, RollforwardBlock | outputs spent in their own block, skipped outputs, replays over half-written coins | `BlockCoins` |
| Memory pool (`txmempool.cpp`, `validation.cpp`) | entries, their links, counters and lock points, `mapNextTx`, the queue of disconnected transactions | AcceptToMemoryPool, removeForBlock, DisconnectTip, MaybeUpdateMempoolForReorg, LimitMempoolSize | links and counters are adjusted, never recomputed; a reorganization puts parents in below their children | `Mempool`, `MempoolChain` |
| Subsidy and issuance (`validation.cpp`, `consensus/tx_verify.cpp`, `node/miner.cpp`, `wallet/wallet.cpp`) | the bounds of a bisection, nMint and nMoneySupply, the block being built | GetProofOfWorkReward, SplitIssuanceBudget, the reward checks, CreateNewBlock, CreateCoinStake | rounding; two computations of one limit; a retry loop around sizes and fees | `PowReward`, `Issuance`, `BlockReward` |
| Stake checks (`validation.cpp`, `kernel.cpp`) | stake fields of the index, `setStakeSeen`, `cachedTxs` | PeercoinContextualBlockChecks, CheckProofOfStake, GetCoinAge | written before the block is stored, not rebuilt on restart, dependent on an index that lags | `StakeChecks` |
| Difficulty (`pow.cpp`, `chain.cpp`) | the cached ASERT anchor | GetASERTAnchorBlock | a cache shared by threads and branches | `AnchorCache`, `BlockTree` |
| Optional indexes (`index/base.cpp`) | best block, locator, entries | ThreadSync, Rewind, BlockConnected, ChainStateFlushed, a restart | the hand-over from the thread to the callbacks while the chain moves | `IndexSync`, `BlockTree` |
| Validation queue and scheduler (`scheduler.cpp`, `scheduler.h`) | task queue, pending callbacks, who runs one | serviceQueue, AddToProcessQueue, ProcessQueue, EmptyQueue, stop | order and exclusion with several service threads | `CallbackQueue`, `SerialCallbacks` |
| Script check queue (`checkqueue.h`) | queue, `nTodo`, `fAllOk`, sleeping threads | Add, Loop, Wait, start and stop of the workers | lost wake-ups, a verdict before the last check | `CheckQueue` |
| Block download (`net_processing.cpp`) | `mapBlocksInFlight`, `mapBlocksWait` | FindNextBlocksToDownload, the block message, FinalizeNode, timeouts | blocks before their parents, one place per parent, connections that close in between | `BlockDownload` |
| Transaction requests (`txrequest.cpp`) | announcements in five states, counters per peer | ReceivedInv, GetRequestable, RequestedTx, ReceivedResponse, ForgetTxHash, DisconnectedPeer | three indexes kept in step, a clock that may go back | `TxRequest`, `TxAnnouncements` |

Section 6 lists the parts that are not modelled.

How they interact. A block is asked of a peer and may wait for its parent
(`BlockDownload`). It passes the header check and AcceptBlock (`ChainSelection`),
whose stake check is `StakeChecks` and whose target comes from the anchor of
`AnchorCache`. ActivateBestChain connects it through ConnectBlock (`BlockCoins`),
whose script checks are run by `CheckQueue`, into a cache on top of `CoinsTip()`
(`CoinsCache`). `CoinsRecovery` takes over with the effect of whole blocks and
adds the disk. ConnectBlock's limits and the money supply are `BlockReward`. The
pool loses what the block confirms (`MempoolChain`). The event goes through the
validation queue (`CallbackQueue`) to the indexes (`IndexSync`), which the stake
check of a later block reads.

Three modules speak of coins, at three levels. `CoinsCache` implements the flat
map of `CoinsMap`. `BlockCoins` runs over such a map transaction by transaction
and shows that ConnectBlock, DisconnectBlock and the replay have the effect of
the block as a whole. `CoinsRecovery` uses exactly these effects (`Connected`,
`Disconnected`) as its steps. In the same way `IndexSync` and `StakeChecks` take
callbacks one at a time and in order, which is what `CallbackQueue` is shown to
provide.

## 2. The modules

### CoinsCache, CoinsMap

`db` is the database, `tip` the cache `CoinsTip()`, `view` the cache a block is
applied to (ConnectTip and DisconnectTip open it, then Flush or drop it). An
entry is a coin with its two flags. The actions are the calls the validation code
makes: GetCoin and AccessCoin with the fetch through both layers, AddCoins with
its overwrite check and the outputs it drops, ApplyTxInUndo's AddCoin, SpendCoin,
Flush of either layer, Sync, Uncache. `thrown` records a logic error.
Out of the model: memory accounting, and a database read that fails (the node
aborts).

`CoinsMap` is the abstract specification: a map from outpoints to coins and a
private copy that is committed as a whole or thrown away. `CoinsCache` is shown
to implement it with `utxo` as what is seen through `tip` and `scratch` as what
is seen through `view`.

### ChainSelection

A block is a node of a fixed tree; the bits of `nStatus` are sets of blocks
(`data`, `linked`, `scripts`, `failedValid`, `failedChild`). An action is what
the code does in one hold of `cs_main`. `mutex` says who holds
`m_chainstate_mutex`; `locked` says that ActivateBestChain goes round its inner
loop and so keeps `cs_main`. Between such steps everything else may happen.

Which blocks ConnectBlock rejects (`bad`) is chosen at the start among
`MaybeBad`; the verdict of AcceptBlock's own checks is free for the blocks of
`MayFailCheck`, because the stake check also depends on how far the transaction
index has got. `Addr` stands for the addresses of the index entries, the last
tie break of CBlockIndexWorkComparator. A block that AcceptBlock ignores as too
far ahead or below the minimum chain work is treated like one with too little
trust. `disk` holds what FlushStateToDisk last wrote: the index always, the
coins' best block only with a full flush. `Restart` rebuilds everything else as
LoadBlockIndex and LoadChainTip do. With `Apart` a behaviour has either the
operator's RPCs or a restart; section 3 says why.

### CoinsRecovery

A block is known by the outpoints it creates and spends, a coin by its height
(the same transaction has different coins on two branches). `mode` says whether
the node runs, writes, is off, replays, or gave up. BatchWrite is a sequence of
atomic batches of any sets of the dirty coins: the first removes the best block
and writes the head blocks, the last does the reverse. `Crash` may happen between
any two steps. `Start`, `Rollback`, `Rollforward` and `FlushReplayed` are
ReplayBlocks. Disk errors are left out: the node aborts on them, which is a crash.

### BlockCoins, Mempool, MempoolChain

`BlockCoins` has one block of transactions and its coins, one action per turn of
a loop. `Init` chooses the block (any final transactions in any order, with
outputs spent in the block itself, of value zero or unspendable, generated ones
that may be immature, relative locks) and the coins before it. `StartReplay`
stands for an interrupted flush, before a rollback or roll-forward: any of the
coins the block touches are replaced, each by what a member of `Written` has for
it. `Written` is a parameter, any set of mixtures of coins of any height and absent
ones; the run has three of them, the theorem holds for all.

`Mempool` has the operations of CTxMemPool as operators on a pool, which is
`mapTx` and `mapNextTx`. They follow the code's cached links, not the
transactions: addUnchecked, RemoveStaged with UpdateForRemoveFromMempool,
removeRecursive, removeConflicts, removeForBlock, Expire, TrimToSize, and
UpdateTransactionsFromBlock with its cache of descendants and its removal of
chains that became too long. Of the statistics the two counters are kept. Which
entry TrimToSize evicts depends on fees and is left open; `MaxUsage` counts
entries.

`MempoolChain` composes the two. A block is connected and the pool loses its
transactions and what conflicts with them. It is disconnected by InvalidateBlock
or gives way to another block, which may be valid, invalid or unreadable; its
transactions are queued, those over the limit of the queue dropped, and
MaybeUpdateMempoolForReorg puts them back one at a time (`ReAdd`), repairs the
links (`UpdateMempool`), calculates the lock points that are out of date and
removes what is no longer final or mature. Transactions arrive whenever `cs_main`
is free.

### PowReward, Issuance, BlockReward

`PowReward` takes one step per turn of the bisection. The code computes with
unbounded CBigNum, so the integers are unbounded here too. All protocol switch
times lie before the network's genesis; the cap is the one since V10.

In `Issuance`, `chain` has the fields of the index that issuance needs; `build`
is the block the node is building. A block of another node claims any amount of
`Mints` and is held to the rules; the node's own block is built by CreateNewBlock
or by the loop of CreateCoinStake, in which every turn may find another size and
fewer outputs. A reorganization is DisconnectTip and new blocks.

The rules compare two things with a limit: the coinbase of a proof-of-work block
(CheckBlock) and the coinstake of a proof-of-stake block (CheckTxInputs). Of the
coinbase beside a coinstake CheckBlock asks that its first output is empty, and
neither it nor ConnectBlock compares the other outputs with a limit. A received
proof-of-stake block therefore has a coinbase of any amount of `Outputs`, which
counts in nMint and nMoneySupply, and `ClaimsWithinBudget` says nothing about it:
for a proof-of-stake block it bounds what the coinstake earns, not nMint.
CheckTxInputs skips the coinstake's check when the parent's money supply is zero.
A coinstake does not meet this case: its kernel's target is the value of a coin
times a weight (CheckStakeKernelHash), and with a supply of zero no coin has a
value (`KernelExists`).

`BlockReward` composes the two: the search runs for the target of every block of
the chain, and nothing happens to the chain until the search has returned the
limit the rules of `Issuance` apply at that height.

### StakeChecks

Threads hand over the blocks of a fixed tree with ProcessNewBlock and take
`cs_main` and `m_chainstate_mutex` as the code does. A block goes through
PeercoinContextualBlockChecks and CheckProofOfStake, may fail to be saved, and is
connected by the loop of ActivateBestChain, where GetCoinAge reads the headers of
its inputs in their order and caches those it finds, also when a later one is
missing and the block fails. The transaction index appends blocks later, from the callback queue;
`cachedTxs` is also filled by the wallet. All blocks of the tree are right: what is
refused is refused for the state of the node. Trust is height. The wait of
LimitValidationInterfaceQueue starts at ten callbacks, more than the instance has.

### BlockTree, AnchorCache

`BlockTree` is the tree of blocks that `AnchorCache` and `IndexSync` walk: `pprev`,
heights, GetAncestor, FindFork and the blocks between two of a branch.

A call of GetASERTAnchorBlock reads the atomic pointer, tests it, walks back by
skip pointers, and stores its result; calls of several threads interleave. The
tree, the skip pointers (GetSkipHeight) and the blocks under V14 are constants,
which blocks are proof of work is chosen at the start. `filledBy` is a history
variable: the block whose walk filled the cache.

### IndexSync

The active chain is its tip in a tree; it moves under `cs_main` and queues
callbacks. ThreadSync reads the next block, releases `cs_main`, rewinds or
appends, and commits its locator from time to time; at the tip it sets
`m_synced`, and from then on BlockConnected and ChainStateFlushed do the work.
A stop may come anywhere; Init reads the locator again. A reader calls
BlockUntilSyncedToCurrentChain. An index entry is the block it was appended for.

### CallbackQueue, SerialCallbacks

A critical section is one step. Producers add callbacks and perhaps schedule
ProcessQueue; service threads take the tasks that are due, wait, or stop. A task
that repeats itself (scheduleEvery) competes with them. The main thread does what
Shutdown does to the queue: it stops the scheduler, joins the service threads,
flushes the chain state (which adds a callback unless nothing is flushed), empties
the queue, and flushes again. The threads that add callbacks are not all joined
before (the minter and the thread that loads blocks go on), so producers add until
the queue is destroyed. What is added after the queue was found empty is dropped,
as the comment in Shutdown says (`init.cpp:303`), and `EveryCallbackRuns` is about
the callbacks added before. What a thread meets that adds one after the queue is
destroyed is not modelled. Callbacks are numbered in the order of their addition.
`SerialCallbacks` is the promise of the header: callbacks run one at a time in the
order they were added.

### CheckQueue

A critical section under `m_mutex` is one step; the checks run outside it. The
queue is a set, because the order of the checks does not matter. The master adds
the checks of one block after another and joins in Loop when it waits; between
blocks the workers may be stopped and started.

### BlockDownload

Headers are known. SendMessages visits the peers in turn and asks for blocks
nobody is asked for yet. The handler of a block message stores the block in
`mapBlocksWait` if its parent is missing and else hands over all that can be
accepted, releasing `cs_main` for each; there an RPC may store a block and a
connection may close. A waiting block expires after a minute.

### TxRequest, TxAnnouncements

`TxRequest` has the tracker's multi-index as one column per transaction, with the
private helpers (PromoteCandidateReady, ChangeAndReselect, MakeCompleted,
SetTimePoint's loops) taken one announcement at a time, and the calls
net_processing.cpp makes. Time is one bit per announcement, whether it is due;
the clock may be set back. `TxAnnouncements` is the specification in the class
comment of `txrequest.h`: three states and the rule that picks a peer.

## 3. What TLC checks

| Run | Instance | Distinct states | Properties |
|---|---|---|---|
| `coins_cache` | 2 outpoints; an ordinary, a zero-value and an unspendable coin | 20,940 | `FlagsTruthful`, `ImplementsCoinsMap` |
| `chain_selection` | branches of 1 and 2 blocks, the last of the longer perhaps bad, its first perhaps refused by AcceptBlock; 2 RPCs or 1 restart | 51,833 | `ActiveChainValid`, `CheckBlockIndex` (its candidates and failure marks), `Settled` (at rest the tip is the best), `HoldsGround`, `TipCatchesUp` |
| `coins_recovery` | a fork of 1 and 2 blocks that share a transaction, 2 crashes | 7,196 | `CoinsMatchTip`, `NeverAborts`, `FlushIsFinal`, `Recovers` |
| `block_coins` | blocks of up to 3 of 6 transactions and a coinbase over 14 outpoints, 2 blocks, a pool and a queue of 3, limits of 2 or 3, 3 mixtures of coins | 281,698 | for the block: `ConnectsAsAWhole`, `DisconnectUndoesConnect`, `ReplayFromAnywhere`, `SupplyMatchesCoins`; for the pool: `PoolMatchesTransactions`, `CachedLinksMatchCounters`, `PoolCanBeMined`, `LimitsHold`, `DisconnectedReturn` |
| `issuance` | 3 blocks, amounts scaled down, limits with remainders, claims on both sides of them | 169,516 | `RewardIsRoot`, `Returns`, `SplitExact`, `ClaimsWithinBudget`, `OwnBlockAllowed`, `CoinStakeEnds` |
| `index_sync` | two branches of 2 blocks, 3 moves of the tip, 1 restart | 247,314 | `NoHoles`, `ReaderSeesChain`, `CatchesUp` |
| `stake_checks` | 2 threads, 5 blocks on two branches, two of them with one stake; 1 failed save, 1 restart | 142,810 | `DuplicateRefused`, `ActivationEnds` |
| `anchor_cache` | 2 threads, a trunk of 6 heights with an early and a late branch, every choice of proof-of-work blocks | 654,436 | `AnchorOfActivation` |
| `check_queue` | 2 workers, 4 checks, 1 of them bad, batches of 2, 2 starts | 127,540 | `VerdictExact`, `NobodyLeftAsleep` |
| `callback_queue` | 2 producers, 2 service threads, 3 callbacks, a shutdown | 55,332 | `ImplementsSerial`, `EveryCallbackRuns` |
| `block_download` | a fork of two branches of 2 blocks over one parent, 2 peers, 1 bad block, 2 closed connections | 40,935 | `DownloadCompletes` |
| `tx_requests` | 2 peers, 2 transactions, 4 announcements, the clock set back once | 21,321 | `ImplementsHeader`, `EveryCandidateLeaves` |

Why the bounds are enough to be interesting.

- Two branches that tie and then overtake each other are the smallest tree in
  which a reorganization starts, fails half way and has to be undone. Two RPCs
  are needed for invalidate-then-reconsider and for an invalidation during the
  effect of another; a third preciousblock breaks `CheckBlockIndex` (`PreciousFirst`
  below). One restart reaches every combination of written index and
  written coins. RPCs and restart are apart (`Apart`) because together they reach
  a state an assertion of the code excludes (`TipIsCandidate` below). The batches
  of 32 blocks of ActivateBestChainStep are longer than any branch here. Branches
  of 2 and 2 blocks (`Block <- ShortBranches`) pass with 357,249 states.
- The second crash of `coins_recovery` hits the replay of the first. One
  transaction sits on both branches at different heights, so that a mixture of
  the two is not simply a set of outpoints.
- Two outpoints suffice for the caches, whose operations touch one outpoint at a
  time and interact only through a flush.
- The transactions of `block_coins` are a chain of three (over the limits of 2), a
  coinbase spend that is mature only on top of the block, one that is final only
  there and conflicts with the chain, and one with a relative lock on an output
  of the block. Each is the smallest case of a reason to leave the pool.
- The proof-of-work limits of `issuance` are a cent, the cap and a value between,
  a coinstake's limit exceeds the basis-point denominator, and most are odd, so
  that the split leaves a remainder. `Mints` has a loss, a claim that some limits
  allow, and the two amounts around the largest part of a coinstake.
- The mixtures of a replay have coins of either height and absent ones next to each
  other, among the outputs of one transaction and among those of different ones.
- Three moves of the tip let an index be caught ahead of a reorganization and
  overtaken again; a late branch with the trunk's activation and an early one with its
  own are the ways a cached anchor can be asked from another branch.
- Four checks in batches of two let a worker take a second batch while the master
  already waits. Three callbacks are needed for one to run, one to wait and one
  to be added by a third thread, or for one to be added in each phase of the
  shutdown.
- Two peers are the smallest number with a next best one; one is preferred, and
  the salted hashes favour the other for one of the transactions. That a better
  announcement is only ready while another is requested takes a third peer:
  `HeaderCorrect` covers it. By hand, `tx_requests`
  passes also with 3 peers and 1 transaction (22,281 states), and its refinement
  with 3 peers and 3 transactions (378,902).

`block_coins` stops when its blocks are used up, `index_sync` and `stake_checks`
when all moves, blocks and restarts are, `check_queue` and `callback_queue` when
the node is shut down: these runs do not check deadlock. In all others a deadlock
would be reported.

### Fairness

- `ChainSelection`: weak fairness of ActivateBestChain and the loops of the two
  holders of `m_chainstate_mutex`. The threads are runnable and the mutex is
  always released after finitely many turns. Arrivals, RPCs and restarts have
  none: nobody has to send anything.
- `CoinsRecovery`: weak fairness of the last batch of a flush and of the steps of
  a start, because the process that is in them does nothing else. Crashes have
  none, and there are finitely many.
- `BlockReward`: weak fairness of the bisection and of the loop of
  CreateCoinStake.
- `IndexSync`: weak fairness of the sync thread and of the callbacks. The chain
  need not move.
- `StakeChecks`: weak fairness of each thread's next step. The index may lag for
  ever.
- `CheckQueue`: weak fairness of each worker, of the master, and of a wake-up
  that was sent. `CallbackQueue`: of each thread, and of the steps of a shutdown
  that has begun. Nobody has to add a callback or to shut down.
- `BlockDownload`: weak fairness of the message handler, strong fairness of its
  visit to each peer, which its loop makes in turn. Peers that stay connected
  answer in the end or time out.
- `TxRequest`: weak fairness of the operation under way, strong fairness of
  SendMessages for each peer and of the clock for each announcement, which may be
  set back only finitely often.

### Disagreements between the code and its comments

Some sentences and assertions of the source do not hold of the code. Each is a
definition of its module, and no run claims it. To see the counterexample, state it
in place of the properties of the configuration, with the change the table names.

| Definition | The source says | What the model shows | Configuration |
|---|---|---|---|
| `BestHeaderSeen` | "Best header we've seen so far" (`validation.h:1007`) | after a rejected block m_best_header is the tip, though a better header on a valid branch is known | `MCChainSelection` |
| `OnlyRootFailedValid` | "We only want to mark the last disconnected block as BLOCK_FAILED_VALID" (`validation.cpp:3223`) | the condition asks whether the remembered block is the parent of the one just disconnected; it is its child, so the children keep the mark | `MCChainSelection` |
| `FailedMaskHasInvalidParent` | "The failed mask cannot be set for blocks without invalid parents." (`validation.cpp:4792`) | reconsiderblock on one branch above an invalidated block clears that block and leaves the sibling branch marked | `MCChainSelection` with `Block <- ForkedBranch`, `RootsOnly = FALSE`, `MaybeBad = {}`, `MayFailCheck = {}` |
| `PreciousFirst` | "Treats a block as if it were received before others with the same work." (`rpc/blockchain.cpp:1428`) | when the chain was extended since the last call, the counter starts again at -1; a block that got -1 before then ties with the new one, and the addresses decide. With a third call the tip itself can get a later id than it had; it then sorts below a block that is no candidate any more, and `CheckBlockIndex` and `Settled` fail | `MCChainSelection`; for the two, `Operator = {"preciousblock"}`, `MaxOps = 3`, `MaxRestarts = 0` |
| `TipIsCandidate` | "Either the current tip or a successor of it we're working towards is left in setBlockIndexCandidates." (`validation.cpp:2853`) | the marks of invalidateblock reach the disk before the coins; after a stop the node starts on a tip that is marked as failed | `MCChainSelection` with `Apart = FALSE` |
| `CheckPasses` | `assert(mempoolDuplicate.HaveCoin(txin.prevout))` and the inputs' check in CTxMemPool::check (`txmempool.cpp`); "We also need to remove any now-immature transactions" (`validation.cpp:369`) | an output of value zero can be spent in the pool, but is not added when its transaction is confirmed after V12, and the spender stays; a coinstake's output that a disconnected block makes immature stays spent, because the filter asks for coinbases alone | `MCBlockCoins`; for the second, `CoinBases = {c0}`, `CoinStakes = {w}` and a value for `z` |
| `DuplicateNever` | "equalishcoin: check for duplicity of stake" (`validation.cpp:1995`) | `setStakeSeen` is not rebuilt by a restart; and for transactions without a time the pair looked up never equals the pair inserted | `MCStakeChecks`; for the second, `TimedTx <- Untimed`, `MaxRestarts = 0` |
| `RefusedOnlyBehind` | "may occur during initial download or if behind on block chain sync" (`kernel.cpp:705`) | a good block is refused because the index has its kernel's transaction under the other branch, with nothing left to append | `MCStakeChecks` without block `d2` |
| `BehindIsNotFailed` | "do not error here as we expect this during initial block download" (`validation.cpp:1992`) | a block refused because the index lags is marked BLOCK_FAILED_VALID | `MCStakeChecks` |
| `CoinAgeOfBranch` | "to help nodes establish a consistent view of the coin age (trust score) of competing branches" (`validation.cpp:4950`) | the header read for an input may be of another branch | `MCStakeChecks` |
| `InvalidateBlockUnlocked` | `AssertLockNotHeld(::cs_main)` (`validation.cpp:3143`) | after a failed save, the stake check calls InvalidateBlock with `cs_main` held | `MCStakeChecks` |
| `RewindFromBest` | `assert(current_tip == m_best_block_index)` (`index/base.cpp:253`) | the sync thread rewinds from its own position, which is ahead of the last best block it stored | `MCIndexSync` |
| `AnchorIsLast` | "Returns a pointer to the last (highest) POW block for which IsProtocolV14 is false." (`pow.cpp:59`) | an anchor cached by one branch is an ancestor of another that has a higher one | `MCAnchorCache` |
| `AnchorBeforeV14` | the same | the walk may stop at the first V14 block itself | `MCAnchorCache` |
| `StoredUntilConnected` (temporal) | "store in memory until we can connect it to some chain" (`net_processing.cpp:4720`) | a waiting block is replaced by a sibling: there is one place per parent | `MCBlockDownload` |
| `SourceIsSender` | "Sources of received blocks, saved to be able punish them when processing happens afterwards." (`net_processing.cpp:758`) | a waiting block is booked on the peer whose message is being handled | `MCBlockDownload` |

The properties of the runs are what holds beside these: `DuplicateRefused` is
about timed stakes in one run of the node, `ActivationEnds` leaves out the thread
that calls InvalidateBlock with `cs_main` held, `AnchorOfActivation` about branches with the same
activation, `PoolCanBeMined` names the two inputs it leaves out, and
`DownloadCompletes` shows that a replaced block is asked for again. The condition
`KeepsRank` of the theorems about `CheckBlockIndex`, `Settled` and `HoldsGround`
(section 4) is what `PreciousFirst` leaves.

## 4. What is proved

The proofs are in eight modules, checked to the last leaf. Each rests only on the
named assumptions of the module it extends:

| Assumption | Content |
|---|---|
| `CoinAssumption` (CoinsCache) | the placeholders for "spent" and "no entry" are no coins and no entries |
| `TreeAssumption`, `BlocksAssumption` (CoinsRecovery) | the blocks form a tree with its ancestor sets; they are blocks ConnectBlock accepts: they spend coins of their own branch that are there, and no branch creates an outpoint twice |
| `AmountAssumption`, `TargetAssumption` (PowReward) | a cent has at least two units, the caps at least one cent, targets are positive and within the limit |
| `ParamsAssumption`, `LimitAssumption`, `InputAssumption` (Issuance) | the parameters of the split are any integers, limits, ages, costs, fees and coinbases are natural numbers, denominators are not zero |
| `TargetOfAssumption` (BlockReward) | there is a target for every height |
| `TxAssumption`, `WrittenAssumption` (BlockCoins) | transactions spend and create sets of outpoints, no two create the same one, values are natural numbers; outpoints are finite in number, so that their values add up; an interrupted flush leaves coins of any heights or none |
| `TreeAssumption`, `BoundsAssumption` (ChainSelection) | the blocks form a finite tree with its ancestor sets, trust grows from parent to child, no two entries have one address |
| `BoundAssumption` (IndexSync) | the numbers of moves and restarts are natural numbers |
| `TreeAssumption` (BlockTree), `SkipAssumption`, `V14Assumption` (AnchorCache) | the blocks form a tree with heights, a skip pointer leads to a proper ancestor, descendants of V14 blocks are V14 blocks (`SkipHeightAssumption`, which ancestor, is not used) |
| `QueueAssumption` (CheckQueue) | there is a worker, the master is none, the checks are finite in number, a batch has at least one |
| `ThreadAssumption` (CallbackQueue) | producers, service threads and the main thread are different, callbacks are numbered |
| `PeerAssumption`, `LimitAssumption`, `NoneAssumption`, `RankAssumption` (TxRequest) | peers and transactions are finite in number; no two peers have the same salted hash for a transaction |

**CoinsCacheProofs**, for any set of outpoints and coins. The inductive invariant
joins type correctness, truthful flags, the sane combinations of flags, that
no error was thrown, and that a view that is not open is empty. The parts need
each other: a merge passes on a child's FRESH, which is truthful only because it
was truthful above the parent; it creates no entry that is spent, DIRTY and FRESH
because the child has none; and BatchWrite does not throw because the child's
FRESH is truthful. Lemmas state once what a fetch, AddCoin, SpendCoin and
BatchWrite do to the map that is seen through a cache. Theorems: `TypeCorrect`,
`FlagsAlwaysTruthful`, `SanityCheckHolds`, `NeverThrows`, and
`CacheImplementsMap`: every step of the caches is a step of the flat map or none.

**CoinsRecoveryProofs**, for any tree of valid blocks and any number of crashes.
The properties say nothing about a database between two best blocks; the
invariant does: coin by coin it is that of the old or that of the new best block
(`Mixed`), the undo data on disk covers both branches, and during a replay the
coins are a mixture of the cursor's and the new head's. Connecting or
disconnecting a block turns a mixture with one block into a mixture with its
child or parent (`MixedConnect`, `MixedDisconnect`), since both overwrite what
they touch; at the end the cursor is the new head and the mixture is its coins.
Theorems: `TypeCorrect`, `CoinsAlwaysMatchTip`, `BestBlockAlwaysWhole`,
`AlwaysStarts`, `FlushAlwaysFinal`.

**BlockRewardProofs**, for every target and all amounts with a cent of at least 2
units, and for all parameters of the split, limits, claims, costs and fees.
`AlwaysBracket` (inductive as it stands) says that the bisection keeps the root
between its bounds, and `RangeAlwaysShrinks` is why it ends; `RewardAlwaysRoot`
adds that the bounds stay multiples of a cent, so that the result is the root to
the cent, capped. `ScaleIsFloor` shows that scaling the quotient and the remainder
apart gives the floor of the exact product; `TwoFloors` that the floors of two
shares that add up to the whole lose at most one unit. The inductive invariant of
`Issuance` has the types of the chain and the block being built, that a finished
coinstake pays for its size out of its reward, and the claims themselves, each
against the supply of its own parent. Theorems: `SplitAlwaysExact`,
`ClaimsAlwaysWithinBudget`, `OwnBlockAlwaysAllowed`. `RewardRulesHold` carries all
of them over to the composition `BlockReward`.

**BlockCoinsProofs**, for any transactions, any coins below the block and blocks of
any length. The properties speak of the end of a loop, the invariant of every
turn: in ConnectBlock and DisconnectBlock the view has exactly the first
transactions applied (`ViewAt`), and the undo records hold the coins that were
spent, those of the block itself included. In a replay only the coins are known
that the turns to come do not touch; each turn settles those it is the last to
touch. For the money supply the invariant has the sums so far: nValueIn and
nValueOut are the values of what was spent and added, and the difference of the
two is that of the coins. Theorems: `AlwaysConnectsAsAWhole`,
`DisconnectAlwaysUndoes`, `ReplayAlwaysFromAnywhere`, `SupplyAlwaysMatches`.

**ChainSelectionProofs**, for any finite tree, any outcome of the checks, and any
number of RPCs or of restarts. `SafeInv` says that data and BLOCK_VALID_SCRIPTS
are closed under parents, in memory and in what is on the disk, that the tip's
branch is unmarked, and that the aim and the starting tip that ActivateBestChain
remembers, and the block InvalidateBlock will mark, still fit the tree when
`cs_main` is taken again. It gives `ActiveChainAlwaysValid`. `CandInv` compares the
candidates with the tip that was there when `cs_main` was taken (`Base`), not with
the one of the moment: otherwise nothing keeps the way back from a failed
reorganization among the candidates. `GoalInv` says that nothing sorts above the
aim, or above the tip at rest, unless a thread is on its way to look. `StepFacts`
and `MostWorkFacts` are what ActivateBestChainStep and FindMostWorkChain promise.
They give `BlockIndexAlwaysChecks`, `AlwaysSettled` and `GroundAlwaysHeld`. All are
stated for `Apart`, and these three for `RootsOnly` and behaviours in which
preciousblock takes no rank from the tip (`KeepsRank`): the table of section 3 shows
what happens otherwise. The proof of `CandInv` found the last of these conditions.
`RankAlwaysKept` shows that it holds without preciousblock and with at most two
RPCs, which covers the instance of the run; `SelectionCorrect` draws the conclusion.

**TreeProofs**, for any tree of blocks. The index, for any number of moves of the
chain and restarts: `NoHoles` and `ReaderSeesChain` leave open why the callbacks
still in the queue do the rest. The invariant says so: each BlockConnected joins
what the one before it leaves, the last one leads to the tip, and an index that is
synced has the tip or will join one of them; for a caller who waits, the same holds
of the callbacks before its marker. Theorems: `IndexNeverHasHoles`,
`ReaderAlwaysSeesChain`. The anchor, for any skip pointers, threads and
proof-of-work blocks: `AnchorCorrect`. The property speaks of calls that have
returned; the invariant also of those that walk, which have passed no block at
which they could have stopped (`SkipPassesNoAnchor`: a block between a skip
pointer's V14 target and its source has a V14 parent), and of the cache, which
holds the last anchor of the branch that filled it.

**QueueProofs**. The script checks, for any number of workers, any checks and batch
size: `VerdictCorrect`. The invariant follows every check from the queue into one
batch and out of it: `nTodo` counts exactly the checks that are queued or in a
batch, and `fAllOk` tells whether a finished one was bad. At `nTodo = 0` the status
is the verdict. The callbacks, for any number of producers and service threads:
`SerialCorrect`, the refinement of `SerialCallbacks`. `m_are_callbacks_running` is
held like a lock from the moment a callback is taken to the destructor that clears
it, so at most one thread has a callback, and it was the oldest. The main thread is
one more such thread when it empties the queue, and late additions change nothing.

**TxRequestProofs**, for any finite sets of peers and transactions and any salt:
`SanityCheckCorrect` and `HeaderCorrect`, the refinement of `TxAnnouncements`.
The invariant is the code's own SanityCheck (at most one announcement of a
transaction is selected, one is if any is ready, a best one is better than every
ready one, completed ones do not remain alone, the counters of a peer count its
announcements), with what holds between the two loops of SetTimePoint and while
the requests of one visit are made. After the loops the BEST announcements are
then the requestable ones of the header.

The theorems `TypeCorrect`, `SanityCheckHolds`, `NeverThrows`,
`BestBlockAlwaysWhole`, `AlwaysBracket`, `RangeAlwaysShrinks`, `RewardRulesHold`,
`RankAlwaysKept`, `SelectionCorrect` and `SanityCheckCorrect` are not listed under a
property of a run; every other theorem is about a property that a run of section 3
checks. The inductive invariants of `ChainSelection`, `IndexSync` and `BlockCoins`
(there without the type of the undo records) were checked by TLC on the instances
of the runs before they were proved.

Facts about all blocks of a branch or all finite sets of coins need induction. The library states it for an operator, which the provers
cannot instantiate; its theorem that a well-founded relation has minimal elements
is about sets, and gives induction in the form "a set that has every block whose
parent it has, and genesis, has all blocks" (`TreeInduction`,
`FiniteInduction`).

## 5. What is only model-checked

- Liveness: `TipCatchesUp`, `Recovers`, `CoinStakeEnds`, `Returns`, `CatchesUp`,
  `ActivationEnds`, `NobodyLeftAsleep`, `EveryCallbackRuns`, `DownloadCompletes`,
  `EveryCandidateLeaves`. The prover has no fairness.
- The properties of `MempoolChain` (`PoolMatchesTransactions`,
  `CachedLinksMatchCounters`, `PoolCanBeMined`, `LimitsHold`, `DisconnectedReturn`):
  the walks of `Mempool` along cached links are recursive operators, in whose reach
  the prover loses its arithmetic.
- `DuplicateRefused` of `StakeChecks`. Nothing in principle prevents a proof.

The conditions of the theorems on `ChainSelection` are needed: with the
configurations that section 3 names for `TipIsCandidate`,
`FailedMaskHasInvalidParent` and `PreciousFirst`, TLC refutes `CheckBlockIndex` and
`Settled` without any one of them, and `ActiveChainValid` and `HoldsGround` without
`Apart`. Whether `HoldsGround` needs the other two is not known: on those instances
it holds.

Every property of a run has a mutant: a definition whose comment calls it one is
a plausible mistake in the definition that follows it, and `PROJECT.json` says
which property catches it.

## 6. What is not modelled

- Scripts, signatures, hashes and serialization: pure functions on bytes. Their
  verdict on a block is an input.
- The stake modifier and the kernel hash: functions of hash bits, for which small
  numbers would stand in without saying anything about the code. CalculateASERT
  is 256-bit arithmetic.
- The stake minter's rounds, waits and choice of coins. What it builds is in
  `Issuance`, what it leaves in `cachedTxs` in `StakeChecks`.
- Of the memory pool: packages, relative locks by time, sizes, fees and signature
  operations (added and subtracted where the counters are), fee deltas (only a
  file the program wrote itself holds any) and that file. An error of the disk in
  ConnectTip other than a block that cannot be read.
- Of the block download: compact blocks, the download window, mutated blocks,
  the limits on headers and the loading of blocks from files.
- Of the tracker: the order of the answer and the queries of sizes.
- Flood control of headers (nPoSTemperature): a score that decides which messages
  are taken. The models take messages in any order already.
- The headers presync compares salted hash bits of two passes; a small model has
  no collision to speak of. The orphanage is a container under one mutex with
  random evictions.
- Sockets, the address manager, bans, and the messages other than blocks and
  announcements of transactions.
- The wallet apart from CreateCoinStake's fee loop and its use of `cachedTxs`, the
  RPC server apart from the three RPCs on blocks, and the GUI.
- Snapshots: only the regression test network registers any; the models have
  one chainstate.
- Pruning: block data is never deleted in the models.
- The epoch helpers of the issuance split (GetIssuanceEpochIndex and
  GetIssuanceEpochStartHeight) are called by tests only. The code splits every
  block's limit on its own.

What could be modelled next: packages in `MempoolChain`, the choice of
transactions of CreateNewBlock over that pool, and `StakeChecks` composed with
`ChainSelection` through the verdict of AcceptBlock, which the models now leave
free.

## 7. Running it

In this directory, with the TLA+ tools, the community modules and TLAPS 1.4.5:

    tlc -config MCChainSelection.cfg MCChainSelection
    tlc -config CheckQueue.cfg CheckQueue
    tlapm CoinsRecoveryProofs.tla

A configuration has the name of the module it runs. The slowest run takes about a
minute and a half with two workers, the proofs of `TxRequestProofs` and
`ChainSelectionProofs` up to ten minutes each, all others less than five. Many
leaves name Zenon, which needs no translation to SMT: the translation takes longer
the more leaves of a module have gone through it, and has a limit of its own.

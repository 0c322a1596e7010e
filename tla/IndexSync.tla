------------------------------ MODULE IndexSync ------------------------------
(***************************************************************************)
(* An optional index (BaseIndex, of which the transaction index is one)    *)
(* and how it follows the active chain: first its own thread walks the     *)
(* chain, and once it has reached the tip the callbacks of the validation  *)
(* interface take over.  The chain moves all the while under cs_main, the  *)
(* callbacks run later, one after the other, on the scheduler's thread,    *)
(* and the process may stop anywhere.                                      *)
(*                                                                         *)
(* The active chain is its tip in a fixed tree of blocks.  An index entry  *)
(* is the block it was appended for; a locator is the block it starts at   *)
(* (its steps double only after ten blocks).  Errors of the disk, on which *)
(* the node shuts down, are left out.                                      *)
(***************************************************************************)
EXTENDS Sequences, BlockTree

CONSTANTS
    MaxMoves,       \* bound: changes of the active chain
    MaxRestarts     \* bound: restarts

ASSUME BoundAssumption == MaxMoves \in Nat /\ MaxRestarts \in Nat

VARIABLES
    \* The chainstate.
    tip,            \* m_chain.Tip(), None with an empty data directory
    coinsTip,       \* the best block of the coins database
    queue,          \* the callbacks not run yet
    moves,
    \* The index in memory.
    best,           \* m_best_block_index
    synced,         \* m_synced
    pc,             \* where ThreadSync is
    pindex,         \* ThreadSync's own position
    written,        \* ThreadSync has written the locator once
    handler,        \* the BlockConnected callback that runs now
    \* The index on disk.
    indexed,        \* the blocks appended by CustomAppend
    locator,        \* DB_BEST_BLOCK
    \* A caller of BlockUntilSyncedToCurrentChain and the process.
    reader,
    aborted,        \* an assertion has failed
    restarts

chain == <<tip, coinsTip, moves>>
thread == <<pc, pindex, written>>
db == <<indexed, locator>>
process == <<aborted, restarts>>
vars == <<chain, queue, best, synced, thread, handler, db, reader, process>>

-----------------------------------------------------------------------------
(* Callbacks: BlockConnected, ChainStateFlushed, and the function that     *)
(* SyncWithValidationInterfaceQueue waits for.                             *)

Connected(b) == [type |-> "connected", block |-> b]
Flushed(b) == [type |-> "flushed", block |-> b]
Marker == [type |-> "marker", block |-> None]

Idle == [at |-> "idle", block |-> None]
NotReading == [at |-> "none", block |-> None]

-----------------------------------------------------------------------------
(* Initially nothing was ever stored: an empty data directory, in which    *)
(* the index counts as synced, or a chain for which no index was built.    *)

Init ==
    /\ tip \in {None} \cup Block
    /\ coinsTip = tip
    /\ queue = <<>> /\ moves = 0
    /\ best = None /\ synced = (tip = None)
    /\ pc = (IF synced THEN "done" ELSE "next") /\ pindex = None /\ written = FALSE
    /\ handler = Idle
    /\ indexed = {} /\ locator = None
    /\ reader = NotReading
    /\ aborted = FALSE /\ restarts = 0

\* ThreadSync holds cs_main from setting m_synced to the end of its Commit.
LockedBySync == pc = "commit"

-----------------------------------------------------------------------------
(* The active chain.                                                       *)

\* ActivateBestChainStep: to a longer branch, and a callback for every block
\* connected on the way, before cs_main is released.
ActivateBestChainStep(b) ==
    /\ ~aborted /\ ~LockedBySync
    /\ moves < MaxMoves
    /\ HeightOf(b) > HeightOf(tip)
    /\ tip' = b
    /\ moves' = moves + 1
    /\ LET path == PathTo(tip, b)
       IN  queue' = queue \o [i \in DOMAIN path |-> Connected(path[i])]
    /\ UNCHANGED <<coinsTip, best, synced, thread, handler, db, reader, process>>

\* InvalidateBlock: the tip alone is disconnected, and cs_main released.
\* BaseIndex does not listen to BlockDisconnected.
DisconnectTip ==
    /\ ~aborted /\ ~LockedBySync
    /\ moves < MaxMoves
    /\ tip # None /\ Parent[tip] # None
    /\ tip' = Parent[tip]
    /\ moves' = moves + 1
    /\ UNCHANGED <<coinsTip, queue, best, synced, thread, handler, db, reader, process>>

\* A full FlushStateToDisk.
FlushStateToDisk ==
    /\ ~aborted /\ ~LockedBySync
    /\ tip \notin {None, coinsTip}
    /\ coinsTip' = tip
    /\ queue' = Append(queue, Flushed(tip))
    /\ UNCHANGED <<tip, moves, best, synced, thread, handler, db, reader, process>>

-----------------------------------------------------------------------------
(* ThreadSync.                                                             *)

\* Commit writes nothing before the first block.
CommitOf(b) == IF b = None THEN locator ELSE b

NextSyncBlock ==
    LET from == ForkOf(pindex, tip)
        next == {b \in AncOf(tip) : Parent[b] = from}
    IN  IF next = {} THEN None ELSE CHOOSE b \in next : TRUE

\* The node's assertion in Rewind on the block that the index is rewound from.
RewindAsserts(current) == current = best

\* One turn takes cs_main: at the end of the chain the callbacks take over,
\* after a reorganization the index is first rewound to the fork.
SyncNext ==
    LET next == NextSyncBlock
    IN
    /\ ~aborted
    /\ pc = "next"
    /\ \/ /\ next = None
          /\ best' = pindex /\ synced' = TRUE /\ pc' = "commit"
          /\ UNCHANGED <<pindex, locator, aborted>>
       \/ /\ next # None /\ Parent[next] = pindex
          /\ pindex' = next /\ pc' = "locator"
          /\ UNCHANGED <<best, synced, locator, aborted>>
       \/ /\ next # None /\ Parent[next] # pindex
          /\ IF RewindAsserts(pindex)
             THEN /\ best' = Parent[next] /\ locator' = CommitOf(Parent[next])
                  /\ pindex' = next /\ pc' = "locator"
                  /\ UNCHANGED aborted
             ELSE /\ aborted' = TRUE
                  /\ UNCHANGED <<best, locator, pindex, pc>>
          /\ UNCHANGED synced
    /\ UNCHANGED <<chain, queue, written, handler, indexed, reader, restarts>>

\* mutant: the locator names the block that is about to be appended.
SyncLocatorEarly ==
    /\ ~aborted
    /\ pc = "locator"
    /\ pc' = "append"
    /\ \/ /\ written
          /\ UNCHANGED <<best, locator, written>>
       \/ /\ best' = pindex
          /\ locator' = CommitOf(best')
          /\ written' = TRUE
    /\ UNCHANGED <<chain, queue, synced, pindex, handler, indexed, reader, process>>

\* The locator is written in the first turn and then every
\* SYNC_LOCATOR_WRITE_INTERVAL.
SyncLocator ==
    /\ ~aborted
    /\ pc = "locator"
    /\ pc' = "append"
    /\ \/ /\ written
          /\ UNCHANGED <<best, locator, written>>
       \/ /\ best' = Parent[pindex]
          /\ locator' = CommitOf(best')
          /\ written' = TRUE
    /\ UNCHANGED <<chain, queue, synced, pindex, handler, indexed, reader, process>>

SyncAppend ==
    /\ ~aborted
    /\ pc = "append"
    /\ indexed' = indexed \cup {pindex}
    /\ pc' = "next"
    /\ UNCHANGED <<chain, queue, best, synced, pindex, written, handler, locator, reader, process>>

SyncCommit ==
    /\ ~aborted
    /\ pc = "commit"
    /\ locator' = CommitOf(best)
    /\ pc' = "done"
    /\ UNCHANGED <<chain, queue, best, synced, pindex, written, handler, indexed, reader, process>>

\* m_interrupt is set: the thread stores how far it came and ends.
SyncInterrupt ==
    /\ ~aborted
    /\ pc = "next"
    /\ restarts < MaxRestarts
    /\ best' = pindex /\ locator' = CommitOf(pindex)
    /\ pc' = "done"
    /\ UNCHANGED <<chain, queue, synced, pindex, written, handler, indexed, reader, process>>

-----------------------------------------------------------------------------
(* The callbacks, on the scheduler's thread.                               *)

CallbackIs(type) == /\ ~aborted
                    /\ handler = Idle
                    /\ queue # <<>>
                    /\ Head(queue).type = type

\* mutant: only a block on top of the index's best block is taken.
ConnectsToBestOnly(b) == Parent[b] = best

\* The block connects to an ancestor of the index's best block.
ConnectsToBest(b) == Parent[b] = None \/ Parent[b] \in AncOf(best)

\* BlockConnected up to the change of m_best_block_index in Rewind.  (The
\* assertion there holds, as nobody else changes it any more.)
BlockConnected ==
    /\ CallbackIs("connected")
    /\ LET b == Head(queue).block
       IN  IF ~synced \/ ~ConnectsToBest(b)
           THEN UNCHANGED <<best, handler>>
           ELSE IF best = Parent[b]
           THEN /\ handler' = [at |-> "append", block |-> b]
                /\ UNCHANGED best
           ELSE /\ handler' = [at |-> "commit", block |-> b]
                /\ best' = Parent[b]
    /\ queue' = Tail(queue)
    /\ UNCHANGED <<chain, synced, thread, db, reader, process>>

\* Rewind's Commit, whose locator is built under cs_main.
BlockConnectedCommit ==
    /\ ~aborted /\ ~LockedBySync
    /\ handler.at = "commit"
    /\ locator' = CommitOf(best)
    /\ handler' = [handler EXCEPT !.at = "append"]
    /\ UNCHANGED <<chain, queue, best, synced, thread, indexed, reader, process>>

\* CustomAppend, and the best block changes last.
BlockConnectedAppend ==
    /\ ~aborted
    /\ handler.at = "append"
    /\ indexed' = indexed \cup {handler.block}
    /\ handler' = [handler EXCEPT !.at = "setbest"]
    /\ UNCHANGED <<chain, queue, best, synced, thread, locator, reader, process>>

BlockConnectedSetBest ==
    /\ ~aborted
    /\ handler.at = "setbest"
    /\ best' = handler.block
    /\ handler' = Idle
    /\ UNCHANGED <<chain, queue, synced, thread, db, reader, process>>

\* The index stores its own best block, if the flushed one is on its branch.
ChainStateFlushed ==
    /\ CallbackIs("flushed")
    /\ ~LockedBySync
    /\ locator' = IF synced /\ Head(queue).block \in AncOf(best) THEN CommitOf(best) ELSE locator
    /\ queue' = Tail(queue)
    /\ UNCHANGED <<chain, best, synced, thread, handler, indexed, reader, process>>

-----------------------------------------------------------------------------
(* BlockUntilSyncedToCurrentChain.                                         *)

\* mutant: any block as high as the tip will do.
AheadOfHeight == HeightOf(best) >= HeightOf(tip)

\* The best block is the chain's tip or lies above it.
AheadOfTip == tip \in AncOf(best)

\* It returns at once when the index has the tip; otherwise it waits for the
\* callbacks queued so far.  The block is the tip at the time of the call.  It is
\* called only after start-up, when the index has the genesis block.
BlockUntilSynced ==
    /\ ~aborted /\ ~LockedBySync
    /\ reader.at # "waiting"
    /\ synced /\ tip # None /\ best # None
    /\ IF AheadOfTip
       THEN /\ reader' = [at |-> "true", block |-> tip]
            /\ UNCHANGED queue
       ELSE /\ reader' = [at |-> "waiting", block |-> tip]
            /\ queue' = Append(queue, Marker)
    /\ UNCHANGED <<chain, best, synced, thread, handler, db, process>>

QueueSynced ==
    /\ CallbackIs("marker")
    /\ queue' = Tail(queue)
    /\ reader' = [reader EXCEPT !.at = "true"]
    /\ UNCHANGED <<chain, best, synced, thread, handler, db, process>>

-----------------------------------------------------------------------------
\* The process stops, anywhere, and starts again from what is on disk: the
\* coins' best block is the tip, and Init finds its place from the locator.
Restart ==
    /\ restarts < MaxRestarts
    /\ restarts' = restarts + 1
    /\ aborted' = FALSE
    /\ tip' = coinsTip
    /\ queue' = <<>>
    /\ best' = ForkOf(locator, coinsTip)
    /\ synced' = (best' = coinsTip)
    /\ pc' = (IF synced' THEN "done" ELSE "next") /\ pindex' = best' /\ written' = FALSE
    /\ handler' = Idle
    /\ reader' = NotReading
    /\ UNCHANGED <<coinsTip, moves, db>>

Callback ==
    \/ BlockConnected
    \/ BlockConnectedCommit
    \/ BlockConnectedAppend
    \/ BlockConnectedSetBest
    \/ ChainStateFlushed
    \/ QueueSynced

ThreadSync ==
    \/ SyncNext
    \/ SyncLocator
    \/ SyncAppend
    \/ SyncCommit

Next ==
    \/ \E b \in Block : ActivateBestChainStep(b)
    \/ DisconnectTip
    \/ FlushStateToDisk
    \/ ThreadSync
    \/ SyncInterrupt
    \/ Callback
    \/ BlockUntilSynced
    \/ Restart

\* The operating system runs both threads.
Fairness == WF_vars(ThreadSync) /\ WF_vars(Callback)

Spec == Init /\ [][Next]_vars /\ Fairness

-----------------------------------------------------------------------------
(* Properties.                                                             *)

\* "ensures blocks are indexed sequentially": below the index's best block, in
\* memory and as stored, every block has been appended, so that no restart, no
\* change from thread to callbacks and no rewind leaves a hole in the index.
NoHoles ==
    /\ AncOf(best) \subseteq indexed
    /\ AncOf(locator) \subseteq indexed

\* When BlockUntilSyncedToCurrentChain has returned true, the index has every
\* block of what was the active chain when it was called.
ReaderSeesChain == reader.at = "true" => AncOf(reader.block) \subseteq indexed

\* A running node's index reaches the tip again and again.
CatchesUp == []<>(aborted \/ (pc = "done" /\ ~synced) \/ AncOf(tip) \subseteq AncOf(best))

\* The assertion "current_tip == m_best_block_index" of Rewind never fails.
RewindFromBest == ~aborted
=============================================================================

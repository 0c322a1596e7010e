---------------------------- MODULE BlockDownload ----------------------------
(***************************************************************************)
(* How blocks are asked of peers and wait for their parents                *)
(* (src/net_processing.cpp).  Headers come first; SendMessages asks each   *)
(* peer for the blocks of its best chain that nobody is asked for yet      *)
(* (FindNextBlocksToDownload, mapBlocksInFlight).  Since a block is only   *)
(* accepted onto a parent whose proof of stake was checked, an answer that *)
(* comes before its parent's is kept in mapBlocksWait, one per parent, for *)
(* at most a minute, and every "block" message accepts all it can of them. *)
(*                                                                         *)
(* SendMessages and ProcessMessage run in one thread, the message handler. *)
(* It releases cs_main between choosing a waiting block and handing it to  *)
(* ProcessNewBlock, so that the thread of an RPC may store a block, and    *)
(* the one that closes connections may run FinalizeNode, in between.       *)
(***************************************************************************)
EXTENDS Integers, FiniteSets, Sequences, Functions

CONSTANTS
    Block,      \* blocks whose header is known
    Genesis,
    Parent,     \* [Block \ {Genesis} -> Block]
    Bad,        \* blocks that AcceptBlock finds invalid
    Submitted,  \* blocks that an RPC or the minter may hand in as well
    Peer,
    BestKnown,  \* [Peer -> Block]: pindexBestKnownBlock
    Transit,    \* MAX_BLOCKS_IN_TRANSIT_PER_PEER
    MaxDrops,   \* connections that close of themselves
    None

VARIABLES
    status,         \* [Block -> {"header", "data", "failed"}]
    tip,            \* the tip of the active chain
    inFlight,       \* mapBlocksInFlight: <<block, peer>>
    asked,          \* [Peer -> Seq(Block)]: answers the peer still owes or has sent
    wait,           \* mapBlocksWait: parent -> [block, old, sender]
    lastAccepted,   \* the static pindexLastAccepted of the "block" handler
    source,         \* mapBlockSource: block -> peer
    hdl,            \* the message handler thread
    drops           \* connections closed so far

vars == <<status, tip, inFlight, asked, wait, lastAccepted, source, hdl, drops>>

RECURSIVE PathTo(_)
\* The blocks from the one after the genesis block to b.
PathTo(b) == IF b = Genesis THEN <<>> ELSE Append(PathTo(Parent[b]), b)

Height(b) == Len(PathTo(b))

\* The handler is between two messages.
Idle == [pc |-> "idle"]

Without(f, keys) == Restrict(f, DOMAIN f \ keys)

Init ==
    /\ status = [b \in Block |-> IF b = Genesis THEN "data" ELSE "header"]
    /\ tip = Genesis
    /\ inFlight = {}
    /\ asked = [p \in Peer |-> <<>>]
    /\ wait = <<>>
    /\ lastAccepted = None
    /\ source = <<>>
    /\ hdl = Idle
    /\ drops = 0

IsBlockRequested(b) == \E p \in Peer : <<b, p>> \in inFlight

InFlightFrom(p) == {b \in Block : <<b, p>> \in inFlight}

-----------------------------------------------------------------------------
(* Asking                                                                  *)

\* The walk of FindNextBlocksToDownload towards the best block the peer is
\* known to have: it ends at the first invalid block.
Walk(p) ==
    LET path == PathTo(BestKnown[p])
    IN  SelectSeq(path, LAMBDA b : \A a \in Range(PathTo(b)) : status[a] # "failed")

FindNextBlocksToDownload(p) ==
    LET missing == SelectSeq(Walk(p), LAMBDA b : status[b] = "header" /\ ~IsBlockRequested(b))
        count   == Transit - Cardinality(InFlightFrom(p))
    IN  IF Height(BestKnown[p]) < Height(tip) THEN <<>>
        ELSE SubSeq(missing, 1, IF count < Len(missing) THEN count ELSE Len(missing))

\* SendMessages: getdata for blocks.
Request(p) ==
    LET blocks == FindNextBlocksToDownload(p)
    IN  /\ hdl = Idle
        /\ blocks # <<>>
        /\ inFlight' = inFlight \cup (Range(blocks) \X {p})
        /\ asked' = [asked EXCEPT ![p] = @ \o blocks]
        /\ UNCHANGED <<status, tip, wait, lastAccepted, source, hdl, drops>>

-----------------------------------------------------------------------------
(* A "block" message                                                       *)

\* An answer to no open request is dropped unless its parent has been accepted.
Ignored(b) == ~IsBlockRequested(b) /\ status[Parent[b]] # "data"

Receive(p) ==
    /\ hdl = Idle
    /\ asked[p] # <<>>
    /\ asked' = [asked EXCEPT ![p] = Tail(@)]
    /\ LET b == Head(asked[p])
           e == [block |-> b, old |-> FALSE, sender |-> p]
       IN  IF Ignored(b) THEN UNCHANGED <<wait, lastAccepted, hdl>>
           ELSE /\ wait' = [q \in DOMAIN wait \cup {Parent[b]} |->
                               IF q = Parent[b] THEN e ELSE wait[q]]
                /\ lastAccepted' = IF lastAccepted = None THEN tip ELSE lastAccepted
                /\ hdl' = [pc |-> "loop", from |-> p]
    /\ UNCHANGED <<status, tip, inFlight, source, drops>>

\* Which waiting blocks an iteration of the loop can deal with: it looks first
\* for a child of pindexLastAccepted and then goes through the whole map.
Expired(q) == wait[q].old

ParentFailed(q) == status[q] = "failed"

Dealt(q) == Expired(q) \/ status[q] # "header"

Chosen ==
    IF lastAccepted \in DOMAIN wait THEN {lastAccepted}
    ELSE {q \in DOMAIN wait : Dealt(q)}

RemoveBlockRequest(b, peers) == inFlight' = inFlight \ ({b} \X peers)

\* A block that waited a minute, or whose parent was rejected, is given up.
GiveUp(q) ==
    LET b == wait[q].block
    IN  /\ q # lastAccepted
        /\ Expired(q) \/ ParentFailed(q)
        /\ RemoveBlockRequest(b, IF Expired(q) THEN Peer ELSE {hdl.from})
        /\ UNCHANGED <<source, hdl>>

\* Any other is selected; whether it was asked for decides if it is processed
\* in any case.
Select(q) ==
    LET b == wait[q].block
    IN  /\ q = lastAccepted \/ ~(Expired(q) \/ ParentFailed(q))
        /\ RemoveBlockRequest(b, {hdl.from})
        /\ source' = IF b \in DOMAIN source THEN source
                     ELSE [x \in DOMAIN source \cup {b} |->
                              IF x = b THEN hdl.from ELSE source[x]]
        /\ hdl' = [pc |-> "process", from |-> hdl.from, block |-> b,
                   sender |-> wait[q].sender, force |-> IsBlockRequested(b)]

LoopStep ==
    /\ hdl.pc = "loop"
    /\ \E q \in Chosen :
          /\ GiveUp(q) \/ Select(q)
          /\ wait' = Without(wait, {q})
    /\ UNCHANGED <<status, tip, asked, lastAccepted, drops>>

\* Nothing more can be done with the waiting blocks.
LoopEnd ==
    /\ hdl.pc = "loop"
    /\ Chosen = {}
    /\ hdl' = Idle
    /\ UNCHANGED <<status, tip, inFlight, asked, wait, lastAccepted, source, drops>>

\* AcceptBlock gets as far as checking the block.
Checked(b, force) ==
    /\ status[b] = "header"
    /\ status[Parent[b]] = "data"
    /\ force \/ Height(b) >= Height(tip)

\* ProcessNewBlock, and the tip after ActivateBestChain; the blocks that were
\* connected have been reported to BlockChecked.
ProcessNewBlock(b, force) ==
    /\ status' = IF ~Checked(b, force) THEN status
                 ELSE [status EXCEPT ![b] = IF b \in Bad THEN "failed" ELSE "data"]
    /\ tip' = IF Checked(b, force) /\ b \notin Bad /\ Height(b) > Height(tip) THEN b ELSE tip

ProcessBlock ==
    /\ hdl.pc = "process"
    /\ LET b   == hdl.block
           new == Checked(b, hdl.force) /\ b \notin Bad
       IN  /\ ProcessNewBlock(b, hdl.force)
           /\ inFlight' = IF new THEN inFlight \ ({b} \X Peer) ELSE inFlight
           /\ source' = Without(source, IF new THEN IF tip' = tip THEN {} ELSE Range(PathTo(tip'))
                                       ELSE {b})
    /\ hdl' = [pc |-> "loop", from |-> hdl.from]
    /\ UNCHANGED <<asked, wait, lastAccepted, drops>>

-----------------------------------------------------------------------------
(* The rest of the node                                                    *)

\* submitblock or the minter.
Submit(b) ==
    /\ b \in Submitted
    /\ Checked(b, TRUE)
    /\ ProcessNewBlock(b, TRUE)
    /\ source' = Without(source, IF b \in Bad THEN {b}
                                ELSE IF tip' = tip THEN {} ELSE Range(PathTo(tip')))
    /\ UNCHANGED <<inFlight, asked, wait, lastAccepted, hdl, drops>>

\* A minute passes.  The handler reads the clock once per message.
Minute ==
    /\ hdl = Idle
    /\ wait' = [q \in DOMAIN wait |-> [wait[q] EXCEPT !.old = TRUE]]
    /\ UNCHANGED <<status, tip, inFlight, asked, lastAccepted, source, hdl, drops>>

\* FinalizeNode forgets what was asked of the peer.  A new connection, to a
\* peer with the same best block, takes its place.
FinalizeNodeKeeps(p) ==
    /\ asked' = [asked EXCEPT ![p] = <<>>]
    /\ UNCHANGED <<status, tip, inFlight, wait, lastAccepted, source, hdl>>

FinalizeNode(p) ==
    /\ inFlight' = inFlight \ (Block \X {p})
    /\ asked' = [asked EXCEPT ![p] = <<>>]
    /\ UNCHANGED <<status, tip, wait, lastAccepted, source, hdl>>

\* The peer of the message in hand is not deleted.
NotInHand(p) == hdl # Idle => hdl.from # p

Disconnect(p) ==
    /\ NotInHand(p)
    /\ drops < MaxDrops
    /\ drops' = drops + 1
    /\ FinalizeNode(p)

\* SendMessages: a request is open for too long.  Here, until the peer has
\* nothing left to answer.
Timeout(p) ==
    /\ hdl = Idle
    /\ InFlightFrom(p) # {}
    /\ asked[p] = <<>>
    /\ FinalizeNode(p)
    /\ UNCHANGED drops

\* The message handler finishes the message in hand.
Handle == LoopStep \/ LoopEnd \/ ProcessBlock

\* What it does when it comes to peer p.
Visit(p) == Request(p) \/ Receive(p) \/ Timeout(p)

Next ==
    \/ Handle \/ Minute
    \/ \E p \in Peer : Visit(p) \/ Disconnect(p)
    \/ \E b \in Block : Submit(b)

\* The message handler finishes each message and visits its peers in turn.
Fairness == WF_vars(Handle) /\ \A p \in Peer : SF_vars(Visit(p))

Spec == Init /\ [][Next]_vars /\ Fairness

-----------------------------------------------------------------------------
(* Properties                                                              *)

\* Every chain a peer has with at least our work is downloaded in the end,
\* or found invalid (FindNextBlocksToDownload, the "block" handler), whatever
\* is lost on the way: waiting blocks that expire or are replaced,
\* connections that close, blocks that arrive by another way.
DownloadCompletes ==
    <>[](\A p \in Peer : \/ status[BestKnown[p]] = "data"
                         \/ Height(BestKnown[p]) < Height(tip)
                         \/ \E a \in Range(PathTo(BestKnown[p])) : status[a] = "failed")

\* "store in memory until we can connect it to some chain": a waiting block
\* leaves mapBlocksWait when it is processed, when its minute is over or when
\* its parent is rejected.
StoredUntilConnected ==
    [][\A q \in DOMAIN wait :
          (q \notin DOMAIN wait' \/ wait'[q].block # wait[q].block) =>
             wait[q].old \/ status[q] # "header"]_vars

\* "Sources of received blocks": while a block is processed, mapBlockSource
\* names the peer that sent it.
SourceIsSender ==
    hdl.pc = "process" /\ hdl.block \in DOMAIN source => source[hdl.block] = hdl.sender

=============================================================================

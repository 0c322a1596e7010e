------------------------------ MODULE Mempool ------------------------------
(***************************************************************************)
(* CTxMemPool: the unconfirmed transactions, the links between them, and   *)
(* the counters of ancestors and descendants each entry carries.           *)
(*                                                                         *)
(* A pool is a record: mapTx maps the transactions that are there to their *)
(* entries, mapNextTx the outpoints they spend to the spender.  Of the     *)
(* statistics of an entry the two counts are kept: sizes, fees and         *)
(* signature operations are added and subtracted at the same places.       *)
(* mapDeltas is left out: nothing in the program adds to it but a file     *)
(* that it wrote itself.                                                   *)
(***************************************************************************)
EXTENDS Integers, Sequences, FiniteSets, SequencesExt

CONSTANTS
    Tx, Ins, Outs,      \* the transactions, their inputs and outputs
    MaxUsage,           \* m_max_size_bytes, in entries
    MayExpire           \* the transactions that may be there longer than m_expiry

EmptyPool == [mapTx |-> <<>>, mapNextTx |-> <<>>]

\* exists
Txs(P) == DOMAIN P.mapTx

-----------------------------------------------------------------------------
(* Walks over the links.                                                   *)

RECURSIVE Walk(_, _, _)
Walk(next, stage, found) ==
    IF stage = {} THEN found
    ELSE Walk(next, UNION {next[t] : t \in stage} \ (found \cup stage), found \cup stage)

\* CalculateDescendants, of several entries; they are among the result.
CalculateDescendants(P, S) == Walk([t \in Txs(P) |-> P.mapTx[t].children], S, {})

\* The ancestors by way of the parents the entries have cached.
CachedAncestors(P, S) == Walk([t \in Txs(P) |-> P.mapTx[t].parents], S, {})

\* GetIter for the inputs of t: the parents that are in the pool.
Parents(P, t) == {s \in Txs(P) : Ins[t] \cap Outs[s] # {}}

\* CalculateMemPoolAncestors with fSearchForParents.
CalculateMemPoolAncestors(P, t) == CachedAncestors(P, Parents(P, t))

\* CalculateAncestorsAndCheckLimits for an entry that is not there yet.
WithinLimits(P, t, limits) ==
    LET ancestors == CalculateMemPoolAncestors(P, t)
    IN /\ Cardinality(ancestors) + 1 <= limits.ancestors
       /\ \A a \in ancestors : P.mapTx[a].countWithDescendants + 1 <= limits.descendants

\* The limits of PreChecks, and the carve-out that is tried after them.
CarveOut(limits) == [ancestors |-> 2, descendants |-> limits.descendants + 1]

-----------------------------------------------------------------------------
(* Adding and removing.                                                    *)

\* Mutant: only the parents count the new entry.
UpdateParentsOf(P, s, t, ancestors) ==
    [P.mapTx[s] EXCEPT !.children = IF s \in Parents(P, t) THEN @ \cup {t} ELSE @,
                       !.countWithDescendants = IF s \in Parents(P, t) THEN @ + 1 ELSE @]

\* UpdateAncestorsOf: the entry of s when t is added.
UpdateAncestorsOf(P, s, t, ancestors) ==
    [P.mapTx[s] EXCEPT !.children = IF s \in Parents(P, t) THEN @ \cup {t} ELSE @,
                       !.countWithDescendants = IF s \in ancestors THEN @ + 1 ELSE @]

\* addUnchecked, with UpdateEntryForAncestors.
AddUnchecked(P, t, ancestors, lockPoints) ==
    [mapTx     |-> [s \in Txs(P) \cup {t} |->
                      IF s = t THEN [parents  |-> Parents(P, t), children |-> {},
                                     countWithAncestors |-> Cardinality(ancestors) + 1,
                                     countWithDescendants |-> 1, lockPoints |-> lockPoints]
                      ELSE UpdateAncestorsOf(P, s, t, ancestors)],
     mapNextTx |-> [p \in DOMAIN P.mapNextTx \cup Ins[t] |-> IF p \in Ins[t] THEN t ELSE P.mapNextTx[p]]]

\* UpdateForRemoveFromMempool: what the removal of S does to an entry.
UpdateForRemove(P, S, updateDescendants, t) ==
    [P.mapTx[t] EXCEPT
       !.parents = @ \ S,
       !.children = @ \ S,
       !.countWithAncestors =
           IF updateDescendants
           THEN @ - Cardinality({r \in S \ {t} : t \in CalculateDescendants(P, {r})}) ELSE @,
       !.countWithDescendants = @ - Cardinality({r \in S \ {t} : t \in CachedAncestors(P, {r})})]

\* removeUnchecked, for each of S.
RemoveUnchecked(P, S) ==
    [mapTx     |-> [t \in Txs(P) \ S |-> P.mapTx[t]],
     mapNextTx |-> [p \in {q \in DOMAIN P.mapNextTx : P.mapNextTx[q] \notin S} |-> P.mapNextTx[p]]]

\* RemoveStaged
RemoveStaged(P, S, updateDescendants) ==
    RemoveUnchecked([P EXCEPT !.mapTx = [t \in Txs(P) |-> UpdateForRemove(P, S, updateDescendants, t)]], S)

RemoveWithDescendants(P, S) == RemoveStaged(P, CalculateDescendants(P, S), FALSE)

\* The entries that spend one of the outpoints.
Spenders(P, S) == {P.mapNextTx[p] : p \in S \cap DOMAIN P.mapNextTx}

\* Mutant: only a transaction that is there is removed.
RemoveRecursivePresent(P, t) == IF t \in Txs(P) THEN RemoveWithDescendants(P, {t}) ELSE P

\* removeRecursive
RemoveRecursive(P, t) ==
    RemoveWithDescendants(P, IF t \in Txs(P) THEN {t} ELSE Spenders(P, Outs[t]))

\* removeConflicts
RemoveConflicts(P, t) == RemoveWithDescendants(P, Spenders(P, Ins[t]) \ {t})

\* removeForBlock
RemoveForBlock(P, vtx) ==
    FoldLeft(LAMBDA Q, t : RemoveConflicts(IF t \in Txs(Q) THEN RemoveStaged(Q, {t}, TRUE) ELSE Q, t),
             P, vtx)

\* TrimToSize: entries go with their descendants until the rest fits.  Which
\* has the lowest score depends on the fees, and is left open.
RECURSIVE TrimToSize(_)
TrimToSize(P) ==
    IF Cardinality(Txs(P)) <= MaxUsage THEN {P}
    ELSE UNION {TrimToSize(RemoveWithDescendants(P, {t})) : t \in Txs(P)}

\* Expire
Expire(P, old) == RemoveWithDescendants(P, old \cap Txs(P))

\* LimitMempoolSize: the pools it may leave.
LimitMempoolSize(P) == UNION {TrimToSize(Expire(P, old)) : old \in SUBSET MayExpire}

-----------------------------------------------------------------------------
(* Transactions that come back from a block.                               *)

\* The walk of UpdateForDescendants: what is cached for a child is taken
\* instead of walking on from it.
RECURSIVE WalkCached(_, _, _, _)
WalkCached(P, cache, stage, found) ==
    IF stage = {} THEN found
    ELSE LET t        == CHOOSE t \in stage : TRUE
             children == P.mapTx[t].children
             reached  == found \cup {t} \cup UNION {cache[c] : c \in children \cap DOMAIN cache}
         IN WalkCached(P, cache, (stage \cup (children \ (DOMAIN cache \cup reached))) \ {t}, reached)

\* The children of t that are not from the block are linked to it.
LinkChildren(P, t, fromBlock) ==
    LET children == Spenders(P, Outs[t]) \ fromBlock
    IN [P EXCEPT !.mapTx =
          [s \in Txs(P) |->
             [P.mapTx[s] EXCEPT !.children = IF s = t THEN @ \cup children ELSE @,
                                !.parents = IF s \in children THEN @ \cup {t} ELSE @]]]

\* Mutant: one ancestor too many is allowed.
TooLongByOne(mapTx, S, limits) == {t \in S : mapTx[t].countWithAncestors > limits.ancestors + 1}

\* The entries whose chain of ancestors has become too long.
TooLong(mapTx, S, limits) == {t \in S : mapTx[t].countWithAncestors > limits.ancestors}

\* UpdateForDescendants: u has the pool, the cache and descendants_to_remove.
UpdateForDescendants(u, t, fromBlock, limits) ==
    LET P       == u.pool
        updated == WalkCached(P, u.cache, P.mapTx[t].children, {}) \ fromBlock
        mapTx   == [s \in Txs(P) |->
                      [P.mapTx[s] EXCEPT
                         !.countWithAncestors = IF s \in updated THEN @ + 1 ELSE @,
                         !.countWithDescendants = IF s = t THEN @ + Cardinality(updated) ELSE @]]
    IN [pool   |-> [P EXCEPT !.mapTx = mapTx],
        cache  |-> IF updated = {} THEN u.cache
                   ELSE [s \in DOMAIN u.cache \cup {t} |-> IF s = t THEN updated ELSE u.cache[s]],
        remove |-> u.remove \cup TooLong(mapTx, updated, limits)]

UpdateTransaction(u, t, fromBlock, limits) ==
    IF t \notin Txs(u.pool) THEN u
    ELSE UpdateForDescendants([u EXCEPT !.pool = LinkChildren(@, t, fromBlock)], t, fromBlock, limits)

\* Mutant: from the first to the last, so that the links below are not there yet.
UpdateTransactionsForward(P, vHashes, limits) ==
    LET u == FoldLeft(LAMBDA v, t : UpdateTransaction(v, t, Range(vHashes), limits),
                      [pool |-> P, cache |-> <<>>, remove |-> {}], vHashes)
    IN RemoveWithDescendants(u.pool, u.remove)

\* UpdateTransactionsFromBlock, from the last to the first.
UpdateTransactionsFromBlock(P, vHashes, limits) ==
    LET u == FoldRight(LAMBDA t, v : UpdateTransaction(v, t, Range(vHashes), limits),
                       vHashes, [pool |-> P, cache |-> <<>>, remove |-> {}])
    IN RemoveWithDescendants(u.pool, u.remove)

\* removeForReorg, with the transactions its filter finds and the lock points
\* that it updates.
RemoveForReorg(P, bad, lockPoints) ==
    RemoveWithDescendants([P EXCEPT !.mapTx = [t \in Txs(P) |-> [P.mapTx[t] EXCEPT !.lockPoints = lockPoints[t]]]],
                          {t \in Txs(P) : bad[t]})
=============================================================================

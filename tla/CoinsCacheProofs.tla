-------------------------- MODULE CoinsCacheProofs --------------------------
(***************************************************************************)
(* Proofs about CoinsCache, for any sets of outpoints and coins.           *)
(*                                                                         *)
(* IInv is the inductive invariant: the flags are truthful, the entries    *)
(* sane, no logic_error was thrown, and a view that is not in use holds    *)
(* nothing.  Each action is reduced to what it does at one outpoint p.     *)
(***************************************************************************)
EXTENDS CoinsCache, TLAPS

IInv ==
    /\ TypeOK
    /\ FlagsTruthful
    /\ SanityCheck
    /\ NoLogicError
    /\ ~open => view = Empty

\* Reads through a cache return coins, and fetching a coin into a well-typed
\* cache neither changes what the cache answers nor makes a flag untrue.
LEMMA FetchFacts ==
    ASSUME NEW cache \in Cache, NEW o \in Outpoint,
           NEW below \in Spendable \cup {Spent}
    PROVE  /\ Fetch(cache, o, below) \in Cache
           /\ Lookup(cache, o, below) \in Spendable \cup {Spent}
           /\ \A p \in Outpoint : p # o => Fetch(cache, o, below)[p] = cache[p]
           /\ Lookup(Fetch(cache, o, below), o, below) = Lookup(cache, o, below)
           /\ Honest(cache, o, below) => Honest(Fetch(cache, o, below), o, below)
           /\ SaneEntry(cache, o) => SaneEntry(Fetch(cache, o, below), o)
           /\ Lookup(cache, o, below) # Spent => HasUnspent(Fetch(cache, o, below), o)
           /\ Lookup(cache, o, below) = Spent => ~HasUnspent(Fetch(cache, o, below), o)
<1>1. CASE cache[o] # NoEntry \/ below = Spent
  BY Zenon, <1>1, CoinAssumption DEF Fetch, Lookup, Cache, Entry, HasUnspent
<1>2. CASE ~(cache[o] # NoEntry \/ below = Spent)
  <2> DEFINE e == [coin |-> below, dirty |-> FALSE, fresh |-> FALSE]
  <2>0. e \in Entry
    BY Zenon DEF Entry
  <2>1. e \in Entry /\ e # NoEntry
    BY Zenon, <2>0, CoinAssumption
  <2>2. Fetch(cache, o, below) = [cache EXCEPT ![o] = e]
    BY Zenon, <1>2 DEF Fetch
  <2> HIDE DEF e
  <2>3. Fetch(cache, o, below)[o] = e /\ cache[o] = NoEntry /\ below # Spent
    BY Zenon, <1>2, <2>2 DEF Cache
  <2>4. e.coin = below /\ e.dirty = FALSE /\ e.fresh = FALSE
    BY Zenon DEF e
  <2>5. QED
    BY Zenon, <1>2, <2>1, <2>2, <2>3, <2>4 DEF Lookup, Cache, Honest, SaneEntry, HasUnspent
<1>3. QED
  BY Zenon, <1>1, <1>2

\* AddCoin makes the outpoint hold the new coin and keeps the flags truthful,
\* provided that an addition that may not overwrite finds no unspent coin.
LEMMA AddCoinFacts ==
    ASSUME NEW cache \in Cache, NEW o \in Outpoint, NEW c \in Spendable,
           NEW below \in Spendable \cup {Spent}, NEW overwrite \in BOOLEAN,
           Honest(cache, o, below), SaneEntry(cache, o),
           ~overwrite => Lookup(cache, o, below) = Spent
    PROVE  /\ AddCoin(cache, o, c, overwrite) \in Cache
           /\ \A p \in Outpoint : p # o => AddCoin(cache, o, c, overwrite)[p] = cache[p]
           /\ Lookup(AddCoin(cache, o, c, overwrite), o, below) = c
           /\ Honest(AddCoin(cache, o, c, overwrite), o, below)
           /\ SaneEntry(AddCoin(cache, o, c, overwrite), o)
           /\ ~AddCoinThrows(cache, o, overwrite)
<1> DEFINE f == IsFresh(cache, o) \/ (~overwrite /\ ~IsDirty(cache, o))
           e == [coin |-> c, dirty |-> TRUE, fresh |-> f]
<1>1. f \in BOOLEAN
  BY Zenon DEF IsFresh, IsDirty
<1>2. f => below = Spent
  BY Zenon DEF IsFresh, IsDirty, Honest, Lookup
<1> HIDE DEF f
<1>3. e \in Entry
  BY Zenon, <1>1 DEF Entry
<1>4. e # NoEntry
  BY Zenon, <1>3, CoinAssumption
<1>5. e.coin = c /\ e.dirty = TRUE /\ e.fresh = f
  BY Zenon
<1>6. AddCoin(cache, o, c, overwrite) = [cache EXCEPT ![o] = e]
  BY Zenon DEF AddCoin, f
<1> HIDE DEF e
<1>7. AddCoin(cache, o, c, overwrite)[o] = e
  BY Zenon, <1>6 DEF Cache
<1>8. AddCoin(cache, o, c, overwrite) \in Cache
  BY Zenon, <1>3, <1>6 DEF Cache
<1>9. \A p \in Outpoint : p # o => AddCoin(cache, o, c, overwrite)[p] = cache[p]
  BY Zenon, <1>6 DEF Cache
<1>10. ~AddCoinThrows(cache, o, overwrite)
  BY Zenon DEF AddCoinThrows, HasUnspent, Lookup
<1>11. c # Spent
  BY Zenon, CoinAssumption DEF Spendable
<1>12. QED
  BY Zenon, <1>2, <1>4, <1>5, <1>7, <1>8, <1>9, <1>10, <1>11 DEF Lookup, Honest, SaneEntry

\* SpendCoin, on a cache the coin was fetched into, leaves the outpoint spent
\* and keeps the flags truthful.
LEMMA SpendCoinFacts ==
    ASSUME NEW cache \in Cache, NEW o \in Outpoint,
           NEW below \in Spendable \cup {Spent},
           Honest(cache, o, below), SaneEntry(cache, o),
           cache[o] = NoEntry => below = Spent
    PROVE  /\ SpendCoin(cache, o) \in Cache
           /\ \A p \in Outpoint : p # o => SpendCoin(cache, o)[p] = cache[p]
           /\ Lookup(SpendCoin(cache, o), o, below) = Spent
           /\ Honest(SpendCoin(cache, o), o, below)
           /\ SaneEntry(SpendCoin(cache, o), o)
<1> DEFINE e == [coin |-> Spent, dirty |-> TRUE, fresh |-> FALSE]
<1>1. e \in Entry
  BY Zenon DEF Entry
<1>2. e # NoEntry
  BY Zenon, <1>1, CoinAssumption
<1>3. e.coin = Spent /\ e.dirty = TRUE /\ e.fresh = FALSE
  BY Zenon
<1>4. CASE cache[o] = NoEntry
  BY Zenon, <1>4 DEF SpendCoin, Lookup, Honest, SaneEntry
<1>5. CASE cache[o] # NoEntry /\ cache[o].fresh
  <2>1. SpendCoin(cache, o) = [cache EXCEPT ![o] = NoEntry]
    BY Zenon, <1>5 DEF SpendCoin
  <2>2. SpendCoin(cache, o)[o] = NoEntry
    BY Zenon, <2>1 DEF Cache
  <2>3. below = Spent
    BY Zenon, <1>5 DEF Honest
  <2>4. QED
    BY Zenon, <2>1, <2>2, <2>3 DEF Lookup, Honest, SaneEntry, Cache
<1>6. CASE cache[o] # NoEntry /\ ~cache[o].fresh
  <2>1. SpendCoin(cache, o) = [cache EXCEPT ![o] = e]
    BY Zenon, <1>6 DEF SpendCoin
  <2> HIDE DEF e
  <2>2. SpendCoin(cache, o)[o] = e
    BY Zenon, <2>1 DEF Cache
  <2>3. QED
    BY Zenon, <1>1, <1>2, <1>3, <2>1, <2>2 DEF Lookup, Honest, SaneEntry, Cache
<1>7. QED
  BY Zenon, <1>4, <1>5, <1>6

\* BatchWrite into a cache makes it answer what the child answered, keeps its
\* flags truthful, and never meets a misapplied FRESH flag.
LEMMA BatchWriteFacts ==
    ASSUME NEW parent \in Cache, NEW child \in Cache, NEW o \in Outpoint,
           NEW below \in Spendable \cup {Spent},
           Honest(parent, o, below), SaneEntry(parent, o),
           Honest(child, o, Lookup(parent, o, below)), SaneEntry(child, o)
    PROVE  /\ BatchWriteCache(parent, child)[o] \in Entry \cup {NoEntry}
           /\ Lookup(BatchWriteCache(parent, child), o, below)
                = Lookup(child, o, Lookup(parent, o, below))
           /\ Honest(BatchWriteCache(parent, child), o, below)
           /\ SaneEntry(BatchWriteCache(parent, child), o)
           /\ ~Misapplied(parent, child, o)
<1> DEFINE W == BatchWriteCache(parent, child)
           p == parent[o]
           c == child[o]
<1>0. p \in Entry \cup {NoEntry} /\ c \in Entry \cup {NoEntry}
  BY Zenon DEF Cache
<1>1. ~Misapplied(parent, child, o)
  BY Zenon DEF Misapplied, IsDirty, HasUnspent, Honest, Lookup
<1>2. CASE ~IsDirty(child, o)
  <2>1. W[o] = p
    BY Zenon, <1>2 DEF BatchWriteCache
  <2>2. Lookup(child, o, Lookup(parent, o, below)) = Lookup(parent, o, below)
    BY Zenon, <1>2 DEF IsDirty, Honest, Lookup
  <2>3. QED
    BY Zenon, <1>0, <1>1, <2>1, <2>2 DEF Lookup, Honest, SaneEntry
<1>3. CASE IsDirty(child, o)
  <2>1. W[o] = MergeEntry(p, c) /\ c \in Entry /\ c # NoEntry /\ c.dirty
    BY Zenon, <1>0, <1>3 DEF BatchWriteCache, IsDirty
  <2>2. c.coin \in Spendable \cup {Spent} /\ c.fresh \in BOOLEAN
    BY Zenon, <2>1 DEF Entry
  <2>3. ~(c.fresh /\ c.coin = Spent)
    BY Zenon, <2>1 DEF SaneEntry
  <2>4. ASSUME NEW f \in BOOLEAN,
               W[o] = [coin |-> c.coin, dirty |-> TRUE, fresh |-> f],
               f => below = Spent,
               f => c.coin # Spent
        PROVE  /\ W[o] \in Entry
               /\ Lookup(W, o, below) = c.coin
               /\ Honest(W, o, below)
               /\ SaneEntry(W, o)
    <3>1. W[o] \in Entry
      BY <2>2, <2>4 DEF Entry
    <3>2. W[o] # NoEntry
      BY Zenon, <3>1, CoinAssumption
    <3>3. W[o].coin = c.coin /\ W[o].dirty = TRUE /\ W[o].fresh = f
      BY <2>4
    <3>4. QED
      BY Zenon, <2>4, <3>1, <3>2, <3>3 DEF Lookup, Honest, SaneEntry
  <2>5. Lookup(child, o, Lookup(parent, o, below)) = c.coin
    BY Zenon, <2>1 DEF Lookup
  <2>6. CASE p = NoEntry
    <3>1. W[o] = [coin |-> c.coin, dirty |-> TRUE, fresh |-> c.fresh]
      BY Zenon, <2>1, <2>3, <2>6 DEF MergeEntry
    <3>2. c.fresh => below = Spent
      BY Zenon, <2>1, <2>6 DEF Honest, Lookup
    <3>3. QED
      BY Zenon, <1>1, <2>2, <2>3, <2>4, <2>5, <3>1, <3>2
  <2>7. CASE p # NoEntry /\ p.fresh /\ c.coin = Spent
    <3>1. W[o] = NoEntry
      BY Zenon, <2>1, <2>7 DEF MergeEntry
    <3>2. below = Spent
      BY Zenon, <2>7 DEF Honest
    <3>3. QED
      BY Zenon, <1>1, <2>5, <2>7, <3>1, <3>2 DEF Lookup, Honest, SaneEntry
  <2>8. CASE p # NoEntry /\ ~(p.fresh /\ c.coin = Spent)
    <3>1. W[o] = [coin |-> c.coin, dirty |-> TRUE, fresh |-> p.fresh]
      BY Zenon, <2>1, <2>8 DEF MergeEntry
    <3>2. p.fresh => below = Spent
      BY Zenon, <2>8 DEF Honest
    <3>3. p.fresh \in BOOLEAN
      BY Zenon, <1>0, <2>8 DEF Entry
    <3>4. QED
      BY Zenon, <1>1, <2>2, <2>4, <2>5, <2>8, <3>1, <3>2, <3>3
  <2>9. QED
    BY Zenon, <2>6, <2>7, <2>8
<1>4. QED
  BY Zenon, <1>2, <1>3

-----------------------------------------------------------------------------
(* The two caches together.                                                *)

\* Both caches keep the invariant at every outpoint, stated for caches t and
\* v that need not be the current ones.
Sound(d, t, v) ==
    /\ t \in Cache
    /\ v \in Cache
    /\ \A p \in Outpoint :
          /\ Honest(t, p, d[p])
          /\ Honest(v, p, Lookup(t, p, d[p]))
          /\ SaneEntry(t, p)
          /\ SaneEntry(v, p)

\* IInv is soundness of the current caches, and the types of the rest.
LEMMA IInvSound ==
    IInv <=> /\ db \in [Outpoint -> Spendable \cup {Spent}]
             /\ Sound(db, tip, view)
             /\ open \in BOOLEAN
             /\ ret \in Spendable \cup {Spent}
             /\ thrown = FALSE
             /\ ~open => view = Empty
BY Zenon DEF IInv, TypeOK, FlagsTruthful, SanityCheck, NoLogicError, Sound, TipCoin

\* The coins the stack answers with are coins.
LEMMA CoinTypes ==
    ASSUME IInv, NEW o \in Outpoint
    PROVE  /\ db[o] \in Spendable \cup {Spent}
           /\ TipCoin(o) \in Spendable \cup {Spent}
           /\ ViewCoin(o) \in Spendable \cup {Spent}
<1>1. db[o] \in Spendable \cup {Spent} /\ tip \in Cache /\ view \in Cache
  BY Zenon DEF IInv, TypeOK
<1>2. TipCoin(o) \in Spendable \cup {Spent}
  BY Zenon, <1>1, FetchFacts DEF TipCoin
<1>3. QED
  BY Zenon, <1>1, <1>2, FetchFacts DEF ViewCoin

\* A fetch through both caches changes no answer and keeps them sound; the
\* view then has an entry for the outpoint unless no unspent coin is below.
LEMMA FetchStack ==
    ASSUME IInv, NEW o \in Outpoint
    PROVE  /\ Sound(db, TipAfterFetch(o), ViewAfterFetch(o))
           /\ \A p \in Outpoint :
                 /\ Lookup(TipAfterFetch(o), p, db[p]) = TipCoin(p)
                 /\ Lookup(ViewAfterFetch(o), p, TipCoin(p)) = ViewCoin(p)
           /\ ViewAfterFetch(o)[o] = NoEntry => TipCoin(o) = Spent
<1> DEFINE t == TipAfterFetch(o)
           v == ViewAfterFetch(o)
<1>1. Sound(db, tip, view)
  BY Zenon, IInvSound
<1>2. db[o] \in Spendable \cup {Spent} /\ TipCoin(o) \in Spendable \cup {Spent}
  BY Zenon, CoinTypes
<1>3. tip \in Cache /\ view \in Cache
  BY Zenon, <1>1 DEF Sound
<1>4. /\ t \in Cache
      /\ \A p \in Outpoint : /\ Lookup(t, p, db[p]) = TipCoin(p)
                             /\ Honest(t, p, db[p])
                             /\ SaneEntry(t, p)
  <2>1. CASE view[o] # NoEntry
    BY Zenon, <1>1, <2>1 DEF TipAfterFetch, TipCoin, Sound
  <2>2. CASE view[o] = NoEntry
    <3>1. t = Fetch(tip, o, db[o])
      BY Zenon, <2>2 DEF TipAfterFetch, FetchTip
    <3>2. \A p \in Outpoint : p # o => t[p] = tip[p]
      BY <1>2, <1>3, <3>1, FetchFacts
    <3>3. /\ t \in Cache
          /\ Lookup(t, o, db[o]) = Lookup(tip, o, db[o])
          /\ Honest(t, o, db[o])
          /\ SaneEntry(t, o)
      BY <1>1, <1>2, <1>3, <3>1, FetchFacts DEF Sound
    <3>4. ASSUME NEW p \in Outpoint, p # o
          PROVE  /\ Lookup(t, p, db[p]) = TipCoin(p)
                 /\ Honest(t, p, db[p])
                 /\ SaneEntry(t, p)
      BY Zenon, <1>1, <3>2, <3>4 DEF Sound, Lookup, Honest, SaneEntry, TipCoin
    <3>5. QED
      BY Zenon, <3>3, <3>4 DEF TipCoin
  <2>3. QED
    BY Zenon, <2>1, <2>2
<1>5. /\ v \in Cache
      /\ \A p \in Outpoint : /\ Lookup(v, p, TipCoin(p)) = ViewCoin(p)
                             /\ Honest(v, p, TipCoin(p))
                             /\ SaneEntry(v, p)
  <2>1. v = Fetch(view, o, TipCoin(o))
    BY Zenon DEF ViewAfterFetch
  <2>2. \A p \in Outpoint : p # o => v[p] = view[p]
    BY <1>2, <1>3, <2>1, FetchFacts
  <2>3. Honest(view, o, TipCoin(o)) /\ SaneEntry(view, o)
    BY Zenon, <1>1 DEF Sound, TipCoin
  <2>4. /\ v \in Cache
        /\ Lookup(v, o, TipCoin(o)) = Lookup(view, o, TipCoin(o))
        /\ Honest(v, o, TipCoin(o))
        /\ SaneEntry(v, o)
    BY <1>2, <1>3, <2>1, <2>3, FetchFacts
  <2>5. ASSUME NEW p \in Outpoint, p # o
        PROVE  /\ Lookup(v, p, TipCoin(p)) = ViewCoin(p)
               /\ Honest(v, p, TipCoin(p))
               /\ SaneEntry(v, p)
    BY Zenon, <1>1, <2>2, <2>5 DEF Sound, Lookup, Honest, SaneEntry, TipCoin, ViewCoin
  <2>6. QED
    BY Zenon, <2>4, <2>5 DEF ViewCoin
<1>6. v[o] = NoEntry => TipCoin(o) = Spent
  <2>1. Lookup(v, o, TipCoin(o)) = ViewCoin(o)
    BY Zenon, <1>5
  <2>2. ViewCoin(o) # Spent => HasUnspent(v, o)
    BY Zenon, <1>2, <1>3, FetchFacts DEF ViewAfterFetch, ViewCoin
  <2>3. QED
    BY Zenon, <2>1, <2>2 DEF HasUnspent, Lookup
<1>7. QED
  BY Zenon, <1>4, <1>5, <1>6 DEF Sound

-----------------------------------------------------------------------------
(* One lemma per action: it keeps IInv, and this is what it does to the    *)
(* coins of the tip and of the view.                                       *)

\* An IInv state with a view in use: IInv' from the next caches' soundness.
LEMMA IInvNext ==
    ASSUME IInv,
           db' \in [Outpoint -> Spendable \cup {Spent}],
           Sound(db', tip', view'),
           open' \in BOOLEAN,
           ret' \in Spendable \cup {Spent},
           thrown' = FALSE,
           ~open' => view' = Empty
    PROVE  IInv'
BY Zenon DEF IInv, TypeOK, FlagsTruthful, SanityCheck, NoLogicError, Sound, TipCoin

\* OpenView changes no coin.
LEMMA OpenViewStep ==
    ASSUME IInv, OpenView
    PROVE  /\ IInv'
           /\ \A p \in Outpoint : TipCoin(p)' = TipCoin(p) /\ ViewCoin(p)' = ViewCoin(p)
BY Zenon DEF OpenView, IInv, TypeOK, FlagsTruthful, SanityCheck, NoLogicError, TipCoin, ViewCoin

\* A read of the view returns the view's coin and changes none.
LEMMA GetCoinStep ==
    ASSUME IInv, NEW o \in Outpoint, GetCoin(o)
    PROVE  /\ IInv'
           /\ ret' = ViewCoin(o)
           /\ \A p \in Outpoint : TipCoin(p)' = TipCoin(p) /\ ViewCoin(p)' = ViewCoin(p)
<1>1. Sound(db, TipAfterFetch(o), ViewAfterFetch(o))
  BY Zenon, FetchStack
<1>2. tip' = TipAfterFetch(o) /\ view' = ViewAfterFetch(o) /\ db' = db
  BY Zenon DEF GetCoin
<1>3. \A p \in Outpoint : /\ Lookup(tip', p, db'[p]) = TipCoin(p)
                           /\ Lookup(view', p, TipCoin(p)) = ViewCoin(p)
  BY Zenon, <1>2, FetchStack
<1>4. IInv'
  BY Zenon, <1>1, <1>2, IInvNext, CoinTypes DEF GetCoin, IInv, TypeOK, NoLogicError
<1>5. QED
  BY Zenon, <1>3, <1>4 DEF GetCoin, TipCoin, ViewCoin

\* A read of the tip, with no view in use, returns the tip's coin.
LEMMA GetTipCoinStep ==
    ASSUME IInv, NEW o \in Outpoint, GetTipCoin(o)
    PROVE  /\ IInv'
           /\ ret' = ViewCoin(o)
           /\ \A p \in Outpoint : TipCoin(p)' = TipCoin(p) /\ ViewCoin(p)' = ViewCoin(p)
<1>1. view[o] = NoEntry
  BY Zenon DEF GetTipCoin, IInv, Empty
<1>2. tip' = TipAfterFetch(o) /\ view' = view /\ db' = db /\ ret' = TipCoin(o)
  BY Zenon, <1>1 DEF GetTipCoin, TipAfterFetch
<1>3. \A p \in Outpoint : Lookup(tip', p, db'[p]) = TipCoin(p)
  BY Zenon, <1>2, FetchStack
<1>4. Sound(db, tip', view)
  BY Zenon, <1>2, <1>3, FetchStack, IInvSound DEF Sound, TipCoin
<1>5. IInv'
  BY Zenon, <1>2, <1>4, IInvNext, CoinTypes DEF GetTipCoin, IInv, TypeOK, NoLogicError
<1>6. QED
  BY Zenon, <1>1, <1>2, <1>3, <1>5 DEF TipCoin, ViewCoin, Lookup

\* Adding an output puts the coin in the view, or does nothing if dropped.
LEMMA AddOutputStep ==
    ASSUME IInv, NEW o \in Outpoint, NEW c \in Coin,
           NEW fCoinbase \in BOOLEAN, NEW skip \in BOOLEAN,
           AddOutput(o, c, fCoinbase, skip)
    PROVE  /\ IInv'
           /\ \A p \in Outpoint : TipCoin(p)' = TipCoin(p)
           /\ \/ \A p \in Outpoint : ViewCoin(p)' = ViewCoin(p)
              \/ \A p \in Outpoint : ViewCoin(p)' = IF p = o THEN c ELSE ViewCoin(p)
<1>1. CASE Dropped(c, skip)
  BY Zenon, <1>1 DEF AddOutput, IInv, TypeOK, FlagsTruthful, SanityCheck, NoLogicError,
              TipCoin, ViewCoin
<1>2. CASE ~Dropped(c, skip)
  <2> DEFINE v == AddCoin(view, o, c, fCoinbase)
  <2>1. Sound(db, tip, view) /\ TipCoin(o) \in Spendable \cup {Spent}
    BY Zenon, IInvSound, CoinTypes
  <2>2. /\ view \in Cache
        /\ Honest(view, o, TipCoin(o))
        /\ SaneEntry(view, o)
        /\ ~fCoinbase => Lookup(view, o, TipCoin(o)) = Spent
    BY Zenon, <2>1 DEF Sound, TipCoin, AddOutput, ViewCoin
  <2>3. /\ v \in Cache
        /\ \A p \in Outpoint : p # o => v[p] = view[p]
        /\ Lookup(v, o, TipCoin(o)) = c
        /\ Honest(v, o, TipCoin(o))
        /\ SaneEntry(v, o)
        /\ ~AddCoinThrows(view, o, fCoinbase)
    <3>1. c \in Spendable
      BY Zenon, <1>2 DEF Dropped, Spendable
    <3>2. QED
      BY Zenon, <2>1, <2>2, <3>1, AddCoinFacts
  <2>4. thrown' = FALSE /\ view' = v /\ UNCHANGED <<db, tip, open, ret>>
    BY <1>2, <2>3 DEF AddOutput
  <2> HIDE DEF v
  <2>5. Sound(db, tip, v)
    BY <2>1, <2>3 DEF Sound, TipCoin, Honest, SaneEntry
  <2>6. IInv'
    <3>1. /\ db' \in [Outpoint -> Spendable \cup {Spent}]
          /\ open' = TRUE
          /\ ret' \in Spendable \cup {Spent}
      BY Zenon, <2>4 DEF AddOutput, IInv, TypeOK
    <3>2. Sound(db', tip', view')
      BY Zenon, <2>4, <2>5
    <3>3. QED
      BY Zenon, <2>4, <3>1, <3>2, IInvNext
  <2>7. \A p \in Outpoint : TipCoin(p)' = TipCoin(p)
    BY Zenon, <2>4 DEF TipCoin
  <2>8. ASSUME NEW p \in Outpoint
        PROVE  ViewCoin(p)' = IF p = o THEN c ELSE ViewCoin(p)
    BY Zenon, <2>3, <2>4, <2>7 DEF ViewCoin, Lookup
  <2>9. QED
    BY Zenon, <2>6, <2>7, <2>8
<1>3. QED
  BY Zenon, <1>1, <1>2

\* Restoring a coin puts it in the view, or does nothing if dropped.
LEMMA RestoreCoinStep ==
    ASSUME IInv, NEW o \in Outpoint, NEW c \in Coin, NEW skip \in BOOLEAN,
           RestoreCoin(o, c, skip)
    PROVE  /\ IInv'
           /\ \A p \in Outpoint : TipCoin(p)' = TipCoin(p)
           /\ \/ \A p \in Outpoint : ViewCoin(p)' = ViewCoin(p)
              \/ \A p \in Outpoint : ViewCoin(p)' = IF p = o THEN c ELSE ViewCoin(p)
<1> DEFINE f == ViewAfterFetch(o)
           w == (ViewCoin(o) # Spent)
           v == AddCoin(f, o, c, w)
<1>1. Sound(db, TipAfterFetch(o), f) /\ TipCoin(o) \in Spendable \cup {Spent}
  BY Zenon, FetchStack, CoinTypes
<1>2. \A p \in Outpoint : /\ Lookup(TipAfterFetch(o), p, db[p]) = TipCoin(p)
                           /\ Lookup(f, p, TipCoin(p)) = ViewCoin(p)
  BY Zenon, FetchStack
<1>3. /\ f \in Cache
      /\ Honest(f, o, TipCoin(o))
      /\ SaneEntry(f, o)
      /\ ~w => Lookup(f, o, TipCoin(o)) = Spent
  BY Zenon, <1>1, <1>2 DEF Sound
<1>4. w \in BOOLEAN
  BY Zenon
<1> HIDE DEF f, w
<1>5. ASSUME ~Dropped(c, skip)
      PROVE  /\ v \in Cache
             /\ \A p \in Outpoint : p # o => v[p] = f[p]
             /\ Lookup(v, o, TipCoin(o)) = c
             /\ Honest(v, o, TipCoin(o))
             /\ SaneEntry(v, o)
             /\ ~AddCoinThrows(f, o, w)
  <2>1. c \in Spendable
    BY Zenon, <1>5 DEF Dropped, Spendable
  <2>2. QED
    BY <1>1, <1>3, <1>4, <2>1, AddCoinFacts
<1>6. /\ thrown' = FALSE
      /\ view' = IF Dropped(c, skip) THEN f ELSE v
      /\ tip' = TipAfterFetch(o)
      /\ UNCHANGED <<db, open, ret>>
  BY Zenon, <1>5 DEF RestoreCoin, f, w
<1>7. ~Dropped(c, skip) => Sound(db, tip', v)
  BY SMTT(60), <1>1, <1>2, <1>5, <1>6 DEF Sound, Honest, SaneEntry
<1> HIDE DEF v
<1>8. Sound(db, tip', view')
  BY Zenon, <1>1, <1>6, <1>7
<1>9. IInv'
  <2>1. /\ db' \in [Outpoint -> Spendable \cup {Spent}]
        /\ open' = TRUE
        /\ ret' \in Spendable \cup {Spent}
    BY Zenon, <1>6 DEF RestoreCoin, IInv, TypeOK
  <2>2. Sound(db', tip', view')
    BY Zenon, <1>6, <1>8
  <2>3. QED
    BY Zenon, <1>6, <2>1, <2>2, IInvNext
<1>10. \A p \in Outpoint : TipCoin(p)' = TipCoin(p)
  BY Zenon, <1>2, <1>6 DEF TipCoin
<1>11. CASE Dropped(c, skip)
  BY Zenon, <1>2, <1>6, <1>9, <1>10, <1>11 DEF ViewCoin
<1>12. CASE ~Dropped(c, skip)
  <2>1. ASSUME NEW p \in Outpoint
        PROVE  ViewCoin(p)' = IF p = o THEN c ELSE ViewCoin(p)
    <3>1. ViewCoin(p)' = Lookup(v, p, TipCoin(p))
      BY Zenon, <1>6, <1>10, <1>12 DEF ViewCoin
    <3>2. p # o => Lookup(v, p, TipCoin(p)) = Lookup(f, p, TipCoin(p))
      BY Zenon, <1>5, <1>12 DEF Lookup
    <3>3. QED
      BY Zenon, <1>2, <1>5, <1>12, <3>1, <3>2
  <2>2. QED
    BY Zenon, <1>9, <1>10, <2>1
<1>13. QED
  BY Zenon, <1>11, <1>12

\* Spending returns the view's coin and leaves the outpoint spent in the view.
LEMMA SpendViewCoinStep ==
    ASSUME IInv, NEW o \in Outpoint, SpendViewCoin(o)
    PROVE  /\ IInv'
           /\ ret' = ViewCoin(o)
           /\ \A p \in Outpoint : TipCoin(p)' = TipCoin(p)
           /\ \A p \in Outpoint : ViewCoin(p)' = IF p = o THEN Spent ELSE ViewCoin(p)
<1> DEFINE f == ViewAfterFetch(o)
           v == SpendCoin(f, o)
<1>1. Sound(db, TipAfterFetch(o), f) /\ TipCoin(o) \in Spendable \cup {Spent}
  BY Zenon, FetchStack, CoinTypes
<1>2. \A p \in Outpoint : /\ Lookup(TipAfterFetch(o), p, db[p]) = TipCoin(p)
                           /\ Lookup(f, p, TipCoin(p)) = ViewCoin(p)
  BY Zenon, FetchStack
<1>3. /\ f \in Cache
      /\ Honest(f, o, TipCoin(o))
      /\ SaneEntry(f, o)
      /\ f[o] = NoEntry => TipCoin(o) = Spent
  BY Zenon, <1>1, <1>2, FetchStack DEF Sound
<1>4. /\ tip' = TipAfterFetch(o)
      /\ view' = v
      /\ ret' = ViewCoin(o)
      /\ UNCHANGED <<db, open, thrown>>
  BY Zenon DEF SpendViewCoin
<1> HIDE DEF f
<1>5. /\ v \in Cache
      /\ \A p \in Outpoint : p # o => v[p] = f[p]
      /\ Lookup(v, o, TipCoin(o)) = Spent
      /\ Honest(v, o, TipCoin(o))
      /\ SaneEntry(v, o)
  BY Zenon, <1>1, <1>3, SpendCoinFacts
<1> HIDE DEF v
<1>6. Sound(db', tip', view')
  BY <1>1, <1>2, <1>4, <1>5 DEF Sound, Honest, SaneEntry
<1>7. IInv'
  <2>1. /\ db' \in [Outpoint -> Spendable \cup {Spent}]
        /\ open' = TRUE
        /\ thrown' = FALSE
    BY Zenon, <1>4 DEF SpendViewCoin, IInv, TypeOK, NoLogicError
  <2>2. ret' \in Spendable \cup {Spent}
    BY Zenon, <1>4, CoinTypes
  <2>3. QED
    BY Zenon, <1>6, <2>1, <2>2, IInvNext
<1>8. \A p \in Outpoint : TipCoin(p)' = TipCoin(p)
  BY Zenon, <1>2, <1>4 DEF TipCoin
<1>9. ASSUME NEW p \in Outpoint
      PROVE  ViewCoin(p)' = IF p = o THEN Spent ELSE ViewCoin(p)
  <2>1. ViewCoin(p)' = Lookup(v, p, TipCoin(p))
    BY Zenon, <1>4, <1>8 DEF ViewCoin
  <2>2. p # o => Lookup(v, p, TipCoin(p)) = Lookup(f, p, TipCoin(p))
    BY Zenon, <1>5 DEF Lookup
  <2>3. QED
    BY Zenon, <1>2, <1>5, <2>1, <2>2
<1>10. QED
  BY Zenon, <1>4, <1>7, <1>8, <1>9

\* An empty view answers with the coins below it and is sound.
LEMMA EmptyFacts ==
    ASSUME NEW o \in Outpoint, NEW below
    PROVE  /\ Empty \in Cache
           /\ Lookup(Empty, o, below) = below
           /\ Honest(Empty, o, below)
           /\ SaneEntry(Empty, o)
BY Zenon DEF Empty, Cache, Lookup, Honest, SaneEntry

\* Flushing the view makes the tip answer what the view answered.
LEMMA FlushViewStep ==
    ASSUME IInv, FlushView
    PROVE  /\ IInv'
           /\ open /\ ~open' /\ ret' = ret
           /\ \A p \in Outpoint : TipCoin(p)' = ViewCoin(p) /\ ViewCoin(p)' = ViewCoin(p)
<1> DEFINE t == BatchWriteCache(tip, view)
<1>1. Sound(db, tip, view)
  BY Zenon, IInvSound
<1>2. ASSUME NEW p \in Outpoint
      PROVE  /\ t[p] \in Entry \cup {NoEntry}
             /\ Lookup(t, p, db[p]) = ViewCoin(p)
             /\ Honest(t, p, db[p])
             /\ SaneEntry(t, p)
             /\ ~Misapplied(tip, view, p)
  <2>1. tip \in Cache /\ view \in Cache /\ db[p] \in Spendable \cup {Spent}
    BY Zenon, <1>1, CoinTypes DEF Sound
  <2>2. /\ Honest(tip, p, db[p])
        /\ SaneEntry(tip, p)
        /\ Honest(view, p, Lookup(tip, p, db[p]))
        /\ SaneEntry(view, p)
    BY Zenon, <1>1 DEF Sound
  <2>3. QED
    BY Zenon, <2>1, <2>2, BatchWriteFacts DEF ViewCoin, TipCoin
<1>3. /\ tip' = t
      /\ view' = Empty
      /\ open
      /\ open' = FALSE
      /\ UNCHANGED <<db, ret, thrown>>
  BY Zenon, <1>2 DEF FlushView
<1>4. t \in Cache
  <2>1. t = [p \in Outpoint |-> t[p]]
    BY Zenon DEF BatchWriteCache
  <2> HIDE DEF t
  <2>2. QED
    BY Zenon, <1>2, <2>1 DEF Cache
<1> HIDE DEF t
<1>5. Sound(db', tip', view')
  <2>1. Empty \in Cache
    BY Zenon DEF Empty, Cache
  <2>2. QED
    BY Zenon, <1>2, <1>3, <1>4, <2>1, EmptyFacts DEF Sound
<1>6. IInv'
  BY Zenon, <1>3, <1>5, IInvNext DEF IInv, TypeOK, NoLogicError
<1>7. QED
  BY Zenon, <1>2, <1>3, <1>6, EmptyFacts DEF TipCoin, ViewCoin

\* Dropping the view brings its coins back to those of the tip.
LEMMA DropViewStep ==
    ASSUME IInv, DropView
    PROVE  /\ IInv'
           /\ \A p \in Outpoint : TipCoin(p)' = TipCoin(p) /\ ViewCoin(p)' = TipCoin(p)
<1>1. view' = Empty /\ UNCHANGED <<db, tip, ret, thrown>> /\ open' = FALSE
  BY Zenon DEF DropView
<1>2. Sound(db', tip', view')
  <2>1. Empty \in Cache
    BY Zenon DEF Empty, Cache
  <2>2. QED
    BY Zenon, <1>1, <2>1, IInvSound, EmptyFacts DEF Sound
<1>3. IInv'
  BY Zenon, <1>1, <1>2, IInvNext DEF IInv, TypeOK, NoLogicError
<1>4. QED
  BY Zenon, <1>1, <1>3, EmptyFacts DEF TipCoin, ViewCoin

\* Flushing or syncing the tip moves its coins to the database: no coin that
\* the stack answers with changes.
LEMMA WriteTipStep ==
    ASSUME IInv, FlushTip \/ SyncTip
    PROVE  /\ IInv'
           /\ \A p \in Outpoint : TipCoin(p)' = TipCoin(p) /\ ViewCoin(p)' = ViewCoin(p)
<1> DEFINE clean(p) == [coin |-> tip[p].coin, dirty |-> FALSE, fresh |-> FALSE]
<1>1. view = Empty /\ view' = Empty /\ ~open /\ UNCHANGED <<open, ret, thrown>>
  BY Zenon DEF FlushTip, SyncTip, IInv
<1>2. db' = BatchWriteDB(db, tip)
  BY Zenon DEF FlushTip, SyncTip
<1>3. ASSUME NEW p \in Outpoint
      PROVE  db'[p] = TipCoin(p) /\ db'[p] \in Spendable \cup {Spent}
  <2>1. Honest(tip, p, db[p])
    BY Zenon DEF IInv, FlagsTruthful
  <2>2. db'[p] = TipCoin(p)
    BY Zenon, <1>2, <2>1 DEF BatchWriteDB, IsDirty, Honest, TipCoin, Lookup
  <2>3. QED
    BY Zenon, <2>2, CoinTypes
<1>4. db' \in [Outpoint -> Spendable \cup {Spent}]
  BY Zenon, <1>2, <1>3 DEF BatchWriteDB
<1>5. ASSUME NEW p \in Outpoint
      PROVE  /\ tip'[p] \in Entry \cup {NoEntry}
             /\ Lookup(tip', p, db'[p]) = TipCoin(p)
             /\ Honest(tip', p, db'[p])
             /\ SaneEntry(tip', p)
  <2>1. CASE tip'[p] = NoEntry
    BY Zenon, <1>3, <2>1 DEF Lookup, Honest, SaneEntry
  <2>2. CASE HasUnspent(tip, p) /\ tip'[p] = clean(p)
    <3>1. tip[p].coin \in Spendable \cup {Spent}
      BY Zenon, <2>2 DEF HasUnspent, IInv, TypeOK, Cache, Entry
    <3>2. clean(p) \in Entry
      BY Zenon, <3>1 DEF Entry
    <3>3. clean(p) # NoEntry
      BY Zenon, <3>2, CoinAssumption
    <3>4. TipCoin(p) = tip[p].coin /\ tip[p].coin # Spent
      BY Zenon, <2>2 DEF HasUnspent, TipCoin, Lookup
    <3>5. clean(p).coin = tip[p].coin /\ ~clean(p).dirty /\ ~clean(p).fresh
      BY Zenon
    <3> HIDE DEF clean
    <3>6. QED
      BY Zenon, <1>3, <2>2, <3>2, <3>3, <3>4, <3>5 DEF Lookup, Honest, SaneEntry
  <2>3. QED
    BY Zenon, <2>1, <2>2 DEF FlushTip, SyncTip, Empty
<1>6. tip' \in Cache
  <2>1. tip' = [p \in Outpoint |-> tip'[p]]
    BY Zenon DEF FlushTip, SyncTip, Empty
  <2>2. QED
    BY Zenon, <1>5, <2>1 DEF Cache
<1>7. Sound(db', tip', view')
  <2>1. Empty \in Cache
    BY Zenon DEF Empty, Cache
  <2>2. QED
    BY Zenon, <1>1, <1>5, <1>6, <2>1, EmptyFacts DEF Sound
<1>8. IInv'
  BY Zenon, <1>1, <1>4, <1>7, IInvNext DEF IInv, TypeOK, NoLogicError
<1>9. QED
  BY Zenon, <1>1, <1>5, <1>8, EmptyFacts DEF TipCoin, ViewCoin

\* Uncache removes an entry that equals what is below it.
LEMMA UncacheStep ==
    ASSUME IInv, NEW o \in Outpoint, Uncache(o)
    PROVE  /\ IInv'
           /\ \A p \in Outpoint : TipCoin(p)' = TipCoin(p) /\ ViewCoin(p)' = ViewCoin(p)
<1>1. UNCHANGED <<db, view, open, ret, thrown>> /\ tip' = [tip EXCEPT ![o] = NoEntry]
  BY Zenon DEF Uncache
<1>2. tip \in Cache /\ tip' \in Cache
  BY Zenon, <1>1 DEF IInv, TypeOK, Cache
<1>3. \A p \in Outpoint : tip'[p] = IF p = o THEN NoEntry ELSE tip[p]
  BY Zenon, <1>1, <1>2 DEF Cache
<1>4. Sound(db, tip, view)
  BY Zenon, IInvSound
<1>5. \A p \in Outpoint : Lookup(tip', p, db[p]) = Lookup(tip, p, db[p])
  BY <1>3, <1>4 DEF Sound, Honest, Lookup, Uncache
<1>6. Sound(db', tip', view')
  <2>1. ASSUME NEW p \in Outpoint
        PROVE  /\ Honest(tip', p, db[p])
               /\ Honest(view, p, Lookup(tip', p, db[p]))
               /\ SaneEntry(tip', p)
               /\ SaneEntry(view, p)
    <3>1. Honest(tip, p, db[p]) /\ SaneEntry(tip, p)
      BY Zenon, <1>4 DEF Sound
    <3>2. Honest(tip', p, db[p]) /\ SaneEntry(tip', p)
      BY Zenon, <1>3, <3>1 DEF Honest, SaneEntry
    <3>3. Honest(view, p, Lookup(tip', p, db[p])) /\ SaneEntry(view, p)
      BY Zenon, <1>4, <1>5 DEF Sound
    <3>4. QED
      BY Zenon, <3>2, <3>3
  <2>2. view \in Cache
    BY Zenon, <1>4 DEF Sound
  <2>3. QED
    BY Zenon, <1>1, <1>2, <2>1, <2>2 DEF Sound
<1>7. IInv'
  BY Zenon, <1>1, <1>6, IInvNext DEF IInv, TypeOK, NoLogicError
<1>8. QED
  BY Zenon, <1>1, <1>5, <1>7 DEF TipCoin, ViewCoin

-----------------------------------------------------------------------------
(* The theorems.                                                           *)

\* IInv holds of the initial states and every step keeps it.
LEMMA IInvInductive ==
    /\ Init => IInv
    /\ IInv /\ [Next]_vars => IInv'
<1>1. ASSUME Init PROVE IInv
  <2>1. Sound(db, tip, view)
    BY Zenon, <1>1, EmptyFacts DEF Init, Sound, Empty, Cache
  <2>2. QED
    BY Zenon, <1>1, <2>1, IInvSound DEF Init
<1>2. ASSUME IInv, [Next]_vars PROVE IInv'
  <2>1. CASE UNCHANGED vars
    BY Zenon, <1>2, <2>1 DEF vars, IInv, TypeOK, FlagsTruthful, SanityCheck, NoLogicError, TipCoin
  <2>2. CASE OpenView
    BY Zenon, <1>2, <2>2, OpenViewStep
  <2>3. CASE FlushView
    BY Zenon, <1>2, <2>3, FlushViewStep
  <2>4. CASE DropView
    BY Zenon, <1>2, <2>4, DropViewStep
  <2>5. CASE FlushTip \/ SyncTip
    BY Zenon, <1>2, <2>5, WriteTipStep
  <2>6. ASSUME NEW o \in Outpoint, GetCoin(o) PROVE IInv'
    BY Zenon, <1>2, <2>6, GetCoinStep
  <2>7. ASSUME NEW o \in Outpoint, GetTipCoin(o) PROVE IInv'
    BY Zenon, <1>2, <2>7, GetTipCoinStep
  <2>8. ASSUME NEW o \in Outpoint, SpendViewCoin(o) PROVE IInv'
    BY Zenon, <1>2, <2>8, SpendViewCoinStep
  <2>9. ASSUME NEW o \in Outpoint, Uncache(o) PROVE IInv'
    BY Zenon, <1>2, <2>9, UncacheStep
  <2>10. ASSUME NEW o \in Outpoint, NEW c \in Coin, NEW skip \in BOOLEAN,
                RestoreCoin(o, c, skip)
         PROVE  IInv'
    BY Zenon, <1>2, <2>10, RestoreCoinStep
  <2>11. ASSUME NEW o \in Outpoint, NEW c \in Coin, NEW skip \in BOOLEAN,
                NEW fCoinbase \in BOOLEAN, AddOutput(o, c, fCoinbase, skip)
         PROVE  IInv'
    BY Zenon, <1>2, <2>11, AddOutputStep
  <2>12. QED
    BY Zenon, <1>2, <2>1, <2>2, <2>3, <2>4, <2>5, <2>6, <2>7, <2>8, <2>9, <2>10, <2>11 DEF Next
<1>3. QED
  BY Zenon, <1>1, <1>2

\* In every reachable state of the stack of coin views the types hold.
THEOREM TypeCorrect == Spec => []TypeOK
<1>1. IInv => TypeOK
  BY Zenon DEF IInv
<1>2. QED
  BY <1>1, IInvInductive, PTL DEF Spec

\* The DIRTY and FRESH flags of both caches never claim what is false of the
\* layer below: a clean entry equals it, a FRESH one is spent or absent there.
THEOREM FlagsAlwaysTruthful == Spec => []FlagsTruthful
<1>1. IInv => FlagsTruthful
  BY Zenon DEF IInv
<1>2. QED
  BY <1>1, IInvInductive, PTL DEF Spec

\* CCoinsViewCache::SanityCheck never aborts.
THEOREM SanityCheckHolds == Spec => []SanityCheck
<1>1. IInv => SanityCheck
  BY Zenon DEF IInv
<1>2. QED
  BY <1>1, IInvInductive, PTL DEF Spec

\* Neither std::logic_error of coins.cpp is ever thrown.
THEOREM NeverThrows == Spec => []NoLogicError
<1>1. IInv => NoLogicError
  BY Zenon DEF IInv
<1>2. QED
  BY <1>1, IInvInductive, PTL DEF Spec

\* The initial states map to initial states of the flat map.
LEMMA MapInit == Init => Map!Init
<1> SUFFICES ASSUME Init PROVE Map!Init
  BY Zenon
<1>1. \A o \in Outpoint : TipCoin(o) = db[o] /\ ViewCoin(o) = db[o]
  BY Zenon, EmptyFacts DEF Init, TipCoin, ViewCoin
<1>2. \A o \in Outpoint : db[o] \in Coin \cup {Spent}
  BY Zenon DEF Init, Spendable
<1>3. QED
  BY Zenon, <1>1, <1>2 DEF Init, Map!Init

\* Every step of the stack maps to a step of the flat map, or to a stutter.
LEMMA MapStep == IInv /\ [Next]_vars => [Map!Next]_(Map!vars)
<1> SUFFICES ASSUME IInv, [Next]_vars PROVE [Map!Next]_(Map!vars)
  BY Zenon
<1> DEFINE U == [o \in Outpoint |-> TipCoin(o)]
           S == [o \in Outpoint |-> ViewCoin(o)]
<1>0. ASSUME \A p \in Outpoint : TipCoin(p)' = TipCoin(p)
      PROVE  U' = U
  BY Zenon, <1>0
<1>1. ASSUME \A p \in Outpoint : ViewCoin(p)' = ViewCoin(p)
      PROVE  S' = S
  BY Zenon, <1>1
<1>2. ASSUME NEW o \in Outpoint, NEW c,
             \A p \in Outpoint : ViewCoin(p)' = IF p = o THEN c ELSE ViewCoin(p)
      PROVE  S' = [S EXCEPT ![o] = c]
  BY Zenon, <1>2
<1>3. CASE UNCHANGED vars
  BY Zenon, <1>3 DEF vars, Map!vars, TipCoin, ViewCoin
<1>4. CASE OpenView
  <2>1. UNCHANGED <<U, S, ret>> /\ ~open /\ open'
    BY Zenon, <1>0, <1>1, <1>4, OpenViewStep DEF OpenView
  <2>2. open' = TRUE
    BY Zenon, <1>4 DEF OpenView
  <2>3. Map!Begin
    BY Zenon, <2>1, <2>2 DEF Map!Begin
  <2>4. QED
    BY Zenon, <2>3 DEF Map!Next
<1>5. CASE FlushView
  <2>1. S' = S /\ ret' = ret /\ open
    BY Zenon, <1>1, <1>5, FlushViewStep
  <2>2. U' = S
    BY Zenon, <1>5, FlushViewStep
  <2>3. open' = FALSE
    BY Zenon, <1>5, FlushViewStep DEF IInv, TypeOK
  <2>4. Map!Commit
    BY Zenon, <2>1, <2>2, <2>3 DEF Map!Commit
  <2>5. QED
    BY Zenon, <2>4 DEF Map!Next
<1>6. CASE DropView
  <2>1. U' = U /\ S' = U
    BY Zenon, <1>0, <1>6, DropViewStep
  <2>2. open /\ open' = FALSE /\ ret' = ret
    BY Zenon, <1>6 DEF DropView
  <2>3. Map!Discard
    BY Zenon, <2>1, <2>2 DEF Map!Discard
  <2>4. QED
    BY Zenon, <2>3 DEF Map!Next
<1>7. CASE FlushTip \/ SyncTip
  <2>1. U' = U /\ S' = S
    BY Zenon, <1>0, <1>1, <1>7, WriteTipStep
  <2>2. UNCHANGED <<open, ret>>
    BY Zenon, <1>7 DEF FlushTip, SyncTip
  <2>3. QED
    BY Zenon, <2>1, <2>2 DEF Map!vars
<1>8. ASSUME NEW o \in Outpoint, GetCoin(o) PROVE Map!Next
  <2>1. U' = U /\ S' = S /\ ret' = S[o]
    BY Zenon, <1>0, <1>1, <1>8, GetCoinStep DEF GetCoin
  <2>2. open' = open
    BY Zenon, <1>8 DEF GetCoin
  <2>3. Map!Read(o)
    BY Zenon, <2>1, <2>2 DEF Map!Read
  <2>4. QED
    BY Zenon, <2>3 DEF Map!Next
<1>9. ASSUME NEW o \in Outpoint, GetTipCoin(o) PROVE Map!Next
  <2>1. U' = U /\ S' = S
    BY Zenon, <1>0, <1>1, <1>9, GetTipCoinStep
  <2>2. open' = open /\ ret' = TipCoin(o) /\ view = Empty
    BY Zenon, <1>9 DEF GetTipCoin, IInv
  <2>3. ret' = S[o]
    BY Zenon, <2>2, EmptyFacts DEF ViewCoin
  <2>4. Map!Read(o)
    BY Zenon, <2>1, <2>2, <2>3 DEF Map!Read
  <2>5. QED
    BY Zenon, <2>4 DEF Map!Next
<1>10. ASSUME NEW o \in Outpoint, SpendViewCoin(o) PROVE Map!Next
  <2>1. U' = U
    BY Zenon, <1>0, <1>10, SpendViewCoinStep
  <2>2. S' = [S EXCEPT ![o] = Spent] /\ ret' = S[o]
    BY Zenon, <1>2, <1>10, SpendViewCoinStep
  <2>3. open /\ open' = open
    BY Zenon, <1>10 DEF SpendViewCoin
  <2>4. Map!Spend(o)
    BY Zenon, <2>1, <2>2, <2>3 DEF Map!Spend
  <2>5. QED
    BY Zenon, <2>4 DEF Map!Next
<1>11. ASSUME NEW o \in Outpoint, Uncache(o) PROVE UNCHANGED Map!vars
  <2>1. U' = U /\ S' = S
    BY Zenon, <1>0, <1>1, <1>11, UncacheStep
  <2>2. UNCHANGED <<open, ret>>
    BY Zenon, <1>11 DEF Uncache
  <2>3. QED
    BY Zenon, <2>1, <2>2 DEF Map!vars
<1>12. ASSUME NEW o \in Outpoint, NEW c \in Coin,
              UNCHANGED <<open, ret>>, open,
              \A p \in Outpoint : TipCoin(p)' = TipCoin(p),
              \/ \A p \in Outpoint : ViewCoin(p)' = ViewCoin(p)
              \/ \A p \in Outpoint : ViewCoin(p)' = IF p = o THEN c ELSE ViewCoin(p)
       PROVE  [Map!Next]_(Map!vars)
  <2>1. U' = U
    BY Zenon, <1>0, <1>12
  <2>2. CASE S' = S
    BY Zenon, <1>12, <2>1, <2>2 DEF Map!vars
  <2>3. CASE S' = [S EXCEPT ![o] = c]
    <3>1. Map!Add(o, c)
      BY Zenon, <1>12, <2>1, <2>3 DEF Map!Add
    <3>2. QED
      BY Zenon, <3>1 DEF Map!Next
  <2>4. QED
    BY Zenon, <1>1, <1>2, <1>12, <2>2, <2>3
<1>13. ASSUME NEW o \in Outpoint, NEW c \in Coin, NEW skip \in BOOLEAN,
              RestoreCoin(o, c, skip)
       PROVE  [Map!Next]_(Map!vars)
  <2>1. UNCHANGED <<open, ret>> /\ open
    BY Zenon, <1>13 DEF RestoreCoin
  <2>2. QED
    BY <1>12, <1>13, <2>1, RestoreCoinStep
<1>14. ASSUME NEW o \in Outpoint, NEW c \in Coin, NEW skip \in BOOLEAN,
              NEW fCoinbase \in BOOLEAN, AddOutput(o, c, fCoinbase, skip)
       PROVE  [Map!Next]_(Map!vars)
  <2>1. UNCHANGED <<open, ret>> /\ open
    BY Zenon, <1>14 DEF AddOutput
  <2>2. QED
    BY <1>12, <1>14, <2>1, AddOutputStep
<1>15. QED
  BY Zenon, <1>3, <1>4, <1>5, <1>6, <1>7, <1>8, <1>9, <1>10, <1>11, <1>13, <1>14 DEF Next

\* The stack of views implements the flat map: callers cannot tell the caches,
\* their flags and the times of the flushes from one plain UTXO map.
THEOREM CacheImplementsMap == Spec => ImplementsCoinsMap
<1>1. Spec => Map!Spec
  BY IInvInductive, MapInit, MapStep, PTL DEF Spec, Map!Spec
<1>2. QED
  BY Zenon, <1>1 DEF ImplementsCoinsMap
=============================================================================

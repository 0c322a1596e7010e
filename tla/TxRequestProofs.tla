--------------------------- MODULE TxRequestProofs ---------------------------
(***************************************************************************)
(* TxRequestTracker implements what its header says, for any finite sets   *)
(* of peers and transactions and any salt.                                 *)
(*                                                                         *)
(* The invariant is the code's own SanityCheck: per transaction at most    *)
(* one announcement is selected, one is if any is READY, a BEST one is     *)
(* better than every READY one, and not all are COMPLETED; the counters of *)
(* a peer are what a count of its announcements gives.  After the loops of *)
(* SetTimePoint the BEST announcements are then the header's requestable   *)
(* ones.                                                                   *)
(***************************************************************************)
EXTENDS TxRequest, FiniteSetTheorems, TLAPS

States == NonCompleted \cup {"COMPLETED"}
Column == [Peer -> Announcement \cup {None}]

\* SanityCheck of one transaction.
Sane(t, c) ==
    /\ c \in Column
    /\ \A p, q \in Peer : Is(c, p, Selected) /\ Is(c, q, Selected) => p = q
    /\ \A p \in Peer : Is(c, p, {"CANDIDATE_READY"}) => \E q \in Peer : Is(c, q, Selected)
    /\ \A p, q \in Peer : Is(c, p, {"CANDIDATE_READY"}) /\ Is(c, q, {"CANDIDATE_BEST"}) => Better(t, q, p)
    /\ (\E p \in Peer : c[p] # None) => \E p \in Peer : Is(c, p, NonCompleted)

Total(p) == {t \in Tx : index[t][p] # None}
Counted(p, s) == {t \in Tx : Is(index[t], p, {s})}

\* RecomputePeerInfo.
PeerInfoExact ==
    m_peerinfo = [p \in Peer |-> [m_total |-> Cardinality(Total(p)),
                                  m_completed |-> Cardinality(Counted(p, "COMPLETED")),
                                  m_requested |-> Cardinality(Counted(p, "REQUESTED"))]]

\* TxRequestTracker::Impl::SanityCheck.
SanityCheck == PeerInfoExact /\ \A t \in Tx : Sane(t, index[t])

IInv ==
    /\ SanityCheck
    /\ index \in [Tx -> Column]
    /\ call \in Call \cup {None}
    /\ At("back") => \A t \in Tx, p \in Peer : ~DueWaiting(index[t], p)
    /\ At("request") => \A t \in call.txs : Is(index[t], call.peer, {"CANDIDATE_BEST"})

-----------------------------------------------------------------------------
(* The order of the candidates.                                            *)

\* The priorities order the peers.
LEMMA BetterOrder ==
    ASSUME NEW t \in Tx, NEW p \in Peer, NEW q \in Peer
    PROVE  /\ ~Better(t, p, p)
           /\ p # q => (Better(t, p, q) <=> ~Better(t, q, p))
           /\ \A r \in Peer : Better(t, p, q) /\ Better(t, q, r) => Better(t, p, r)
BY RankAssumption DEF Better

\* A finite set of peers has a best one: its set of better peers is the smallest.
LEMMA TopIs ==
    ASSUME NEW t \in Tx, NEW S \in SUBSET Peer, S # {}
    PROVE  Top(t, S) \in S /\ \A q \in S : ~Better(t, q, Top(t, S))
<1> DEFINE Up(p) == {q \in S : Better(t, q, p)}
<1> DEFINE F == {Up(p) : p \in S}
<1>1. IsFiniteSet(S)
  BY Zenon, PeerAssumption, FS_Subset
<1>2. F \subseteq FiniteSubsetsOf(S) /\ F # {}
  <2>1. FiniteSubsetsOf(S) = SUBSET S
    BY Zenon, <1>1, FS_FiniteSubsetsOfFinite
  <2>2. PICK p \in S : TRUE
    BY Zenon
  <2>3. Up(p) \in F /\ \A V \in F : V \in SUBSET S
    BY Zenon, <2>2
  <2> HIDE DEF F, Up
  <2> QED
    BY Zenon, <2>1, <2>3
<1>3. PICK U \in F : \A V \in F : ~(<<V, U>> \in StrictSubsetOrdering(S))
  BY Zenon, <1>2, FS_StrictSubsetOrderingWellFounded, WFMin
<1>4. PICK p \in S : U = Up(p)
  BY Zenon
<1>5. \A q \in S : ~Better(t, q, p)
  <2> SUFFICES ASSUME NEW q \in S, Better(t, q, p) PROVE FALSE
    BY Zenon
  <2>1. Up(q) \subseteq Up(p) /\ q \in Up(p) /\ q \notin Up(q)
    BY Zenon, BetterOrder
  <2>2. Up(q) \in SUBSET S /\ Up(p) \in SUBSET S /\ Up(q) \in F
    BY Zenon
  <2> HIDE DEF Up, F
  <2>3. <<Up(q), Up(p)>> \in StrictSubsetOrdering(S)
    BY Zenon, <2>1, <2>2 DEF StrictSubsetOrdering
  <2> QED
    BY Zenon, <1>3, <1>4, <2>2, <2>3
<1> QED
  BY Zenon, <1>5 DEF Top

-----------------------------------------------------------------------------
(* The helpers keep a column sane.                                         *)

\* None is no announcement, nor what the header shows of one.
LEMMA NotNone ==
    ASSUME NEW a \in Announcement PROVE a # None /\ [state |-> Kind(a.state), due |-> a.due] # None
<1>1. a.state \in NonCompleted \cup {"COMPLETED"} /\ a.due \in BOOLEAN /\ a = [state |-> a.state, due |-> a.due]
  BY Zenon DEF Announcement
<1>2. Kind(a.state) \in NonCompleted \cup {"COMPLETED", "CANDIDATE"}
  BY Zenon, <1>1 DEF Kind
<1> QED
  BY <1>1, <1>2, NoneAssumption

\* Modify changes one announcement's state.
LEMMA PutIs ==
    ASSUME NEW c \in Column, NEW p \in Peer, c[p] # None, NEW s \in States
    PROVE  /\ Put(c, p, s) \in Column
           /\ Put(c, p, s)[p] # None
           /\ Put(c, p, s)[p].state = s
           /\ Put(c, p, s)[p].due = c[p].due
           /\ \A q \in Peer : q # p => Put(c, p, s)[q] = c[q]
<1>1. c[p] \in Announcement
  BY Zenon DEF Column
<1>2. [state |-> s, due |-> c[p].due] \in Announcement
  BY Zenon, <1>1 DEF Announcement, States
<1>3. [c[p] EXCEPT !.state = s] = [state |-> s, due |-> c[p].due]
  BY <1>1 DEF Announcement
<1> QED
  BY Zenon, <1>2, <1>3, NotNone DEF Put, Column

\* The names of the states.
LEMMA StateNames ==
    /\ {"CANDIDATE_DELAYED", "CANDIDATE_READY", "CANDIDATE_BEST", "REQUESTED", "COMPLETED"} \subseteq States
    /\ States \subseteq {"CANDIDATE_DELAYED", "CANDIDATE_READY", "CANDIDATE_BEST", "REQUESTED", "COMPLETED"}
BY Zenon DEF States, NonCompleted, Waiting, Selectable

\* A candidate whose time has come leaves at most one selected announcement, the best one.
LEMMA PromoteSane ==
    ASSUME NEW t \in Tx, NEW c, Sane(t, c), NEW p \in Peer, Is(c, p, {"CANDIDATE_DELAYED"})
    PROVE  Sane(t, PromoteCandidateReady(t, c, p))
<1> DEFINE r == Put(c, p, "CANDIDATE_READY")
<1> DEFINE above == {q \in In(r, {"CANDIDATE_READY"}) : Better(t, q, p)}
<1> DEFINE best == In(r, {"CANDIDATE_BEST"})
<1>1. /\ r \in Column
      /\ r[p] # None /\ r[p].state = "CANDIDATE_READY"
      /\ \A q \in Peer : q # p => r[q] = c[q]
  <2>1. c \in Column /\ c[p] # None /\ "CANDIDATE_READY" \in States
    BY Zenon, StateNames DEF Sane, Is
  <2> QED
    BY <2>1, PutIs
<1> HIDE DEF r
<1>2. CASE above # {}
  <2>1. PromoteCandidateReady(t, c, p) = r
    BY Zenon, <1>2 DEF PromoteCandidateReady, r
  <2>2. PICK q \in Peer : Is(r, q, {"CANDIDATE_READY"}) /\ Better(t, q, p)
    BY Zenon, <1>2 DEF In
  <2>3. q # p
    BY <2>2, BetterOrder
  <2>4. Sane(t, r)
    BY <1>1, <2>2, <2>3, BetterOrder DEF Sane, Is, Selected, NonCompleted, Waiting, Selectable
  <2> QED
    BY Zenon, <2>1, <2>4
<1>3. CASE above = {} /\ In(r, Selected) = {}
  <2>1. PromoteCandidateReady(t, c, p) = Put(r, p, "CANDIDATE_BEST")
    BY Zenon, <1>3 DEF PromoteCandidateReady, r
  <2> DEFINE d == Put(r, p, "CANDIDATE_BEST")
  <2>2. /\ d \in Column
        /\ d[p] # None /\ d[p].state = "CANDIDATE_BEST"
        /\ \A q \in Peer : q # p => d[q] = r[q]
    <3>1. "CANDIDATE_READY" \in States /\ "CANDIDATE_BEST" \in States
      BY Zenon, StateNames
    <3> QED
      BY <1>1, <3>1, PutIs
  <2> HIDE DEF d
  <2>3. \A q \in Peer : q # p /\ Is(d, q, {"CANDIDATE_READY"}) => Better(t, p, q)
    BY Zenon, <1>3, <2>2, BetterOrder DEF In, Is
  <2>4. \A q \in Peer : Is(d, q, Selected) => q = p
    BY Zenon, <1>3, <2>2 DEF In, Is
  <2>5. Is(d, p, Selected) /\ Is(d, p, NonCompleted)
    BY Zenon, <2>2 DEF Is, Selected, NonCompleted, Selectable
  <2>6. \A q \in Peer : Is(d, q, {"CANDIDATE_BEST"}) => q = p
    BY Zenon, <2>4 DEF Is, Selected
  <2>7. ~Is(d, p, {"CANDIDATE_READY"})
    BY Zenon, <2>2 DEF Is
  <2>8. Sane(t, d)
    BY Zenon, <2>2, <2>3, <2>4, <2>5, <2>6, <2>7 DEF Sane
  <2> QED
    BY Zenon, <2>1, <2>8 DEF d
<1>4. CASE above = {} /\ In(r, Selected) # {} /\ best # {} /\ Better(t, p, Top(t, best))
  <2>1. best = {Top(t, best)} /\ Top(t, best) \in Peer /\ Top(t, best) # p
    <3>1. best \in SUBSET Peer
      BY Zenon DEF In
    <3>2. Top(t, best) \in best
      BY Zenon, <1>4, <3>1, TopIs
    <3>3. \A q \in best : q \in Peer /\ q # p /\ Is(c, q, Selected)
      BY Zenon, <1>1 DEF In, Is, Selected
    <3> QED
      BY Zenon, <3>2, <3>3 DEF Sane
  <2> DEFINE b == Top(t, best)
  <2> DEFINE e == Put(r, b, "CANDIDATE_READY")
  <2> DEFINE d == Put(e, p, "CANDIDATE_BEST")
  <2>2. PromoteCandidateReady(t, c, p) = d
    BY Zenon, <1>4 DEF PromoteCandidateReady, r
  <2>3. b \in Peer /\ b # p /\ r[b] # None /\ r[b].state = "CANDIDATE_BEST" /\ Better(t, p, b)
    BY Zenon, <2>1, <1>4 DEF In, Is
  <2> HIDE DEF b
  <2>4. /\ e \in Column
        /\ e[b] # None /\ e[b].state = "CANDIDATE_READY"
        /\ \A q \in Peer : q # b => e[q] = r[q]
    <3>1. "CANDIDATE_READY" \in States /\ "CANDIDATE_BEST" \in States
      BY Zenon, StateNames
    <3> QED
      BY <1>1, <2>3, <3>1, PutIs
  <2> HIDE DEF e
  <2>5. /\ d \in Column
        /\ d[p] # None /\ d[p].state = "CANDIDATE_BEST"
        /\ \A q \in Peer : q # p => d[q] = e[q]
    <3>1. "CANDIDATE_READY" \in States /\ "CANDIDATE_BEST" \in States
      BY Zenon, StateNames
    <3> QED
      BY <1>1, <2>3, <2>4, <3>1, PutIs
  <2> HIDE DEF d
  <2>6. \A q \in Peer : Is(d, q, Selected) => q = p
    <3> SUFFICES ASSUME NEW q \in Peer, q # p, Is(d, q, Selected) PROVE FALSE
      BY Zenon
    <3>1. q # b
      BY Zenon, <2>3, <2>4, <2>5 DEF Is, Selected
    <3>2. Is(c, q, Selected) /\ Is(c, b, Selected)
      BY Zenon, <1>1, <2>3, <2>4, <2>5, <3>1 DEF Is, Selected
    <3> QED
      BY Zenon, <2>3, <3>1, <3>2 DEF Sane
  <2>7. \A q \in Peer : q # p /\ Is(d, q, {"CANDIDATE_READY"}) => Better(t, p, q)
    <3> SUFFICES ASSUME NEW q \in Peer, q # p, q # b, Is(d, q, {"CANDIDATE_READY"}) PROVE Better(t, p, q)
      BY Zenon, <2>3
    <3>1. Is(r, q, {"CANDIDATE_READY"})
      BY Zenon, <2>4, <2>5 DEF Is
    <3> QED
      BY Zenon, <1>4, <3>1, BetterOrder DEF In
  <2>8. Is(d, p, Selected) /\ Is(d, p, NonCompleted) /\ ~Is(d, p, {"CANDIDATE_READY"})
    BY Zenon, <2>5 DEF Is, Selected, NonCompleted, Selectable
  <2>9. \A q \in Peer : Is(d, q, {"CANDIDATE_BEST"}) => q = p
    BY Zenon, <2>6 DEF Is, Selected
  <2>10. Sane(t, d)
    BY Zenon, <2>5, <2>6, <2>7, <2>8, <2>9 DEF Sane
  <2> QED
    BY Zenon, <2>2, <2>10
<1>5. CASE above = {} /\ In(r, Selected) # {} /\ ~(best # {} /\ Better(t, p, Top(t, best)))
  <2>1. PromoteCandidateReady(t, c, p) = r
    BY Zenon, <1>5 DEF PromoteCandidateReady, r
  <2>2. \A q \in Peer : Is(r, q, {"CANDIDATE_BEST"}) => Better(t, q, p)
    <3> SUFFICES ASSUME NEW q \in Peer, Is(r, q, {"CANDIDATE_BEST"}) PROVE Better(t, q, p)
      BY Zenon
    <3>1. best \in SUBSET Peer /\ q \in best /\ q # p
      BY Zenon, <1>1 DEF In, Is
    <3>2. Top(t, best) \in best
      BY Zenon, <3>1, TopIs
    <3>3. \A u \in best : u \in Peer /\ Is(c, u, Selected)
      BY Zenon, <1>1 DEF In, Is, Selected
    <3>4. Top(t, best) = q
      BY Zenon, <3>1, <3>2, <3>3 DEF Sane
    <3> QED
      BY Zenon, <1>5, <3>1, <3>4, BetterOrder
  <2>3. PICK u \in Peer : Is(r, u, Selected)
    BY Zenon, <1>5 DEF In
  <2>4. \A q \in Peer : Is(r, q, Selected) => Is(c, q, Selected)
    BY Zenon, <1>1 DEF Is, Selected
  <2>5. \A q, v \in Peer : Is(r, q, {"CANDIDATE_READY"}) /\ Is(r, v, {"CANDIDATE_BEST"}) => Better(t, v, q)
    BY Zenon, <1>1, <2>2 DEF Sane, Is
  <2>6. Is(r, p, NonCompleted)
    BY Zenon, <1>1 DEF Is, NonCompleted, Selectable
  <2>7. Sane(t, r)
    BY Zenon, <1>1, <2>3, <2>4, <2>5, <2>6 DEF Sane
  <2> QED
    BY Zenon, <2>1, <2>7
<1> QED
  BY Zenon, <1>2, <1>3, <1>4, <1>5

\* When the selected announcement goes, the best of the READY ones is selected.
LEMMA ReselectSane ==
    ASSUME NEW t \in Tx, NEW c, Sane(t, c), NEW p \in Peer, Is(c, p, NonCompleted),
           NEW new \in {"COMPLETED", "CANDIDATE_DELAYED"},
           new = "COMPLETED" => In(c, NonCompleted) # {p}
    PROVE  /\ Sane(t, ChangeAndReselect(t, c, p, new))
           /\ Is(ChangeAndReselect(t, c, p, new), p, {new})
<1> DEFINE ready == In(c, {"CANDIDATE_READY"})
<1> DEFINE w == Top(t, ready)
<1> DEFINE e == Put(c, w, "CANDIDATE_BEST")
<1>0. c \in Column /\ c[p] # None /\ new \in States /\ "CANDIDATE_BEST" \in States
  BY Zenon, StateNames DEF Sane, Is
<1>1. CASE Is(c, p, Selected) /\ ready # {}
  <2>1. ready \in SUBSET Peer
    BY Zenon DEF In
  <2>2. w \in ready /\ \A q \in ready : ~Better(t, q, w)
    BY Zenon, <1>1, <2>1, TopIs
  <2>3. w \in Peer /\ w # p /\ c[w] # None
    BY Zenon, <1>1, <2>2 DEF In, Is, Selected
  <2> DEFINE d == Put(e, p, new)
  <2>4. ChangeAndReselect(t, c, p, new) = d
    BY Zenon, <1>1 DEF ChangeAndReselect
  <2>5. \A q \in Peer : Is(c, q, {"CANDIDATE_READY"}) /\ q # w => Better(t, w, q)
    BY Zenon, <2>2, <2>3, BetterOrder DEF In
  <2> HIDE DEF w
  <2>6. /\ e \in Column
        /\ e[w] # None /\ e[w].state = "CANDIDATE_BEST"
        /\ \A q \in Peer : q # w => e[q] = c[q]
    BY <1>0, <2>3, PutIs
  <2> HIDE DEF e
  <2>7. /\ d \in Column
        /\ d[p] # None /\ d[p].state = new
        /\ \A q \in Peer : q # p => d[q] = e[q]
    BY <1>0, <2>3, <2>6, PutIs
  <2> HIDE DEF d
  <2>8. Is(d, w, Selected) /\ Is(d, w, NonCompleted) /\ ~Is(d, w, {"CANDIDATE_READY"})
    BY Zenon, <2>3, <2>6, <2>7 DEF Is, Selected, NonCompleted, Selectable
  <2>9. \A q \in Peer : Is(d, q, Selected) => q = w
    <3> SUFFICES ASSUME NEW q \in Peer, Is(d, q, Selected), q # w PROVE FALSE
      BY Zenon
    <3>1. q # p
      BY Zenon, <2>7 DEF Is, Selected
    <3>2. Is(c, q, Selected)
      BY Zenon, <2>6, <2>7, <3>1 DEF Is
    <3> QED
      BY Zenon, <1>1, <3>1, <3>2 DEF Sane
  <2>10. \A q \in Peer : Is(d, q, {"CANDIDATE_BEST"}) => q = w
    BY Zenon, <2>9 DEF Is, Selected
  <2>11. \A q \in Peer : Is(d, q, {"CANDIDATE_READY"}) => Better(t, w, q)
    <3> SUFFICES ASSUME NEW q \in Peer, Is(d, q, {"CANDIDATE_READY"}) PROVE Better(t, w, q)
      BY Zenon
    <3>1. q # w /\ q # p
      BY Zenon, <2>7, <2>8 DEF Is
    <3> QED
      BY Zenon, <2>5, <2>6, <2>7, <3>1 DEF Is
  <2> QED
    BY Zenon, <2>3, <2>4, <2>7, <2>8, <2>9, <2>10, <2>11 DEF Sane, Is
<1>2. CASE ~(Is(c, p, Selected) /\ ready # {})
  <2> DEFINE d == Put(c, p, new)
  <2>1. ChangeAndReselect(t, c, p, new) = d
    BY Zenon, <1>2 DEF ChangeAndReselect
  <2>2. /\ d \in Column
        /\ d[p] # None /\ d[p].state = new
        /\ \A q \in Peer : q # p => d[q] = c[q]
    BY <1>0, PutIs
  <2> HIDE DEF d
  <2>3. /\ ~Is(d, p, Selected) /\ ~Is(d, p, {"CANDIDATE_READY"}) /\ ~Is(d, p, {"CANDIDATE_BEST"})
        /\ \A q \in Peer : q # p => \A S : Is(d, q, S) <=> Is(c, q, S)
    BY Zenon, <2>2 DEF Is, Selected
  <2>4. \A q \in Peer : Is(d, q, {"CANDIDATE_READY"}) => \E u \in Peer : Is(d, u, Selected)
    <3> SUFFICES ASSUME NEW q \in Peer, Is(d, q, {"CANDIDATE_READY"}) PROVE \E u \in Peer : Is(d, u, Selected)
      BY Zenon
    <3>1. Is(c, q, {"CANDIDATE_READY"})
      BY Zenon, <2>3
    <3>2. ~Is(c, p, Selected)
      BY Zenon, <1>2, <3>1 DEF In
    <3> QED
      BY Zenon, <2>3, <3>1, <3>2 DEF Sane
  <2>5. \E q \in Peer : Is(d, q, NonCompleted)
    <3>1. CASE new = "COMPLETED"
      <4>1. PICK q \in Peer : q # p /\ Is(c, q, NonCompleted)
        BY Zenon, <3>1 DEF In
      <4> QED
        BY Zenon, <2>3, <4>1
    <3>2. CASE new = "CANDIDATE_DELAYED"
      BY Zenon, <2>2, <3>2 DEF Is, NonCompleted, Waiting
    <3> QED
      BY Zenon, <3>1, <3>2
  <2>6. Sane(t, d)
    BY Zenon, <2>2, <2>3, <2>4, <2>5 DEF Sane
  <2> QED
    BY Zenon, <2>1, <2>2, <2>6 DEF Is
<1> QED
  BY Zenon, <1>1, <1>2

\* An emptied column is sane.
LEMMA EmptySane == ASSUME NEW t \in Tx PROVE Sane(t, Empty) /\ \A p \in Peer : Empty[p] = None
BY Zenon DEF Sane, Empty, Column, Is

\* A failed or finished announcement hands over to the next best, or takes the last of its kind along.
LEMMA CompletedSane ==
    ASSUME NEW t \in Tx, NEW c, Sane(t, c), NEW p \in Peer, c[p] # None
    PROVE  /\ Sane(t, MakeCompleted(t, c, p))
           /\ MakeCompleted(t, c, p)[p] = None \/ Is(MakeCompleted(t, c, p), p, {"COMPLETED"})
<1>1. CASE Is(c, p, {"COMPLETED"})
  BY Zenon, <1>1 DEF MakeCompleted
<1>2. CASE ~Is(c, p, {"COMPLETED"}) /\ In(c, NonCompleted) = {p}
  BY Zenon, <1>2, EmptySane DEF MakeCompleted, IsOnlyNonCompleted
<1>3. CASE ~Is(c, p, {"COMPLETED"}) /\ In(c, NonCompleted) # {p}
  <2>1. c[p] \in Announcement
    BY Zenon DEF Sane, Column
  <2>2. Is(c, p, NonCompleted)
    BY Zenon, <1>3, <2>1 DEF Is, Announcement
  <2>3. MakeCompleted(t, c, p) = ChangeAndReselect(t, c, p, "COMPLETED")
    BY Zenon, <1>3 DEF MakeCompleted, IsOnlyNonCompleted
  <2> QED
    BY Zenon, <1>3, <2>2, <2>3, ReselectSane
<1> QED
  BY Zenon, <1>1, <1>2, <1>3

\* DisconnectedPeer erases what is completed.
LEMMA RemovedSane ==
    ASSUME NEW t \in Tx, NEW c, Sane(t, c), NEW p \in Peer, c[p] # None
    PROVE  Sane(t, [MakeCompleted(t, c, p) EXCEPT ![p] = None])
<1> DEFINE m == MakeCompleted(t, c, p)
<1> DEFINE d == [m EXCEPT ![p] = None]
<1>1. Sane(t, m) /\ (m[p] = None \/ Is(m, p, {"COMPLETED"}))
  BY Zenon, CompletedSane
<1> HIDE DEF m
<1>2. d \in Column /\ d[p] = None /\ \A q \in Peer : q # p => d[q] = m[q]
  BY Zenon, <1>1 DEF Sane, Column
<1> HIDE DEF d
<1>3. /\ \A S : ~Is(d, p, S)
      /\ \A q \in Peer : q # p => \A S : Is(d, q, S) <=> Is(m, q, S)
      /\ ~Is(m, p, Selected) /\ ~Is(m, p, NonCompleted)
  BY Zenon, <1>1, <1>2 DEF Is, Selected, NonCompleted, Waiting, Selectable
<1>4. Sane(t, d)
  BY <1>1, <1>2, <1>3 DEF Sane
<1> QED
  BY Zenon, <1>4 DEF m, d

\* A request takes the place of whatever was selected.
LEMMA RequestedSane ==
    ASSUME NEW t \in Tx, NEW c, Sane(t, c), NEW p \in Peer, Is(c, p, Candidate)
    PROVE  Sane(t, Requested(t, c, p))
<1> DEFINE d == Requested(t, c, p)
<1>1. /\ d[p] = [state |-> "REQUESTED", due |-> FALSE]
      /\ \A q \in Peer : q # p => d[q] =
             IF Is(c, p, {"CANDIDATE_BEST"}) THEN c[q]
             ELSE IF Is(c, q, {"CANDIDATE_BEST"}) THEN Put(c, q, "CANDIDATE_READY")[q]
             ELSE IF Is(c, q, {"REQUESTED"}) THEN Put(c, q, "COMPLETED")[q]
             ELSE c[q]
      /\ d = [q \in Peer |-> d[q]]
  <2>1. c = [q \in Peer |-> c[q]]
    BY Zenon DEF Sane, Column
  <2>2. \A q \in Peer : \A s : Put(c, q, s)[q] = [c[q] EXCEPT !.state = s]
    BY Zenon, <2>1 DEF Put
  <2> QED
    BY Zenon, <2>2 DEF Requested
<1> HIDE DEF d
<1>2. d[p] \in Announcement
  BY <1>1 DEF Announcement, NonCompleted, Waiting
<1>3. \A q \in Peer : q # p => d[q] \in Announcement \cup {None}
  <2> SUFFICES ASSUME NEW q \in Peer, q # p PROVE d[q] \in Announcement \cup {None}
    BY Zenon
  <2>1. c \in Column /\ "CANDIDATE_READY" \in States /\ "COMPLETED" \in States
    BY Zenon, StateNames DEF Sane
  <2>2. c[q] # None => /\ Put(c, q, "CANDIDATE_READY") \in Column
                       /\ Put(c, q, "COMPLETED") \in Column
    BY Zenon, <2>1, PutIs
  <2> QED
    BY Zenon, <1>1, <2>1, <2>2 DEF Column, Is
<1>4. d \in Column
  BY Zenon, <1>1, <1>2, <1>3 DEF Column
<1>5. Is(d, p, {"REQUESTED"}) /\ Is(d, p, Selected) /\ Is(d, p, NonCompleted)
  <2>1. d[p] # None
    BY Zenon, <1>2, NotNone
  <2>2. d[p].state = "REQUESTED"
    BY <1>1
  <2> QED
    BY Zenon, <2>1, <2>2 DEF Is, Selected, NonCompleted, Waiting
<1>6. \A q \in Peer : q # p => ~Is(d, q, Selected)
  <2> SUFFICES ASSUME NEW q \in Peer, q # p PROVE ~Is(d, q, Selected)
    BY Zenon
  <2>1. CASE Is(c, p, {"CANDIDATE_BEST"})
    BY Zenon, <1>1, <2>1 DEF Is, Selected, Sane
  <2>2. CASE ~Is(c, p, {"CANDIDATE_BEST"})
    <3>1. c \in Column /\ "CANDIDATE_READY" \in States /\ "COMPLETED" \in States
      BY Zenon, StateNames DEF Sane
    <3>2. c[q] # None => /\ Put(c, q, "CANDIDATE_READY")[q].state = "CANDIDATE_READY"
                         /\ Put(c, q, "COMPLETED")[q].state = "COMPLETED"
      BY <3>1, PutIs
    <3> QED
      BY Zenon, <1>1, <2>2, <3>2 DEF Is, Selected
  <2> QED
    BY Zenon, <2>1, <2>2
<1>7. \A q \in Peer : ~Is(d, q, {"CANDIDATE_BEST"})
  BY Zenon, <1>5, <1>6 DEF Is, Selected
<1>8. Sane(t, d)
  BY Zenon, <1>4, <1>5, <1>6, <1>7 DEF Sane
<1> QED
  BY Zenon, <1>8 DEF d

-----------------------------------------------------------------------------
(* What the header shows of the helpers' work.                             *)

ShownCol(c) == [p \in Peer |-> Shown(c[p])]

\* What the header sees of an announcement.
LEMMA ShownIs ==
    ASSUME NEW c \in Column, NEW p \in Peer
    PROVE  /\ ShownCol(c)[p] = Shown(c[p])
           /\ ShownCol(c)[p] = None <=> c[p] = None
           /\ c[p] # None => ShownCol(c)[p].due = c[p].due
           /\ c[p] # None => ShownCol(c)[p] = [state |-> Kind(c[p].state), due |-> c[p].due]
           /\ Header!Is(ShownCol(c), p, {"CANDIDATE"}) <=> Is(c, p, Candidate)
           /\ Header!Is(ShownCol(c), p, {"REQUESTED"}) <=> Is(c, p, {"REQUESTED"})
           /\ Header!Is(ShownCol(c), p, {"CANDIDATE", "REQUESTED"}) <=> Is(c, p, NonCompleted)
<1>1. ShownCol(c)[p] = Shown(c[p])
  BY Zenon DEF ShownCol
<1>2. CASE c[p] = None
  BY Zenon, <1>1, <1>2 DEF Shown, Is, Header!Is
<1>3. CASE c[p] # None
  <2>1. c[p] \in Announcement
    BY Zenon, <1>3 DEF Column
  <2>2. c[p].state \in NonCompleted \cup {"COMPLETED"}
    BY Zenon, <2>1 DEF Announcement
  <2>3. Shown(c[p]) = [state |-> Kind(c[p].state), due |-> c[p].due] /\ Shown(c[p]) # None
    BY Zenon, <1>3, <2>1, NotNone DEF Shown
  <2>4. /\ Kind(c[p].state) = "CANDIDATE" <=> c[p].state \in Candidate
        /\ Kind(c[p].state) = "REQUESTED" <=> c[p].state = "REQUESTED"
        /\ Kind(c[p].state) \in {"CANDIDATE", "REQUESTED"} <=> c[p].state \in NonCompleted
    BY Zenon, <2>2 DEF Kind, Candidate, NonCompleted, Waiting, Selectable
  <2> QED
    BY <1>1, <1>3, <2>3, <2>4 DEF Is, Header!Is
<1> QED
  BY Zenon, <1>2, <1>3

\* A change among the three candidate states is invisible.
LEMMA ShownPut ==
    ASSUME NEW c \in Column, NEW p \in Peer, Is(c, p, Candidate), NEW s \in Candidate
    PROVE  /\ ShownCol(Put(c, p, s)) = ShownCol(c)
           /\ Put(c, p, s) \in Column
           /\ \A q \in Peer : Is(Put(c, p, s), q, Candidate) <=> Is(c, q, Candidate)
           /\ \A q \in Peer : q # p => Put(c, p, s)[q] = c[q]
<1> DEFINE d == Put(c, p, s)
<1>1. s \in States
  BY Zenon, StateNames DEF Candidate, Selectable
<1>2. /\ d \in Column /\ d[p] # None /\ d[p].state = s /\ d[p].due = c[p].due
      /\ \A q \in Peer : q # p => d[q] = c[q]
  BY <1>1, PutIs DEF Is
<1> HIDE DEF d
<1>3. Shown(d[p]) = Shown(c[p])
  BY Zenon, <1>2 DEF Shown, Kind, Is
<1>4. \A q \in Peer : Shown(d[q]) = Shown(c[q])
  BY Zenon, <1>2, <1>3
<1>5. ShownCol(d) = ShownCol(c)
  BY Zenon, <1>4 DEF ShownCol
<1> QED
  BY Zenon, <1>2, <1>5 DEF d, Is

\* A failed announcement shows as COMPLETED.
LEMMA ShownFailed ==
    ASSUME NEW c \in Column, NEW p \in Peer, c[p] # None
    PROVE  ShownCol(Put(c, p, "COMPLETED")) = [ShownCol(c) EXCEPT ![p].state = "COMPLETED"]
<1> DEFINE d == Put(c, p, "COMPLETED")
<1>1. /\ d \in Column /\ d[p] # None /\ d[p].state = "COMPLETED" /\ d[p].due = c[p].due
      /\ \A q \in Peer : q # p => d[q] = c[q]
  BY StateNames, PutIs
<1> HIDE DEF d
<1>2. Shown(d[p]) = [state |-> "COMPLETED", due |-> c[p].due]
  BY Zenon, <1>1 DEF Shown, Kind, Candidate, Selectable
<1>3. ShownCol(c)[p] = [state |-> Kind(c[p].state), due |-> c[p].due]
  BY Zenon, ShownIs
<1>4. [ShownCol(c)[p] EXCEPT !.state = "COMPLETED"] = [state |-> "COMPLETED", due |-> c[p].due]
  BY <1>3
<1>5. ShownCol(d) = [ShownCol(c) EXCEPT ![p].state = "COMPLETED"]
  BY Zenon, <1>1, <1>2, <1>4 DEF ShownCol
<1> QED
  BY Zenon, <1>5 DEF d

\* A candidate whose time has come stays a candidate.
LEMMA PromoteShown ==
    ASSUME NEW t \in Tx, NEW c \in Column, NEW p \in Peer, Is(c, p, {"CANDIDATE_DELAYED"})
    PROVE  ShownCol(PromoteCandidateReady(t, c, p)) = ShownCol(c)
<1> DEFINE r == Put(c, p, "CANDIDATE_READY")
<1> DEFINE best == In(r, {"CANDIDATE_BEST"})
<1> DEFINE b == Top(t, best)
<1>0. "CANDIDATE_READY" \in Candidate /\ "CANDIDATE_BEST" \in Candidate /\ Is(c, p, Candidate)
  BY Zenon DEF Candidate, Selectable, Is
<1>1. ShownCol(r) = ShownCol(c) /\ r \in Column /\ Is(r, p, Candidate)
  BY Zenon, <1>0, ShownPut
<1> HIDE DEF r
<1>2. ShownCol(Put(r, p, "CANDIDATE_BEST")) = ShownCol(c)
  BY Zenon, <1>0, <1>1, ShownPut
<1>3. ASSUME best # {} PROVE ShownCol(Put(Put(r, b, "CANDIDATE_READY"), p, "CANDIDATE_BEST")) = ShownCol(c)
  <2>1. b \in best
    BY Zenon, <1>3, TopIs DEF In
  <2>2. b \in Peer /\ Is(r, b, Candidate)
    BY Zenon, <2>1 DEF In, Is, Candidate, Selectable
  <2> HIDE DEF b
  <2>3. /\ ShownCol(Put(r, b, "CANDIDATE_READY")) = ShownCol(c)
        /\ Put(r, b, "CANDIDATE_READY") \in Column
        /\ Is(Put(r, b, "CANDIDATE_READY"), p, Candidate)
    BY Zenon, <1>0, <1>1, <2>2, ShownPut
  <2> QED
    BY Zenon, <1>0, <2>3, ShownPut
<1> QED
  BY Zenon, <1>1, <1>2, <1>3 DEF PromoteCandidateReady, r

\* ... and so does the one that is selected when another goes.
LEMMA ReselectShown ==
    ASSUME NEW t \in Tx, NEW c \in Column, NEW p \in Peer, Is(c, p, NonCompleted)
    PROVE  /\ Is(c, p, Candidate) =>
                 ShownCol(ChangeAndReselect(t, c, p, "CANDIDATE_DELAYED")) = ShownCol(c)
           /\ ShownCol(ChangeAndReselect(t, c, p, "COMPLETED")) = [ShownCol(c) EXCEPT ![p].state = "COMPLETED"]
<1> DEFINE ready == In(c, {"CANDIDATE_READY"})
<1> DEFINE e == IF Is(c, p, Selected) /\ ready # {} THEN Put(c, Top(t, ready), "CANDIDATE_BEST") ELSE c
<1>0. "CANDIDATE_DELAYED" \in Candidate /\ "CANDIDATE_BEST" \in Candidate
  BY Zenon DEF Candidate, Selectable
<1>1. /\ e \in Column /\ ShownCol(e) = ShownCol(c)
      /\ Is(e, p, Candidate) <=> Is(c, p, Candidate)
      /\ e[p] # None
  <2>1. CASE Is(c, p, Selected) /\ ready # {}
    <3>1. Top(t, ready) \in ready
      BY Zenon, <2>1, TopIs DEF In
    <3>2. Top(t, ready) \in Peer /\ Is(c, Top(t, ready), Candidate) /\ Top(t, ready) # p
      BY Zenon, <2>1, <3>1 DEF In, Is, Candidate, Selectable, Selected
    <3> HIDE DEF ready
    <3> QED
      BY <1>0, <2>1, <3>2, ShownPut DEF Is
  <2>2. CASE ~(Is(c, p, Selected) /\ ready # {})
    BY Zenon, <2>2 DEF Is
  <2> QED
    BY Zenon, <2>1, <2>2
<1>2. \A new : ChangeAndReselect(t, c, p, new) = Put(e, p, new)
  BY Zenon DEF ChangeAndReselect
<1> HIDE DEF e
<1> QED
  BY <1>0, <1>1, <1>2, ShownPut, ShownFailed

\* MakeCompleted is the header's COMPLETED, with the forgetting of what has only failed.
LEMMA CompletedShown ==
    ASSUME NEW t \in Tx, NEW c \in Column, NEW p \in Peer, Is(c, p, NonCompleted)
    PROVE  ShownCol(MakeCompleted(t, c, p)) = Header!Kept([ShownCol(c) EXCEPT ![p].state = "COMPLETED"])
<1> DEFINE f == Put(c, p, "COMPLETED")
<1>1. /\ f \in Column /\ f[p] # None /\ f[p].state = "COMPLETED"
      /\ \A q \in Peer : q # p => f[q] = c[q]
  BY StateNames, PutIs DEF Is
<1>2. ShownCol(f) = [ShownCol(c) EXCEPT ![p].state = "COMPLETED"]
  BY Zenon, ShownFailed DEF Is
<1> HIDE DEF f
<1>3. ~Is(c, p, {"COMPLETED"})
  BY Zenon DEF Is, NonCompleted, Waiting, Selectable
<1>4. (\E q \in Peer : Header!Is(ShownCol(f), q, {"CANDIDATE", "REQUESTED"})) <=> In(c, NonCompleted) # {p}
  <2>1. \A q \in Peer : Header!Is(ShownCol(f), q, {"CANDIDATE", "REQUESTED"}) <=> Is(f, q, NonCompleted)
    BY Zenon, <1>1, ShownIs
  <2>2. \A q \in Peer : Is(f, q, NonCompleted) <=> q # p /\ Is(c, q, NonCompleted)
    BY Zenon, <1>1 DEF Is, NonCompleted, Waiting, Selectable
  <2> QED
    BY Zenon, <2>1, <2>2 DEF In
<1>5. CASE In(c, NonCompleted) = {p}
  <2>1. MakeCompleted(t, c, p) = Empty
    BY Zenon, <1>3, <1>5 DEF MakeCompleted, IsOnlyNonCompleted
  <2>2. ShownCol(Empty) = [q \in Peer |-> None]
    BY Zenon DEF ShownCol, Empty, Shown
  <2> QED
    BY Zenon, <1>2, <1>4, <1>5, <2>1, <2>2 DEF Header!Kept
<1>6. CASE In(c, NonCompleted) # {p}
  <2>1. ShownCol(MakeCompleted(t, c, p)) = ShownCol(f)
    BY <1>2, <1>3, <1>6, ReselectShown DEF MakeCompleted, IsOnlyNonCompleted
  <2> QED
    BY Zenon, <1>2, <1>4, <1>6, <2>1 DEF Header!Kept
<1> QED
  BY Zenon, <1>5, <1>6

\* DisconnectedPeer drops the announcement, with the same forgetting.
LEMMA RemovedShown ==
    ASSUME NEW t \in Tx, NEW c, Sane(t, c), NEW p \in Peer, c[p] # None
    PROVE  ShownCol([MakeCompleted(t, c, p) EXCEPT ![p] = None]) = Header!Kept([ShownCol(c) EXCEPT ![p] = None])
<1> DEFINE g == [c EXCEPT ![p] = None]
<1>0. c \in Column
  BY Zenon DEF Sane
<1>1. g \in Column /\ g[p] = None /\ \A q \in Peer : q # p => g[q] = c[q]
  BY Zenon, <1>0 DEF Column
<1>2. \A x \in Column : ShownCol([x EXCEPT ![p] = None]) = [ShownCol(x) EXCEPT ![p] = None]
  BY Zenon DEF ShownCol, Shown, Column
<1>3. ShownCol(g) = [ShownCol(c) EXCEPT ![p] = None]
  BY Zenon, <1>0, <1>2
<1> HIDE DEF g
<1>4. \A q \in Peer : Header!Is(ShownCol(g), q, {"CANDIDATE", "REQUESTED"}) <=> q # p /\ Is(c, q, NonCompleted)
  <2>1. \A q \in Peer : Header!Is(ShownCol(g), q, {"CANDIDATE", "REQUESTED"}) <=> Is(g, q, NonCompleted)
    BY Zenon, <1>1, ShownIs
  <2> QED
    BY Zenon, <1>1, <2>1 DEF Is
<1> DEFINE m == MakeCompleted(t, c, p)
<1>5. CASE Is(c, p, NonCompleted) /\ In(c, NonCompleted) = {p}
  <2>1. m = Empty
    BY Zenon, <1>5 DEF MakeCompleted, IsOnlyNonCompleted, Is, NonCompleted, Waiting, Selectable
  <2>2. ShownCol([Empty EXCEPT ![p] = None]) = [q \in Peer |-> None]
    BY Zenon DEF ShownCol, Empty, Shown
  <2>3. \A q \in Peer : ~Header!Is(ShownCol(g), q, {"CANDIDATE", "REQUESTED"})
    BY Zenon, <1>4, <1>5 DEF In
  <2> QED
    BY Zenon, <1>3, <2>1, <2>2, <2>3 DEF Header!Kept
<1>6. CASE ~(Is(c, p, NonCompleted) /\ In(c, NonCompleted) = {p})
  <2>1. \E q \in Peer : Header!Is(ShownCol(g), q, {"CANDIDATE", "REQUESTED"})
    BY Zenon, <1>4, <1>6 DEF In, Sane
  <2>2. Header!Kept([ShownCol(c) EXCEPT ![p] = None]) = [ShownCol(c) EXCEPT ![p] = None]
    BY Zenon, <1>3, <2>1 DEF Header!Kept
  <2>3. m \in Column
    BY Zenon, CompletedSane DEF Sane
  <2>4. \A q \in Peer : q # p => ShownCol(m)[q] = ShownCol(c)[q]
    <3>1. CASE Is(c, p, {"COMPLETED"})
      BY Zenon, <3>1 DEF MakeCompleted
    <3>2. CASE ~Is(c, p, {"COMPLETED"})
      <4>1. Is(c, p, NonCompleted)
        BY Zenon, <1>0, <3>2 DEF Is, Column, Announcement
      <4>2. m = ChangeAndReselect(t, c, p, "COMPLETED")
        BY Zenon, <1>6, <3>2, <4>1 DEF MakeCompleted, IsOnlyNonCompleted
      <4>3. ShownCol(m) = [ShownCol(c) EXCEPT ![p].state = "COMPLETED"]
        BY <1>0, <4>1, <4>2, ReselectShown
      <4> HIDE DEF m
      <4> QED
        BY Zenon, <4>3 DEF ShownCol
    <3> QED
      BY Zenon, <3>1, <3>2
  <2> HIDE DEF m
  <2>5. [ShownCol(m) EXCEPT ![p] = None] = [ShownCol(c) EXCEPT ![p] = None]
    BY Zenon, <2>4 DEF ShownCol
  <2>6. ShownCol([m EXCEPT ![p] = None]) = [ShownCol(c) EXCEPT ![p] = None]
    BY Zenon, <1>2, <2>3, <2>5
  <2> QED
    BY Zenon, <2>2, <2>6 DEF m
<1> QED
  BY Zenon, <1>5, <1>6

\* RequestedTx is the header's.
LEMMA RequestedShown ==
    ASSUME NEW t \in Tx, NEW c, Sane(t, c), NEW p \in Peer, Is(c, p, Candidate)
    PROVE  ShownCol(Requested(t, c, p)) =
             [q \in Peer |-> IF q = p THEN [state |-> "REQUESTED", due |-> FALSE]
                             ELSE IF Header!Is(ShownCol(c), q, {"REQUESTED"})
                                  THEN [ShownCol(c)[q] EXCEPT !.state = "COMPLETED"]
                             ELSE ShownCol(c)[q]]
<1> DEFINE d == Requested(t, c, p)
<1>0. c \in Column
  BY Zenon DEF Sane
<1>1. /\ d[p] = [state |-> "REQUESTED", due |-> FALSE]
      /\ \A q \in Peer : q # p => d[q] =
             IF Is(c, p, {"CANDIDATE_BEST"}) THEN c[q]
             ELSE IF Is(c, q, {"CANDIDATE_BEST"}) THEN [c[q] EXCEPT !.state = "CANDIDATE_READY"]
             ELSE IF Is(c, q, {"REQUESTED"}) THEN [c[q] EXCEPT !.state = "COMPLETED"]
             ELSE c[q]
  BY Zenon DEF Requested
<1> HIDE DEF d
<1>2. Shown(d[p]) = [state |-> "REQUESTED", due |-> FALSE]
  <2>1. d[p] \in Announcement
    BY <1>1 DEF Announcement, NonCompleted, Waiting
  <2>2. d[p] # None
    BY Zenon, <2>1, NotNone
  <2>3. d[p].state = "REQUESTED" /\ d[p].due = FALSE
    BY <1>1
  <2> QED
    BY Zenon, <2>2, <2>3 DEF Shown, Kind, Candidate, Selectable
<1>3. ASSUME NEW q \in Peer, q # p
      PROVE  Shown(d[q]) = IF Header!Is(ShownCol(c), q, {"REQUESTED"})
                           THEN [ShownCol(c)[q] EXCEPT !.state = "COMPLETED"] ELSE ShownCol(c)[q]
  <2>0. ShownCol(c)[q] = Shown(c[q]) /\ (Header!Is(ShownCol(c), q, {"REQUESTED"}) <=> Is(c, q, {"REQUESTED"}))
    BY Zenon, <1>0, ShownIs
  <2>1. CASE Is(c, q, {"REQUESTED"})
    <3>1. ~Is(c, p, {"CANDIDATE_BEST"})
      BY Zenon, <2>1, <1>3 DEF Sane, Is, Selected
    <3>2. d[q] = Put(c, q, "COMPLETED")[q]
      BY Zenon, <1>0, <1>1, <1>3, <2>1, <3>1 DEF Put, Column, Is
    <3>3. ShownCol(Put(c, q, "COMPLETED")) = [ShownCol(c) EXCEPT ![q].state = "COMPLETED"]
      BY Zenon, <1>0, <2>1, ShownFailed DEF Is
    <3>4. Shown(d[q]) = ShownCol(Put(c, q, "COMPLETED"))[q]
      BY Zenon, <3>2 DEF ShownCol
    <3>5. Shown(d[q]) = [ShownCol(c)[q] EXCEPT !.state = "COMPLETED"]
      BY Zenon, <3>3, <3>4 DEF ShownCol
    <3> QED
      BY Zenon, <2>0, <2>1, <3>5
  <2>2. CASE ~Is(c, q, {"REQUESTED"}) /\ Is(c, q, {"CANDIDATE_BEST"}) /\ ~Is(c, p, {"CANDIDATE_BEST"})
    <3>1. d[q] = Put(c, q, "CANDIDATE_READY")[q]
      BY Zenon, <1>0, <1>1, <1>3, <2>2 DEF Put, Column, Is
    <3>2. Is(c, q, Candidate) /\ "CANDIDATE_READY" \in Candidate
      BY Zenon, <2>2 DEF Is, Candidate, Selectable
    <3>3. ShownCol(Put(c, q, "CANDIDATE_READY")) = ShownCol(c)
      BY Zenon, <1>0, <3>2, ShownPut
    <3>4. Shown(d[q]) = ShownCol(Put(c, q, "CANDIDATE_READY"))[q]
      BY Zenon, <3>1 DEF ShownCol
    <3> QED
      BY Zenon, <2>0, <2>2, <3>3, <3>4
  <2>3. CASE ~Is(c, q, {"REQUESTED"}) /\ (Is(c, q, {"CANDIDATE_BEST"}) => Is(c, p, {"CANDIDATE_BEST"}))
    <3>1. d[q] = c[q]
      BY Zenon, <1>1, <1>3, <2>3
    <3> QED
      BY Zenon, <2>0, <2>3, <3>1
  <2> QED
    BY Zenon, <2>1, <2>2, <2>3
<1> QED
  BY Zenon, <1>2, <1>3 DEF ShownCol, d

-----------------------------------------------------------------------------
(* The counters of m_peerinfo.                                             *)

\* Two sets of transactions that differ in one at most.
LEMMA CountOne ==
    ASSUME NEW t \in Tx, NEW A \in SUBSET Tx, NEW B \in SUBSET Tx, A \ {t} = B \ {t}
    PROVE  /\ Cardinality(A) \in Nat /\ Cardinality(B) \in Nat
           /\ Cardinality(B) = Cardinality(A) + One(t \in B) - One(t \in A)
<1>1. IsFiniteSet(A) /\ IsFiniteSet(B)
  BY Zenon, PeerAssumption, FS_Subset
<1>2. Cardinality(A) \in Nat /\ Cardinality(B) \in Nat
  BY Zenon, <1>1, FS_CardinalityType
<1>3. Cardinality(A \ {t}) = IF t \in A THEN Cardinality(A) - 1 ELSE Cardinality(A)
  BY Zenon, <1>1, FS_RemoveElement
<1>4. Cardinality(B \ {t}) = IF t \in B THEN Cardinality(B) - 1 ELSE Cardinality(B)
  BY Zenon, <1>1, FS_RemoveElement
<1>5. Cardinality(A \ {t}) = Cardinality(B \ {t})
  BY Zenon
<1>6. (IF t \in A THEN Cardinality(A) - 1 ELSE Cardinality(A)) = (IF t \in B THEN Cardinality(B) - 1 ELSE Cardinality(B))
  BY Zenon, <1>3, <1>4, <1>5
<1> QED
  BY <1>2, <1>6 DEF One

\* The sets counted are sets of transactions, and their numbers naturals.
LEMMA CountNat ==
    ASSUME NEW p \in Peer
    PROVE  /\ Cardinality(Total(p)) \in Nat
           /\ \A s : Cardinality(Counted(p, s)) \in Nat
<1>1. Total(p) \in SUBSET Tx /\ \A s : Counted(p, s) \in SUBSET Tx
  BY Zenon DEF Total, Counted
<1>2. \A A \in SUBSET Tx : IsFiniteSet(A)
  BY Zenon, PeerAssumption, FS_Subset
<1> QED
  BY Zenon, <1>1, <1>2, FS_CardinalityType

\* Erase and Modify keep the counters exact and touch one transaction.
LEMMA UpdateKeeps ==
    ASSUME SanityCheck, index \in [Tx -> Column], NEW t \in Tx, NEW d, Sane(t, d), Update(t, d)
    PROVE  /\ SanityCheck'
           /\ index' \in [Tx -> Column]
           /\ index'[t] = d /\ \A u \in Tx : u # t => index'[u] = index[u]
<1>0. d \in Column
  BY Zenon DEF Sane
<1>1. index' = [index EXCEPT ![t] = d]
  BY Zenon DEF Update
<1>2. /\ index' \in [Tx -> Column]
      /\ index'[t] = d /\ \A u \in Tx : u # t => index'[u] = index[u]
  BY Zenon, <1>0, <1>1
<1>3. \A u \in Tx : Sane(u, index'[u])
  BY Zenon, <1>2 DEF SanityCheck
<1>4. ASSUME NEW p \in Peer
      PROVE  m_peerinfo'[p] = [m_total |-> Cardinality(Total(p)'),
                               m_completed |-> Cardinality(Counted(p, "COMPLETED")'),
                               m_requested |-> Cardinality(Counted(p, "REQUESTED")')]
  <2> DEFINE c == index[t]
  <2>1. m_peerinfo[p] = [m_total |-> Cardinality(Total(p)),
                         m_completed |-> Cardinality(Counted(p, "COMPLETED")),
                         m_requested |-> Cardinality(Counted(p, "REQUESTED"))]
    BY Zenon DEF SanityCheck, PeerInfoExact
  <2>2. Cardinality(Total(p)') = Cardinality(Total(p)) + One(d[p] # None) - One(c[p] # None)
    <3>1. /\ Total(p) \in SUBSET Tx /\ Total(p)' \in SUBSET Tx
          /\ Total(p) \ {t} = Total(p)' \ {t}
          /\ (t \in Total(p) <=> c[p] # None) /\ (t \in Total(p)' <=> d[p] # None)
      BY Zenon, <1>2 DEF Total
    <3>2. /\ One(t \in Total(p)) = One(c[p] # None)
          /\ One(t \in Total(p)') = One(d[p] # None)
      BY Zenon, <3>1 DEF One
    <3> QED
      BY <3>1, <3>2, CountOne
  <2>3. ASSUME NEW s
        PROVE  Cardinality(Counted(p, s)') = Cardinality(Counted(p, s)) + One(Is(d, p, {s})) - One(Is(c, p, {s}))
    <3>1. /\ Counted(p, s) \in SUBSET Tx /\ Counted(p, s)' \in SUBSET Tx
          /\ Counted(p, s) \ {t} = Counted(p, s)' \ {t}
          /\ (t \in Counted(p, s) <=> Is(c, p, {s})) /\ (t \in Counted(p, s)' <=> Is(d, p, {s}))
      BY Zenon, <1>2 DEF Counted, Is
    <3>2. /\ One(t \in Counted(p, s)) = One(Is(c, p, {s}))
          /\ One(t \in Counted(p, s)') = One(Is(d, p, {s}))
      BY Zenon, <3>1 DEF One
    <3> QED
      BY <3>1, <3>2, CountOne
  <2>4. /\ Cardinality(Total(p)) \in Nat /\ Cardinality(Counted(p, "COMPLETED")) \in Nat
        /\ Cardinality(Counted(p, "REQUESTED")) \in Nat
    BY Zenon, CountNat
  <2>5. m_peerinfo'[p] =
          [m_total |-> m_peerinfo[p].m_total + One(d[p] # None) - One(c[p] # None),
           m_completed |-> m_peerinfo[p].m_completed + (One(Is(d, p, {"COMPLETED"})) - One(Is(c, p, {"COMPLETED"}))),
           m_requested |-> m_peerinfo[p].m_requested + (One(Is(d, p, {"REQUESTED"})) - One(Is(c, p, {"REQUESTED"})))]
    BY Zenon DEF Update
  <2>6. \A b : One(b) \in Nat
    BY Zenon DEF One
  <2>7. /\ m_peerinfo[p].m_total = Cardinality(Total(p))
        /\ m_peerinfo[p].m_completed = Cardinality(Counted(p, "COMPLETED"))
        /\ m_peerinfo[p].m_requested = Cardinality(Counted(p, "REQUESTED"))
    BY <2>1
  <2>8. Cardinality(Counted(p, "COMPLETED")')
          = Cardinality(Counted(p, "COMPLETED")) + One(Is(d, p, {"COMPLETED"})) - One(Is(c, p, {"COMPLETED"}))
    BY Zenon, <2>3
  <2>9. Cardinality(Counted(p, "REQUESTED")')
          = Cardinality(Counted(p, "REQUESTED")) + One(Is(d, p, {"REQUESTED"})) - One(Is(c, p, {"REQUESTED"}))
    BY Zenon, <2>3
  <2>10. \A n \in Nat, x, y \in Nat : n + x - y = n + (x - y)
    BY Zenon
  <2> QED
    BY Zenon, <2>2, <2>4, <2>5, <2>6, <2>7, <2>8, <2>9, <2>10
<1>5. m_peerinfo' = [p \in Peer |-> m_peerinfo'[p]]
  BY Zenon DEF Update
<1>6. PeerInfoExact'
  BY Zenon, <1>4, <1>5 DEF PeerInfoExact
<1> QED
  BY Zenon, <1>2, <1>3, <1>6 DEF SanityCheck

\* A new announcement is counted once.
LEMMA AddKeeps ==
    ASSUME SanityCheck, index \in [Tx -> Column], NEW t \in Tx, NEW p \in Peer, AddTxAnnouncement(t, p)
    PROVE  SanityCheck' /\ index' \in [Tx -> Column]
<1>1. PICK w \in BOOLEAN : index' = [index EXCEPT ![t][p] =
              [state |-> "CANDIDATE_DELAYED", due |-> p \in Preferred /\ ~Overloaded(p) /\ w]]
  BY Zenon DEF AddTxAnnouncement
<1> DEFINE c == index[t]
<1> DEFINE a == [state |-> "CANDIDATE_DELAYED", due |-> p \in Preferred /\ ~Overloaded(p) /\ w]
<1> DEFINE d == [c EXCEPT ![p] = a]
<1>2. a \in Announcement
  BY Zenon DEF Announcement, NonCompleted, Waiting
<1>3. a # None /\ a.state = "CANDIDATE_DELAYED"
  <2>1. a.state = "CANDIDATE_DELAYED"
    BY Zenon
  <2> HIDE DEF a
  <2> QED
    BY Zenon, <1>2, <2>1, NotNone
<1> HIDE DEF a
<1>4. c \in Column /\ c[p] = None /\ Sane(t, c)
  BY Zenon DEF AddTxAnnouncement, SanityCheck
<1>5. d \in Column /\ d[p] = a /\ \A q \in Peer : q # p => d[q] = c[q]
  BY Zenon, <1>2, <1>4 DEF Column
<1>6. index' = [index EXCEPT ![t] = d]
  BY Zenon, <1>1 DEF a
<1> HIDE DEF d
<1>7. Sane(t, d)
  <2>1. /\ ~Is(d, p, Selected) /\ ~Is(d, p, {"CANDIDATE_READY"}) /\ ~Is(d, p, {"CANDIDATE_BEST"})
        /\ Is(d, p, NonCompleted)
        /\ \A q \in Peer : q # p => \A S : Is(d, q, S) <=> Is(c, q, S)
        /\ ~Is(c, p, Selected)
    BY Zenon, <1>3, <1>4, <1>5 DEF Is, Selected, NonCompleted, Waiting
  <2> QED
    BY Zenon, <1>4, <1>5, <2>1 DEF Sane
<1>8. Update(t, d)
  <2>1. \A q \in Peer : /\ m_peerinfo[q] = [m_total |-> m_peerinfo[q].m_total,
                                            m_completed |-> m_peerinfo[q].m_completed,
                                            m_requested |-> m_peerinfo[q].m_requested]
                        /\ m_peerinfo[q].m_total \in Nat /\ m_peerinfo[q].m_completed \in Nat
                        /\ m_peerinfo[q].m_requested \in Nat
    BY Zenon, CountNat DEF SanityCheck, PeerInfoExact
  <2>2. m_peerinfo = [q \in Peer |-> m_peerinfo[q]] /\ m_peerinfo' = [m_peerinfo EXCEPT ![p].m_total = @ + 1]
    BY Zenon DEF SanityCheck, PeerInfoExact, AddTxAnnouncement
  <2>3. m_peerinfo' = [q \in Peer |->
           [m_total |-> m_peerinfo[q].m_total + One(d[q] # None) - One(c[q] # None),
            m_completed |-> m_peerinfo[q].m_completed + (One(Is(d, q, {"COMPLETED"})) - One(Is(c, q, {"COMPLETED"}))),
            m_requested |-> m_peerinfo[q].m_requested + (One(Is(d, q, {"REQUESTED"})) - One(Is(c, q, {"REQUESTED"})))]]
    <3>1. ASSUME NEW q \in Peer
          PROVE  m_peerinfo'[q] =
           [m_total |-> m_peerinfo[q].m_total + One(d[q] # None) - One(c[q] # None),
            m_completed |-> m_peerinfo[q].m_completed + (One(Is(d, q, {"COMPLETED"})) - One(Is(c, q, {"COMPLETED"}))),
            m_requested |-> m_peerinfo[q].m_requested + (One(Is(d, q, {"REQUESTED"})) - One(Is(c, q, {"REQUESTED"})))]
      <4>1. CASE q = p
        BY <1>3, <1>4, <1>5, <2>1, <2>2, <4>1 DEF One, Is
      <4>2. CASE q # p
        BY <1>5, <2>1, <2>2, <4>2 DEF One, Is
      <4> QED
        BY Zenon, <4>1, <4>2
    <3>2. m_peerinfo' = [q \in Peer |-> m_peerinfo'[q]]
      BY Zenon, <2>2
    <3> QED
      BY Zenon, <3>1, <3>2
  <2> QED
    BY Zenon, <1>6, <2>3 DEF Update
<1> QED
  BY Zenon, <1>7, <1>8, UpdateKeeps

\* The clock changes no state.
LEMMA ClockKeeps ==
    ASSUME SanityCheck, index \in [Tx -> Column], NEW t \in Tx, NEW p \in Peer, index[t][p] # None,
           NEW b \in BOOLEAN, index' = [index EXCEPT ![t][p].due = b], UNCHANGED m_peerinfo
    PROVE  SanityCheck' /\ index' \in [Tx -> Column]
<1>1. index[t][p] \in Announcement
  BY Zenon DEF Column
<1>2. [index[t][p] EXCEPT !.due = b] \in Announcement /\ [index[t][p] EXCEPT !.due = b].state = index[t][p].state
  BY Zenon, <1>1 DEF Announcement
<1>3. /\ index' \in [Tx -> Column]
      /\ \A u \in Tx, q \in Peer : /\ index'[u][q] = None <=> index[u][q] = None
                                   /\ index[u][q] # None => index'[u][q].state = index[u][q].state
  <2>1. [index[t][p] EXCEPT !.due = b] # None
    BY Zenon, <1>2, NotNone
  <2>2. index' = [index EXCEPT ![t] = [index[t] EXCEPT ![p] = [index[t][p] EXCEPT !.due = b]]]
    BY Zenon
  <2> HIDE DEF Announcement
  <2> QED
    BY <1>2, <2>1, <2>2 DEF Column
<1>4. \A u \in Tx, q \in Peer : \A S : Is(index'[u], q, S) <=> Is(index[u], q, S)
  BY Zenon, <1>3 DEF Is
<1>5. \A q \in Peer : Total(q)' = Total(q) /\ \A s : Counted(q, s)' = Counted(q, s)
  BY Zenon, <1>3, <1>4 DEF Total, Counted
<1>6. PeerInfoExact'
  BY Zenon, <1>5 DEF PeerInfoExact, SanityCheck
<1>7. \A u \in Tx : Sane(u, index'[u])
  BY ZenonT(60), <1>3, <1>4 DEF Sane, SanityCheck
<1> QED
  BY Zenon, <1>3, <1>6, <1>7 DEF SanityCheck

-----------------------------------------------------------------------------
(* The invariant, and the code's SanityCheck.                              *)

\* The counters and columns say the same of the same index.
LEMMA SameTracker == ASSUME SanityCheck, UNCHANGED <<index, m_peerinfo>> PROVE SanityCheck'
<1>1. \A p \in Peer : Total(p)' = Total(p) /\ \A s : Counted(p, s)' = Counted(p, s)
  BY Zenon DEF Total, Counted, Is
<1> QED
  BY Zenon, <1>1 DEF SanityCheck, PeerInfoExact, Sane, Is

\* The second loop of SetTimePoint leaves nothing for the first.
LEMMA BackWaits ==
    ASSUME NEW t \in Tx, NEW c \in Column, NEW p \in Peer, EarlySelectable(c, p),
           \A q \in Peer : ~DueWaiting(c, q)
    PROVE  \A q \in Peer : ~DueWaiting(ChangeAndReselect(t, c, p, "CANDIDATE_DELAYED"), q)
<1> DEFINE ready == In(c, {"CANDIDATE_READY"})
<1> DEFINE w == Top(t, ready)
<1> DEFINE e == IF Is(c, p, Selected) /\ ready # {} THEN Put(c, w, "CANDIDATE_BEST") ELSE c
<1> DEFINE d == Put(e, p, "CANDIDATE_DELAYED")
<1>1. ChangeAndReselect(t, c, p, "CANDIDATE_DELAYED") = d
  BY Zenon DEF ChangeAndReselect
<1>2. e \in Column /\ e[p] # None /\ ~e[p].due /\ \A q \in Peer : ~DueWaiting(e, q)
  <2>1. CASE Is(c, p, Selected) /\ ready # {}
    <3>1. w \in ready
      BY Zenon, <2>1, TopIs DEF In
    <3>2. w \in Peer /\ c[w] # None /\ w # p /\ "CANDIDATE_BEST" \in States
      BY Zenon, <2>1, <3>1, StateNames DEF In, Is, Selected
    <3> HIDE DEF w
    <3>3. /\ e \in Column /\ e[w].state = "CANDIDATE_BEST" /\ \A q \in Peer : q # w => e[q] = c[q]
      BY <2>1, <3>2, PutIs
    <3> HIDE DEF e
    <3> QED
      BY Zenon, <3>2, <3>3 DEF EarlySelectable, DueWaiting, Is, Waiting
  <2>2. CASE ~(Is(c, p, Selected) /\ ready # {})
    BY Zenon, <2>2 DEF EarlySelectable, Is
  <2> QED
    BY Zenon, <2>1, <2>2
<1> HIDE DEF e
<1>3. /\ d[p].due = e[p].due /\ \A q \in Peer : q # p => d[q] = e[q]
  BY <1>2, PutIs, StateNames
<1> HIDE DEF d
<1> QED
  BY Zenon, <1>1, <1>2, <1>3 DEF DueWaiting, Is

\* A call under way is not None.
LEMMA CallIs ==
    ASSUME IInv
    PROVE  \A op : At(op) => /\ call \in Call /\ call.peer \in Peer /\ call.txs \in SUBSET Tx
                            /\ call.op = op
BY Zenon DEF IInv, At, Call

\* What an operation does to the index and the call is all the invariant speaks of.
LEMMA InductiveInvariant == Spec => []IInv
<1>1. Init => IInv
  <2> SUFFICES ASSUME Init PROVE IInv
    BY Zenon
  <2>1. index \in [Tx -> Column] /\ \A t \in Tx : Sane(t, index[t]) /\ index[t] = Empty
    BY Zenon, EmptySane DEF Init, Sane
  <2>2. \A p \in Peer : Total(p) = {} /\ \A s : Counted(p, s) = {}
    BY Zenon, <2>1, EmptySane DEF Total, Counted, Is
  <2>3. \A p \in Peer : /\ Cardinality(Total(p)) = 0 /\ Cardinality(Counted(p, "COMPLETED")) = 0
                        /\ Cardinality(Counted(p, "REQUESTED")) = 0
    BY Zenon, <2>2, FS_EmptySet
  <2>4. PeerInfoExact
    BY Zenon, <2>3 DEF PeerInfoExact, Init
  <2> QED
    BY Zenon, <2>1, <2>4 DEF IInv, SanityCheck, Init, At
<1>2. IInv /\ [Next]_vars => IInv'
  <2> SUFFICES ASSUME IInv, [Next]_vars PROVE IInv'
    BY Zenon
  <2>0. SanityCheck /\ index \in [Tx -> Column] /\ \A t \in Tx : Sane(t, index[t]) /\ index[t] \in Column
    BY Zenon DEF IInv, SanityCheck
  <2>1. ASSUME NEW t \in Tx, NEW p \in Peer, TimePassed(t, p) PROVE IInv'
    <3> DEFINE d == IF Is(index[t], p, {"CANDIDATE_DELAYED"}) THEN PromoteCandidateReady(t, index[t], p)
                    ELSE MakeCompleted(t, index[t], p)
    <3>1. Sane(t, d)
      <4>1. CASE Is(index[t], p, {"CANDIDATE_DELAYED"})
        BY Zenon, <2>0, <4>1, PromoteSane
      <4>2. CASE ~Is(index[t], p, {"CANDIDATE_DELAYED"})
        BY Zenon, <2>0, <2>1, <4>2, CompletedSane DEF TimePassed, DueWaiting, Is
      <4> QED
        BY Zenon, <4>1, <4>2
    <3>2. Update(t, d) /\ UNCHANGED call /\ At("time")
      BY Zenon, <2>1 DEF TimePassed
    <3> HIDE DEF d
    <3> QED
      BY Zenon, <2>0, <3>1, <3>2, UpdateKeeps DEF IInv, At
  <2>2. ASSUME NEW t \in Tx, NEW p \in Peer, TimeWentBack(t, p) PROVE IInv'
    <3> DEFINE c == index[t]
    <3> DEFINE d == ChangeAndReselect(t, c, p, "CANDIDATE_DELAYED")
    <3>1. Is(c, p, NonCompleted) /\ ~c[p].due
      BY Zenon, <2>2 DEF TimeWentBack, EarlySelectable, Is, NonCompleted
    <3>2. Sane(t, d)
      BY Zenon, <2>0, <3>1, ReselectSane
    <3>3. Update(t, d) /\ UNCHANGED call /\ At("back")
      BY Zenon, <2>2 DEF TimeWentBack
    <3>4. \A q \in Peer : ~DueWaiting(d, q)
      BY Zenon, <2>0, <2>2, <3>1, BackWaits DEF IInv, TimeWentBack
    <3> HIDE DEF d
    <3> QED
      BY Zenon, <2>0, <3>2, <3>3, <3>4, UpdateKeeps DEF IInv, At
  <2>3. ASSUME NEW t \in Tx, SendGetData(t) PROVE IInv'
    <3>1. call \in Call /\ call.peer \in Peer /\ call.op = "request" /\ call # None
      BY Zenon, <2>3, CallIs DEF SendGetData, At
    <3>2. Is(index[t], call.peer, Candidate)
      BY Zenon, <2>3 DEF SendGetData, IInv, Is, Candidate, Selectable
    <3>3. PICK d : Sane(t, d) /\ Update(t, d)
      BY Zenon, <2>0, <2>3, <3>1, <3>2, EmptySane, RequestedSane DEF SendGetData
    <3>4. call' = [call EXCEPT !.txs = @ \ {t}]
      BY Zenon, <2>3 DEF SendGetData
    <3>5. call' \in Call /\ call'.op = "request" /\ call'.peer = call.peer /\ call'.txs = call.txs \ {t}
      BY Zenon, <3>1, <3>4 DEF Call
    <3>6. /\ SanityCheck' /\ index' \in [Tx -> Column]
          /\ \A u \in Tx : u # t => index'[u] = index[u]
      BY Zenon, <2>0, <3>3, UpdateKeeps
    <3>7. \A u \in call'.txs : Is(index'[u], call'.peer, {"CANDIDATE_BEST"})
      BY Zenon, <2>3, <3>1, <3>5, <3>6 DEF IInv, SendGetData, Call
    <3> QED
      BY Zenon, <3>5, <3>6, <3>7 DEF IInv, At
  <2>4. ASSUME NEW t \in Tx, DisconnectedPeer(t) PROVE IInv'
    <3>1. call.peer \in Peer /\ At("leave")
      BY Zenon, <2>4, CallIs DEF DisconnectedPeer
    <3> DEFINE d == [MakeCompleted(t, index[t], call.peer) EXCEPT ![call.peer] = None]
    <3>2. Sane(t, d)
      BY Zenon, <2>0, <2>4, <3>1, RemovedSane DEF DisconnectedPeer
    <3>3. Update(t, d) /\ UNCHANGED call
      BY Zenon, <2>4 DEF DisconnectedPeer
    <3> HIDE DEF d
    <3> QED
      BY Zenon, <2>0, <3>1, <3>2, <3>3, UpdateKeeps DEF IInv, At
  <2>5. CASE AllPassed
    <3>1. call \in Call /\ call' = [call EXCEPT !.op = "back"]
      BY Zenon, <2>5, CallIs DEF AllPassed
    <3>2. call' \in Call /\ call'.op = "back"
      BY Zenon, <3>1 DEF Call
    <3>3. UNCHANGED <<index, m_peerinfo>> /\ \A t \in Tx, p \in Peer : ~DueWaiting(index[t], p)
      BY Zenon, <2>5 DEF AllPassed
    <3> QED
      BY Zenon, <2>0, <3>2, <3>3, SameTracker DEF IInv, At
  <2>6. CASE GetRequestable
    <3>1. call \in Call /\ call' = [call EXCEPT !.op = "request",
                                  !.txs = {t \in Tx : Is(index[t], call.peer, {"CANDIDATE_BEST"})}]
      BY Zenon, <2>6, CallIs DEF GetRequestable
    <3>2. /\ call' \in Call /\ call'.op = "request" /\ call'.peer = call.peer
          /\ call'.txs = {t \in Tx : Is(index[t], call.peer, {"CANDIDATE_BEST"})}
      BY Zenon, <3>1 DEF Call
    <3>3. UNCHANGED <<index, m_peerinfo>>
      BY Zenon, <2>6 DEF GetRequestable
    <3>4. \A t \in call'.txs : Is(index'[t], call'.peer, {"CANDIDATE_BEST"})
      BY Zenon, <3>2, <3>3
    <3> QED
      BY Zenon, <2>0, <3>2, <3>3, <3>4, SameTracker DEF IInv, At
  <2>7. CASE Return
    <3>1. UNCHANGED <<index, m_peerinfo>> /\ call' = None
      BY Zenon, <2>7 DEF Return
    <3> QED
      BY Zenon, <2>0, <3>1, SameTracker DEF IInv, At
  <2>8. ASSUME NEW p \in Peer, SendMessages(p) \/ FinalizeNode(p) PROVE IInv'
    <3>1. UNCHANGED <<index, m_peerinfo>> /\ call' \in Call /\ call'.op \in {"time", "leave"}
      BY <2>8 DEF SendMessages, FinalizeNode, Call
    <3> QED
      BY Zenon, <2>0, <3>1, SameTracker DEF IInv, At
  <2>9. ASSUME NEW t \in Tx, NEW p \in Peer, AddTxAnnouncement(t, p) PROVE IInv'
    <3>1. call = None /\ call' = None
      BY Zenon, <2>9 DEF AddTxAnnouncement, Idle
    <3> QED
      BY Zenon, <2>0, <2>9, <3>1, AddKeeps DEF IInv, At
  <2>10. ASSUME NEW t \in Tx, NEW p \in Peer, ReceivedResponse(t, p) PROVE IInv'
    <3>1. call' = None /\ Update(t, MakeCompleted(t, index[t], p)) /\ index[t][p] # None
      BY Zenon, <2>10 DEF ReceivedResponse, Idle
    <3>2. Sane(t, MakeCompleted(t, index[t], p))
      BY Zenon, <2>0, <3>1, CompletedSane
    <3> QED
      BY Zenon, <2>0, <3>1, <3>2, UpdateKeeps DEF IInv, At
  <2>11. ASSUME NEW t \in Tx, NEW p \in Peer, RequestedTx(t, p) PROVE IInv'
    <3>1. call' = None /\ Update(t, Requested(t, index[t], p)) /\ Is(index[t], p, Candidate)
      BY Zenon, <2>11 DEF RequestedTx, Idle, Candidate
    <3>2. Sane(t, Requested(t, index[t], p))
      BY Zenon, <2>0, <3>1, RequestedSane
    <3> QED
      BY Zenon, <2>0, <3>1, <3>2, UpdateKeeps DEF IInv, At
  <2>12. ASSUME NEW t \in Tx, ForgetTxHash(t) PROVE IInv'
    BY Zenon, <2>0, <2>12, EmptySane, UpdateKeeps DEF IInv, At, ForgetTxHash, Idle
  <2>13. ASSUME NEW t \in Tx, NEW p \in Peer, Clock(t, p) \/ ClockBack(t, p) PROVE IInv'
    <3>1. call' = None /\ UNCHANGED m_peerinfo /\ index[t][p] # None
      BY Zenon, <2>13 DEF Clock, ClockBack, Idle, Is
    <3>2. \E b \in BOOLEAN : index' = [index EXCEPT ![t][p].due = b]
      BY Zenon, <2>13 DEF Clock, ClockBack
    <3> QED
      BY Zenon, <2>0, <3>1, <3>2, ClockKeeps DEF IInv, At
  <2>14. CASE UNCHANGED vars
    BY Zenon, <2>0, <2>14, SameTracker DEF IInv, At, vars
  <2> QED
    BY <2>1, <2>2, <2>3, <2>4, <2>5, <2>6, <2>7, <2>8, <2>9, <2>10, <2>11, <2>12, <2>13, <2>14 DEF Next, Step
<1> QED
  BY <1>1, <1>2, PTL DEF Spec

\* The assertions of TxRequestTracker::Impl::SanityCheck hold whatever the callers do: per
\* transaction one selected announcement at most and the best one, none kept for failures alone, and
\* per peer exact counters.
THEOREM SanityCheckCorrect == Spec => []SanityCheck
BY InductiveInvariant, PTL DEF IInv

-----------------------------------------------------------------------------
(* The refinement of the header.                                           *)

HAnn == [t \in Tx |-> [p \in Peer |-> Shown(index[t][p])]]
HCall == IF call # None /\ call.op = "back" THEN [call EXCEPT !.op = "time"] ELSE call

\* A changed column changes the announcements of one transaction.
LEMMA HAnnUpdate ==
    ASSUME index \in [Tx -> Column], NEW t \in Tx, NEW d \in Column, index' = [index EXCEPT ![t] = d]
    PROVE  HAnn[t] = ShownCol(index[t]) /\ HAnn' = [HAnn EXCEPT ![t] = ShownCol(d)]
BY Zenon DEF HAnn, ShownCol

\* Unless the second loop runs, the header sees the call as it is.
LEMMA HCallIs ==
    ASSUME IInv
    PROVE  /\ ~At("back") => HCall = call
           /\ At("back") => /\ HCall \in Call /\ HCall # None
                            /\ HCall.op = "time" /\ HCall.peer = call.peer /\ HCall.txs = call.txs
           /\ call = None <=> HCall = None
<1>1. CASE At("back")
  <2>1. call \in Call /\ HCall = [call EXCEPT !.op = "time"]
    BY Zenon, <1>1, CallIs DEF At, HCall
  <2>2. HCall \in Call /\ HCall.op = "time" /\ HCall.peer = call.peer /\ HCall.txs = call.txs
    BY Zenon, <2>1 DEF Call
  <2> QED
    BY Zenon, <1>1, <2>2, NoneAssumption DEF At
<1>2. CASE ~At("back")
  BY Zenon, <1>2 DEF At, HCall
<1> QED
  BY Zenon, <1>1, <1>2

\* The BEST announcements are the requestable ones once both loops are done.
LEMMA AnswerIs ==
    ASSUME IInv, At("back"), \A t \in Tx, p \in Peer : ~EarlySelectable(index[t], p),
           NEW t \in Tx, NEW p \in Peer
    PROVE  Is(index[t], p, {"CANDIDATE_BEST"}) <=> Header!Requestable(t, p)
<1> DEFINE c == index[t]
<1>1. Sane(t, c) /\ c \in Column /\ HAnn[t] = ShownCol(c)
  BY Zenon DEF IInv, SanityCheck, HAnn, ShownCol
<1>2. \A q \in Peer : ~EarlySelectable(c, q) /\ ~DueWaiting(c, q)
  BY Zenon DEF IInv
<1> HIDE DEF c
<1> DEFINE viable == {q \in Peer : Header!Is(HAnn[t], q, {"CANDIDATE"}) /\ HAnn[t][q].due}
<1>3. \A q \in Peer : q \in viable <=> Is(c, q, Selectable)
  <2> SUFFICES ASSUME NEW q \in Peer PROVE q \in viable <=> Is(c, q, Selectable)
    BY Zenon
  <2>1. Header!Is(HAnn[t], q, {"CANDIDATE"}) <=> Is(c, q, Candidate)
    BY Zenon, <1>1, ShownIs
  <2>2. c[q] # None => HAnn[t][q].due = c[q].due
    BY <1>1, ShownIs
  <2>3. Is(c, q, Candidate) /\ c[q].due <=> Is(c, q, Selectable)
    BY Zenon, <1>2 DEF EarlySelectable, DueWaiting, Is, Candidate, Waiting
  <2> QED
    BY Zenon, <2>1, <2>2, <2>3 DEF Is
<1>4. \A q \in Peer : Header!Is(HAnn[t], q, {"REQUESTED"}) <=> Is(c, q, {"REQUESTED"})
  BY Zenon, <1>1, ShownIs
<1>5. \A q, u \in Peer : Header!Better(t, q, u) <=> Better(t, q, u)
  BY Zenon DEF Header!Better, Better
<1>6. Header!Requestable(t, p) <=>
        /\ Is(c, p, Selectable)
        /\ \A q \in Peer : ~Is(c, q, {"REQUESTED"})
        /\ \A q \in Peer : Is(c, q, Selectable) => ~Better(t, q, p)
  <2>1. Header!Requestable(t, p) <=>
          /\ p \in viable
          /\ \A q \in Peer : ~Header!Is(HAnn[t], q, {"REQUESTED"})
          /\ \A q \in viable : ~Header!Better(t, q, p)
    BY Zenon DEF Header!Requestable, HAnn
  <2>2. \A q \in viable : q \in Peer
    BY Zenon
  <2> HIDE DEF viable
  <2> QED
    BY Zenon, <1>3, <1>4, <1>5, <2>1, <2>2
<1>7. ASSUME Is(c, p, {"CANDIDATE_BEST"}) PROVE Header!Requestable(t, p)
  <2>1. Is(c, p, Selectable) /\ Is(c, p, Selected)
    BY Zenon, <1>7 DEF Is, Selectable, Selected
  <2>2. \A q \in Peer : ~Is(c, q, {"REQUESTED"})
    BY Zenon, <1>1, <1>7, <2>1 DEF Sane, Is, Selected
  <2>3. \A q \in Peer : Is(c, q, Selectable) => ~Better(t, q, p)
    <3> SUFFICES ASSUME NEW q \in Peer, Is(c, q, Selectable) PROVE ~Better(t, q, p)
      BY Zenon
    <3>1. CASE Is(c, q, {"CANDIDATE_BEST"})
      BY Zenon, <1>1, <2>1, <3>1, BetterOrder DEF Sane, Is, Selected
    <3>2. CASE Is(c, q, {"CANDIDATE_READY"})
      <4>1. Better(t, p, q) /\ p # q
        BY Zenon, <1>1, <1>7, <3>2 DEF Sane, Is
      <4> QED
        BY Zenon, <4>1, BetterOrder
    <3> QED
      BY Zenon, <3>1, <3>2 DEF Is, Selectable
  <2> QED
    BY Zenon, <1>6, <2>1, <2>2, <2>3
<1>8. ASSUME Header!Requestable(t, p), ~Is(c, p, {"CANDIDATE_BEST"}) PROVE FALSE
  <2>1. Is(c, p, {"CANDIDATE_READY"})
    BY Zenon, <1>6, <1>8 DEF Is, Selectable
  <2>2. PICK q \in Peer : Is(c, q, Selected)
    BY Zenon, <1>1, <2>1 DEF Sane
  <2>3. Is(c, q, {"CANDIDATE_BEST"}) /\ Is(c, q, Selectable)
    BY Zenon, <1>6, <1>8, <2>2 DEF Is, Selected, Selectable
  <2>4. Better(t, q, p)
    BY Zenon, <1>1, <2>1, <2>3 DEF Sane
  <2> QED
    BY Zenon, <1>6, <1>8, <2>3, <2>4
<1> QED
  BY Zenon, <1>7, <1>8 DEF c

\* The counters are the header's counts.
LEMMA CountIs ==
    ASSUME IInv, NEW p \in Peer
    PROVE  /\ Header!Count(p, {"CANDIDATE", "REQUESTED", "COMPLETED"}) = m_peerinfo[p].m_total
           /\ Header!Count(p, {"REQUESTED"}) = m_peerinfo[p].m_requested
<1>1. \A t \in Tx : index[t] \in Column /\ HAnn[t] = ShownCol(index[t])
  BY Zenon DEF IInv, HAnn, ShownCol
<1>2. \A t \in Tx : Header!Is(HAnn[t], p, {"CANDIDATE", "REQUESTED", "COMPLETED"}) <=> index[t][p] # None
  <2> SUFFICES ASSUME NEW t \in Tx
               PROVE  Header!Is(HAnn[t], p, {"CANDIDATE", "REQUESTED", "COMPLETED"}) <=> index[t][p] # None
    BY Zenon
  <2>1. /\ HAnn[t][p] = None <=> index[t][p] = None
        /\ index[t][p] # None => HAnn[t][p] = [state |-> Kind(index[t][p].state), due |-> index[t][p].due]
    BY <1>1, ShownIs
  <2>2. index[t][p] # None => Kind(index[t][p].state) \in {"CANDIDATE", "REQUESTED", "COMPLETED"}
    BY Zenon, <1>1 DEF Column, Announcement, Kind, NonCompleted, Waiting, Candidate
  <2> QED
    BY <2>1, <2>2 DEF Header!Is
<1>3. \A t \in Tx : Header!Is(HAnn[t], p, {"REQUESTED"}) <=> Is(index[t], p, {"REQUESTED"})
  BY <1>1, ShownIs
<1>4. /\ {t \in Tx : Header!Is(HAnn[t], p, {"CANDIDATE", "REQUESTED", "COMPLETED"})} = Total(p)
      /\ {t \in Tx : Header!Is(HAnn[t], p, {"REQUESTED"})} = Counted(p, "REQUESTED")
  BY Zenon, <1>2, <1>3 DEF Total, Counted
<1>5. /\ Header!Count(p, {"CANDIDATE", "REQUESTED", "COMPLETED"}) = Cardinality(Total(p))
      /\ Header!Count(p, {"REQUESTED"}) = Cardinality(Counted(p, "REQUESTED"))
  <2>1. \A S : Header!Count(p, S) = Cardinality({t \in Tx : Header!Is(HAnn[t], p, S)})
    <3>1. \A A : Header!Cardinality(A) = Cardinality(A)
      BY Zenon DEF Header!Cardinality, Cardinality
    <3> QED
      BY Zenon, <3>1 DEF Header!Count, HAnn
  <2> QED
    BY Zenon, <1>4, <2>1
<1> QED
  BY Zenon, <1>5 DEF IInv, SanityCheck, PeerInfoExact

\* RequestedTx as a step of the header.
LEMMA RequestedIs ==
    ASSUME index \in [Tx -> Column], NEW t \in Tx, NEW p \in Peer, Sane(t, index[t]), Is(index[t], p, Candidate),
           Update(t, Requested(t, index[t], p))
    PROVE  Header!Requested(t, p)
<1> DEFINE c == index[t]
<1> DEFINE d == Requested(t, c, p)
<1>1. d \in Column
  BY Zenon, RequestedSane DEF Sane
<1>2. HAnn[t] = ShownCol(c) /\ HAnn' = [HAnn EXCEPT ![t] = ShownCol(d)]
  BY Zenon, <1>1, HAnnUpdate DEF Update
<1>3. ShownCol(d) = [q \in Peer |-> IF q = p THEN [state |-> "REQUESTED", due |-> FALSE]
                             ELSE IF Header!Is(ShownCol(c), q, {"REQUESTED"})
                                  THEN [ShownCol(c)[q] EXCEPT !.state = "COMPLETED"]
                             ELSE ShownCol(c)[q]]
  BY RequestedShown
<1> HIDE DEF c, d
<1>4. HAnn' = [HAnn EXCEPT ![t] = [q \in Peer |-> IF q = p THEN [state |-> "REQUESTED", due |-> FALSE]
                             ELSE IF Header!Is(HAnn[t], q, {"REQUESTED"})
                                  THEN [HAnn[t][q] EXCEPT !.state = "COMPLETED"]
                             ELSE HAnn[t][q]]]
  BY Zenon, <1>2, <1>3
<1> QED
  BY Zenon, <1>4 DEF Header!Requested, HAnn

\* AddTxAnnouncement is the header's ReceivedInv, because the counters are exact.
LEMMA AddIs ==
    ASSUME IInv, NEW t \in Tx, NEW p \in Peer, AddTxAnnouncement(t, p)
    PROVE  \E due \in BOOLEAN : Header!ReceivedInv(t, p, due)
<1>1. PICK w \in BOOLEAN : index' = [index EXCEPT ![t][p] =
              [state |-> "CANDIDATE_DELAYED", due |-> p \in Preferred /\ ~Overloaded(p) /\ w]]
  BY Zenon DEF AddTxAnnouncement
<1> DEFINE due == p \in Preferred /\ ~Overloaded(p) /\ w
<1> DEFINE a == [state |-> "CANDIDATE_DELAYED", due |-> due]
<1> DEFINE d == [index[t] EXCEPT ![p] = a]
<1>2. due \in BOOLEAN /\ a \in Announcement
  BY Zenon DEF Announcement, NonCompleted, Waiting
<1>3. /\ call = None /\ call' = None /\ index[t][p] = None
      /\ p \in Relay \/ m_peerinfo[p].m_total < MaxAnnouncements
  BY Zenon DEF AddTxAnnouncement, Idle
<1>4. index \in [Tx -> Column] /\ index[t] \in Column /\ HAnn[t] = ShownCol(index[t])
  BY Zenon DEF IInv, HAnn, ShownCol
<1>5. d \in Column /\ index' = [index EXCEPT ![t] = d]
  BY Zenon, <1>1, <1>2, <1>4 DEF Column
<1>6. due => p \in Preferred /\ (p \in Relay \/ m_peerinfo[p].m_requested < MaxInFlight)
  <2>1. m_peerinfo[p].m_requested \in Nat
    BY Zenon, CountNat DEF IInv, SanityCheck, PeerInfoExact
  <2> QED
    BY <2>1, LimitAssumption DEF Overloaded
<1>7. Shown(a) = [state |-> "CANDIDATE", due |-> due]
  <2>1. a # None
    BY Zenon, <1>2, NotNone
  <2>2. a.state = "CANDIDATE_DELAYED" /\ a.due = due
    BY Zenon
  <2> HIDE DEF a, due
  <2> QED
    BY Zenon, <2>1, <2>2 DEF Shown, Kind, Candidate
<1> HIDE DEF a, due
<1>8. ShownCol(d) = [ShownCol(index[t]) EXCEPT ![p] = [state |-> "CANDIDATE", due |-> due]]
  BY Zenon, <1>4, <1>7 DEF ShownCol, Column
<1> HIDE DEF d
<1>9. HAnn' = [HAnn EXCEPT ![t][p] = [state |-> "CANDIDATE", due |-> due]]
  <2>1. HAnn' = [HAnn EXCEPT ![t] = ShownCol(d)]
    BY Zenon, <1>4, <1>5, HAnnUpdate
  <2> DEFINE e == [state |-> "CANDIDATE", due |-> due]
  <2>2. ShownCol(d) = [HAnn[t] EXCEPT ![p] = e]
    BY Zenon, <1>4, <1>8
  <2> HIDE DEF e
  <2>3. HAnn' = [HAnn EXCEPT ![t][p] = e]
    BY Zenon, <2>1, <2>2
  <2> QED
    BY Zenon, <2>3 DEF e
<1>10. HAnn[t][p] = None /\ HCall = None /\ HCall' = None
  BY <1>3, <1>4, ShownIs DEF HCall
<1>11. /\ p \in Relay \/ Header!Count(p, {"CANDIDATE", "REQUESTED", "COMPLETED"}) < MaxAnnouncements
       /\ due => p \in Preferred /\ (p \in Relay \/ Header!Count(p, {"REQUESTED"}) < MaxInFlight)
  BY Zenon, <1>3, <1>6, CountIs
<1>12. Header!ReceivedInv(t, p, due)
  BY Zenon, <1>9, <1>10, <1>11 DEF Header!ReceivedInv, HAnn, HCall
<1> QED
  BY Zenon, <1>2, <1>12

\* The clock is the header's.
LEMMA ClockIs ==
    ASSUME IInv, NEW t \in Tx, NEW p \in Peer, Clock(t, p) \/ ClockBack(t, p)
    PROVE  Header!Clock(t, p)
<1> DEFINE c == index[t]
<1>1. index \in [Tx -> Column] /\ c \in Column /\ HAnn[t] = ShownCol(c)
  BY Zenon DEF IInv, HAnn, ShownCol
<1>2. call = None /\ call' = None /\ c[p] # None
  BY Zenon DEF Clock, ClockBack, Idle, Is
<1>3. c[p] \in Announcement
  BY Zenon, <1>1, <1>2 DEF Column
<1> DEFINE a == [c[p] EXCEPT !.due = ~c[p].due]
<1> DEFINE d == [c EXCEPT ![p] = a]
<1>4. index' = [index EXCEPT ![t] = d]
  <2>1. c[p].due \in BOOLEAN
    BY Zenon, <1>3 DEF Announcement
  <2>2. CASE Clock(t, p)
    <3>1. a = [c[p] EXCEPT !.due = TRUE] /\ index' = [index EXCEPT ![t] = [c EXCEPT ![p] = [c[p] EXCEPT !.due = TRUE]]]
      BY Zenon, <2>2 DEF Clock
    <3> QED
      BY Zenon, <3>1
  <2>3. CASE ClockBack(t, p)
    <3>1. a = [c[p] EXCEPT !.due = FALSE] /\ index' = [index EXCEPT ![t] = [c EXCEPT ![p] = [c[p] EXCEPT !.due = FALSE]]]
      BY Zenon, <2>3 DEF ClockBack
    <3> QED
      BY Zenon, <3>1
  <2> QED
    BY Zenon, <2>2, <2>3
<1>5. a \in Announcement /\ a.state = c[p].state /\ a.due = ~c[p].due
  BY Zenon, <1>3 DEF Announcement
<1> HIDE DEF a
<1>6. d \in Column
  BY Zenon, <1>1, <1>5 DEF Column
<1>7. ShownCol(c)[p] = [state |-> Kind(c[p].state), due |-> c[p].due] /\ Shown(a) = [state |-> Kind(a.state), due |-> a.due]
  BY Zenon, <1>1, <1>2, <1>5, ShownIs, NotNone DEF Shown
<1>8. Shown(a) = [ShownCol(c)[p] EXCEPT !.due = ~@]
  BY <1>5, <1>7
<1>9. ShownCol(d) = [ShownCol(c) EXCEPT ![p] = Shown(a)]
  BY Zenon, <1>1 DEF ShownCol, Column
<1> HIDE DEF d
<1>10. HAnn' = [HAnn EXCEPT ![t] = ShownCol(d)]
  BY Zenon, <1>1, <1>4, <1>6, HAnnUpdate
<1> HIDE DEF c
<1>11. HAnn' = [HAnn EXCEPT ![t][p].due = ~@]
  BY Zenon, <1>1, <1>8, <1>9, <1>10
<1>12. HAnn[t][p] # None /\ HCall = None /\ HCall' = None
  BY Zenon, <1>1, <1>2, ShownIs DEF HCall
<1> QED
  BY Zenon, <1>11, <1>12 DEF Header!Clock, HAnn, HCall

\* Every operation of TxRequestTracker, called by anyone in any order, does what txrequest.h says, and
\* GetRequestable returns what it says.
THEOREM HeaderCorrect == Spec => ImplementsHeader
<1>1. Init => Header!Init
  BY DEF Init, Header!Init, Empty, Shown
<1>2. IInv /\ IInv' /\ [Next]_vars => [Header!Next]_(Header!vars)
  <2> SUFFICES ASSUME IInv, IInv', [Next]_vars PROVE Header!Next \/ UNCHANGED <<HAnn, HCall>>
    BY Zenon DEF Header!vars, HAnn, HCall
  <2>0. /\ index \in [Tx -> Column] /\ \A t \in Tx : Sane(t, index[t]) /\ index[t] \in Column
        /\ \A t \in Tx : HAnn[t] = ShownCol(index[t])
    BY Zenon DEF IInv, SanityCheck, HAnn, ShownCol
  <2>01. \A t \in Tx, d \in Column : Update(t, d) => HAnn' = [HAnn EXCEPT ![t] = ShownCol(d)]
    BY Zenon, <2>0, HAnnUpdate DEF Update
  <2>1. ASSUME NEW t \in Tx, NEW p \in Peer, TimePassed(t, p)
        PROVE  Header!Next \/ UNCHANGED <<HAnn, HCall>>
    <3> DEFINE c == index[t]
    <3>0. At("time") /\ UNCHANGED call /\ Is(c, p, Waiting) /\ c[p].due
      BY Zenon, <2>1 DEF TimePassed, DueWaiting
    <3>01. HCall = call /\ HCall' = call /\ call # None /\ call.op = "time"
      BY Zenon, <3>0, HCallIs DEF At, HCall
    <3>1. CASE Is(c, p, {"CANDIDATE_DELAYED"})
      <4> DEFINE d == PromoteCandidateReady(t, c, p)
      <4>1. Update(t, d) /\ d \in Column /\ ShownCol(d) = ShownCol(c)
        BY <2>0, <2>1, <3>1, PromoteSane, PromoteShown DEF TimePassed, Sane
      <4> HIDE DEF d
      <4>2. HAnn' = HAnn
        BY <2>0, <2>01, <4>1 DEF HAnn
      <4> QED
        BY Zenon, <3>01, <4>2
    <3>2. CASE ~Is(c, p, {"CANDIDATE_DELAYED"})
      <4>1. Is(c, p, {"REQUESTED"}) /\ Is(c, p, NonCompleted)
        BY Zenon, <3>0, <3>2 DEF Is, Waiting, NonCompleted
      <4> DEFINE d == MakeCompleted(t, c, p)
      <4>2. Update(t, d) /\ d \in Column
        BY Zenon, <2>0, <2>1, <3>2, <4>1, CompletedSane DEF TimePassed, Sane, Is
      <4>3. HAnn' = [HAnn EXCEPT ![t] = Header!Kept([HAnn[t] EXCEPT ![p].state = "COMPLETED"])]
        <5>1. ShownCol(d) = Header!Kept([ShownCol(c) EXCEPT ![p].state = "COMPLETED"])
          BY Zenon, <2>0, <4>1, CompletedShown
        <5> QED
          BY Zenon, <2>0, <2>01, <4>2, <5>1
      <4>4. Header!Is(HAnn[t], p, {"REQUESTED"}) /\ HAnn[t][p].due
        BY Zenon, <2>0, <3>0, <4>1, ShownIs DEF Is
      <4>5. Header!Expire(t, p)
        BY Zenon, <3>01, <4>3, <4>4 DEF Header!Expire, HAnn, HCall
      <4> QED
        BY Zenon, <4>5 DEF Header!Next
    <3> QED
      BY Zenon, <3>1, <3>2
  <2>2. ASSUME NEW t \in Tx, NEW p \in Peer, TimeWentBack(t, p) PROVE UNCHANGED <<HAnn, HCall>>
    <3> DEFINE c == index[t]
    <3> DEFINE d == ChangeAndReselect(t, c, p, "CANDIDATE_DELAYED")
    <3>1. Is(c, p, NonCompleted) /\ Is(c, p, Candidate) /\ UNCHANGED call /\ Update(t, d)
      BY Zenon, <2>2 DEF TimeWentBack, EarlySelectable, Is, NonCompleted, Candidate
    <3>2. d \in Column /\ ShownCol(d) = ShownCol(c)
      BY <2>0, <3>1, ReselectSane, ReselectShown DEF Sane
    <3> HIDE DEF d
    <3>3. HAnn' = HAnn
      BY <2>0, <2>01, <3>1, <3>2 DEF HAnn
    <3> QED
      BY Zenon, <3>1, <3>3 DEF HCall
  <2>3. ASSUME NEW t \in Tx, SendGetData(t) PROVE Header!Next
    <3> DEFINE c == index[t]
    <3>1. /\ call \in Call /\ call.peer \in Peer /\ call.op = "request" /\ call # None /\ t \in call.txs
          /\ call' = [call EXCEPT !.txs = @ \ {t}]
      BY Zenon, <2>3, CallIs DEF SendGetData, At
    <3>2. call'.op = "request" /\ HCall = call /\ HCall' = call'
      BY Zenon, <3>1 DEF HCall, Call
    <3>3. Is(c, call.peer, Candidate)
      BY Zenon, <2>3 DEF SendGetData, IInv, Is, Candidate, Selectable
    <3>4. CASE Update(t, Empty)
      <4>1. HAnn' = [HAnn EXCEPT ![t] = [q \in Peer |-> None]]
        <5>1. Empty \in Column /\ ShownCol(Empty) = [q \in Peer |-> None]
          BY Zenon, EmptySane DEF Sane, ShownCol, Empty, Shown
        <5> QED
          BY Zenon, <2>01, <3>4, <5>1
      <4>2. Header!Forget(t)
        BY Zenon, <4>1 DEF Header!Forget, HAnn
      <4>3. Header!Use(t)
        BY Zenon, <3>1, <3>2, <4>2 DEF Header!Use, HCall
      <4> QED
        BY Zenon, <4>3 DEF Header!Next
    <3>5. CASE Update(t, Requested(t, c, call.peer))
      <4>1. Header!Requested(t, call.peer)
        BY Zenon, <2>0, <3>1, <3>3, <3>5, RequestedIs
      <4>2. Header!Is(HAnn[t], call.peer, {"CANDIDATE"})
        BY Zenon, <2>0, <3>1, <3>3, ShownIs
      <4>3. Header!Use(t)
        BY Zenon, <3>1, <3>2, <4>1, <4>2 DEF Header!Use, HCall, HAnn
      <4> QED
        BY Zenon, <4>3 DEF Header!Next
    <3> QED
      BY Zenon, <2>3, <3>4, <3>5 DEF SendGetData
  <2>4. ASSUME NEW t \in Tx, DisconnectedPeer(t) PROVE Header!Next
    <3> DEFINE c == index[t]
    <3> DEFINE d == [MakeCompleted(t, c, call.peer) EXCEPT ![call.peer] = None]
    <3>1. /\ call # None /\ call.op = "leave" /\ call.peer \in Peer /\ UNCHANGED call
          /\ c[call.peer] # None /\ Update(t, d)
      BY Zenon, <2>4, CallIs DEF DisconnectedPeer, At
    <3>2. HCall = call /\ HCall' = call
      BY Zenon, <3>1 DEF HCall
    <3>3. d \in Column
      BY Zenon, <2>0, <3>1, RemovedSane DEF Sane
    <3>4. ShownCol(d) = Header!Kept([ShownCol(c) EXCEPT ![call.peer] = None])
      BY <2>0, <3>1, RemovedShown
    <3> HIDE DEF d
    <3>5. HAnn' = [HAnn EXCEPT ![t] = Header!Kept([HAnn[t] EXCEPT ![call.peer] = None])]
      BY Zenon, <2>0, <2>01, <3>1, <3>3, <3>4
    <3>6. HAnn[t][call.peer] # None
      <4>1. HAnn[t] = ShownCol(c) /\ c \in Column
        BY Zenon, <2>0
      <4>2. ShownCol(c)[call.peer] # None
        BY Zenon, <3>1, <4>1, ShownIs
      <4> QED
        BY Zenon, <4>1, <4>2
    <3>7. Header!Drop(t)
      BY Zenon, <3>1, <3>2, <3>5, <3>6 DEF Header!Drop, HAnn, HCall
    <3> QED
      BY Zenon, <3>7 DEF Header!Next
  <2>5. CASE AllPassed
    <3>1. call \in Call /\ call.op = "time" /\ call # None /\ call' = [call EXCEPT !.op = "back"] /\ UNCHANGED index
      BY Zenon, <2>5, CallIs DEF AllPassed, At
    <3>2. /\ call' \in Call /\ call' # None /\ call'.op = "back" /\ [call' EXCEPT !.op = "time"] = call
      BY Zenon, <3>1, NoneAssumption DEF Call
    <3>3. HCall = call /\ HCall' = call
      BY Zenon, <3>1, <3>2 DEF HCall
    <3> QED
      BY Zenon, <3>1, <3>3 DEF HAnn
  <2>6. CASE GetRequestable
    <3>1. /\ call \in Call /\ call.op = "back" /\ call # None /\ At("back") /\ call.peer \in Peer /\ UNCHANGED index
          /\ call' = [call EXCEPT !.op = "request",
                                  !.txs = {t \in Tx : Is(index[t], call.peer, {"CANDIDATE_BEST"})}]
          /\ \A t \in Tx, p \in Peer : ~EarlySelectable(index[t], p)
      BY Zenon, <2>6, CallIs DEF GetRequestable, At
    <3>2. {t \in Tx : Is(index[t], call.peer, {"CANDIDATE_BEST"})} = {t \in Tx : Header!Requestable(t, call.peer)}
      BY Zenon, <3>1, AnswerIs
    <3>3. HCall = [call EXCEPT !.op = "time"] /\ HCall # None /\ HCall.op = "time" /\ HCall.peer = call.peer
      BY Zenon, <3>1, HCallIs DEF HCall
    <3>4. HCall' = call'
      BY Zenon, <3>1 DEF HCall, Call
    <3>5. HCall' = [HCall EXCEPT !.op = "request", !.txs = {t \in Tx : Header!Requestable(t, HCall.peer)}]
      BY Zenon, <3>1, <3>2, <3>3, <3>4 DEF Call
    <3>6. \A t \in Tx, p \in Peer : Header!Is(HAnn[t], p, {"REQUESTED"}) => ~HAnn[t][p].due
      <4> SUFFICES ASSUME NEW t \in Tx, NEW p \in Peer, Header!Is(HAnn[t], p, {"REQUESTED"})
                   PROVE  ~HAnn[t][p].due
        BY Zenon
      <4>1. Is(index[t], p, {"REQUESTED"})
        BY Zenon, <2>0, ShownIs
      <4>2. HAnn[t][p].due = index[t][p].due
        BY <2>0, <4>1, ShownIs DEF Is
      <4>3. ~DueWaiting(index[t], p)
        BY Zenon, <3>1 DEF IInv
      <4> QED
        BY Zenon, <4>1, <4>2, <4>3 DEF DueWaiting, Is, Waiting
    <3>7. HAnn' = HAnn
      BY Zenon, <3>1 DEF HAnn
    <3>8. Header!Answer
      BY Zenon, <3>3, <3>5, <3>6, <3>7 DEF Header!Answer, HAnn, HCall
    <3> QED
      BY Zenon, <3>8 DEF Header!Next
  <2>7. CASE Return
    <3>1. /\ call # None /\ call \in Call /\ call' = None /\ UNCHANGED index
          /\ \/ call.op = "request" /\ call.txs = {}
             \/ call.op = "leave" /\ \A t \in Tx : index[t][call.peer] = None
      BY Zenon, <2>7, CallIs DEF Return, At
    <3>2. HCall = call /\ HCall' = None /\ HAnn' = HAnn
      BY Zenon, <3>1 DEF HCall, HAnn
    <3>3. call.peer \in Peer
      BY Zenon, <3>1 DEF Call
    <3>4. call.op = "leave" => \A t \in Tx : HAnn[t][call.peer] = None
      <4> SUFFICES ASSUME call.op = "leave", NEW t \in Tx PROVE HAnn[t][call.peer] = None
        BY Zenon
      <4>1. HAnn[t] = ShownCol(index[t]) /\ index[t] \in Column
        BY Zenon, <2>0
      <4>2. index[t][call.peer] = None
        BY Zenon, <3>1
      <4>3. ShownCol(index[t])[call.peer] = None
        BY Zenon, <3>3, <4>1, <4>2, ShownIs
      <4> QED
        BY Zenon, <4>1, <4>3
    <3>5. Header!Return
      BY Zenon, <3>1, <3>2, <3>4 DEF Header!Return, HAnn, HCall
    <3> QED
      BY Zenon, <3>5 DEF Header!Next
  <2>8. ASSUME NEW p \in Peer, SendMessages(p) PROVE Header!Next
    <3>1. call = None /\ call' = [op |-> "time", peer |-> p, txs |-> {}] /\ UNCHANGED index
      BY Zenon, <2>8 DEF SendMessages, Idle
    <3>2. HCall = None /\ HCall' = call' /\ HAnn' = HAnn
      BY Zenon, <3>1 DEF HCall, HAnn
    <3>3. Header!GetRequestable(p)
      BY Zenon, <3>1, <3>2 DEF Header!GetRequestable, HAnn, HCall
    <3> QED
      BY Zenon, <3>3 DEF Header!Next
  <2>9. ASSUME NEW p \in Peer, FinalizeNode(p) PROVE Header!Next
    <3>1. call = None /\ call' = [op |-> "leave", peer |-> p, txs |-> {}] /\ UNCHANGED index
      BY Zenon, <2>9 DEF FinalizeNode, Idle
    <3>2. HCall = None /\ HCall' = call' /\ HAnn' = HAnn
      BY Zenon, <3>1 DEF HCall, HAnn
    <3>3. Header!DisconnectedPeer(p)
      BY Zenon, <3>1, <3>2 DEF Header!DisconnectedPeer, HAnn, HCall
    <3> QED
      BY Zenon, <3>3 DEF Header!Next
  <2>10. ASSUME NEW t \in Tx, NEW p \in Peer, AddTxAnnouncement(t, p) PROVE Header!Next
    BY Zenon, <2>10, AddIs DEF Header!Next
  <2>11. ASSUME NEW t \in Tx, NEW p \in Peer, ReceivedResponse(t, p)
         PROVE  Header!Next \/ UNCHANGED <<HAnn, HCall>>
    <3> DEFINE c == index[t]
    <3> DEFINE d == MakeCompleted(t, c, p)
    <3>1. call = None /\ call' = None /\ Update(t, d) /\ c[p] # None
      BY Zenon, <2>11 DEF ReceivedResponse, Idle
    <3>2. HCall = None /\ HCall' = None
      BY Zenon, <3>1 DEF HCall
    <3>3. d \in Column
      BY Zenon, <2>0, <3>1, CompletedSane DEF Sane
    <3>4. HAnn' = [HAnn EXCEPT ![t] = ShownCol(d)]
      BY Zenon, <2>01, <3>1, <3>3
    <3>5. CASE Is(c, p, {"COMPLETED"})
      <4>1. d = c
        BY Zenon, <3>5 DEF MakeCompleted
      <4>2. HAnn' = HAnn
        BY Zenon, <2>0, <3>4, <4>1 DEF HAnn
      <4> QED
        BY Zenon, <3>2, <4>2
    <3>6. CASE ~Is(c, p, {"COMPLETED"})
      <4>1. Is(c, p, NonCompleted)
        BY Zenon, <2>0, <3>1, <3>6 DEF Is, Column, Announcement
      <4>2. ShownCol(d) = Header!Kept([ShownCol(c) EXCEPT ![p].state = "COMPLETED"])
        BY Zenon, <2>0, <4>1, CompletedShown
      <4>3. Header!Is(HAnn[t], p, {"CANDIDATE", "REQUESTED"})
        BY <2>0, <4>1, ShownIs
      <4>4. HAnn' = [HAnn EXCEPT ![t] = Header!Kept([HAnn[t] EXCEPT ![p].state = "COMPLETED"])]
        BY Zenon, <2>0, <3>4, <4>2
      <4>5. Header!ReceivedResponse(t, p)
        BY Zenon, <3>2, <4>3, <4>4 DEF Header!ReceivedResponse, HAnn, HCall
      <4> QED
        BY Zenon, <4>5 DEF Header!Next
    <3> QED
      BY Zenon, <3>5, <3>6
  <2>12. ASSUME NEW t \in Tx, NEW p \in Peer, RequestedTx(t, p) PROVE Header!Next
    <3>1. call = None /\ call' = None /\ Update(t, Requested(t, index[t], p)) /\ Is(index[t], p, Candidate)
      BY Zenon, <2>12 DEF RequestedTx, Idle, Candidate
    <3>2. Header!Requested(t, p)
      BY Zenon, <2>0, <3>1, RequestedIs
    <3>3. Header!Is(HAnn[t], p, {"CANDIDATE"}) /\ HCall = None /\ HCall' = None
      BY Zenon, <2>0, <3>1, ShownIs DEF HCall
    <3>4. Header!RequestedTx(t, p)
      BY Zenon, <3>2, <3>3 DEF Header!RequestedTx, HAnn, HCall
    <3> QED
      BY Zenon, <3>4 DEF Header!Next
  <2>13. ASSUME NEW t \in Tx, ForgetTxHash(t) PROVE Header!Next
    <3>1. call = None /\ call' = None /\ Update(t, Empty)
      BY Zenon, <2>13 DEF ForgetTxHash, Idle
    <3>2. Empty \in Column /\ ShownCol(Empty) = [q \in Peer |-> None]
      BY Zenon, EmptySane DEF Sane, ShownCol, Empty, Shown
    <3>3. HAnn' = [HAnn EXCEPT ![t] = [q \in Peer |-> None]] /\ HCall = None /\ HCall' = None
      BY Zenon, <2>01, <3>1, <3>2 DEF HCall
    <3>4. Header!ForgetTxHash(t)
      BY Zenon, <3>3 DEF Header!ForgetTxHash, Header!Forget, HAnn, HCall
    <3> QED
      BY Zenon, <3>4 DEF Header!Next
  <2>14. ASSUME NEW t \in Tx, NEW p \in Peer, Clock(t, p) \/ ClockBack(t, p) PROVE Header!Next
    BY Zenon, <2>14, ClockIs DEF Header!Next
  <2>15. CASE UNCHANGED vars
    BY Zenon, <2>15 DEF vars, HAnn, HCall
  <2> QED
    BY Zenon, <2>1, <2>2, <2>3, <2>4, <2>5, <2>6, <2>7, <2>8, <2>9, <2>10, <2>11, <2>12, <2>13, <2>14, <2>15 DEF Next, Step
<1> QED
  BY <1>1, <1>2, InductiveInvariant, PTL DEF Spec, ImplementsHeader, Header!Spec
==============================================================================

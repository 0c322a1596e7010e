------------------------------ MODULE TxRequest ------------------------------
(***************************************************************************)
(* TxRequestTracker (txrequest.cpp): which peer is asked for which         *)
(* announced transaction, and when. Its caller is net_processing.cpp.      *)
(*                                                                         *)
(* A column is what m_index holds for one txhash: by peer, the state of    *)
(* its announcement and whether its m_time is <= now. The ByTxHash order   *)
(* (state, then priority of the READY ones) is what "next" and "previous"  *)
(* mean in the code; here they are said with the priorities. The loops of  *)
(* GetRequestable and DisconnectedPeer take one announcement at a time, in *)
(* any order: the order of the ByTime and ByPeer indexes is left out. So   *)
(* are the sequence numbers, which only sort the answer, and is_wtxid.     *)
(*                                                                         *)
(* Every operation holds cs_main to its end; "call" is the one under way.  *)
(* RequestedTx may be called for any peer, as the class allows and its     *)
(* tests do.                                                               *)
(***************************************************************************)
EXTENDS Integers, FiniteSets

CONSTANTS
    Peer, Tx,
    None,
    Preferred,          \* CNodeState::fPreferredDownload
    Relay,              \* NetPermissionFlags::Relay
    Rank,               \* Rank[t][p]: the salted hash of PriorityComputer
    MaxAnnouncements,   \* MAX_PEER_TX_ANNOUNCEMENTS
    MaxInFlight,        \* MAX_PEER_TX_REQUEST_IN_FLIGHT
    MaxInvs,            \* bound: announcements ever made
    MaxBack             \* bound: times the clock is set back

VARIABLES
    index,              \* m_index: index[t] is the column of t
    m_peerinfo,
    call,
    invs, back          \* how much of the bounds is used

vars == <<index, m_peerinfo, call, invs, back>>

Waiting == {"CANDIDATE_DELAYED", "REQUESTED"}
Selectable == {"CANDIDATE_READY", "CANDIDATE_BEST"}
Selected == {"CANDIDATE_BEST", "REQUESTED"}
NonCompleted == Waiting \cup Selectable
Announcement == [state : NonCompleted \cup {"COMPLETED"}, due : BOOLEAN]

Call == [op : {"time", "back", "request", "leave"}, peer : Peer, txs : SUBSET Tx]

ASSUME PeerAssumption == IsFiniteSet(Peer) /\ IsFiniteSet(Tx)
ASSUME LimitAssumption == MaxInFlight \in Nat
ASSUME NoneAssumption ==
    /\ None \notin [state : NonCompleted \cup {"COMPLETED", "CANDIDATE"}, due : BOOLEAN]
    /\ None \notin Call

\* Two peers never have the same salted hash.
ASSUME RankAssumption ==
    \A t \in Tx : /\ \A p \in Peer : Rank[t][p] \in Nat
                  /\ \A p, q \in Peer : Rank[t][p] = Rank[t][q] => p = q

\* PriorityComputer: preferred is the top bit.
Better(t, p, q) ==
    \/ p \in Preferred /\ q \notin Preferred
    \/ (p \in Preferred <=> q \in Preferred) /\ Rank[t][p] > Rank[t][q]

Empty == [p \in Peer |-> None]
Is(c, p, S) == c[p] # None /\ c[p].state \in S
In(c, S) == {p \in Peer : Is(c, p, S)}
Put(c, p, s) == [c EXCEPT ![p].state = s]
Top(t, S) == CHOOSE p \in S : \A q \in S : ~Better(t, q, p)

One(b) == IF b THEN 1 ELSE 0

\* Erase and Modify keep m_peerinfo up to date: a column c of t becomes d.
Update(t, d) ==
    LET c == index[t]
        Change(p, S) == One(Is(d, p, S)) - One(Is(c, p, S))
    IN  /\ index' = [index EXCEPT ![t] = d]
        /\ m_peerinfo' = [p \in Peer |->
              [m_total |-> m_peerinfo[p].m_total + One(d[p] # None) - One(c[p] # None),
               m_completed |-> m_peerinfo[p].m_completed + Change(p, {"COMPLETED"}),
               m_requested |-> m_peerinfo[p].m_requested + Change(p, {"REQUESTED"})]]

-----------------------------------------------------------------------------
(* What the private helpers make of a column.                              *)

\* Mutant: a better candidate does not take over from the BEST one.
PromoteCandidateReadyLate(t, c, p) ==
    Put(c, p, IF In(c, Selected) = {} THEN "CANDIDATE_BEST" ELSE "CANDIDATE_READY")

\* The new READY is best if nothing follows it but COMPLETED ones, and takes over from a BEST that
\* follows it at once and is worse.
PromoteCandidateReady(t, c, p) ==
    LET r == Put(c, p, "CANDIDATE_READY")
        above == {q \in In(r, {"CANDIDATE_READY"}) : Better(t, q, p)}
        best == In(r, {"CANDIDATE_BEST"})
    IN  IF above # {} THEN r
        ELSE IF In(r, Selected) = {} THEN Put(r, p, "CANDIDATE_BEST")
        ELSE IF best # {} /\ Better(t, p, Top(t, best))
             THEN Put(Put(r, Top(t, best), "CANDIDATE_READY"), p, "CANDIDATE_BEST")
        ELSE r

\* Mutant: no other announcement is selected in its place.
ChangeAndReselectNone(t, c, p, new) == Put(c, p, new)

\* The READY before the selected announcement is the best one, and is selected in its place.
ChangeAndReselect(t, c, p, new) ==
    LET ready == In(c, {"CANDIDATE_READY"})
        reselected == IF Is(c, p, Selected) /\ ready # {} THEN Put(c, Top(t, ready), "CANDIDATE_BEST")
                      ELSE c
    IN  Put(reselected, p, new)

IsOnlyNonCompleted(c, p) == In(c, NonCompleted) = {p}

MakeCompleted(t, c, p) ==
    IF Is(c, p, {"COMPLETED"}) THEN c
    ELSE IF IsOnlyNonCompleted(c, p) THEN Empty
    ELSE ChangeAndReselect(t, c, p, "COMPLETED")

-----------------------------------------------------------------------------
Idle == call = None

Init ==
    /\ index = [t \in Tx |-> Empty]
    /\ m_peerinfo = [p \in Peer |-> [m_total |-> 0, m_completed |-> 0, m_requested |-> 0]]
    /\ call = None
    /\ invs = 0 /\ back = 0

Overloaded(p) == p \notin Relay /\ m_peerinfo[p].m_requested >= MaxInFlight

\* ReceivedInv through AddTxAnnouncement: due when no delay is added to the current time. A txid
\* announcement is delayed while a peer relays by wtxid.
AddTxAnnouncement(t, p) ==
    /\ Idle /\ invs < MaxInvs
    /\ p \in Relay \/ m_peerinfo[p].m_total < MaxAnnouncements
    /\ index[t][p] = None
    /\ \E wtxid \in BOOLEAN :
          index' = [index EXCEPT ![t][p] =
              [state |-> "CANDIDATE_DELAYED", due |-> p \in Preferred /\ ~Overloaded(p) /\ wtxid]]
    /\ m_peerinfo' = [m_peerinfo EXCEPT ![p].m_total = @ + 1]
    /\ invs' = invs + 1
    /\ UNCHANGED <<call, back>>

\* A transaction was accepted, confirmed or refused for good.
ForgetTxHash(t) == Idle /\ index[t] # Empty /\ Update(t, Empty) /\ UNCHANGED <<call, invs, back>>

\* A transaction or NOTFOUND came from the peer.
ReceivedResponse(t, p) ==
    /\ Idle /\ index[t][p] # None
    /\ Update(t, MakeCompleted(t, index[t], p))
    /\ UNCHANGED <<call, invs, back>>

\* An announcement that is not BEST takes the place of the one selected.
Requested(t, c, p) ==
    LET d == [q \in Peer |->
                IF Is(c, p, {"CANDIDATE_BEST"}) \/ q = p THEN c[q]
                ELSE IF Is(c, q, {"CANDIDATE_BEST"}) THEN [c[q] EXCEPT !.state = "CANDIDATE_READY"]
                ELSE IF Is(c, q, {"REQUESTED"}) THEN [c[q] EXCEPT !.state = "COMPLETED"]
                ELSE c[q]]
    IN  [d EXCEPT ![p] = [state |-> "REQUESTED", due |-> FALSE]]

RequestedTx(t, p) ==
    /\ Idle /\ Is(index[t], p, Selectable \cup {"CANDIDATE_DELAYED"})
    /\ Update(t, Requested(t, index[t], p))
    /\ UNCHANGED <<call, invs, back>>

\* SendMessages: GetRequestable ...
SendMessages(p) ==
    Idle /\ call' = [op |-> "time", peer |-> p, txs |-> {}] /\ UNCHANGED <<index, m_peerinfo, invs, back>>

At(op) == call # None /\ call.op = op

DueWaiting(c, p) == Is(c, p, Waiting) /\ c[p].due
EarlySelectable(c, p) == Is(c, p, Selectable) /\ ~c[p].due

\* ... the two loops of SetTimePoint ...
TimePassed(t, p) ==
    /\ At("time") /\ DueWaiting(index[t], p)
    /\ Update(t, IF Is(index[t], p, {"CANDIDATE_DELAYED"}) THEN PromoteCandidateReady(t, index[t], p)
                 ELSE MakeCompleted(t, index[t], p))
    /\ UNCHANGED <<call, invs, back>>

AllPassed ==
    /\ At("time") /\ \A t \in Tx, p \in Peer : ~DueWaiting(index[t], p)
    /\ call' = [call EXCEPT !.op = "back"]
    /\ UNCHANGED <<index, m_peerinfo, invs, back>>

TimeWentBack(t, p) ==
    /\ At("back") /\ EarlySelectable(index[t], p)
    /\ Update(t, ChangeAndReselect(t, index[t], p, "CANDIDATE_DELAYED"))
    /\ UNCHANGED <<call, invs, back>>

\* ... its answer ...
GetRequestable ==
    /\ At("back") /\ \A t \in Tx, p \in Peer : ~EarlySelectable(index[t], p)
    /\ call' = [call EXCEPT !.op = "request",
                            !.txs = {t \in Tx : Is(index[t], call.peer, {"CANDIDATE_BEST"})}]
    /\ UNCHANGED <<index, m_peerinfo, invs, back>>

\* ... and RequestedTx for each transaction of it, or ForgetTxHash if AlreadyHaveTx.
SendGetData(t) ==
    /\ At("request") /\ t \in call.txs
    /\ \E have \in BOOLEAN :
          Update(t, IF have THEN Empty ELSE Requested(t, index[t], call.peer))
    /\ call' = [call EXCEPT !.txs = @ \ {t}]
    /\ UNCHANGED <<invs, back>>

\* FinalizeNode: DisconnectedPeer.
FinalizeNode(p) ==
    Idle /\ call' = [op |-> "leave", peer |-> p, txs |-> {}] /\ UNCHANGED <<index, m_peerinfo, invs, back>>

DisconnectedPeer(t) ==
    /\ At("leave") /\ index[t][call.peer] # None
    /\ Update(t, [MakeCompleted(t, index[t], call.peer) EXCEPT ![call.peer] = None])
    /\ UNCHANGED <<call, invs, back>>

Return ==
    /\ \/ At("request") /\ call.txs = {}
       \/ At("leave") /\ \A t \in Tx : index[t][call.peer] = None
    /\ call' = None
    /\ UNCHANGED <<index, m_peerinfo, invs, back>>

\* The clock passes reqtime or expiry, or is set back before it.
Clock(t, p) ==
    /\ Idle /\ Is(index[t], p, NonCompleted) /\ ~index[t][p].due
    /\ index' = [index EXCEPT ![t][p].due = TRUE]
    /\ UNCHANGED <<m_peerinfo, call, invs, back>>

ClockBack(t, p) ==
    /\ Idle /\ back < MaxBack /\ Is(index[t], p, NonCompleted) /\ index[t][p].due
    /\ index' = [index EXCEPT ![t][p].due = FALSE]
    /\ back' = back + 1
    /\ UNCHANGED <<m_peerinfo, call, invs>>

\* What runs to its end once it is called.
Step ==
    \/ \E t \in Tx, p \in Peer : TimePassed(t, p) \/ TimeWentBack(t, p)
    \/ \E t \in Tx : SendGetData(t) \/ DisconnectedPeer(t)
    \/ AllPassed \/ GetRequestable \/ Return

Next ==
    \/ Step
    \/ \E t \in Tx, p \in Peer :
          \/ AddTxAnnouncement(t, p) \/ ReceivedResponse(t, p) \/ RequestedTx(t, p)
          \/ Clock(t, p) \/ ClockBack(t, p)
    \/ \E t \in Tx : ForgetTxHash(t)
    \/ \E p \in Peer : SendMessages(p) \/ FinalizeNode(p)

Spec == Init /\ [][Next]_vars

\* The message handler calls SendMessages for every peer in turn, and the clock goes on.
FairSpec ==
    /\ Spec
    /\ WF_vars(Step)
    /\ \A p \in Peer : SF_vars(SendMessages(p))
    /\ \A t \in Tx, p \in Peer : SF_vars(Clock(t, p))

-----------------------------------------------------------------------------
Candidate == Selectable \cup {"CANDIDATE_DELAYED"}

\* What the header shows of a state of an announcement.
Kind(s) == IF s \in Candidate THEN "CANDIDATE" ELSE s

Shown(a) == IF a = None THEN None ELSE [state |-> Kind(a.state), due |-> a.due]

Header == INSTANCE TxAnnouncements WITH
    ann <- [t \in Tx |-> [p \in Peer |-> Shown(index[t][p])]],
    call <- IF call # None /\ call.op = "back" THEN [call EXCEPT !.op = "time"] ELSE call

\* The three candidate states, their indexes and the per-peer counters are invisible: every operation
\* does what txrequest.h says, and GetRequestable returns exactly the transactions for which the peer
\* is the best viable candidate and no request is outstanding.
ImplementsHeader == Header!Spec

\* No announcement stays a candidate for ever: it is requested, answered or forgotten, because a
\* request that expires hands over to the next best announcement ("guaranteeing progress").
EveryCandidateLeaves ==
    \A t \in Tx, p \in Peer : Is(index[t], p, Candidate) ~> ~Is(index[t], p, Candidate)
==============================================================================

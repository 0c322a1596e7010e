--------------------------- MODULE TxAnnouncements ---------------------------
(***************************************************************************)
(* What the header of TxRequestTracker promises its caller: a collection   *)
(* of announcements, one per peer and transaction, each CANDIDATE,         *)
(* REQUESTED or COMPLETED, and the rules that decide which peer is asked   *)
(* for which transaction.                                                  *)
(*                                                                         *)
(* Time is kept as one bit per announcement: whether its reqtime (of a     *)
(* candidate) or its expiry (of a request) is <= now.                      *)
(***************************************************************************)
EXTENDS Integers, FiniteSets

CONSTANTS
    Peer, Tx,
    None,               \* no announcement
    Preferred,          \* the peers whose announcements are "preferred"
    Relay,              \* the peers with the relay permission, free of limits
    Rank,               \* Rank[t][p]: the salted hash that breaks ties
    MaxAnnouncements,   \* MAX_PEER_TX_ANNOUNCEMENTS
    MaxInFlight         \* MAX_PEER_TX_REQUEST_IN_FLIGHT

VARIABLES
    ann,                \* ann[t][p]: the announcement of t by p
    call                \* the operation that is under way, or None

vars == <<ann, call>>

Is(c, p, S) == c[p] # None /\ c[p].state \in S

\* "If for a given txhash only already-failed announcements remain, they are all forgotten."
Kept(c) == IF \E p \in Peer : Is(c, p, {"CANDIDATE", "REQUESTED"}) THEN c ELSE [p \in Peer |-> None]

Count(p, S) == Cardinality({t \in Tx : Is(ann[t], p, S)})

Better(t, p, q) ==
    \/ p \in Preferred /\ q \notin Preferred
    \/ (p \in Preferred <=> q \in Preferred) /\ Rank[t][p] > Rank[t][q]

\* "CANDIDATE announcements from the specified peer with (reqtime <= now) for which no existing
\* REQUESTED announcement with the same txhash exists, and for which the specified peer is the best
\* choice among all (reqtime <= now) CANDIDATE announcements with the same txhash"
Requestable(t, p) ==
    LET viable == {q \in Peer : Is(ann[t], q, {"CANDIDATE"}) /\ ann[t][q].due}
    IN  /\ p \in viable
        /\ \A q \in Peer : ~Is(ann[t], q, {"REQUESTED"})
        /\ \A q \in viable : ~Better(t, q, p)

-----------------------------------------------------------------------------
Init == ann = [t \in Tx |-> [p \in Peer |-> None]] /\ call = None

\* The caller: a limit on a peer's announcements, and a delay for one that is not preferred or that
\* has too many requests in flight.
ReceivedInv(t, p, due) ==
    /\ call = None /\ ann[t][p] = None
    /\ p \in Relay \/ Count(p, {"CANDIDATE", "REQUESTED", "COMPLETED"}) < MaxAnnouncements
    /\ due => p \in Preferred /\ (p \in Relay \/ Count(p, {"REQUESTED"}) < MaxInFlight)
    /\ ann' = [ann EXCEPT ![t][p] = [state |-> "CANDIDATE", due |-> due]]
    /\ UNCHANGED call

Forget(t) == ann' = [ann EXCEPT ![t] = [p \in Peer |-> None]]

ForgetTxHash(t) == call = None /\ Forget(t) /\ UNCHANGED call

ReceivedResponse(t, p) ==
    /\ call = None
    /\ Is(ann[t], p, {"CANDIDATE", "REQUESTED"})
    /\ ann' = [ann EXCEPT ![t] = Kept([@ EXCEPT ![p].state = "COMPLETED"])]
    /\ UNCHANGED call

\* "That announcement is converted to REQUESTED. If any other REQUESTED announcement for the same
\* txhash already existed ... it is converted to COMPLETED"
Requested(t, p) ==
    ann' = [ann EXCEPT ![t] = [q \in Peer |->
               IF q = p THEN [state |-> "REQUESTED", due |-> FALSE]
               ELSE IF Is(ann[t], q, {"REQUESTED"}) THEN [@[q] EXCEPT !.state = "COMPLETED"]
               ELSE @[q]]]

RequestedTx(t, p) ==
    call = None /\ Is(ann[t], p, {"CANDIDATE"}) /\ Requested(t, p) /\ UNCHANGED call

\* "Convert all REQUESTED announcements (for all txhashes/peers) with (expiry <= now) to COMPLETED ones."
GetRequestable(p) == call = None /\ call' = [op |-> "time", peer |-> p, txs |-> {}] /\ UNCHANGED ann

Expire(t, p) ==
    /\ call # None /\ call.op = "time"
    /\ Is(ann[t], p, {"REQUESTED"}) /\ ann[t][p].due
    /\ ann' = [ann EXCEPT ![t] = Kept([@ EXCEPT ![p].state = "COMPLETED"])]
    /\ UNCHANGED call

\* ... and then the answer.
Answer ==
    /\ call # None /\ call.op = "time"
    /\ \A t \in Tx, p \in Peer : Is(ann[t], p, {"REQUESTED"}) => ~ann[t][p].due
    /\ call' = [call EXCEPT !.op = "request", !.txs = {t \in Tx : Requestable(t, call.peer)}]
    /\ UNCHANGED ann

\* The caller asks the peer for each transaction of the answer, or forgets one that it has.
Use(t) ==
    /\ call # None /\ call.op = "request" /\ t \in call.txs
    /\ \/ Is(ann[t], call.peer, {"CANDIDATE"}) /\ Requested(t, call.peer)
       \/ Forget(t)
    /\ call' = [call EXCEPT !.txs = @ \ {t}]

\* "Deletes all announcements for a given peer."
DisconnectedPeer(p) == call = None /\ call' = [op |-> "leave", peer |-> p, txs |-> {}] /\ UNCHANGED ann

Drop(t) ==
    /\ call # None /\ call.op = "leave" /\ ann[t][call.peer] # None
    /\ ann' = [ann EXCEPT ![t] = Kept([@ EXCEPT ![call.peer] = None])]
    /\ UNCHANGED call

Return ==
    /\ call # None
    /\ \/ call.op = "request" /\ call.txs = {}
       \/ call.op = "leave" /\ \A t \in Tx : ann[t][call.peer] = None
    /\ call' = None /\ UNCHANGED ann

\* The clock passes the time of an announcement, or is set back before it.
Clock(t, p) ==
    /\ call = None /\ ann[t][p] # None
    /\ ann' = [ann EXCEPT ![t][p].due = ~@]
    /\ UNCHANGED call

Next ==
    \/ \E p \in Peer : GetRequestable(p) \/ DisconnectedPeer(p)
    \/ Answer \/ Return
    \/ \E t \in Tx : ForgetTxHash(t) \/ Use(t) \/ Drop(t)
    \/ \E t \in Tx, p \in Peer :
          \/ \E due \in BOOLEAN : ReceivedInv(t, p, due)
          \/ ReceivedResponse(t, p) \/ RequestedTx(t, p) \/ Expire(t, p) \/ Clock(t, p)

Spec == Init /\ [][Next]_vars
==============================================================================

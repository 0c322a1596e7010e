----------------------------- MODULE MCTxRequest -----------------------------
(***************************************************************************)
(* A preferred peer and one with the relay permission.  The salted hashes  *)
(* favour the preferred peer for one transaction and the other peer for    *)
(* the other, where being preferred must outweigh the hash.                *)
(***************************************************************************)
EXTENDS TxRequest

MCRank == [t \in Tx |-> [p \in Peer |->
              IF t = "t" THEN (IF p = "a" THEN 0 ELSE 1)
              ELSE (IF p = "a" THEN 1 ELSE 0)]]
==============================================================================

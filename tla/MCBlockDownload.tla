--------------------------- MODULE MCBlockDownload ---------------------------
(* Instances of BlockDownload.                                             *)
EXTENDS BlockDownload

\* Two branches from one first block: a <- b1 <- c1 and a <- b2 <- c2.
ForkTree == [b \in Block \ {Genesis} |->
               CASE b = "a" -> "g"
                 [] b = "b1" -> "a"
                 [] b = "c1" -> "b1"
                 [] b = "b2" -> "a"
                 [] b = "c2" -> "b2"]
ForkBlocks == {"g", "a", "b1", "c1", "b2", "c2"}
ForkKnown == [p \in Peer |-> IF p = "p2" THEN "c2" ELSE "c1"]

=============================================================================

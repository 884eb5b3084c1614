--------------------------- MODULE MCBFTConsensus ---------------------------
(* BFTConsensus for TLC: of two validators the first alone has a quorum.     *)
EXTENDS BFTConsensus

MCStakes == [v \in Validators |-> IF v = 1 THEN 4 ELSE 2]
\* After a block the first validator has the lesser stake, or both have the same.
MCBalances == {[v \in Validators |-> IF v = 1 THEN 2 ELSE 4], [v \in Validators |-> 2]}
=============================================================================

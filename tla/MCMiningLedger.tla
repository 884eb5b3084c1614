--------------------------- MODULE MCMiningLedger ---------------------------
(* Small instances of MiningLedger for TLC. *)
EXTENDS MiningLedger

CONSTANTS w1, w2, l1, funder, g1, g2, e1, e2, e3

MCGenesis == [a \in Addrs |-> CASE a = funder -> 3 [] a = w1 -> 3 [] a = l1 -> 2 [] OTHER -> 0]
MCCulprit == [e \in Evidence |-> 1]
MCNodes1 == {1}
MCNodes2 == {1, 2}
=============================================================================

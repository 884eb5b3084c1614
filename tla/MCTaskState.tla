---------------------------- MODULE MCTaskState ----------------------------
EXTENDS TaskState

Proof(id, relay, c, m, rs) ==
    [id |-> id, relay |-> relay, contributor |-> c, mother |-> m, receipts |-> rs]

\* Two proofs of one relay share receipt c1; the third pays another wallet.
MCPoolProofs ==
    {Proof("p1", "relay", "b", "a", {"c1"}), Proof("p2", "relay", "b", "a", {"c1", "c2"}),
     Proof("p3", "relay", "a", "a", {"c3"})}

MCManifests ==
    {[active |-> TRUE, minStake |-> 1, perRound |-> 14, relays |-> {"relay"}, roundTime |-> 1]}

MCStartBalance == [w \in Wallets |-> IF w = "a" THEN 33 ELSE 17]
MCMaxTxs == [w \in Wallets |-> IF w = "a" THEN 5 ELSE 3]
=============================================================================

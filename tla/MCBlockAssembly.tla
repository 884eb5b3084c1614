-------------------------- MODULE MCBlockAssembly --------------------------
EXTENDS BlockAssembly

MCMiner == [p \in Proofs |-> IF p = "p1" THEN 1 ELSE 2]
MCProofHeight == [p \in Proofs |-> IF p = "p1" THEN 0 ELSE 1]
MCResubmits == [p \in Proofs |-> IF p = "p1" THEN 2 ELSE 1]

User(no, n, f) ==
    [kind |-> "user", id |-> <<"user", no, 0>>, sender |-> 9, nonce |-> n,
     fee |-> f, no |-> no, to |-> Funder, count |-> 0, amount |-> 0, old |-> FALSE]

\* Two paying transactions of one sender: with a reward they fill the pool.
MCUserTxs == {User(1, 0, 1), User(2, 1, 1)}
=============================================================================

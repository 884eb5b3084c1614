----------------------------- MODULE Agreement -----------------------------
(***************************************************************************)
(* What the consensus engine of a node promises its callers: a height is   *)
(* decided at most once, the decision never changes, and the commit        *)
(* callback hears of it at most once and hears the decided value.          *)
(***************************************************************************)
CONSTANTS Heights, Hashes, NoHash

VARIABLES
    decided,   \* of each height: the committed value
    told       \* of each height: the value the callback was called with

Init == decided = [h \in Heights |-> NoHash] /\ told = [h \in Heights |-> NoHash]

Decide(h) ==
    /\ decided[h] = NoHash
    /\ \E x \in Hashes : decided' = [decided EXCEPT ![h] = x]
    /\ UNCHANGED told

Tell(h) ==
    /\ decided[h] # NoHash /\ told[h] = NoHash
    /\ told' = [told EXCEPT ![h] = decided[h]]
    /\ UNCHANGED decided

Next == \E h \in Heights : Decide(h) \/ Tell(h)

Spec == Init /\ [][Next]_<<decided, told>>
=============================================================================

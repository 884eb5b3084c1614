----------------------------- MODULE SealedHook -----------------------------
(***************************************************************************)
(* What OnSealed of cmd/qsdm/main.go does after a block: it matures        *)
(* delegated stake (pkg/chain/staking_ledger.go), publishes the block's    *)
(* round certificate and marks it with the POL follower (pol_follower.go), *)
(* and tracks the block for finality (finality.go).  Certificates of peers *)
(* arrive at any time; a certificate of another state root is a fork, and  *)
(* the POL gate then stops the chain at that height.                       *)
(*                                                                         *)
(* A sealing goroutine passes the gate, appends, and runs the hook without *)
(* bp.mu, so hooks of two goroutines overlap.  The hook works on the       *)
(* LatestBlock it reads, which need not be the block it was called for.    *)
(* A block is its height; a root is "own" (that of the chain) or "fork".   *)
(***************************************************************************)
EXTENDS Integers, FiniteSets, FiniteSetsExt

CONSTANTS
    Goroutines,      \* that seal or append
    ConfirmationDepth, FinalityDepth,
    Retention,       \* heights the POL follower keeps
    Ahead,           \* how far above the tip a peer's certificate may be
    Funds,           \* what the delegator owns
    UnbondBlocks,
    SlashNum, SlashDen,  \* SlashFraction as a quotient
    MaxHeight, MaxSlashes   \* bounds

Heights == 1..MaxHeight
MatureHeights == 1..(MaxHeight + UnbondBlocks)
Roots == {"own", "fork"}

\* What the configuration of the node guarantees.
HookParameters ==
    /\ Goroutines # {} /\ IsFiniteSet(Goroutines)
    /\ ConfirmationDepth \in Nat \ {0} /\ FinalityDepth \in Nat \ {0}
    /\ Retention \in Nat /\ Ahead \in Nat /\ Funds \in Nat /\ UnbondBlocks \in Nat \ {0}
    /\ SlashNum \in Nat /\ SlashDen \in Nat \ {0} /\ SlashNum <= SlashDen
    /\ MaxHeight \in Nat /\ MaxSlashes \in Nat

ASSUME HookAssumption == HookParameters

VARIABLES
    tip,                            \* BlockProducer.chain
    pc, blk,                        \* of each goroutine: its step, the block it works on
    local, published, cert, conflict, observed,   \* PolFollower
    rec, lastFinalized,             \* FinalityGadget
    bal, debited, bonded, unbond,   \* the delegator's account, a Debit whose bond is to
                                    \* follow, its bond, and by height what its entries that
                                    \* mature there (and are credited in one call) add up to
    lost, slashes                   \* stake slashed so far, and how often

chainVars == <<tip, pc, blk>>
polVars   == <<local, published, cert, conflict, observed>>
finVars   == <<rec, lastFinalized>>
stakeVars == <<bal, debited, bonded, unbond, lost, slashes>>
vars == <<tip, pc, blk, local, published, cert, conflict, observed, rec, lastFinalized,
          bal, debited, bonded, unbond, lost, slashes>>

Untracked == [status |-> "none", conf |-> 0]

Init ==
    /\ tip = 0 /\ pc = [g \in Goroutines |-> "idle"] /\ blk = [g \in Goroutines |-> 0]
    /\ local = {} /\ published = {} /\ conflict = {} /\ observed = 0
    /\ cert = [h \in Heights |-> "none"]
    /\ rec = [h \in Heights |-> Untracked] /\ lastFinalized = 0
    /\ bal = Funds /\ debited = 0 /\ bonded = 0 /\ unbond = [k \in MatureHeights |-> 0] /\ lost = 0 /\ slashes = 0

----------------------------------------------------------------------------
(* PolFollower                                                               *)

\* allowFinalizeCoreLocked, for the root of the chain.
AllowFinalize(h) ==
    /\ h \notin conflict
    /\ h \in local => cert[h] = "own" \/ h \in published

\* Mutant: pruning forgets conflicts up to the cutoff and its next height.
PrunedTooFar(o) == {h \in Heights : o > Retention /\ h <= o - Retention + 1}

\* The heights pruneLocked drops when o is the highest height observed.
Pruned(o) == {h \in Heights : o > Retention /\ h < o - Retention}

\* IngestRoundCertificate: a root that differs from the local one, or from a
\* certificate that came before, marks the height.
IngestRoundCertificate(h, root) ==
    /\ h <= tip + Ahead
    /\ IF (h \in local /\ root # "own") \/ (cert[h] # "none" /\ cert[h] # root)
       THEN conflict' = conflict \cup {h} /\ UNCHANGED <<local, published, cert, observed>>
       ELSE LET o == Max({observed, h}) IN
            /\ observed' = o
            /\ cert' = [k \in Heights |-> IF k \in Pruned(o) THEN "none" ELSE IF k = h THEN root ELSE cert[k]]
            /\ local' = local \ Pruned(o) /\ published' = published \ (local \cap Pruned(o))
            /\ conflict' = conflict \ (local \cap Pruned(o))
    /\ UNCHANGED <<chainVars, finVars, stakeVars>>

----------------------------------------------------------------------------
(* Sealing                                                                   *)

Goto(g, s) == pc' = [pc EXCEPT ![g] = s]

\* The POL gate of ProduceBlock and TryAppendExternalBlock.
PassGate(g) ==
    /\ pc[g] = "idle" /\ tip < MaxHeight
    /\ tip > 0 => AllowFinalize(tip)
    /\ blk' = [blk EXCEPT ![g] = tip + 1] /\ Goto(g, "append")
    /\ UNCHANGED <<tip, polVars, finVars, stakeVars>>

\* The block is appended, unless another one has taken its place.
Append(g) ==
    /\ pc[g] = "append"
    /\ IF blk[g] = tip + 1 THEN tip' = tip + 1 /\ Goto(g, "latest") ELSE Goto(g, "idle") /\ UNCHANGED tip
    /\ UNCHANGED <<blk, polVars, finVars, stakeVars>>

----------------------------------------------------------------------------
(* OnSealed                                                                  *)

ReadLatest(g) ==
    /\ pc[g] = "latest" /\ Goto(g, "mature")
    /\ blk' = [blk EXCEPT ![g] = tip]
    /\ UNCHANGED <<tip, polVars, finVars, stakeVars>>

\* Mutant: entries are credited and kept.
KeptAll(h) == unbond

\* The entries that ProcessCommittedHeight keeps.
Kept(h) == [k \in MatureHeights |-> IF k > h THEN unbond[k] ELSE 0]

\* The entries it credits.
Due(h) == {k \in MatureHeights : k <= h}

\* ProcessCommittedHeight
Mature(g) ==
    /\ pc[g] = "mature" /\ Goto(g, "record")
    /\ bal' = bal + SumFunctionOnSet(unbond, Due(blk[g]))
    /\ unbond' = Kept(blk[g])
    /\ UNCHANGED <<tip, blk, polVars, finVars, debited, bonded, lost, slashes>>

\* PublishPolAfterBlockSeal: RecordLocalSealedBlock, then the round and, on
\* every path, MarkLocalRoundCertificatePublished.
RecordLocal(g) ==
    /\ pc[g] = "record" /\ Goto(g, "mark")
    /\ local' = local \cup {blk[g]}
    /\ UNCHANGED <<tip, blk, published, cert, conflict, observed, finVars, stakeVars>>

\* Mutant: a round that failed is not marked.
MarkNothing(h) == published

MarkPublished(h) == published \cup {h}

Mark(g) ==
    /\ pc[g] = "mark" /\ Goto(g, "track")
    /\ published' = MarkPublished(blk[g])
    /\ UNCHANGED <<tip, blk, local, cert, conflict, observed, finVars, stakeVars>>

\* TrackBlockWithMeta
Track(g) ==
    /\ pc[g] = "track" /\ Goto(g, "tip")
    /\ rec' = [rec EXCEPT ![blk[g]] = [status |-> "pending", conf |-> 0]]
    /\ UNCHANGED <<tip, blk, lastFinalized, polVars, stakeVars>>

\* Mutant: one more block is needed than FinalityDepth says.
AdvancedLate(h, r, t) ==
    LET conf == IF t >= h THEN t - h ELSE r.conf
        confirmed == r.status = "confirmed" \/ (r.status = "pending" /\ conf >= ConfirmationDepth) IN
    [conf |-> conf, status |-> IF confirmed /\ conf > FinalityDepth /\ AllowFinalize(h) THEN "finalized"
                               ELSE IF confirmed THEN "confirmed" ELSE r.status]

\* The record of height h after UpdateTip(t): pending, then confirmed, then,
\* if the POL follower allows it, finalized; possibly all at once.
Advanced(h, r, t) ==
    LET conf == IF t >= h THEN t - h ELSE r.conf
        confirmed == r.status = "confirmed" \/ (r.status = "pending" /\ conf >= ConfirmationDepth) IN
    [conf |-> conf, status |-> IF confirmed /\ conf >= FinalityDepth /\ AllowFinalize(h) THEN "finalized"
                               ELSE IF confirmed THEN "confirmed" ELSE r.status]

UpdateTip(g) ==
    /\ pc[g] = "tip" /\ Goto(g, "idle")
    /\ rec' = [h \in Heights |-> IF rec[h].status = "none" THEN rec[h] ELSE Advanced(h, rec[h], blk[g])]
    /\ lastFinalized' =
         Max({lastFinalized} \cup {h \in Heights : rec'[h].status = "finalized" /\ rec[h].status # "finalized"})
    /\ UNCHANGED <<tip, blk, polVars, stakeVars>>

----------------------------------------------------------------------------
(* StakingLedger                                                             *)

\* Delegate takes the amount from the account, then bonds it under s.mu.
DelegateDebit ==
    /\ debited = 0
    /\ \E a \in 1..bal : bal' = bal - a /\ debited' = a
    /\ UNCHANGED <<chainVars, polVars, finVars, bonded, unbond, lost, slashes>>

DelegateBond ==
    /\ debited > 0 /\ debited' = 0 /\ bonded' = bonded + debited
    /\ UNCHANGED <<chainVars, polVars, finVars, bal, unbond, lost, slashes>>

BeginUnbond ==
    /\ \E a \in 1..bonded :
        /\ bonded' = bonded - a
        /\ unbond' = [unbond EXCEPT ![tip + UnbondBlocks] = @ + a]
    /\ UNCHANGED <<chainVars, polVars, finVars, bal, debited, lost, slashes>>

\* SlashDelegated scales bonds down, never entries that are unbonding.
SlashDelegated ==
    /\ slashes < MaxSlashes /\ slashes' = slashes + 1
    /\ bonded' = bonded - (bonded * SlashNum) \div SlashDen
    /\ lost' = lost + (bonded - bonded')
    /\ UNCHANGED <<chainVars, polVars, finVars, bal, debited, unbond>>

----------------------------------------------------------------------------
Hook(g) ==
    \/ Append(g) \/ ReadLatest(g) \/ Mature(g) \/ RecordLocal(g) \/ Mark(g) \/ Track(g) \/ UpdateTip(g)

Next ==
    \/ \E g \in Goroutines : PassGate(g) \/ Hook(g)
    \/ \E h \in Heights, root \in Roots : IngestRoundCertificate(h, root)
    \/ DelegateDebit \/ DelegateBond \/ BeginUnbond \/ SlashDelegated

Spec == Init /\ [][Next]_vars

\* A goroutine goes on with its block and its hook, and then takes the next one.
FairSpec == Spec /\ \A g \in Goroutines : WF_vars(Hook(g)) /\ WF_vars(PassGate(g))

----------------------------------------------------------------------------
(* Properties *)

\* Every variable has the shape the code gives it; no amount is negative.
TypeOK ==
    /\ tip \in 0..MaxHeight /\ blk \in [Goroutines -> 0..MaxHeight]
    /\ local \subseteq Heights /\ published \subseteq Heights /\ conflict \subseteq Heights
    /\ cert \in [Heights -> Roots \cup {"none"}] /\ observed \in 0..MaxHeight
    /\ rec \in [Heights -> [status : {"none", "pending", "confirmed", "finalized"}, conf : 0..MaxHeight]]
    /\ lastFinalized \in 0..MaxHeight
    /\ bal \in 0..Funds /\ debited \in 0..Funds /\ bonded \in 0..Funds 
    /\ unbond \in [MatureHeights -> 0..Funds]

\* The delegator's funds are in the account, on their way, bonded, unbonding or
\* slashed: no interleaving of Delegate, BeginUnbond, a slash and the release by
\* the hook creates or loses any.
StakeConserved == bal + debited + bonded + SumFunction(unbond) + lost = Funds

\* The hook's state has its types and the delegated stake adds up.
StakeInv == TypeOK /\ StakeConserved

\* A conflict at the tip stops the chain for good: once it is known and no
\* append has passed the gate, no later certificate, pruning or hook lets a block
\* follow (certificates are at most Retention heights ahead).
ConflictHalts ==
    \A h \in Heights :
        [](tip = h /\ h \in conflict /\ (\A g \in Goroutines : pc[g] # "append") => [](tip = h))

\* While no certificate contradicts it, the chain goes on: a round of the node's
\* own that failed does not block it (its block is marked all the same).
ChainGoesOn == [](conflict = {}) => <>(tip = MaxHeight)

\* A block that no certificate contradicts is finalized once it is deep enough,
\* and stays so: neither a later UpdateTip nor another TrackBlockWithMeta of its
\* height takes it back.
EventuallyFinalized ==
    \A h \in Heights :
        [](h \notin conflict) => (tip >= h + FinalityDepth ~> [](rec[h].status = "finalized"))
=============================================================================

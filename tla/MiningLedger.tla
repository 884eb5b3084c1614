---------------------------- MODULE MiningLedger ----------------------------
(***************************************************************************)
(* The CELL ledger of a QSD validator and the miner-enrollment registry    *)
(* that holds part of it as bonds: pkg/chain (AccountStore,                *)
(* EnrollmentAwareApplier, EnrollmentApplier, SlashApplier, mining reward) *)
(* and pkg/mining/enrollment (InMemoryState).                              *)
(*                                                                         *)
(* Amounts are whole dust.  Transactions are applied one at a time (the    *)
(* producer holds bp.mu); the sealed-block hook of a block runs outside    *)
(* bp.mu, so when Overlap > 0 it may run while a later transaction is      *)
(* between its validation and its commit.  A transaction that touches the  *)
(* registry is therefore two steps, Begin and Commit; a transaction that   *)
(* is rejected before it changed anything is no step at all.               *)
(***************************************************************************)
EXTENDS Integers, FiniteSets

CONSTANTS
    Wallets,        \* canonical wallet addresses (64 hex digits)
    LegacyOwners,   \* owners that predate canonical addresses
    Funder,         \* MiningRewardFunderAddress
    Nodes,          \* node_ids; their lexical order is the order of Nat
    GPUs,           \* gpu_uuids
    DoubleMining,   \* evidence: two proofs of one node for one height
    Forged,         \* forged-attestation evidence: a proof that never verified
    AcceptedProofs, \* forged-attestation evidence: a proof that the chain accepted
    Malformed,      \* forged-attestation evidence whose bundle does not parse
    Culprit,        \* Culprit[e]: the node_id that evidence e names
    MinEnrollStake, \* mining.MinEnrollStakeDust
    UnbondWindow,
    SunsetHeight,   \* LegacyOwnerSunsetHeight
    SignedHeight,   \* SignedContractActivationHeight
    AutoRevokeMin,  \* auto_revoke_min_stake_dust
    RewardBPS,      \* reward_bps
    SlashCap,       \* the verifier's cap on one slash; 0 is no cap
    Genesis,        \* balances after the genesis block
    Supply,         \* all dust in existence
    NoRec, NoTx,
    Overlap,        \* how many other goroutines may be inside a sealed-block hook
    Fees, TransferAmounts, RewardAmounts, SlashAmounts,  \* inputs tried
    MaxNonce,       \* bound: transactions per sender
    TxHorizon,      \* bound: no transaction above this tip
    MaxHeight       \* bound: no block above this height

Evidence == DoubleMining \cup Forged \cup AcceptedProofs \cup Malformed
Owners == Wallets \cup LegacyOwners
Addrs  == Owners \cup {Funder}
NoNode == 0
BondModes == {"upfront", "mining_rewards"}

Record == [owner : Owners, gpu : GPUs, mode : BondModes, stake : 0..MinEnrollStake,
           revokedAt : Nat, maturesAt : Nat]

\* The sum of f[x] over the domain of f: its units, counted.
Units(f) == UNION {{x} \X (1..f[x]) : x \in DOMAIN f}
Dust(f)  == Cardinality(Units(f))

ASSUME LedgerAssumption ==
    /\ IsFiniteSet(Addrs) /\ IsFiniteSet(Nodes) /\ IsFiniteSet(GPUs)
    /\ Nodes \subseteq Nat \ {0}
    /\ Funder \notin Owners /\ Wallets \cap LegacyOwners = {}
    /\ Culprit \in [Evidence -> Nodes]
    /\ MinEnrollStake \in Nat \ {0} /\ UnbondWindow \in Nat
    /\ SunsetHeight \in Nat \ {0} /\ SignedHeight \in Nat
    /\ SignedHeight <= SunsetHeight + UnbondWindow  \* 200000 <= 171500 + 201600
    /\ AutoRevokeMin \in Nat /\ SlashCap \in Nat /\ RewardBPS \in 0..5000
    /\ Supply \in Nat /\ Genesis \in [Addrs -> 0..Supply]
    /\ Dust(Genesis) = Supply
    /\ NoRec \notin Record
    /\ Fees \subseteq Nat /\ TransferAmounts \subseteq Nat
    /\ RewardAmounts \subseteq Nat \ {0} /\ SlashAmounts \subseteq Nat \ {0}
    /\ MaxNonce \in Nat /\ TxHorizon \in Nat /\ MaxHeight \in Nat
    /\ Overlap \in Nat

VARIABLES
    known,      \* addresses with an account
    bal,        \* balances, in dust
    nonce,
    recs,       \* InMemoryState.byNodeID
    gpuActive,  \* InMemoryState.byGPUActive; NoNode is an absent key
    seen,       \* InMemoryState.seenEvidence
    burned,     \* history: dust taken from accounts and bonds for good
    tip,        \* height of the latest sealed block
    unswept,    \* sealed blocks whose hook has not run yet
    applying    \* the transaction between Begin and Commit, or NoTx

accountVars  == <<known, bal, nonce>>
registryVars == <<recs, gpuActive, seen>>
chainVars    == <<tip, unswept>>
vars == <<known, bal, nonce, recs, gpuActive, seen, burned, tip, unswept, applying>>


Min2(a, b) == IF a <= b THEN a ELSE b

----------------------------------------------------------------------------
(* EnrollmentRecord *)

Enrolled(n) == recs[n] # NoRec
Active(n)   == Enrolled(n) /\ recs[n].revokedAt = 0
Unbonding(n) == Enrolled(n) /\ recs[n].revokedAt # 0
BondRemaining(n) == MinEnrollStake - recs[n].stake

\* Mutant: the unbond window is not added.
RevokedAtOnce(r, h) == [r EXCEPT !.revokedAt = h, !.maturesAt = h]

\* The record r after it is revoked at height h.
Revoked(r, h) == [r EXCEPT !.revokedAt = h, !.maturesAt = h + UnbondWindow]

\* Mutant: a record without stake is never released.
MatureWithStake(r, h) == r.revokedAt # 0 /\ r.stake > 0 /\ h >= r.maturesAt

MatureForUnbond(r, h) == r.revokedAt # 0 /\ h >= r.maturesAt

\* Mutant: the binding of a revoked record stays.
KeepBinding(ga, g) == ga

\* delete(s.byGPUActive, g)
ReleaseBinding(ga, g) == [ga EXCEPT ![g] = NoNode]

----------------------------------------------------------------------------
Init ==
    /\ known = Addrs \ {a \in Owners : Genesis[a] = 0}
    /\ bal = Genesis
    /\ nonce = [a \in Addrs |-> 0]
    /\ recs = [n \in Nodes |-> NoRec]
    /\ gpuActive = [g \in GPUs |-> NoNode]
    /\ seen = {}
    /\ burned = 0
    /\ tip = 0
    /\ unswept = {}
    /\ applying = NoTx

\* The height that HeightFn gives to a transaction: bp.TipHeight() + 1.
TxHeight == tip + 1

\* bp.mu is free for the next transaction.  A goroutine seals its next
\* block only after the hook of its last one (the block driver, the external
\* append and the BFT commit callback are the goroutines that do).
Ready ==
    /\ applying = NoTx
    /\ tip < TxHorizon
    /\ Cardinality(unswept) <= Overlap

\* The v2 contract is signed by the sender's wallet key, so a legacy owner can
\* only use the v1 contract, which ends at SignedHeight.
MaySign(a) == a \in Wallets \/ (a \in LegacyOwners /\ TxHeight < SignedHeight)

\* ChargeAndBumpNonce would accept this charge.
CanCharge(a, amount) == a \in known /\ nonce[a] < MaxNonce /\ bal[a] >= amount

----------------------------------------------------------------------------
(* AccountStore.ApplyTx: the fee is burned. *)

Transfer(from, to, amount, fee) ==
    /\ Ready
    /\ CanCharge(from, amount + fee)
    /\ bal' = [[bal EXCEPT ![from] = @ - (amount + fee)] EXCEPT ![to] = @ + amount]
    /\ nonce' = [nonce EXCEPT ![from] = @ + 1]
    /\ known' = known \cup {to}
    /\ burned' = burned + fee
    /\ UNCHANGED <<registryVars, chainVars, applying>>

----------------------------------------------------------------------------
(* EnrollmentApplier.applyEnroll *)

StakeOf(mode) == IF mode = "upfront" THEN MinEnrollStake ELSE 0

\* ApplyEnroll's own check: both the node_id and the gpu_uuid are free.
Bindable(n, g) == ~Enrolled(n) /\ gpuActive[g] = NoNode

ValidateEnroll(a, n, g, mode) ==
    /\ mode = "upfront" => a \in known /\ bal[a] >= MinEnrollStake
    /\ Bindable(n, g)

BeginEnroll(a, n, g, mode, fee) ==
    /\ Ready
    /\ MaySign(a)
    /\ mode = "mining_rewards" => a \in Wallets
    /\ ValidateEnroll(a, n, g, mode)
    /\ applying' = [kind |-> "enroll", from |-> a, node |-> n, gpu |-> g, mode |-> mode, fee |-> fee]
    /\ UNCHANGED <<accountVars, registryVars, burned, chainVars>>

\* The charge that applyEnroll picks: a fee-free deferred enrollment may
\* create the sender's account, every other one needs it to exist.
CanChargeEnroll(tx) ==
    LET total == StakeOf(tx.mode) + tx.fee IN
    \/ CanCharge(tx.from, total)
    \/ total = 0 /\ tx.from \notin known /\ nonce[tx.from] = 0 /\ MaxNonce > 0

\* ApplyEnroll re-checks both bindings; on failure the stake is credited back
\* and the fee and the nonce stay consumed.
CommitEnroll ==
    LET tx == applying
        bound == Bindable(tx.node, tx.gpu)
        stake == StakeOf(tx.mode)
    IN  /\ tx # NoTx /\ tx.kind = "enroll"
        /\ CanChargeEnroll(tx)
        /\ applying' = NoTx
        /\ known' = known \cup {tx.from}
        /\ nonce' = [nonce EXCEPT ![tx.from] = @ + 1]
        /\ bal' = [bal EXCEPT ![tx.from] = @ - (tx.fee + (IF bound THEN stake ELSE 0))]
        /\ burned' = burned + tx.fee
        /\ recs' = IF bound
                   THEN [recs EXCEPT ![tx.node] =
                           [owner |-> tx.from, gpu |-> tx.gpu, mode |-> tx.mode, stake |-> stake,
                            revokedAt |-> 0, maturesAt |-> 0]]
                   ELSE recs
        /\ gpuActive' = IF bound THEN [gpuActive EXCEPT ![tx.gpu] = tx.node] ELSE gpuActive
        /\ UNCHANGED <<seen, chainVars>>

----------------------------------------------------------------------------
(* EnrollmentApplier.applyUnenroll *)

ValidateUnenroll(a, n) == Active(n) /\ recs[n].owner = a

BeginUnenroll(a, n, fee) ==
    /\ Ready
    /\ MaySign(a)
    /\ ValidateUnenroll(a, n)
    /\ applying' = [kind |-> "unenroll", from |-> a, node |-> n, fee |-> fee]
    /\ UNCHANGED <<accountVars, registryVars, burned, chainVars>>

\* InMemoryState.ApplyUnenroll fails when the record stopped being active
\* after the validation; the fee is then refunded, the nonce is not.
CommitUnenroll ==
    LET tx == applying
        active == Active(tx.node)
    IN  /\ tx # NoTx /\ tx.kind = "unenroll"
        /\ CanCharge(tx.from, tx.fee)
        /\ applying' = NoTx
        /\ nonce' = [nonce EXCEPT ![tx.from] = @ + 1]
        /\ bal' = IF active THEN [bal EXCEPT ![tx.from] = @ - tx.fee] ELSE bal
        /\ burned' = IF active THEN burned + tx.fee ELSE burned
        /\ recs' = IF active THEN [recs EXCEPT ![tx.node] = Revoked(@, TxHeight)] ELSE recs
        /\ gpuActive' = IF active THEN ReleaseBinding(gpuActive, recs[tx.node].gpu) ELSE gpuActive
        /\ UNCHANGED <<known, seen, chainVars>>

----------------------------------------------------------------------------
(* EnrollmentApplier.ApplyMiningRewardTx *)

\* The records AccrueBondFromReward fills for owner o, in lexical order.
Provisional(o) ==
    {n \in Nodes : Active(n) /\ recs[n].owner = o /\ recs[n].mode = "mining_rewards"
                   /\ BondRemaining(n) > 0}

\* Dust that the records before n take first.
Ahead(o, n) ==
    Cardinality({u \in Provisional(o) \X (1..MinEnrollStake) : u[1] < n /\ u[2] <= BondRemaining(u[1])})

\* Mutant: every record is filled from the whole reward.
LockedFromWhole(o, n, reward) == IF n \in Provisional(o) THEN Min2(BondRemaining(n), reward) ELSE 0

\* What AccrueBondFromReward adds to record n out of a reward.
Locked(o, n, reward) ==
    IF n \in Provisional(o) /\ reward > Ahead(o, n)
    THEN Min2(BondRemaining(n), reward - Ahead(o, n))
    ELSE 0

Registry == [recs |-> recs, gpuActive |-> gpuActive, seen |-> seen]

\* The clone, and the accrual on the live registry.  A stale transaction
\* carries a nonce that is not the funder's.
BeginReward(to, amount, stale) ==
    LET locked == [n \in Nodes |-> Locked(to, n, amount)] IN
    /\ Ready
    /\ recs' = [n \in Nodes |->
                  IF locked[n] > 0 THEN [recs[n] EXCEPT !.stake = @ + locked[n]] ELSE recs[n]]
    /\ applying' = [kind |-> "reward", to |-> to, amount |-> amount, stale |-> stale,
                    liquid |-> amount - Dust(locked), before |-> Registry]
    /\ UNCHANGED <<accountVars, gpuActive, seen, burned, chainVars>>

\* Mutant: a reward that failed keeps its accrual.
NeverRestored(ok, before) == Registry

\* The registry after the reward: the live one, or Restore(before).
RestoredUnless(ok, before) == IF ok THEN Registry ELSE before

\* ApplyProtocolReward, or Restore(before) when it fails.
CommitReward ==
    LET tx == applying
        ok == CanCharge(Funder, tx.amount) /\ ~tx.stale
    IN  /\ tx # NoTx /\ tx.kind = "reward"
        /\ applying' = NoTx
        /\ bal' = IF ok THEN [[bal EXCEPT ![Funder] = @ - tx.amount] EXCEPT ![tx.to] = @ + tx.liquid]
                        ELSE bal
        /\ nonce' = IF ok THEN [nonce EXCEPT ![Funder] = @ + 1] ELSE nonce
        /\ known' = IF ok /\ tx.liquid > 0 THEN known \cup {tx.to} ELSE known
        /\ recs' = RestoredUnless(ok, tx.before).recs
        /\ gpuActive' = RestoredUnless(ok, tx.before).gpuActive
        /\ seen' = RestoredUnless(ok, tx.before).seen
        /\ UNCHANGED <<burned, chainVars>>

----------------------------------------------------------------------------
(* SlashApplier.ApplySlashTx *)

\* The verifiers re-run the HMAC acceptance of a proof, whose registry lookup
\* fails for a revoked record.  Double mining wants it to pass for both proofs.
VerifyDoubleMining(e, n) == e \in DoubleMining /\ Culprit[e] = n /\ Active(n)

\* A forged attestation wants it to fail; a bundle that does not parse is one
\* of whichever node the slash names.
VerifyForged(e, n) ==
    \/ e \in Malformed
    \/ e \in Forged /\ Culprit[e] = n
    \/ e \in AcceptedProofs /\ Culprit[e] = n /\ ~Active(n)

\* The dispatcher.  The freshness-cheat verifier behind it has a witness that
\* rejects everything.
VerifyEvidence(e, n) == VerifyDoubleMining(e, n) \/ VerifyForged(e, n)

BeginSlash(a, n, e, amount, fee) ==
    LET capped == IF SlashCap > 0 THEN Min2(amount, SlashCap) ELSE amount IN
    /\ Ready
    /\ fee > 0
    /\ Enrolled(n)
    /\ e \notin seen
    /\ VerifyEvidence(e, n)
    /\ applying' = [kind |-> "slash", from |-> a, node |-> n, evidence |-> e,
                    amount |-> Min2(capped, recs[n].stake), fee |-> fee]
    /\ UNCHANGED <<accountVars, registryVars, burned, chainVars>>

\* Mutant: a record that is already revoked is revoked again.
UnderBondedAgain(r) == AutoRevokeMin > 0 /\ r.stake < AutoRevokeMin

\* RevokeIfUnderBonded on a record that was just slashed.
UnderBonded(r) == r.revokedAt = 0 /\ AutoRevokeMin > 0 /\ r.stake < AutoRevokeMin

\* SlashStake takes at most what is there; it fails when the record is gone.
SlashStake(n, amount) == IF Enrolled(n) THEN Min2(amount, recs[n].stake) ELSE 0

\* MarkEvidenceSeen
MarkEvidenceSeen(e) == seen \cup {e}

\* Fee and nonce, MarkEvidenceSeen, SlashStake, the slasher's share, the
\* auto-revoke.  When the record is gone SlashStake fails, and the fee and the
\* evidence stay consumed.
CommitSlash ==
    LET tx == applying
        present == Enrolled(tx.node)
        slashed == SlashStake(tx.node, tx.amount)
        reward  == (slashed * RewardBPS) \div 10000
        rec     == [recs[tx.node] EXCEPT !.stake = @ - slashed]
        revoke  == present /\ UnderBonded(rec)
    IN  /\ tx # NoTx /\ tx.kind = "slash"
        /\ CanCharge(tx.from, tx.fee)
        /\ applying' = NoTx
        /\ nonce' = [nonce EXCEPT ![tx.from] = @ + 1]
        /\ bal' = [bal EXCEPT ![tx.from] = @ - tx.fee + reward]
        /\ burned' = burned + tx.fee + (slashed - reward)
        /\ seen' = MarkEvidenceSeen(tx.evidence)
        /\ recs' = IF present
                   THEN [recs EXCEPT ![tx.node] = IF revoke THEN Revoked(rec, TxHeight) ELSE rec]
                   ELSE recs
        /\ gpuActive' = IF revoke THEN ReleaseBinding(gpuActive, rec.gpu) ELSE gpuActive
        /\ UNCHANGED <<known, chainVars>>

----------------------------------------------------------------------------
\* The charge of the pending transaction fails: it is rejected, nothing moves.
RejectCharge ==
    LET tx == applying IN
    /\ tx # NoTx
    /\ \/ tx.kind = "enroll" /\ ~CanChargeEnroll(tx)
       \/ tx.kind \in {"unenroll", "slash"} /\ ~CanCharge(tx.from, tx.fee)
    /\ applying' = NoTx
    /\ UNCHANGED <<accountVars, registryVars, burned, chainVars>>

----------------------------------------------------------------------------
(* Sealing a block, and its SealedBlockHook. *)

SealBlock ==
    /\ applying = NoTx
    /\ tip < MaxHeight
    /\ Cardinality(unswept) <= Overlap
    /\ tip' = tip + 1
    /\ unswept' = unswept \cup {tip + 1}
    /\ UNCHANGED <<accountVars, registryVars, burned, applying>>

\* Mutant: the sunset runs at its own height only.
LegacyOnlyAt(h) == {n \in Nodes : h = SunsetHeight /\ Active(n) /\ recs[n].owner \in LegacyOwners}

\* RevokeLegacyOwners(h) revokes these records.
LegacyAt(h) == {n \in Nodes : h >= SunsetHeight /\ Active(n) /\ recs[n].owner \in LegacyOwners}

\* SweepMaturedEnrollments(h): RevokeLegacyOwners, SweepMaturedUnbonds, and a
\* Credit for every release.
SweepMaturedEnrollments(h) ==
    LET legacy == LegacyAt(h)
        mid == [n \in Nodes |-> IF n \in legacy THEN Revoked(recs[n], SunsetHeight) ELSE recs[n]]
        matured == {n \in Nodes : mid[n] # NoRec /\ MatureForUnbond(mid[n], h)}
        released(a) == Cardinality({u \in matured \X (1..MinEnrollStake) :
                                      mid[u[1]].owner = a /\ u[2] <= mid[u[1]].stake})
    IN  /\ recs' = [n \in Nodes |-> IF n \in matured THEN NoRec ELSE mid[n]]
        /\ gpuActive' = [g \in GPUs |-> IF \E n \in legacy : recs[n].gpu = g THEN NoNode ELSE gpuActive[g]]
        /\ bal' = [a \in Addrs |-> bal[a] + released(a)]
        /\ known' = known \cup {mid[n].owner : n \in matured}

SealedHook(h) ==
    /\ h \in unswept
    /\ unswept' = unswept \ {h}
    /\ SweepMaturedEnrollments(h)
    /\ UNCHANGED <<nonce, seen, burned, tip, applying>>

----------------------------------------------------------------------------
Apply ==
    \/ \E a, b \in Owners, x \in TransferAmounts, f \in Fees : Transfer(a, b, x, f)
    \/ \E a \in Owners, n \in Nodes, g \in GPUs, m \in BondModes, f \in Fees : BeginEnroll(a, n, g, m, f)
    \/ \E a \in Owners, n \in Nodes, f \in Fees : BeginUnenroll(a, n, f)
    \/ \E a \in Owners, x \in RewardAmounts, s \in BOOLEAN : BeginReward(a, x, s)
    \/ \E a \in Owners, n \in Nodes, e \in Evidence, x \in SlashAmounts, f \in Fees : BeginSlash(a, n, e, x, f)

Commit == CommitEnroll \/ CommitUnenroll \/ CommitReward \/ CommitSlash \/ RejectCharge

Hook == \E h \in unswept : SealedHook(h)

Next == Apply \/ Commit \/ SealBlock \/ Hook

Spec == Init /\ [][Next]_vars

\* A validator finishes the transaction it holds bp.mu for, keeps sealing
\* blocks (its driver ticks and a block drains a bounded batch, so rejected
\* transactions cannot keep it from sealing), and runs the hook of every block
\* it sealed.
Fairness == WF_vars(Commit) /\ SF_vars(SealBlock) /\ WF_vars(Hook)

FairSpec == Spec /\ Fairness
----------------------------------------------------------------------------
(* Properties. *)

Snapshot == [recs : [Nodes -> Record \cup {NoRec}], gpuActive : [GPUs -> Nodes \cup {NoNode}],
             seen : SUBSET Evidence]

EnrollTx   == [kind : {"enroll"}, from : Owners, node : Nodes, gpu : GPUs, mode : BondModes, fee : Nat]
UnenrollTx == [kind : {"unenroll"}, from : Owners, node : Nodes, fee : Nat]
RewardTx   == [kind : {"reward"}, to : Owners, amount : Nat, stale : BOOLEAN, liquid : Nat,
               before : Snapshot]
SlashTx    == [kind : {"slash"}, from : Owners, node : Nodes, evidence : Evidence, amount : Nat,
               fee : Nat]

ASSUME TxAssumption == NoTx \notin EnrollTx \cup UnenrollTx \cup RewardTx \cup SlashTx

\* Balances and bonds never go negative, no bond exceeds the minimum stake,
\* and the liquid part of a reward is never negative: uint64 and the balance
\* checks of AccountStore and AccrueBondFromReward would otherwise wrap.
TypeOK ==
    /\ known \subseteq Addrs
    /\ bal \in [Addrs -> Nat]
    /\ nonce \in [Addrs -> 0..MaxNonce]
    /\ Registry \in Snapshot
    /\ burned \in Nat
    /\ tip \in Nat
    /\ unswept \subseteq 1..tip
    /\ applying \in EnrollTx \cup UnenrollTx \cup RewardTx \cup SlashTx \cup {NoTx}

\* Dust held in bonds.
BondsOf(r) == [n \in Nodes |-> IF r[n] = NoRec THEN 0 ELSE r[n].stake]
Bonded == Dust(BondsOf(recs))

\* Dust a reward in progress has added to bonds and not yet taken from the
\* funder.
Accrued == IF applying # NoTx /\ applying.kind = "reward" THEN applying.amount - applying.liquid ELSE 0

\* Every dust is in an account, in a bond or burned: enrolling, accruing,
\* slashing, sweeping and the rollback of a failed reward (ApplyMiningRewardTx)
\* create and lose none.
DustConserved == Dust(bal) + Bonded + burned = Supply + Accrued

\* InMemoryState's two indexes agree: byGPUActive[g] = n exactly when record n
\* is active and holds g.  So no card mines under two node_ids, and none stays
\* blocked once its record is revoked.
BindingOf(r, ga) ==
    \A g \in GPUs, n \in Nodes :
        ga[g] = n <=> r[n] # NoRec /\ r[n].revokedAt = 0 /\ r[n].gpu = g
GPUBinding == BindingOf(recs, gpuActive)

\* The step rolls back a reward that failed.
Rollback == applying # NoTx /\ applying.kind = "reward" /\ applying' = NoTx /\ nonce' = nonce

\* The step rolls back a reward, and since the reward took its clone a hook
\* has changed the registry: the rollback undoes what the hook did.
RollbackOfHook ==
    /\ Rollback
    /\ \/ gpuActive # applying.before.gpuActive
       \/ \E n \in Nodes : \/ Enrolled(n) # (applying.before.recs[n] # NoRec)
                           \/ Unbonding(n) /\ recs[n] # applying.before.recs[n]

\* No step creates or loses dust: enrolling, accruing, slashing, sweeping and
\* the rollback of a failed reward (ApplyMiningRewardTx) only move it.  The
\* rollback that undoes a hook is left out; DustConserved is about it.
StepConserves ==
    [][\/ RollbackOfHook
       \/ Dust(bal') + Bonded' + burned' - Accrued'
            = Dust(bal) + Bonded + burned - Accrued]_vars

\* A bond shrinks only by a slash of its node with evidence that was never used
\* before, or by its release, in full, to its owner, at least UnbondWindow
\* blocks after it was revoked, or by the rollback of a reward that failed.
\* A legacy record counts as revoked at the sunset; when hooks overlap, one
\* sweep may revoke and release it.  Replaying evidence, a revoke or a later
\* enrollment of the card never touch it.
BondLeavesOnlyBySlashOrRelease ==
    [][\A n \in Nodes :
         Enrolled(n) /\ (recs'[n] = NoRec \/ recs'[n].stake < recs[n].stake) =>
           \/ Rollback
           \/ seen' # seen /\ applying.node = n
           \/ /\ recs'[n] = NoRec
              /\ recs[n].revokedAt # 0 \/ recs[n].owner \in LegacyOwners
              /\ tip >= UnbondWindow + IF Active(n) THEN SunsetHeight ELSE recs[n].revokedAt
              /\ bal'[recs[n].owner] >= bal[recs[n].owner] + recs[n].stake]_vars

\* A revoked record is never revived and its owner, card and release height
\* never move: only the release ends it (but see RollbackOfHook).
RevokedStaysRevoked ==
    [][\A n \in Nodes :
         Unbonding(n) => \/ recs'[n] = NoRec \/ RollbackOfHook
                         \/ [recs'[n] EXCEPT !.stake = 0] = [recs[n] EXCEPT !.stake = 0]]_vars

\* Every revoked bond is eventually released.
UnbondReleased == \A n \in Nodes : Unbonding(n) ~> ~Enrolled(n)

\* From SunsetHeight on, an active record of a legacy owner is eventually
\* revoked, also one enrolled after the sunset under the v1 contract.
LegacyRetired ==
    \A n \in Nodes : (tip >= SunsetHeight /\ Active(n) /\ recs[n].owner \in LegacyOwners) ~> ~Active(n)
=============================================================================

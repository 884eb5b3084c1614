----------------------------- MODULE TaskState -----------------------------
(***************************************************************************)
(* The task market of pkg/chain/task_state.go and task_catalog.go: wallets *)
(* publish task manifests, stake on a task, fund its reward pool, submit   *)
(* work for a round, claim the rewards, or settle a relay's pool proof at  *)
(* once.  A transaction is applied to the accounts and the task store      *)
(* together (applyEconomicTx); a booting node rebuilds the task store by   *)
(* replaying the transactions of its blocks (ApplyHistoricalTx).           *)
(*                                                                         *)
(* Amounts are whole dust, compared exactly: the code's float64 tolerance  *)
(* taskAmountEpsilon is below one dust.  Decoding, manifest syntax, proof  *)
(* signatures and time windows are refusals that change nothing and are    *)
(* left out; the manifests and pool proofs here are the ones that pass.    *)
(* Every action has a fresh id.  Counters of actions and the Last* fields, *)
(* which nothing reads, are left out.                                      *)
(***************************************************************************)
EXTENDS Integers, FiniteSets, Functions

CONSTANTS
    Wallets,         \* accounts that send task actions
    Ecosystem,       \* ProductionEcosystemWallet
    Tasks,
    ResourceTasks,   \* the keys of systemResourceTaskPolicies
    RewardCap,       \* MaxRoundReward of those policies
    Amounts,         \* amounts of stake, fund and unstake actions
    Rewards,         \* reward_amount of submissions
    Rounds,          \* round of a payload
    Values,          \* submission_value of locally made proofs
    PoolProofs,      \* relay-signed proofs: id, relay, contributor, mother, receipts
    Manifests,       \* what a manifest says besides manager and version
    MaxSlotLag,      \* pooledSettlementMaxSlotLag
    Fee,
    StartBalance,    \* StartBalance[w]: what a wallet has at first
    MaxTxs,          \* bound: MaxTxs[w] transactions of a wallet are committed
    Versions,        \* bound: manifest versions
    MaxHeight,       \* bound: last height
    None

Payees == Wallets \cup {Ecosystem}

Participant == [running : BOOLEAN, stake : Nat, pending : Nat, claimed : Nat]
Submission ==
    [value : Values \cup {p.receipts : p \in PoolProofs}, reward : Rewards,
     claimed : BOOLEAN, proof : PoolProofs \cup {None}]

ASSUME TaskAssumption ==
    /\ IsFiniteSet(Wallets) /\ IsFiniteSet(Tasks) /\ IsFiniteSet(Rounds)
    /\ ResourceTasks \subseteq Tasks /\ Fee \in Nat \ {0} /\ MaxSlotLag \in Nat
    /\ Amounts \subseteq Nat \ {0} /\ Rewards \subseteq Nat /\ Rounds \subseteq Nat
    /\ StartBalance \in [Wallets -> Nat] /\ MaxHeight \in Nat
    /\ \A p \in PoolProofs : p.contributor \in Payees /\ p.mother \in Payees
    /\ None \notin PoolProofs \cup Submission

VARIABLES
    store,     \* the TaskStateStore of the running node
    balances,  \* the accounts
    nonces,    \* next nonce of every wallet
    tip,       \* height of the last block
    rebuilt,   \* the store a boot would rebuild from the blocks so far, or NoStore
    burned     \* ghost: fees charged

vars == <<store, balances, nonces, tip, rebuilt, burned>>

NoParticipant == [running |-> FALSE, stake |-> 0, pending |-> 0, claimed |-> 0]

\* What getOrCreateTaskLocked makes.
NewTask(exists) ==
    [exists |-> exists, manifest |-> None, paused |-> FALSE, stake |-> 0,
     pool |-> 0, pending |-> 0, paid |-> 0, running |-> 0, migrated |-> FALSE,
     parts |-> [w \in Wallets |-> NoParticipant],
     subs |-> [k \in Rounds \X Wallets |-> None]]

\* A replay that was refused leaves no store.
NoStore == [refused |-> TRUE]

NewTaskStateStore ==
    [tasks |-> [k \in Tasks |-> NewTask(FALSE)],
     senderNonce |-> [w \in Wallets |-> 0],
     bindings |-> [r \in {p.relay : p \in PoolProofs} |-> None],
     proofs |-> {}, receipts |-> {}]

Init ==
    /\ store = NewTaskStateStore
    /\ balances = [w \in Payees |-> IF w \in Wallets THEN StartBalance[w] ELSE 0]
    /\ nonces = [w \in Wallets |-> 0]
    /\ tip = 0
    /\ rebuilt = NewTaskStateStore
    /\ burned = 0

-----------------------------------------------------------------------------
(* Transactions.                                                           *)

Tx(action, w, k) ==
    [action |-> action, sender |-> w, task |-> k, nonce |-> nonces[w],
     amount |-> 0, round |-> 0, slot |-> 0, reward |-> 0, value |-> None,
     proof |-> None, manifest |-> None]

NonNeg(x) == IF x < 0 THEN 0 ELSE x

Task(s, t) == s.tasks[t.task]
Part(s, t) == Task(s, t).parts[t.sender]
Sub(s, t) == Task(s, t).subs[<<t.round, t.sender>>]
WithPart(task, w, p) == [task EXCEPT !.exists = TRUE, !.parts[w] = p]

-----------------------------------------------------------------------------
(* The catalog.                                                            *)

CatalogActions == {"catalog-register", "catalog-update", "catalog-pause", "catalog-resume"}

\* A manifest's manager is the sender of the action that carries it.
CatalogAccepts(s, t) ==
    LET old == Task(s, t).manifest
    IN  CASE t.action = "catalog-register" -> old = None /\ t.manifest.version = 1
          [] t.action = "catalog-update"   -> /\ old # None
                                              /\ old.manager = t.sender
                                              /\ t.manifest.version = old.version + 1
          [] OTHER                         -> old # None /\ old.manager = t.sender

CatalogApplied(task, t) ==
    CASE t.action = "catalog-register" ->
            [task EXCEPT !.exists = TRUE, !.manifest = t.manifest, !.paused = FALSE]
      [] t.action = "catalog-update"   -> [task EXCEPT !.manifest = t.manifest]
      [] OTHER -> [task EXCEPT !.paused = (t.action = "catalog-pause")]

-----------------------------------------------------------------------------
(* Submissions.                                                            *)

\* Only the resource tasks read the envelope of a pool proof.
Settles(t) == t.action = "submit" /\ t.task \in ResourceTasks /\ t.proof # None

Binding(p) == [contributor |-> p.contributor, mother |-> p.mother]

\* The proof is looked up by its id alone.
ConsumedByID(s, p) == p.id \in s.proofs

Consumed(s, p) == p.id \in s.proofs \/ p.receipts \cap s.receipts # {}

BoundTo(s, p) == s.bindings[p.relay] \in {None, Binding(p)}

PooledAccepts(s, t, h) ==
    LET m == Task(s, t).manifest IN
    /\ h # 0 /\ t.slot <= h /\ h - t.slot <= MaxSlotLag
    /\ m # None
    /\ t.round = t.slot \div m.roundTime
    /\ t.sender = t.proof.mother
    /\ t.proof.relay \in m.relays
    /\ ~Consumed(s, t.proof)
    /\ BoundTo(s, t.proof)

\* validateTaskSubmissionPolicyLocked
PolicyAccepts(s, t, h) ==
    LET task == Task(s, t)
        m == task.manifest
    IN  /\ m # None => /\ ~task.paused /\ m.active
                       /\ Part(s, t).stake >= m.minStake
                       /\ t.reward <= m.perRound
        /\ t.task \in ResourceTasks => t.reward <= RewardCap
        /\ Settles(t) => PooledAccepts(s, t, h)

\* A submit for a round already claimed succeeds and changes nothing.
ReplayedSubmit(s, t) == Sub(s, t) # None /\ Sub(s, t).claimed

Returned(s, t) == IF Sub(s, t) = None THEN 0 ELSE Sub(s, t).reward

SubmitAccepts(s, t, h) ==
    /\ PolicyAccepts(s, t, h)
    /\ Settles(t) => Sub(s, t) = None /\ t.reward > 0
    /\ \/ ReplayedSubmit(s, t)
       \/ /\ t.task \in ResourceTasks =>
                \A r \in Rounds \ {t.round} :
                    LET prior == Task(s, t).subs[<<r, t.sender>>]
                    IN  prior # None => prior.value # t.value
          /\ t.reward > 0 => /\ Part(s, t).stake > 0
                             /\ Task(s, t).pool + Returned(s, t) >= t.reward

\* splitPooledSettlementReward: 70, 15 and the rest.
SplitPooledSettlementReward(reward) ==
    LET c == (reward * 70) \div 100
        m == (reward * 15) \div 100
    IN  [contributor |-> c, mother |-> m, ecosystem |-> reward - c - m]

\* What a wallet gets of a settlement; it may be payee in several parts.
SettlementShare(t, w) ==
    LET split == SplitPooledSettlementReward(t.reward)
        part(payee, x) == IF payee = w THEN x ELSE 0
    IN  part(t.proof.contributor, split.contributor) + part(t.proof.mother, split.mother)
        + part(Ecosystem, split.ecosystem)

\* The reward of a submission that is replaced does not go back.
ReplacedWithoutReturn(task, t, old) == task

\* applySubmissionLocked returns the reward of a submission it replaces.
Replaced(task, t, old) ==
    [task EXCEPT !.pool = @ + old,
                 !.pending = NonNeg(@ - old),
                 !.parts[t.sender].pending = NonNeg(@ - old)]

\* Both a settlement and an ordinary submission take the reward off the pool.
Rewarded(task, t) ==
    IF Settles(t)
    THEN [task EXCEPT !.pool = NonNeg(@ - t.reward),
                      !.paid = @ + t.reward,
                      !.parts[t.sender].claimed = @ + SettlementShare(t, t.sender)]
    ELSE [task EXCEPT !.pool = NonNeg(@ - t.reward),
                      !.pending = @ + t.reward,
                      !.parts[t.sender].pending = @ + t.reward]

\* ... or leaves the claimed submission as it is.
Untouched(s, t) == s

Submitted(s, t) ==
    LET sub == [value |-> t.value, reward |-> t.reward, claimed |-> Settles(t),
                proof |-> IF Settles(t) THEN t.proof ELSE None]
        task == Rewarded(Replaced(Task(s, t), t, Returned(s, t)), t)
        kept == [s EXCEPT !.tasks[t.task] =
                     [task EXCEPT !.exists = TRUE, !.subs[<<t.round, t.sender>>] = sub]]
    IN  IF ReplayedSubmit(s, t) THEN Untouched(s, t)
        ELSE IF ~Settles(t) THEN kept
        ELSE [kept EXCEPT !.bindings[t.proof.relay] =
                              IF @ = None THEN Binding(t.proof) ELSE @,
                          !.proofs = @ \cup {t.proof.id},
                          !.receipts = @ \cup t.proof.receipts]

-----------------------------------------------------------------------------
(* Claims.                                                                 *)

\* Round 0 asks for every round.
ClaimableKeys(task, t) ==
    {k \in Rounds \X {t.sender} :
        /\ t.round = 0 \/ k[1] = t.round
        /\ task.subs[k] # None /\ ~task.subs[k].claimed /\ task.subs[k].reward > 0}

ClaimableReward(s, t) ==
    SumFunction([k \in ClaimableKeys(Task(s, t), t) |-> Task(s, t).subs[k].reward])

\* applyClaimLocked; without a reward the action succeeds and pays nothing.
Claimed(task, t, reward) ==
    [task EXCEPT !.subs = [k \in DOMAIN @ |->
                              IF k \in ClaimableKeys(task, t)
                              THEN [@[k] EXCEPT !.claimed = TRUE] ELSE @[k]],
                 !.parts[t.sender].pending = NonNeg(@ - reward),
                 !.parts[t.sender].claimed = @ + reward,
                 !.pending = NonNeg(@ - reward),
                 !.paid = @ + reward]

-----------------------------------------------------------------------------
(* applyAction: what it accepts, and the store it leaves.                  *)

Accepts(s, t, h) ==
    /\ t.nonce > 0 => s.senderNonce[t.sender] < t.nonce
    /\ t.action \in CatalogActions => CatalogAccepts(s, t)
    /\ t.action = "start" => Part(s, t).stake > 0
    /\ t.action = "submit" => SubmitAccepts(s, t, h)

Started(task, w) ==
    [WithPart(task, w, [task.parts[w] EXCEPT !.running = TRUE])
        EXCEPT !.running = IF task.parts[w].running THEN @ ELSE @ + 1]

Stopped(task, w) ==
    [WithPart(task, w, [task.parts[w] EXCEPT !.running = FALSE])
        EXCEPT !.running = IF task.parts[w].running /\ @ > 0 THEN @ - 1 ELSE @]

Staked(task, w, x) ==
    [WithPart(task, w, [task.parts[w] EXCEPT !.stake = @ + x]) EXCEPT !.stake = @ + x]

Unstaked(task, w, x) ==
    LET delta == IF x > task.parts[w].stake THEN task.parts[w].stake ELSE x
    IN  [WithPart(task, w, [task.parts[w] EXCEPT !.stake = @ - delta])
            EXCEPT !.stake = NonNeg(@ - delta)]

Changed(s, t) ==
    LET task == [Task(s, t) EXCEPT !.exists = TRUE]
        put(new) == [s EXCEPT !.tasks[t.task] = new]
    IN  CASE t.action \in CatalogActions -> put(CatalogApplied(Task(s, t), t))
          [] t.action = "start"   -> put(Started(task, t.sender))
          [] t.action = "stop"    -> put(Stopped(task, t.sender))
          [] t.action = "stake"   -> put(Staked(task, t.sender, t.amount))
          [] t.action = "fund"    -> put([task EXCEPT !.pool = @ + t.amount])
          [] t.action = "unstake" -> put(Unstaked(task, t.sender, t.amount))
          [] t.action = "submit"  -> Submitted(s, t)
          [] t.action = "claim"   -> put(Claimed(task, t, ClaimableReward(s, t)))
          [] OTHER                -> put([task EXCEPT !.migrated = TRUE])

Applied(s, t) ==
    [Changed(s, t) EXCEPT !.senderNonce[t.sender] = IF t.nonce > 0 THEN t.nonce ELSE @]

\* A refused action other than a catalog action has created its task.
Touched(s, t) ==
    IF t.action \in CatalogActions THEN s ELSE [s EXCEPT !.tasks[t.task].exists = TRUE]

-----------------------------------------------------------------------------
(* applyEconomicTx.                                                        *)

Charge(t) == Fee + IF t.action \in {"stake", "fund"} THEN t.amount ELSE 0

\* What is asked of the store before anything is charged.
Worthwhile(s, t) ==
    /\ t.action = "unstake" => Part(s, t).stake >= t.amount
    /\ t.action = "claim" => ClaimableReward(s, t) > 0

Affords(t) == balances[t.sender] >= Charge(t)

\* A claim of one round is credited with everything the wallet has pending.
CreditPending(s, t, w) ==
    CASE t.action = "unstake" -> IF w = t.sender THEN t.amount ELSE 0
      [] t.action = "claim"   -> IF w = t.sender THEN Part(s, t).pending ELSE 0
      [] Settles(t) -> SettlementShare(t, w)
      [] OTHER      -> 0

\* What the action credits to a wallet, computed from the store before it.
Credit(s, t, w) ==
    CASE t.action = "unstake" -> IF w = t.sender THEN t.amount ELSE 0
      [] t.action = "claim"   -> IF w = t.sender THEN ClaimableReward(s, t) ELSE 0
      [] Settles(t) -> SettlementShare(t, w)
      [] OTHER      -> 0

\* The task half of the snapshot is forgotten.
RestoreForgotten(snapshot, now) == now

Restore(snapshot, now) == snapshot

\* The block being assembled has height tip + 1, live and when replayed.
Height == tip + 1

Replay(t) ==
    IF rebuilt # NoStore /\ Accepts(rebuilt, t, Height) THEN Applied(rebuilt, t) ELSE NoStore

Commit(t) ==
    /\ nonces[t.sender] < MaxTxs[t.sender]
    /\ Affords(t) /\ Worthwhile(store, t)
    /\ Accepts(store, t, Height)
    /\ store' = Applied(store, t)
    /\ balances' = [w \in Payees |-> balances[w] + Credit(store, t, w)
                                     - IF w = t.sender THEN Charge(t) ELSE 0]
    /\ nonces' = [nonces EXCEPT ![t.sender] = @ + 1]
    /\ burned' = burned + Fee
    /\ rebuilt' = Replay(t)
    /\ UNCHANGED tip

\* The block leaves a refused transaction out.
Refuse(t) ==
    /\ Affords(t) /\ Worthwhile(store, t)
    /\ ~Accepts(store, t, Height)
    /\ store' = Restore(store, Touched(store, t))
    /\ UNCHANGED <<balances, nonces, tip, rebuilt, burned>>

ApplyEconomicTx(t) == Commit(t) \/ Refuse(t)

-----------------------------------------------------------------------------
(* One action per kind of task action.                                     *)

Manifest(w, v, m) ==
    [version |-> v, manager |-> w, active |-> m.active, minStake |-> m.minStake,
     perRound |-> m.perRound, relays |-> m.relays, roundTime |-> m.roundTime]

Register(w, k) ==
    \E m \in Manifests :
        ApplyEconomicTx([Tx("catalog-register", w, k) EXCEPT !.manifest = Manifest(w, 1, m)])

Update(w, k) ==
    \E m \in Manifests, v \in Versions :
        ApplyEconomicTx([Tx("catalog-update", w, k) EXCEPT !.manifest = Manifest(w, v, m)])

Pause(w, k) == ApplyEconomicTx(Tx("catalog-pause", w, k))
Resume(w, k) == ApplyEconomicTx(Tx("catalog-resume", w, k))
Start(w, k) == ApplyEconomicTx(Tx("start", w, k))
Stop(w, k) == ApplyEconomicTx(Tx("stop", w, k))
Migrate(w, k) == ApplyEconomicTx(Tx("migrate", w, k))

Stake(w, k) == \E x \in Amounts : ApplyEconomicTx([Tx("stake", w, k) EXCEPT !.amount = x])
Fund(w, k) == \E x \in Amounts : ApplyEconomicTx([Tx("fund", w, k) EXCEPT !.amount = x])
Unstake(w, k) == \E x \in Amounts : ApplyEconomicTx([Tx("unstake", w, k) EXCEPT !.amount = x])

Submit(w, k) ==
    \E r \in Rounds, x \in Rewards, v \in Values :
        ApplyEconomicTx([Tx("submit", w, k) EXCEPT !.round = r, !.reward = x, !.value = v])

\* The value of a pool proof is its receipt root.
Settle(w, k) ==
    \E r \in Rounds, x \in Rewards, p \in PoolProofs, slot \in 0 .. MaxHeight + 1 :
        ApplyEconomicTx([Tx("submit", w, k) EXCEPT !.round = r, !.reward = x,
                            !.slot = slot, !.value = p.receipts, !.proof = p])

Claim(w, k) == \E r \in Rounds : ApplyEconomicTx([Tx("claim", w, k) EXCEPT !.round = r])

SealBlock ==
    /\ tip < MaxHeight
    /\ tip' = tip + 1
    /\ UNCHANGED <<store, balances, nonces, rebuilt, burned>>

Next ==
    \/ \E w \in Wallets, k \in Tasks :
        \/ Register(w, k) \/ Update(w, k) \/ Pause(w, k) \/ Resume(w, k)
        \/ Start(w, k) \/ Stop(w, k) \/ Migrate(w, k)
        \/ Stake(w, k) \/ Fund(w, k) \/ Unstake(w, k)
        \/ Submit(w, k) \/ Settle(w, k) \/ Claim(w, k)
    \/ SealBlock

Spec == Init /\ [][Next]_vars

-----------------------------------------------------------------------------
(* Properties.                                                             *)

TaskOK(task) ==
    /\ task.exists \in BOOLEAN /\ task.paused \in BOOLEAN /\ task.migrated \in BOOLEAN
    /\ \A x \in {task.stake, task.pool, task.pending, task.paid, task.running} : x \in Nat
    /\ task.parts \in [Wallets -> Participant]
    /\ task.subs \in [Rounds \X Wallets -> Submission \cup {None}]

\* Type invariant: every amount is a natural number, so no pool, stake or
\* balance is ever overdrawn.
TypeOK ==
    /\ \A k \in Tasks : TaskOK(store.tasks[k])
    /\ store.proofs \subseteq {p.id : p \in PoolProofs}
    /\ store.receipts \subseteq UNION {p.receipts : p \in PoolProofs}
    /\ balances \in [Payees -> Nat] /\ nonces \in [Wallets -> Nat]
    /\ tip \in 0 .. MaxHeight /\ burned \in Nat

\* The CELL a task holds.
Worth(task) == task.stake + task.pool + task.pending

\* CELL is only moved: accounts, stakes, reward pools and pending rewards add
\* up to the start balances less the fees, through replaced submissions,
\* claims of one or all rounds, settlements and refused transactions
\* (applyEconomicTx, applySubmissionLocked, applyClaimLocked).
CellConserved ==
    SumFunction(balances) + SumFunction([k \in Tasks |-> Worth(store.tasks[k])]) + burned
        = SumFunction(StartBalance)

\* What a submission promises to its wallet until it is claimed.
Promised(task) ==
    [k \in Rounds \X Wallets |-> IF task.subs[k] # None /\ ~task.subs[k].claimed
                                 THEN task.subs[k].reward ELSE 0]

\* The totals of a task are those of its participants, and what a participant
\* has pending is what its unclaimed submissions promise: a claim computed
\* from the submissions always finds its money (claimableRewardLocked).
Totals(task) ==
    /\ task.stake = SumFunction([w \in Wallets |-> task.parts[w].stake])
    /\ task.pending = SumFunction([w \in Wallets |-> task.parts[w].pending])
    /\ task.running = Cardinality({w \in Wallets : task.parts[w].running})
    /\ \A w \in Wallets :
            task.parts[w].pending = SumFunctionOnSet(Promised(task), Rounds \X {w})

\* Task records have their types and their totals are those of their parts.
TotalsInv == TypeOK /\ \A k \in Tasks : Totals(store.tasks[k])

Settled == {x \in Tasks \X Rounds \X Wallets :
              LET sub == store.tasks[x[1]].subs[<<x[2], x[3]>>]
              IN  sub # None /\ sub.proof # None}
SettledProof(x) == store.tasks[x[1]].subs[<<x[2], x[3]>>].proof

\* A relay's receipt is paid for once in the whole market, whichever proof,
\* round or task it is presented in (settledPooledReceipts).
ReceiptPaidOnce ==
    \A x, y \in Settled : x # y => SettledProof(x).receipts \cap SettledProof(y).receipts = {}

\* The store a boot rebuilds from the blocks is the store of the node that
\* made them: refused transactions, which no block holds, leave no trace, and
\* every committed one is accepted again (replayTaskStateFromBlocks).
ReplayAgrees == rebuilt = store

=============================================================================

--------------------------- MODULE BlockAssembly ---------------------------
(***************************************************************************)
(* How accepted mining proofs become payouts of a sealed block: the proof  *)
(* intake (pkg/mining/verifier.go, internal/miningsvc), the fee-ordered    *)
(* pool (pkg/mempool), the solo block driver (internal/blockdriver) with   *)
(* the emission schedule (pkg/chain/emission.go), and the assembly half of *)
(* BlockProducer.ProduceBlock (pkg/chain/block.go).                        *)
(*                                                                         *)
(* One tick of the driver is several steps, because API handlers add to    *)
(* the pool, the pool evicts and peers' blocks arrive in between.  Amounts *)
(* are whole dust; balances are taken to be sufficient, so whether a       *)
(* transaction applies depends on its nonce alone.                         *)
(***************************************************************************)
EXTENDS Integers, FiniteSets, FiniteSetsExt, Functions

CONSTANTS
    Proofs,        \* proofs miners may submit
    Miner,         \* Miner[p]: the address a proof names; addresses are numbers
    ProofHeight,   \* ProofHeight[p]: the height it is for
    Submitters,    \* request goroutines of the mining service
    Resubmits,     \* bound: Resubmits[p] is how often a proof is submitted
    UserTxs,       \* transactions the API handlers may add to the pool
    Sends,         \* bound: how often a client sends one of them
    Grace,         \* GraceWindow
    Retain,        \* retainWindow of the ProofIDSet
    MaxSize,       \* pool capacity
    MaxTxBlock,    \* transactions drained for one block
    MiningCap,     \* MiningCapDust
    BlocksPerEpoch,
    MaxExternal,   \* bound: last height a peer's block may have
    MaxHeight      \* bound: last height that is sealed

Funder == 0   \* MiningRewardFunderAddress
Miners == Range(Miner)
Senders == {Funder} \cup {t.sender : t \in UserTxs}

TxFields ==
    {"kind", "id", "sender", "nonce", "fee", "no", "to", "count", "amount", "old"}

ASSUME AssemblyAssumption ==
    /\ MaxSize \in Nat \ {0} /\ MaxTxBlock \in Nat \ {0}
    /\ BlocksPerEpoch \in Nat \ {0} /\ MiningCap \in Nat
    /\ Grace \in Nat /\ Retain \in Nat /\ Grace <= Retain
    /\ IsFiniteSet(Proofs) /\ ProofHeight \in [Proofs -> Nat] /\ DOMAIN Miner = Proofs
    /\ Resubmits \in [Proofs -> Nat]
    /\ \A t \in UserTxs : /\ DOMAIN t = TxFields /\ t.nonce \in Nat /\ t.kind = "user"
                          /\ t.id \notin {"beat", "reward"} \X Nat \X Nat
    /\ Miners \subseteq Nat /\ Funder \notin Miners
    /\ Sends \in Nat /\ MaxExternal \in Nat /\ MaxHeight \in Nat /\ MaxExternal < MaxHeight

VARIABLES
    tip,       \* height of the last block
    nonces,    \* next nonce of every account
    pool,      \* pending transactions
    index,     \* senderNonces: tracked <<sender, nonce>> pairs
    unsent,    \* how often clients will still send each of UserTxs
    seen,      \* ids in the ProofIDSet
    sub,       \* what every request goroutine is doing
    queue,     \* proofs waiting for a payout, by miner
    tick,      \* the driver's local variables
    accepted,  \* ghost: how often each proof was accepted
    submitted, \* ghost: how often each proof was submitted
    raced,     \* ghost: proofs accepted, or dropped from the ProofIDSet,
               \* while another request held them
    paid,      \* ghost: proofs paid by sealed transactions, by miner
    forfeited, \* ghost: proofs drained when the reward was 0
    emitted    \* ghost: dust paid to miners

vars == <<tip, nonces, pool, index, unsent, seen, sub, queue, tick, accepted,
          submitted, raced, paid, forfeited, emitted>>
intake == <<seen, sub, accepted, submitted, raced>>
mempool == <<pool, index>>
ledger == <<tip, nonces, paid, forfeited, emitted>>

NoRequest == [step |-> "idle"]
Idle == [at |-> "idle"]

-----------------------------------------------------------------------------
(* Emission schedule.                                                      *)

\* Off by one: the last block of an epoch counts to the next.
EpochTooEarly(h) == h \div BlocksPerEpoch

\* Height 0 is genesis; heights 1 .. BlocksPerEpoch are epoch 0.
EpochForHeight(h) == IF h = 0 THEN 0 ELSE (h - 1) \div BlocksPerEpoch

EpochAllocationDust(e) == MiningCap \div 2 ^ (e + 1)

BlockRewardDust(h) ==
    IF h = 0 THEN 0
    ELSE EpochAllocationDust(EpochForHeight(h)) \div BlocksPerEpoch

\* Full epochs before the current one, then the blocks of the current one.
CumulativeEmittedDust(h) ==
    LET now == EpochForHeight(h)
        reward(e) == EpochAllocationDust(e) \div BlocksPerEpoch
    IN  IF h = 0 THEN 0
        ELSE SumFunction([e \in 0 .. now - 1 |-> reward(e) * BlocksPerEpoch])
             + reward(now) * (h - now * BlocksPerEpoch)

-----------------------------------------------------------------------------
(* The pool.  Equal fees are in heap order, which is arbitrary.            *)

\* tracksConsensusNonce: contract-tagged transactions compete for a nonce.
Tracks(t) == t.kind # "beat"
Key(t) == <<t.sender, t.nonce>>

IDs(p) == {t.id : t \in p}
Cheapest(p) == {t \in p : \A u \in p : t.fee <= u.fee}

\* pendingNonceLocked and the duplicate check of Add.
Refused(t, p, ix) == t.id \in IDs(p) \/ (Tracks(t) /\ Key(t) \in ix)

\* The index keeps the nonces of transactions that left the pool.
UntrackedNever(gone, ix) == ix

Untracked(gone, ix) == ix \ {Key(t) : t \in {u \in gone : Tracks(u)}}

Tracked(t, ix) == IF Tracks(t) THEN ix \cup {Key(t)} ELSE ix

\* The outcomes of Add: a full pool drops a cheapest transaction for a
\* dearer one.
AddOutcomes(t, p, ix) ==
    IF Cardinality(p) < MaxSize
    THEN {[pool |-> p \cup {t}, index |-> Tracked(t, ix)]}
    ELSE {[pool |-> (p \ {low}) \cup {t},
           index |-> Tracked(t, Untracked({low}, ix))]
          : low \in {u \in Cheapest(p) : t.fee > u.fee}}

\* The sweeper spares the protocol's own transactions.
StaleOfUsers(p) == {t \in p : t.old /\ t.kind = "user"}

Stale(p) == {t \in p : t.old}

\* EvictStale drops everything older than MaxTxAge.  A tick is far shorter
\* than that age, so a tick's own transactions are never old.
Aged(p) == {[t EXCEPT !.old = TRUE] : t \in p}

\* Drain: MaxTxBlock of the dearest.
Drainable(p) ==
    {b \in SUBSET p :
        /\ Cardinality(b) = Min({MaxTxBlock, Cardinality(p)})
        /\ \A t \in b, u \in p \ b : t.fee >= u.fee}

-----------------------------------------------------------------------------
(* Applying a batch.                                                       *)

\* orderSenderNonces: nonces ascend per sender and equal nonces go by id; a
\* heartbeat's id sorts before a reward's, and lower numbers first.
Before(t, u) ==
    /\ t.sender = u.sender /\ t.nonce = u.nonce /\ t # u
    /\ \/ t.kind = "beat" /\ u.kind # "beat"
       \/ t.kind = "beat" /\ u.kind = "beat" /\ t.no < u.no

\* The transactions of the batch that apply: the unbroken run of nonces
\* from the account's next one, the first of every nonce.
Included(batch) ==
    {t \in batch :
        /\ t.nonce >= nonces[t.sender]
        /\ \A n \in nonces[t.sender] .. t.nonce :
              \E u \in batch : u.sender = t.sender /\ u.nonce = n
        /\ ~\E u \in batch : Before(u, t)}

AfterBlock(incl) ==
    [s \in Senders |->
        nonces[s] + Cardinality({t \in incl : t.sender = s})]

-----------------------------------------------------------------------------
(* Transactions of the driver.                                             *)

Total(q) == SumFunctionOnSet(q, Miners)

\* Miners with a share, in the order of their addresses: rank gives the
\* offset of a miner's nonce.
Rank(m, S) == Cardinality({x \in S : x < m})

\* The reward penalty (a multiplier in (0, 1]) only lowers the amount.
RewardTx(q, m, S, reward, nonce) ==
    [kind |-> "reward", id |-> <<"reward", nonce + Rank(m, S), m>>,
     sender |-> Funder, nonce |-> nonce + Rank(m, S), fee |-> 0, no |-> 0,
     to |-> m, count |-> q[m],
     amount |-> (reward * q[m]) \div Total(q),
     old |-> FALSE]

\* The id of a heartbeat holds the time: it repeats nothing in the pool.
Heartbeat(nonce) ==
    LET no == CHOOSE k \in 0 .. MaxSize :
                 <<"beat", nonce, k>> \notin IDs(pool)
    IN  [kind |-> "beat", id |-> <<"beat", nonce, no>>, sender |-> Funder,
         nonce |-> nonce, fee |-> 0, no |-> no, to |-> Funder, count |-> 0,
         amount |-> 0, old |-> FALSE]

\* buildTxs: one reward per miner with a share, or a heartbeat so that the
\* block is not empty.
BuildTxs(q, reward, nonce) ==
    LET S == {m \in Miners : q[m] > 0 /\ reward > 0}
    IN  IF S = {} THEN {Heartbeat(nonce)}
        ELSE {RewardTx(q, m, S, reward, nonce) : m \in S}

\* Remove of the driver's own transactions, by id.
WithoutOwn(p, own) == {t \in p : t.id \notin IDs(own)}

\* requeueProofs.
Requeued(back) == [m \in Miners |-> queue[m] + back[m]]

\* Every proof of the tick is queued again once one payout is missing.
UnpaidAll(incl) ==
    IF tick.own \subseteq incl THEN [m \in Miners |-> 0] ELSE tick.drained

\* The proofs of a sealed tick whose transaction is not in the block.
Unpaid(incl) ==
    [m \in Miners |-> IF \E t \in tick.own : t.to = m /\ t.id \notin IDs(incl)
                      THEN tick.drained[m] ELSE 0]

\* The payouts of a block to a miner.
Payouts(incl, m) == {t \in incl : t.kind = "reward" /\ t.to = m}

\* The proofs of miners the tick built no transaction for: the reward is 0.
Shareless == [m \in Miners |-> IF \E t \in tick.own : t.to = m
                               THEN 0 ELSE tick.drained[m]]

-----------------------------------------------------------------------------
Init ==
    /\ tip = 0 /\ nonces = [s \in Senders |-> 0]
    /\ pool = {} /\ index = {} /\ unsent = [t \in UserTxs |-> Sends]
    /\ seen = {} /\ sub = [s \in Submitters |-> NoRequest]
    /\ queue = [m \in Miners |-> 0] /\ tick = Idle
    /\ accepted = [p \in Proofs |-> 0] /\ submitted = [p \in Proofs |-> 0]
    /\ raced = {} /\ paid = [m \in Miners |-> 0]
    /\ forfeited = [m \in Miners |-> 0] /\ emitted = 0

(* Proof intake.                                                           *)

\* Service.Submit reads the tip and hands it to Verify.
Submit(s, p) ==
    /\ sub[s] = NoRequest /\ submitted[p] < Resubmits[p]
    /\ sub' = [sub EXCEPT ![s] = [step |-> "tip", proof |-> p, tip |-> tip]]
    /\ submitted' = [submitted EXCEPT ![p] = @ + 1]
    /\ UNCHANGED <<seen, accepted, raced, queue, tick, unsent, mempool, ledger>>

\* The grace window is counted one block too long.
InTimeTooLong(r) ==
    ProofHeight[r.proof] <= r.tip /\ r.tip - ProofHeight[r.proof] <= Grace + 1

\* Verify up to Dedup.Seen, judged by the tip that was read.
InTime(r) == ProofHeight[r.proof] <= r.tip /\ r.tip - ProofHeight[r.proof] <= Grace

CheckProof(s) ==
    /\ sub[s].step = "tip"
    /\ sub' = [sub EXCEPT ![s] = IF InTime(@) /\ @.proof \notin seen
                                 THEN [@ EXCEPT !.step = "work"] ELSE NoRequest]
    /\ UNCHANGED <<seen, accepted, submitted, raced, queue, tick, unsent,
                   mempool, ledger>>

\* Record: insert, then drop the ids that left the window.
Recorded(p) ==
    {q \in seen \cup {p} : ProofHeight[q] >= ProofHeight[p] - Retain}

\* Proofs that other requests are working on.
Held(s) == {sub[o].proof : o \in {x \in Submitters \ {s} : sub[x] # NoRequest}}

\* The work and batch checks passed: Record, then OnAcceptedProof.
AcceptProof(s) ==
    LET p == sub[s].proof IN
    /\ sub[s].step = "work"
    /\ seen' = Recorded(p)
    /\ accepted' = [accepted EXCEPT ![p] = @ + 1]
    /\ raced' = raced \cup (({p} \cup (seen \ Recorded(p))) \cap Held(s))
    /\ queue' = [queue EXCEPT ![Miner[p]] = @ + 1]
    /\ sub' = [sub EXCEPT ![s] = NoRequest]
    /\ UNCHANGED <<submitted, tick, unsent, mempool, ledger>>

\* The address, quarantine, batch or work checks failed.
RejectProof(s) ==
    /\ sub[s].step = "work"
    /\ sub' = [sub EXCEPT ![s] = NoRequest]
    /\ UNCHANGED <<seen, accepted, submitted, raced, queue, tick, unsent,
                   mempool, ledger>>

(* The pool's other users.  RestoreTransactions holds the pool's lock.     *)

PoolFree == tick.at # "restore"

\* An API handler adds a transaction; a refusal is answered to the client.
AddUser(t) ==
    /\ PoolFree /\ unsent[t] > 0
    /\ unsent' = [unsent EXCEPT ![t] = @ - 1]
    /\ \/ /\ ~Refused(t, pool, index)
          /\ \E o \in AddOutcomes(t, pool, index) :
                pool' = o.pool /\ index' = o.index
       \/ /\ Refused(t, pool, index) \/ AddOutcomes(t, pool, index) = {}
          /\ UNCHANGED mempool
    /\ UNCHANGED <<intake, queue, tick, ledger>>

\* MaxTxAge passes for what is in the pool.
AgePool ==
    /\ tick = Idle /\ \E t \in pool : ~t.old
    /\ pool' = Aged(pool)
    /\ UNCHANGED <<intake, index, unsent, queue, tick, ledger>>

EvictStale ==
    LET stale == Stale(pool) IN
    /\ PoolFree /\ stale # {}
    /\ pool' = pool \ stale /\ index' = Untracked(stale, index)
    /\ UNCHANGED <<intake, unsent, queue, tick, ledger>>

\* TryAppendExternalBlock while bp.mu is free: a peer's block spends a nonce
\* of the funder and may hold one of our pending transactions.
AppendExternal(incl) ==
    /\ tick.at \notin {"apply", "restore"} /\ tip < MaxExternal
    /\ \A t \in incl : t.kind = "user" /\ t.nonce = nonces[t.sender]
    /\ tip' = tip + 1
    /\ nonces' = [AfterBlock(incl) EXCEPT ![Funder] = @ + 1]
    /\ pool' = pool \ incl /\ index' = Untracked(incl, index)
    /\ UNCHANGED <<intake, unsent, queue, tick, paid, forfeited, emitted>>

(* One tick of the driver.                                                 *)

\* The queue is taken, the reward is that of the next height, and the
\* funder's nonce is read from the accounts.
StartTick ==
    /\ tick = Idle /\ tip < MaxHeight
    /\ LET own == BuildTxs(queue, BlockRewardDust(tip + 1), nonces[Funder])
       IN  tick' = [at |-> "add", own |-> own, todo |-> own, drained |-> queue]
    /\ queue' = [m \in Miners |-> 0]
    /\ UNCHANGED <<intake, unsent, mempool, ledger>>

\* The tick fails: remove what it added, queue its proofs again.
FailTick ==
    LET own == {t \in pool : t.id \in IDs(tick.own \ tick.todo)} IN
    /\ pool' = WithoutOwn(pool, own) /\ index' = Untracked(own, index)
    /\ queue' = Requeued(tick.drained) /\ tick' = Idle
    /\ UNCHANGED <<intake, unsent, ledger>>

NextOwn == CHOOSE t \in tick.todo : \A u \in tick.todo : t.nonce <= u.nonce

\* Pool.Add of the next transaction of the tick.
AddOwn ==
    /\ tick.at = "add" /\ tick.todo # {}
    /\ ~Refused(NextOwn, pool, index)
    /\ \E o \in AddOutcomes(NextOwn, pool, index) :
          pool' = o.pool /\ index' = o.index
    /\ tick' = [tick EXCEPT !.todo = @ \ {NextOwn}]
    /\ UNCHANGED <<intake, unsent, queue, ledger>>

AddOwnRefused ==
    /\ tick.at = "add" /\ tick.todo # {}
    /\ Refused(NextOwn, pool, index) \/ AddOutcomes(NextOwn, pool, index) = {}
    /\ FailTick

\* ProduceBlock: the seal guard or the POL gate refuses.
ProduceRefused ==
    /\ tick.at = "add" /\ tick.todo = {}
    /\ FailTick

\* ProduceBlock: the batch leaves the pool.
DrainPool ==
    /\ tick.at = "add" /\ tick.todo = {} /\ pool # {}
    /\ \E b \in Drainable(pool) :
          /\ pool' = pool \ b /\ index' = Untracked(b, index)
          /\ tick' = [at |-> "apply", own |-> tick.own, todo |-> {},
                      drained |-> tick.drained, batch |-> b]
    /\ UNCHANGED <<intake, unsent, queue, ledger>>

\* The block is appended; the driver compares it with what it asked for.
SealBlock ==
    LET incl == Included(tick.batch) IN
    /\ tick.at = "apply" /\ incl # {}
    /\ tip' = tip + 1 /\ nonces' = AfterBlock(incl)
    /\ paid' = [m \in Miners |-> paid[m] +
                   SumFunction([t \in Payouts(incl, m) |-> t.count])]
    /\ emitted' = emitted + SumFunction([m \in Miners |->
                   SumFunction([t \in Payouts(incl, m) |-> t.amount])])
    /\ queue' = Requeued(Unpaid(incl))
    /\ forfeited' = [m \in Miners |-> forfeited[m] + Shareless[m]]
    /\ tick' = Idle
    /\ UNCHANGED <<intake, unsent, mempool>>

\* Every transaction of the batch failed: the batch goes back.
BatchFails ==
    /\ tick.at = "apply" /\ Included(tick.batch) = {}
    /\ tick' = [tick EXCEPT !.at = "restore"]
    /\ UNCHANGED <<intake, unsent, queue, mempool, ledger>>

\* RestoreTransactions, one transaction: a repeat, a competitor and one the
\* full pool has no room for are skipped.
RestoreOne(t) ==
    /\ tick.at = "restore" /\ t \in tick.batch
    /\ \/ /\ ~Refused(t, pool, index)
          /\ \E o \in AddOutcomes(t, pool, index) :
                pool' = o.pool /\ index' = o.index
       \/ /\ Refused(t, pool, index) \/ AddOutcomes(t, pool, index) = {}
          /\ UNCHANGED mempool
    /\ tick' = [tick EXCEPT !.batch = @ \ {t},
                            !.at = IF tick.batch = {t} THEN "failed" ELSE @]
    /\ UNCHANGED <<intake, unsent, queue, ledger>>

\* The driver learns of the failed block.
BlockFailed == tick.at = "failed" /\ FailTick

DriverStep ==
    \/ StartTick
    \/ AddOwn \/ AddOwnRefused \/ ProduceRefused \/ DrainPool
    \/ SealBlock \/ BatchFails \/ BlockFailed
    \/ tick.at = "restore" /\ \E t \in tick.batch : RestoreOne(t)

Next ==
    \/ \E s \in Submitters, p \in Proofs : Submit(s, p)
    \/ \E s \in Submitters : CheckProof(s) \/ AcceptProof(s) \/ RejectProof(s)
    \/ \E t \in UserTxs : AddUser(t)
    \/ AgePool \/ EvictStale
    \/ AppendExternal({}) \/ \E t \in pool : AppendExternal({t})
    \/ DriverStep

Spec == Init /\ [][Next]_vars

\* The driver ticks for ever, the pool's sweeper runs every EvictInterval and
\* time passes; the gates of ProduceBlock do not refuse for ever.
FairSpec ==
    /\ Spec /\ WF_vars(DriverStep) /\ SF_vars(DrainPool)
    /\ SF_vars(AgePool \/ EvictStale)

-----------------------------------------------------------------------------
\* Every variable keeps the shape the code gives it, and the pool stays
\* within MaxSize through Add, eviction by fee, Drain and Restore.  What is
\* paid and emitted is bounded by the two properties about amounts.
TypeOK ==
    /\ tip \in 0 .. MaxHeight /\ nonces \in [Senders -> Nat]
    /\ Cardinality(pool) <= MaxSize /\ unsent \in [UserTxs -> 0 .. Sends]
    /\ seen \subseteq Proofs /\ raced \subseteq Proofs
    /\ queue \in [Miners -> Nat] /\ forfeited \in [Miners -> Nat]
    /\ accepted \in [Proofs -> Nat]
    /\ \A p \in Proofs : submitted[p] \in 0 .. Resubmits[p]

\* senderNonces names exactly the nonces of the pending contract-tagged
\* transactions, and no two of them compete for one nonce ("prevents two
\* transaction IDs from competing for the same consensus nonce").
NonceIndexMatchesPool ==
    LET tracked == {t \in pool : Tracks(t)} IN
    /\ index = {Key(t) : t \in tracked}
    /\ Cardinality(index) = Cardinality(tracked)

\* The pool, the queue and the tick have their types and the nonce index is
\* that of the pool.
PoolInv == TypeOK /\ NonceIndexMatchesPool

\* How often proofs of a miner were accepted.
AcceptedOf(m) == SumFunctionOnSet(accepted, {p \in Proofs : Miner[p] = m})

\* Every acceptance is queued, held by the running tick, paid by a sealed
\* transaction, or met a reward of 0; and none of the first three holds it
\* twice.  So no proof is lost and none is paid twice, although a payout may
\* stay in the pool after its block was sealed without it while its proofs
\* are queued again.
ProofsAccounted ==
    \A m \in Miners :
        LET held == queue[m] + paid[m] + (IF tick = Idle THEN 0 ELSE tick.drained[m])
        IN  /\ paid[m] \in Nat /\ held <= AcceptedOf(m)
            /\ AcceptedOf(m) <= held + forfeited[m]

\* A proof is accepted once, the grace window of Verify being within the
\* window of the ProofIDSet; a second acceptance needs another request for
\* it in progress, because Dedup.Seen and Dedup.Record are two calls and the
\* tip is read before both.
AcceptedOnce == \A p \in Proofs : accepted[p] > 1 => p \in raced

\* What is paid to miners never exceeds what the schedule has emitted up to
\* the tip, and the closed form of the schedule is the sum of its rewards
\* and within the cap.
EmissionFollowsSchedule ==
    /\ emitted \in 0 .. CumulativeEmittedDust(tip)
    /\ CumulativeEmittedDust(tip) = SumFunction([h \in 1 .. tip |-> BlockRewardDust(h)])
    /\ CumulativeEmittedDust(tip) <= MiningCap

\* A queued proof is settled, although the pool may be full of dearer
\* transactions, a block may fail, and a payout left in the pool blocks
\* every later tick until the pool evicts it (MaxHeight ends the model).
EventuallyPaid ==
    \A m \in Miners : queue[m] > 0 ~>
        \/ tip = MaxHeight
        \/ AcceptedOf(m) <= paid[m] + forfeited[m]
=============================================================================

----------------------------- MODULE BlockSync -----------------------------
(***************************************************************************)
(* How a follower gets the blocks of the producing validator and applies   *)
(* them: pkg/chain/propagation.go (BlockPropagator), the catch-up requests *)
(* and the HTTP chain sync of cmd/qsdm/main.go, and                        *)
(* BlockProducer.TryAppendExternalBlock with the sealed-block hook.        *)
(*                                                                         *)
(* There is one producer, so a block is its height.  The follower's read   *)
(* loop and its HTTP sync are two goroutines that both append.  An append  *)
(* checks the tip under bp.mu, replays the block on a clone without bp.mu, *)
(* and applies it to the live state under bp.mu again; its hook then runs  *)
(* without bp.mu.  Gossip may lose, delay, reorder and repeat messages.    *)
(***************************************************************************)
EXTENDS Integers, FiniteSets, FiniteSetsExt

CONSTANTS
    HTTPSync,   \* TRUE when QSD_CHAIN_SYNC_URLS names a source
    Matures,    \* heights at which the bond of some record matures
    Window,     \* blocks in one catch-up window (64)
    MaxHeight,  \* bound: blocks the producer seals
    Lag,        \* TRUE when the producer may seal a block before its hook of
                \* the one before is through (it got that one from a peer)
    MaxFaults,  \* bound: messages lost or repeated, breaches of the disk reserve
    MaxInbox,   \* bound: messages under way
    Nobody

ASSUME SyncAssumption ==
    /\ HTTPSync \in BOOLEAN /\ Lag \in BOOLEAN
    /\ Matures \subseteq Nat \ {0} /\ IsFiniteSet(Matures)
    /\ Window \in Nat \ {0} /\ MaxHeight \in Nat /\ MaxFaults \in Nat /\ MaxInbox \in Nat
    /\ Nobody \notin {"gossip", "http"}

Goroutines == IF HTTPSync THEN {"gossip", "http"} ELSE {"gossip"}
Stages == {"idle", "receive", "check", "replay", "lock", "backup", "apply", "compare", "restore",
           "sweep", "credit"}

\* The accounts: blocks applied, and how often each maturing stake was credited.
Accounts == [txs : Nat, paid : [Matures -> Nat]]

VARIABLES
    peerTip,   \* the producer's tip
    lagged,    \* its blocks whose state_root lacks the releases of the hook before
    inbox,     \* gossip under way to the follower: ranges <<from, to>> of blocks
    seen,      \* BlockPropagator.seen
    low,       \* the follower's seal guard refuses: its disk reserve is breached
    faults,    \* bound: faults so far
    tip,       \* BlockProducer.chain of the follower
    acc, reg,  \* AccountStore, and the maturing records InMemoryState still holds
    lock,      \* the holder of bp.mu
    stage, at, last,   \* of each goroutine: step, its block, the last block of its batch
    backup, owed       \* of each goroutine: ChainReplayClone, releases not credited yet

nodeVars == <<tip, acc, reg, lock>>
workVars == <<stage, at, last, backup, owed>>
netVars  == <<peerTip, lagged, inbox, low, faults>>
vars == <<peerTip, lagged, inbox, seen, low, faults, tip, acc, reg, lock, stage, at, last, backup, owed>>

----------------------------------------------------------------------------
(* The ledger as far as state roots tell it apart.                           *)

\* Accounts after block h and the hooks of the blocks up to k.
AccountsAt(h, k) == [txs |-> h, paid |-> [m \in Matures |-> IF m <= k THEN 1 ELSE 0]]

\* The state_root the producer put into block h: it seals h after its hook of
\* block h - 1, if it does not lag.
StateRoot(h) == AccountsAt(h, IF h \in lagged THEN h - 2 ELSE h - 1)

\* The accounts a, after its transactions, are what block h says.
RootMatches(a, h) == a = StateRoot(h)

\* Block h is replayed on a: each of its transactions bumps a nonce, so it
\* applies on the state of block h - 1 only.
Applies(a, h) == a.txs = h - 1
Applied(a) == [a EXCEPT !.txs = @ + 1]

Init ==
    /\ peerTip = 0 /\ lagged = {} /\ inbox = {} /\ seen = {} /\ low = FALSE /\ faults = 0
    /\ tip = 0 /\ acc = AccountsAt(0, 0) /\ reg = Matures /\ lock = Nobody
    /\ stage = [g \in Goroutines |-> "idle"]
    /\ at = [g \in Goroutines |-> 0] /\ last = [g \in Goroutines |-> 0]
    /\ backup = [g \in Goroutines |-> [acc |-> AccountsAt(0, 0), reg |-> {}]]
    /\ owed = [g \in Goroutines |-> {}]

----------------------------------------------------------------------------
(* The producer and the network.                                             *)

\* The producer seals a block; its hook broadcasts it.
ProduceBlock ==
    /\ peerTip < MaxHeight
    /\ peerTip' = peerTip + 1
    /\ lagged' \in {lagged} \cup {lagged \cup {h} : h \in IF Lag THEN {peerTip + 1} ELSE {}}
    /\ inbox' = inbox \cup {<<peerTip + 1, peerTip + 1>>}
    /\ UNCHANGED <<seen, low, faults, nodeVars, workVars>>

\* The last block asked for from h on.
ClampBlockRequestTo(h) == h + Window - 1

\* The provider's loop ends at its own tip.
WindowFrom(h) == <<h, Min({ClampBlockRequestTo(h), peerTip})>>

\* A peer's answer to the request for the window from h on.
HandleBlockRequest(h) == inbox' = inbox \cup {WindowFrom(h)}

\* requestNextWindow, every ten seconds, and a peer's answer.
RequestBlocks ==
    /\ tip < peerTip
    /\ Cardinality(inbox) < MaxInbox
    /\ HandleBlockRequest(tip + 1)
    /\ UNCHANGED <<peerTip, lagged, seen, low, faults, nodeVars, workVars>>

\* One more fault.
Fault == faults < MaxFaults /\ faults' = faults + 1

LoseMessage ==
    /\ Fault
    /\ \E m \in inbox : inbox' = inbox \ {m}
    /\ UNCHANGED <<peerTip, lagged, seen, low, nodeVars, workVars>>

\* The disk reserve of the follower is breached, and restored.
DiskLow ==
    /\ Fault
    /\ ~low /\ low' = TRUE
    /\ UNCHANGED <<peerTip, lagged, inbox, seen, nodeVars, workVars>>

DiskRestored ==
    /\ low /\ low' = FALSE
    /\ UNCHANGED <<peerTip, lagged, inbox, seen, faults, nodeVars, workVars>>

----------------------------------------------------------------------------
(* The goroutines.                                                           *)

Goto(g, s) == stage' = [stage EXCEPT ![g] = s]

\* TryAppendExternalBlock returned: the read loop logs an error and takes the
\* next block of its message, syncHTTPChainSource gives the window up.
Return(g, ok) ==
    IF at[g] < last[g] /\ (ok \/ g = "gossip")
    THEN /\ at' = [at EXCEPT ![g] = @ + 1]
         /\ Goto(g, IF g = "gossip" THEN "receive" ELSE "check")
    ELSE Goto(g, "idle") /\ UNCHANGED at

StartBatch(g, range, s) ==
    /\ at' = [at EXCEPT ![g] = range[1]]
    /\ last' = [last EXCEPT ![g] = range[2]]
    /\ Goto(g, s)

\* readLoop takes a message; a repeated one is still under way.
ReadMessage ==
    /\ stage["gossip"] = "idle"
    /\ \E m \in inbox :
        /\ StartBatch("gossip", m, "receive")
        /\ \/ inbox' = inbox \ {m} /\ UNCHANGED faults
           \/ Fault /\ UNCHANGED inbox
    /\ UNCHANGED <<peerTip, lagged, low, seen, nodeVars, backup, owed>>

\* handleBlock: a hash that was seen before is skipped, any other is marked
\* seen before the handler runs.
HandleBlock ==
    /\ stage["gossip"] = "receive"
    /\ IF at["gossip"] \in seen
       THEN Return("gossip", TRUE) /\ UNCHANGED seen
       ELSE Goto("gossip", "check") /\ seen' = seen \cup {at["gossip"]} /\ UNCHANGED at
    /\ UNCHANGED <<netVars, nodeVars, last, backup, owed>>

\* syncHTTPChainSource fetches the window after the tip.
FetchWindow ==
    /\ HTTPSync /\ stage["http"] = "idle" /\ tip < peerTip
    /\ StartBatch("http", WindowFrom(tip + 1), "check")
    /\ UNCHANGED <<netVars, seen, nodeVars, backup, owed>>

----------------------------------------------------------------------------
(* TryAppendExternalBlock                                                    *)

\* Mutant: the tip is not looked at again under bp.mu.
AnyTip(g) == TRUE

\* The block extends the tip (checked twice, each time under bp.mu).
StillExtends(g) == at[g] = tip + 1

CheckTip(g) ==
    /\ stage[g] = "check" /\ lock = Nobody
    /\ IF ~low /\ at[g] = tip + 1
       THEN Goto(g, "replay") /\ UNCHANGED at
       ELSE Return(g, ~low /\ at[g] <= tip)
    /\ UNCHANGED <<netVars, seen, nodeVars, last, backup, owed>>

\* Replay on a clone of the live accounts, without bp.mu.
ReplayClone(g) ==
    /\ stage[g] = "replay"
    /\ IF Applies(acc, at[g]) /\ RootMatches(Applied(acc), at[g])
       THEN Goto(g, "lock") /\ UNCHANGED at
       ELSE Return(g, FALSE)
    /\ UNCHANGED <<netVars, seen, nodeVars, last, backup, owed>>

\* bp.mu again; ChainReplayClone copies the accounts first.
LockAndBackup(g) ==
    /\ stage[g] = "lock" /\ lock = Nobody
    /\ IF StillExtends(g)
       THEN /\ lock' = g /\ Goto(g, "backup") /\ UNCHANGED at
            /\ backup' = [backup EXCEPT ![g].acc = acc]
       ELSE Return(g, at[g] <= tip) /\ UNCHANGED <<lock, backup>>
    /\ UNCHANGED <<netVars, seen, tip, acc, reg, last, owed>>

BackupRegistry(g) ==
    /\ stage[g] = "backup" /\ Goto(g, "apply")
    /\ backup' = [backup EXCEPT ![g].reg = reg]
    /\ UNCHANGED <<netVars, seen, nodeVars, at, last, owed>>

\* Mutant: a failed append leaves the accounts as they are.
NotRolledBack(g) == acc

\* RestoreFromChainReplay, the accounts.
RolledBack(g) == backup[g].acc

\* The live apply; an ApplyTx that fails rolls back like a wrong root.
ApplyLive(g) ==
    /\ stage[g] = "apply"
    /\ IF Applies(acc, at[g])
       THEN acc' = Applied(acc) /\ Goto(g, "compare")
       ELSE acc' = RolledBack(g) /\ Goto(g, "restore")
    /\ UNCHANGED <<netVars, seen, tip, reg, lock, at, last, backup, owed>>

CompareRoot(g) ==
    /\ stage[g] = "compare"
    /\ IF RootMatches(acc, at[g])
       THEN tip' = at[g] /\ lock' = Nobody /\ Goto(g, "sweep") /\ UNCHANGED acc
       ELSE acc' = RolledBack(g) /\ Goto(g, "restore") /\ UNCHANGED <<tip, lock>>
    /\ UNCHANGED <<netVars, seen, reg, at, last, backup, owed>>

\* RestoreFromChainReplay puts the registry back after the accounts.
RestoreRegistry(g) ==
    /\ stage[g] = "restore"
    /\ reg' = backup[g].reg /\ lock' = Nobody
    /\ Return(g, FALSE)
    /\ UNCHANGED <<netVars, seen, tip, acc, last, backup, owed>>

\* Mutant: only the records that mature at this very height.
MaturedNow(h) == {m \in reg : m = h + 1}

\* SweepMaturedUnbonds
Matured(h) == {m \in reg : m <= h}

\* The hook of the block: the records go first, then their owners are paid.
HookSweep(g) ==
    /\ stage[g] = "sweep" /\ Goto(g, "credit")
    /\ owed' = [owed EXCEPT ![g] = Matured(at[g])]
    /\ reg' = reg \ Matured(at[g])
    /\ UNCHANGED <<netVars, seen, tip, acc, lock, at, last, backup>>

HookCredit(g) ==
    /\ stage[g] = "credit"
    /\ acc' = [acc EXCEPT !.paid = [m \in Matures |-> @[m] + (IF m \in owed[g] THEN 1 ELSE 0)]]
    /\ Return(g, TRUE)
    /\ UNCHANGED <<netVars, seen, tip, reg, lock, last, backup, owed>>

----------------------------------------------------------------------------
TryAppend(g) ==
    \/ CheckTip(g) \/ ReplayClone(g) \/ LockAndBackup(g) \/ BackupRegistry(g) \/ ApplyLive(g)
    \/ CompareRoot(g) \/ RestoreRegistry(g) \/ HookSweep(g) \/ HookCredit(g)

Next ==
    \/ ProduceBlock \/ RequestBlocks \/ LoseMessage \/ DiskLow \/ DiskRestored
    \/ ReadMessage \/ HandleBlock \/ FetchWindow
    \/ \E g \in Goroutines : TryAppend(g)

Spec == Init /\ [][Next]_vars

\* The producer keeps sealing, the tickers keep ticking, a full disk is seen
\* to, a goroutine goes on with what it has begun (bp.mu may be taken often, so
\* that is strong), and messages under way are read.
Fairness ==
    /\ WF_vars(ProduceBlock) /\ WF_vars(DiskRestored)
    /\ WF_vars(RequestBlocks) /\ WF_vars(FetchWindow)
    /\ WF_vars(ReadMessage) /\ WF_vars(HandleBlock)
    /\ \A g \in {"gossip", "http"} : SF_vars(g \in Goroutines /\ TryAppend(g))

FairSpec == Spec /\ Fairness

----------------------------------------------------------------------------
(* Properties *)

\* Every variable has the shape the code gives it.
TypeOK ==
    /\ peerTip \in 0..MaxHeight /\ lagged \subseteq 1..MaxHeight
    /\ inbox \subseteq (1..MaxHeight) \X (1..MaxHeight)
    /\ seen \subseteq 1..MaxHeight /\ low \in BOOLEAN /\ faults \in 0..MaxFaults
    /\ tip \in 0..peerTip /\ acc \in Accounts /\ reg \subseteq Matures
    /\ lock \in Goroutines \cup {Nobody} /\ stage \in [Goroutines -> Stages]
    /\ at \in [Goroutines -> 0..MaxHeight] /\ last \in [Goroutines -> 0..MaxHeight]
    /\ backup \in [Goroutines -> [acc : Accounts, reg : SUBSET Matures]]
    /\ owed \in [Goroutines -> SUBSET Matures]

\* When nobody is in the middle of an append or a hook, the live accounts and
\* registry are those of the chain: no append is applied twice or half rolled
\* back, and no release is lost or paid twice, whichever way appends, hooks
\* and clones of the two goroutines interleave.  A producer that seals a block
\* before its own hook of the one before is exempt.
StateFollowsChain ==
    lagged = {} /\ (\A g \in Goroutines : stage[g] \in {"idle", "receive", "check", "replay", "lock"}) =>
        acc = AccountsAt(tip, tip) /\ reg = {m \in Matures : m > tip}

\* The follower's state has its types and follows its chain.
StateInv == TypeOK /\ StateFollowsChain

\* Whatever roots the blocks carry, between two appends exactly the blocks of
\* the chain are applied: two goroutines that append the same block, or fail to,
\* never apply it twice or leave it half applied.
AppliedOnce == lock = Nobody => acc.txs = tip

\* The follower gets every block of an orderly producer, though messages are
\* lost, reordered or repeated and its disk is full for a while.
CatchesUp == \A h \in 1..MaxHeight : peerTip >= h ~> tip >= h \/ lagged # {}
=============================================================================

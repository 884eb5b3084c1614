-------------------------- MODULE BlockSyncProofs --------------------------
(***************************************************************************)
(* TryAppendExternalBlock applies every block of the chain exactly once,   *)
(* for every number of blocks, messages, faults and lagging roots, and the *)
(* state of the follower of an orderly producer is that of its chain.      *)
(***************************************************************************)
EXTENDS BlockSync, TLAPS

\* The stages of an append in which bp.mu is held.
HoldsLock == {"backup", "apply", "compare", "restore"}

\* The shape of the state that the argument needs.
Shape ==
    /\ peerTip \in Int /\ tip \in Nat /\ acc \in Accounts /\ reg \subseteq Matures
    /\ \A m \in inbox : m[1] \in Int
    /\ stage \in [Goroutines -> Stages] /\ at \in [Goroutines -> Int]
    /\ owed \in [Goroutines -> SUBSET Matures]
    /\ backup \in [Goroutines -> [acc : Accounts, reg : SUBSET Matures]]

\* bp.mu is held by the goroutine in those stages, so by at most one.
LockInv == \A g \in Goroutines : lock = g <=> stage[g] \in HoldsLock

\* What one goroutine knows of the accounts, by stage, while it holds bp.mu:
\* only the transactions of the block it appends have moved them, and its
\* backup is of the tip.
AppendInv(g) ==
    /\ stage[g] \in {"backup", "apply"} => acc.txs = tip
    /\ stage[g] = "compare" => acc.txs = tip + 1
    /\ stage[g] \in {"backup", "apply", "compare"} => at[g] = tip + 1 /\ backup[g].acc.txs = tip
    /\ stage[g] = "restore" => acc.txs = tip

\* AppliedOnce, made inductive.
AppliedInv ==
    /\ Shape /\ LockInv
    /\ \A g \in Goroutines : AppendInv(g)
    /\ AppliedOnce

\* bp.mu free is not bp.mu held by a goroutine.
LEMMA GoroutineNames == Nobody \notin Goroutines
BY SyncAssumption DEF Goroutines

\* A catch-up window begins at the height asked for.
LEMMA WindowBegins == \A h : WindowFrom(h)[1] = h
BY DEF WindowFrom

\* Only the transactions of a block change txs; a hook's credit does not.
LEMMA AccountFacts ==
    ASSUME NEW a \in Accounts
    PROVE  /\ Applied(a) \in Accounts /\ Applied(a).txs = a.txs + 1
           /\ \A S \in SUBSET Matures :
                LET c == [a EXCEPT !.paid = [m \in Matures |-> @[m] + (IF m \in S THEN 1 ELSE 0)]]
                IN  c \in Accounts /\ c.txs = a.txs
BY DEF Accounts, Applied

\* The inductive invariant of the appends.
THEOREM AppliedCorrect == Spec => []AppliedInv
<1>1. Init => AppliedInv
  <2>. SUFFICES ASSUME Init PROVE AppliedInv
    OBVIOUS
  <2>1. AccountsAt(0, 0) \in Accounts /\ AccountsAt(0, 0).txs = 0
    BY SyncAssumption DEF AccountsAt, Accounts
  <2>. QED
    BY <2>1, GoroutineNames
    DEF Init, AppliedInv, Shape, LockInv, AppendInv, AppliedOnce, HoldsLock, Stages
<1>2. AppliedInv /\ [Next]_vars => AppliedInv'
  <2>. SUFFICES ASSUME AppliedInv, [Next]_vars PROVE AppliedInv'
    OBVIOUS
  <2>. USE GoroutineNames, SyncAssumption
  <2>1. CASE UNCHANGED vars
    BY <2>1 DEF AppliedInv, Shape, LockInv, AppendInv, AppliedOnce, vars
  <2>2. CASE ProduceBlock
    BY <2>2 DEF ProduceBlock, AppliedInv, Shape, LockInv, AppendInv,
       AppliedOnce, HoldsLock, Stages, netVars, nodeVars, workVars
  <2>3. CASE RequestBlocks
    BY <2>3 DEF RequestBlocks, HandleBlockRequest, WindowFrom, AppliedInv, Shape, LockInv, AppendInv,
       AppliedOnce, HoldsLock, Stages, netVars, nodeVars, workVars
  <2>4. CASE LoseMessage
    BY <2>4 DEF LoseMessage, AppliedInv, Shape, LockInv, AppendInv,
       AppliedOnce, HoldsLock, Stages, netVars, nodeVars, workVars
  <2>5. CASE DiskLow
    BY <2>5 DEF DiskLow, AppliedInv, Shape, LockInv, AppendInv,
       AppliedOnce, HoldsLock, Stages, netVars, nodeVars, workVars
  <2>6. CASE DiskRestored
    BY <2>6 DEF DiskRestored, AppliedInv, Shape, LockInv, AppendInv,
       AppliedOnce, HoldsLock, Stages, netVars, nodeVars, workVars
  <2>7. CASE ReadMessage
    BY <2>7 DEF ReadMessage, StartBatch, Goto, AppliedInv, Shape, LockInv, AppendInv,
       AppliedOnce, HoldsLock, Stages, netVars, nodeVars, workVars
  <2>8. CASE HandleBlock
    BY <2>8 DEF HandleBlock, Return, Goto, AppliedInv, Shape, LockInv, AppendInv,
       AppliedOnce, HoldsLock, Stages, netVars, nodeVars, workVars
  <2>9. CASE FetchWindow
    <3>1. "http" \in Goroutines
      BY <2>9 DEF FetchWindow, Goroutines
    <3>2. /\ at' = [at EXCEPT !["http"] = tip + 1]
          /\ stage' = [stage EXCEPT !["http"] = "check"] /\ stage["http"] = "idle"
      BY <2>9, WindowBegins DEF FetchWindow, StartBatch, Goto
    <3>3. Shape'
      BY <2>9, <3>1, <3>2 DEF FetchWindow, AppliedInv, Shape, Stages, netVars, nodeVars
    <3>. QED
      BY <2>9, <3>1, <3>2, <3>3
      DEF FetchWindow, AppliedInv, Shape, LockInv, AppendInv, AppliedOnce, HoldsLock, nodeVars
  <2>10. CASE \E g \in Goroutines : TryAppend(g)
    <3>. PICK g \in Goroutines : TryAppend(g)
      BY <2>10
    <3>. USE AccountFacts
    <3>1. CASE CheckTip(g)
      BY <3>1 DEF CheckTip, Return, Goto, AppliedInv, Shape, LockInv, AppendInv,
         AppliedOnce, HoldsLock, Stages, netVars, nodeVars, workVars
    <3>2. CASE ReplayClone(g)
      BY <3>2 DEF ReplayClone, Return, Goto, AppliedInv, Shape, LockInv, AppendInv,
         AppliedOnce, HoldsLock, Stages, netVars, nodeVars, workVars
    <3>3. CASE LockAndBackup(g)
      <4>1. CASE StillExtends(g)
        <5>1. backup' \in [Goroutines -> [acc : Accounts, reg : SUBSET Matures]]
          BY <3>3, <4>1 DEF LockAndBackup, AppliedInv, Shape
        <5>2. /\ \A h \in Goroutines : stage[h] \notin HoldsLock
              /\ acc.txs = tip /\ backup'[g].acc = acc
          BY <3>3, <4>1 DEF LockAndBackup, AppliedInv, Shape, LockInv, AppendInv, AppliedOnce,
             HoldsLock, Stages, netVars, nodeVars, workVars
        <5>. QED
          BY <3>3, <4>1, <5>1, <5>2
          DEF LockAndBackup, StillExtends, Goto, AppliedInv, Shape, LockInv, AppendInv, AppliedOnce,
             HoldsLock, Stages, netVars, nodeVars, workVars
      <4>2. CASE ~StillExtends(g)
        BY <3>3, <4>2
        DEF LockAndBackup, Return, Goto, AppliedInv, Shape, LockInv, AppendInv, AppliedOnce,
             HoldsLock, Stages, netVars, nodeVars, workVars
      <4>. QED
        BY <4>1, <4>2
    <3>4. CASE BackupRegistry(g)
      BY <3>4 DEF BackupRegistry, Goto, AppliedInv, Shape, LockInv, AppendInv,
         AppliedOnce, HoldsLock, Stages, netVars, nodeVars, workVars
    <3>5. CASE ApplyLive(g)
      <4>1. /\ stage[g] = "apply" /\ lock = g /\ acc.txs = tip /\ at[g] = tip + 1
            /\ backup[g].acc \in Accounts /\ backup[g].acc.txs = tip
            /\ \A h \in Goroutines \ {g} : stage[h] \notin HoldsLock
        BY <3>5 DEF ApplyLive, AppliedInv, Shape, LockInv, AppendInv, HoldsLock
      <4>2. Applies(acc, at[g])
        BY <4>1 DEF Applies, AppliedInv, Shape
      <4>3. /\ acc' = Applied(acc) /\ stage' = [stage EXCEPT ![g] = "compare"]
            /\ acc' \in Accounts /\ acc'.txs = tip + 1
        BY <3>5, <4>1, <4>2 DEF ApplyLive, Goto, AppliedInv, Shape
      <4>4. Shape'
        BY <3>5, <4>3 DEF ApplyLive, AppliedInv, Shape, Stages, netVars
      <4>. QED
        BY <3>5, <4>1, <4>3, <4>4
        DEF ApplyLive, AppliedInv, Shape, LockInv, AppendInv, AppliedOnce, HoldsLock
    <3>6. CASE CompareRoot(g)
      BY <3>6 DEF CompareRoot, RolledBack, Goto, AppliedInv, Shape, LockInv, AppendInv,
         AppliedOnce, HoldsLock, Stages, netVars, nodeVars, workVars
    <3>7. CASE RestoreRegistry(g)
      BY <3>7 DEF RestoreRegistry, Return, Goto, AppliedInv, Shape, LockInv, AppendInv,
         AppliedOnce, HoldsLock, Stages, netVars, nodeVars, workVars
    <3>8. CASE HookSweep(g)
      BY <3>8 DEF HookSweep, Matured, Goto, AppliedInv, Shape, LockInv, AppendInv,
         AppliedOnce, HoldsLock, Stages, netVars, nodeVars, workVars
    <3>9. CASE HookCredit(g)
      <4>1. acc' \in Accounts /\ acc'.txs = acc.txs
        BY <3>9, AccountFacts DEF HookCredit, AppliedInv, Shape
      <4>. QED
        BY <3>9, <4>1
        DEF HookCredit, Return, Goto, AppliedInv, Shape, LockInv, AppendInv, AppliedOnce,
           HoldsLock, Stages, netVars, nodeVars, workVars
    <3>. QED
      BY <3>1, <3>2, <3>3, <3>4, <3>5, <3>6, <3>7, <3>8, <3>9 DEF TryAppend
  <2>. QED
    BY <2>1, <2>2, <2>3, <2>4, <2>5, <2>6, <2>7, <2>8, <2>9, <2>10 DEF Next
<1>. QED
  BY <1>1, <1>2, PTL DEF Spec

\* Whenever bp.mu is free the live accounts hold exactly the transactions of the
\* chain (TryAppendExternalBlock): the tip is checked again under bp.mu, the
\* backup is taken after that, and a hook of another goroutine, which may run
\* in the middle of all this, moves no nonce.
THEOREM AppliedOnceCorrect == Spec => []AppliedOnce
<1>1. AppliedInv => AppliedOnce
  BY DEF AppliedInv
<1>. QED
  BY <1>1, AppliedCorrect, PTL

----------------------------------------------------------------------------
(* The state between appends.                                              *)

\* What is under way names blocks the producer has sealed.
RangesSealed ==
    /\ inbox \subseteq (1..peerTip) \X (1..peerTip)
    /\ at \in [Goroutines -> 0..peerTip] /\ last \in [Goroutines -> 0..peerTip]
    /\ \A g \in Goroutines : stage[g] # "idle" => at[g] > 0

SyncTypes == TypeOK /\ RangesSealed

\* The hook of goroutine g has taken m out of the registry and not paid it yet.
Owes(g, m) == stage[g] = "credit" /\ m \in owed[g]

\* A maturing stake is in one place: the registry, a running hook, or the
\* account of its owner.
Pending(m) == m \in reg \/ \E g \in Goroutines : Owes(g, m)

OnePlace ==
    \A m \in Matures :
        /\ acc.paid[m] = IF Pending(m) THEN 0 ELSE 1
        /\ \A g \in Goroutines : Owes(g, m) =>
              m \notin reg /\ \A o \in Goroutines : Owes(o, m) => o = g

\* What left the registry has matured, and a matured stake that is still there
\* is the business of a hook that has not swept.
RegistryFollows ==
    /\ \A m \in Matures : m \notin reg => m <= tip
    /\ \A m \in reg : m <= tip =>
          \E g \in Goroutines : stage[g] = "sweep" /\ m <= at[g]
    /\ \A g \in Goroutines : stage[g] = "sweep" => at[g] <= tip

\* An append that passed the replay saw every release before its block paid.
ReplayedPaid ==
    \A g \in Goroutines : stage[g] \in {"lock", "backup", "apply", "compare"} =>
        \A m \in Matures : m < at[g] => acc.paid[m] = 1

NoRollback == \A g \in Goroutines : stage[g] # "restore"

FollowInv == lagged = {} => OnePlace /\ RegistryFollows /\ ReplayedPaid /\ NoRollback

\* The smaller of two numbers.
LEMMA MinOfTwo ==
    ASSUME NEW a \in Int, NEW b \in Int
    PROVE  Min({a, b}) \in {a, b} /\ Min({a, b}) <= a /\ Min({a, b}) <= b
<1>1. \E x \in {a, b} : \A y \in {a, b} : x <= y
  OBVIOUS
<1>. QED
  BY <1>1 DEF Min

\* A window ends at a block the producer has sealed.
LEMMA WindowSealed ==
    ASSUME SyncTypes, tip < peerTip
    PROVE  WindowFrom(tip + 1) \in (1..peerTip) \X (1..peerTip)
<1>1. Window \in Nat \ {0} /\ tip \in Nat /\ peerTip \in Nat
  BY SyncAssumption DEF SyncTypes, TypeOK
<1>. DEFINE c == ClampBlockRequestTo(tip + 1)
           to == Min({c, peerTip})
<1>2. c \in Int /\ c >= 1 /\ peerTip \in Int
  BY <1>1 DEF ClampBlockRequestTo
<1>5. WindowFrom(tip + 1) = <<tip + 1, to>>
  BY DEF WindowFrom
<1>. HIDE DEF c
<1>3. to \in {c, peerTip} /\ to <= peerTip
  BY <1>2, MinOfTwo
<1>. HIDE DEF to
<1>4. to \in 1..peerTip
  BY <1>1, <1>2, <1>3
<1>6. tip + 1 \in 1..peerTip
  BY <1>1
<1>. QED
  BY <1>4, <1>5, <1>6

\* The parts of a goroutine.
GoroutineTypes ==
    /\ stage \in [Goroutines -> Stages]
    /\ at \in [Goroutines -> 0..peerTip] /\ last \in [Goroutines -> 0..peerTip]

\* An append ends, and the next block of the batch is taken up.
LEMMA ReturnFacts ==
    ASSUME GoroutineTypes, peerTip \in Nat, NEW g \in Goroutines, NEW ok, Return(g, ok)
    PROVE  /\ stage' \in [Goroutines -> Stages] /\ at' \in [Goroutines -> 0..peerTip]
           /\ stage'[g] \in {"idle", "receive", "check"} /\ (stage'[g] # "idle" => at'[g] > 0)
           /\ \A o \in Goroutines : o # g => stage'[o] = stage[o] /\ at'[o] = at[o]
<1>1. CASE at[g] < last[g] /\ (ok \/ g = "gossip")
  <2>. DEFINE s == IF g = "gossip" THEN "receive" ELSE "check"
  <2>1. /\ at' = [at EXCEPT ![g] = @ + 1] /\ stage' = [stage EXCEPT ![g] = s]
    BY <1>1 DEF Return, Goto
  <2>2. s \in {"receive", "check"} /\ s \in Stages
    BY DEF Stages
  <2>. HIDE DEF s
  <2>3. at[g] \in 0..peerTip /\ last[g] \in 0..peerTip
    BY DEF GoroutineTypes
  <2>4. at[g] + 1 \in 0..peerTip /\ at[g] + 1 > 0
    BY <1>1, <2>3
  <2>. QED
    BY <2>1, <2>2, <2>4 DEF GoroutineTypes
<1>2. CASE ~(at[g] < last[g] /\ (ok \/ g = "gossip"))
  <2>1. at' = at /\ stage' = [stage EXCEPT ![g] = "idle"]
    BY <1>2 DEF Return, Goto
  <2>. QED
    BY <2>1 DEF GoroutineTypes, Stages
<1>. QED
  BY <1>1, <1>2

\* A goroutine moves on with the same block.
LEMMA GotoFacts ==
    ASSUME GoroutineTypes, NEW g \in Goroutines, NEW s \in Stages, Goto(g, s)
    PROVE  /\ stage' \in [Goroutines -> Stages] /\ stage'[g] = s
           /\ \A o \in Goroutines : o # g => stage'[o] = stage[o]
  BY DEF GoroutineTypes, Goto

\* A goroutine takes up a batch.
LEMMA BatchFacts ==
    ASSUME GoroutineTypes, peerTip \in Nat, NEW g \in Goroutines, NEW s \in Stages,
           NEW r \in (1..peerTip) \X (1..peerTip), StartBatch(g, r, s)
    PROVE  /\ stage' \in [Goroutines -> Stages] /\ stage'[g] = s
           /\ at' \in [Goroutines -> 0..peerTip] /\ last' \in [Goroutines -> 0..peerTip] /\ at'[g] > 0
           /\ \A o \in Goroutines : o # g => stage'[o] = stage[o] /\ at'[o] = at[o]
<1>1. r[1] \in 0..peerTip /\ r[1] > 0 /\ r[2] \in 0..peerTip
  OBVIOUS
<1>2. /\ at' = [at EXCEPT ![g] = r[1]] /\ last' = [last EXCEPT ![g] = r[2]]
      /\ stage' = [stage EXCEPT ![g] = s]
  BY DEF StartBatch, Goto
<1>. QED
  BY <1>1, <1>2 DEF GoroutineTypes

LEMMA SyncInit == Init => SyncTypes
<1>. SUFFICES ASSUME Init PROVE SyncTypes
  OBVIOUS
<1>1. AccountsAt(0, 0) \in Accounts
  BY SyncAssumption DEF AccountsAt, Accounts
<1>2. MaxHeight \in Nat /\ MaxFaults \in Nat
  BY SyncAssumption
<1>3. /\ stage \in [Goroutines -> Stages] /\ owed \in [Goroutines -> SUBSET Matures]
      /\ at \in [Goroutines -> {0}] /\ last \in [Goroutines -> {0}]
      /\ backup \in [Goroutines -> [acc : Accounts, reg : SUBSET Matures]]
  BY <1>1 DEF Init, Stages
<1>4. at \in [Goroutines -> 0..MaxHeight] /\ last \in [Goroutines -> 0..MaxHeight]
  BY <1>2, <1>3
<1>a. low \in BOOLEAN
  BY DEF Init
<1>b. /\ peerTip = 0 /\ lagged = {} /\ inbox = {} /\ seen = {} /\ faults = 0
      /\ tip = 0 /\ acc = AccountsAt(0, 0) /\ reg = Matures /\ lock = Nobody
  BY DEF Init
<1>5. TypeOK
  BY <1>a, <1>b, <1>1, <1>2, <1>3, <1>4 DEF TypeOK
<1>6. RangesSealed
  BY <1>3 DEF Init, RangesSealed
<1>. QED
  BY <1>5, <1>6 DEF SyncTypes

\* The network and the producer keep the types.
LEMMA NetSteps ==
    ASSUME SyncTypes, ProduceBlock \/ RequestBlocks \/ LoseMessage \/ DiskLow \/ DiskRestored
    PROVE  SyncTypes'
<1>1. UNCHANGED <<seen, tip, acc, reg, lock, stage, at, last, backup, owed>>
  BY DEF ProduceBlock, RequestBlocks, LoseMessage, DiskLow, DiskRestored, nodeVars, workVars
<1>2. MaxHeight \in Nat /\ MaxFaults \in Nat /\ peerTip \in 0..MaxHeight
  BY SyncAssumption DEF SyncTypes, TypeOK
<1>3. peerTip' \in 0..MaxHeight /\ peerTip <= peerTip' /\ lagged' \subseteq 1..MaxHeight
  <2>1. CASE ProduceBlock
    <3>1. peerTip' = peerTip + 1 /\ peerTip < MaxHeight /\ lagged' \subseteq lagged \cup {peerTip + 1}
      BY <2>1 DEF ProduceBlock
    <3>2. lagged \subseteq 1..MaxHeight /\ peerTip + 1 \in 1..MaxHeight
      BY <1>2, <3>1 DEF SyncTypes, TypeOK
    <3>. QED
      BY <1>2, <3>1, <3>2
  <2>2. CASE RequestBlocks \/ LoseMessage \/ DiskLow \/ DiskRestored
    <3>1. peerTip' = peerTip /\ lagged' = lagged
      BY <2>2 DEF RequestBlocks, LoseMessage, DiskLow, DiskRestored
    <3>. QED
      BY <1>2, <3>1 DEF SyncTypes, TypeOK
  <2>. QED
    BY <2>1, <2>2
<1>4. inbox' \subseteq (1..peerTip') \X (1..peerTip')
  <2>1. CASE ProduceBlock
    <3>1. peerTip' = peerTip + 1 /\ inbox' = inbox \cup {<<peerTip + 1, peerTip + 1>>}
      BY <2>1 DEF ProduceBlock
    <3>. QED
      BY <1>2, <3>1 DEF SyncTypes, RangesSealed
  <2>2. CASE RequestBlocks
    <3>1. inbox' = inbox \cup {WindowFrom(tip + 1)} /\ tip < peerTip /\ peerTip' = peerTip
      BY <2>2 DEF RequestBlocks, HandleBlockRequest
    <3>. QED
      BY <3>1, WindowSealed DEF SyncTypes, RangesSealed
  <2>3. CASE LoseMessage \/ DiskLow \/ DiskRestored
    BY <2>3 DEF LoseMessage, DiskLow, DiskRestored, SyncTypes, RangesSealed
  <2>. QED
    BY <2>1, <2>2, <2>3
<1>5. low' \in BOOLEAN /\ faults' \in 0..MaxFaults
  <2>1. low \in BOOLEAN /\ faults \in 0..MaxFaults
    BY DEF SyncTypes, TypeOK
  <2>2. low' = low \/ low' = TRUE \/ low' = FALSE
    BY DEF ProduceBlock, RequestBlocks, LoseMessage, DiskLow, DiskRestored
  <2>3. faults' = faults \/ (faults < MaxFaults /\ faults' = faults + 1)
    BY DEF ProduceBlock, RequestBlocks, LoseMessage, DiskLow, DiskRestored, Fault
  <2>4. faults' \in 0..MaxFaults
    BY <1>2, <2>1, <2>3
  <2>. QED
    BY <2>1, <2>2, <2>4
<1>6. at' \in [Goroutines -> 0..peerTip'] /\ last' \in [Goroutines -> 0..peerTip']
  <2>1. 0..peerTip \subseteq 0..peerTip'
    BY <1>2, <1>3
  <2>. QED
    BY <1>1, <2>1 DEF SyncTypes, RangesSealed
<1>7. inbox' \subseteq (1..MaxHeight) \X (1..MaxHeight) /\ tip' \in 0..peerTip'
  BY <1>1, <1>2, <1>3, <1>4 DEF SyncTypes, TypeOK
<1>. QED
  BY <1>1, <1>3, <1>4, <1>5, <1>6, <1>7 DEF SyncTypes, TypeOK, RangesSealed

\* What the steps of goroutines use of the types.
LEMMA SyncParts ==
    ASSUME SyncTypes
    PROVE  /\ GoroutineTypes /\ peerTip \in Nat /\ peerTip <= MaxHeight /\ MaxHeight \in Nat
           /\ "gossip" \in Goroutines
  BY SyncAssumption DEF SyncTypes, TypeOK, RangesSealed, GoroutineTypes, Goroutines

\* A step of a goroutine keeps the types if it keeps these.
LEMMA StepTypes ==
    ASSUME SyncTypes, UNCHANGED <<peerTip, lagged, low>>,
           inbox' \subseteq inbox, faults' \in 0..MaxFaults, seen' \subseteq 1..MaxHeight,
           tip' \in 0..peerTip, acc' \in Accounts, reg' \subseteq Matures,
           lock' \in Goroutines \cup {Nobody}, stage' \in [Goroutines -> Stages],
           at' \in [Goroutines -> 0..peerTip], last' \in [Goroutines -> 0..peerTip],
           backup' \in [Goroutines -> [acc : Accounts, reg : SUBSET Matures]],
           owed' \in [Goroutines -> SUBSET Matures],
           \A o \in Goroutines : stage'[o] # "idle" => at'[o] > 0
    PROVE  SyncTypes'
<1>1. 0..peerTip \subseteq 0..MaxHeight
  BY SyncParts
<1>2. at' \in [Goroutines -> 0..MaxHeight] /\ last' \in [Goroutines -> 0..MaxHeight]
  BY <1>1
<1>3. TypeOK'
  BY <1>2 DEF SyncTypes, TypeOK
<1>4. RangesSealed'
  BY DEF SyncTypes, RangesSealed
<1>. QED
  BY <1>3, <1>4 DEF SyncTypes

\* The values behind the types, for the steps below.
LEMMA SyncValues ==
    ASSUME SyncTypes
    PROVE  /\ faults \in 0..MaxFaults /\ seen \subseteq 1..MaxHeight /\ tip \in 0..peerTip
           /\ acc \in Accounts /\ reg \subseteq Matures /\ lock \in Goroutines \cup {Nobody}
           /\ stage \in [Goroutines -> Stages]
           /\ at \in [Goroutines -> 0..peerTip] /\ last \in [Goroutines -> 0..peerTip]
           /\ backup \in [Goroutines -> [acc : Accounts, reg : SUBSET Matures]]
           /\ owed \in [Goroutines -> SUBSET Matures]
           /\ \A o \in Goroutines : stage[o] # "idle" => at[o] > 0
  BY DEF SyncTypes, TypeOK, RangesSealed

\* The steps that take up blocks keep the types.
LEMMA TakeSteps ==
    ASSUME SyncTypes, ReadMessage \/ HandleBlock \/ FetchWindow
    PROVE  SyncTypes'
<1>1. /\ UNCHANGED <<peerTip, lagged, low, tip, acc, reg, lock, backup, owed>>
  BY DEF ReadMessage, HandleBlock, FetchWindow, netVars, nodeVars
<1>2. CASE ReadMessage
  <2>1. PICK m \in inbox : /\ StartBatch("gossip", m, "receive")
                           /\ \/ inbox' = inbox \ {m} /\ UNCHANGED faults
                              \/ Fault /\ UNCHANGED inbox
    BY <1>2 DEF ReadMessage
  <2>2. m \in (1..peerTip) \X (1..peerTip)
    BY DEF SyncTypes, RangesSealed
  <2>3. "receive" \in Stages
    BY DEF Stages
  <2>4. /\ stage' \in [Goroutines -> Stages] /\ stage'["gossip"] = "receive"
        /\ at' \in [Goroutines -> 0..peerTip] /\ last' \in [Goroutines -> 0..peerTip] /\ at'["gossip"] > 0
        /\ \A o \in Goroutines : o # "gossip" => stage'[o] = stage[o] /\ at'[o] = at[o]
    BY <2>1, <2>2, <2>3, SyncParts, BatchFacts
  <2>5. \A o \in Goroutines : stage'[o] # "idle" => at'[o] > 0
    BY <2>4, SyncValues
  <2>6. faults' \in 0..MaxFaults /\ inbox' \subseteq inbox
    BY <2>1, SyncValues, SyncAssumption DEF Fault
  <2>7. seen' = seen
    BY <1>2 DEF ReadMessage
  <2>. QED
    BY <1>1, <2>4, <2>5, <2>6, <2>7, SyncValues, StepTypes
<1>3. CASE HandleBlock
  <2>1. inbox' = inbox /\ faults' = faults /\ last' = last /\ stage["gossip"] = "receive"
    BY <1>3 DEF HandleBlock, netVars
  <2>2. /\ stage' \in [Goroutines -> Stages] /\ at' \in [Goroutines -> 0..peerTip]
        /\ \A o \in Goroutines : stage'[o] # "idle" => at'[o] > 0
    <3>1. CASE at["gossip"] \in seen
      <4>1. Return("gossip", TRUE)
        BY <1>3, <3>1 DEF HandleBlock
      <4>. QED
        BY <4>1, SyncParts, SyncValues, ReturnFacts
    <3>2. CASE at["gossip"] \notin seen
      <4>1. Goto("gossip", "check") /\ at' = at /\ "check" \in Stages
        BY <1>3, <3>2 DEF HandleBlock, Stages
      <4>. QED
        BY <2>1, <4>1, SyncParts, SyncValues, GotoFacts
    <3>. QED
      BY <3>1, <3>2
  <2>3. seen' \subseteq seen \cup {at["gossip"]}
    BY <1>3 DEF HandleBlock
  <2>4. at["gossip"] \in 1..MaxHeight
    BY <2>1, SyncParts, SyncValues
  <2>5. seen' \subseteq 1..MaxHeight
    BY <2>3, <2>4, SyncValues
  <2>. QED
    BY <1>1, <2>1, <2>2, <2>5, SyncValues, StepTypes
<1>4. CASE FetchWindow
  <2>1. /\ inbox' = inbox /\ faults' = faults /\ seen' = seen /\ "http" \in Goroutines
        /\ StartBatch("http", WindowFrom(tip + 1), "check") /\ tip < peerTip
    BY <1>4 DEF FetchWindow, netVars, Goroutines
  <2>2. WindowFrom(tip + 1) \in (1..peerTip) \X (1..peerTip)
    BY <2>1, WindowSealed
  <2>3. "check" \in Stages
    BY DEF Stages
  <2>4. /\ stage' \in [Goroutines -> Stages] /\ stage'["http"] = "check"
        /\ at' \in [Goroutines -> 0..peerTip] /\ last' \in [Goroutines -> 0..peerTip] /\ at'["http"] > 0
        /\ \A o \in Goroutines : o # "http" => stage'[o] = stage[o] /\ at'[o] = at[o]
    BY <2>1, <2>2, <2>3, SyncParts, BatchFacts
  <2>5. \A o \in Goroutines : stage'[o] # "idle" => at'[o] > 0
    BY <2>4, SyncValues
  <2>. QED
    BY <1>1, <2>1, <2>4, <2>5, SyncValues, StepTypes
<1>. QED
  BY <1>2, <1>3, <1>4

\* Where a step of an append leaves its goroutine.
LEMMA AppendMoves ==
    ASSUME SyncTypes, NEW g \in Goroutines, TryAppend(g)
    PROVE  /\ UNCHANGED <<netVars, seen, last>>
           /\ stage' \in [Goroutines -> Stages] /\ at' \in [Goroutines -> 0..peerTip]
           /\ \A o \in Goroutines : stage'[o] # "idle" => at'[o] > 0
           /\ \A o \in Goroutines : o # g => stage'[o] = stage[o] /\ at'[o] = at[o]
<1>1. UNCHANGED <<netVars, seen, last>> /\ stage[g] # "idle"
  BY DEF TryAppend, CheckTip, ReplayClone, LockAndBackup, BackupRegistry, ApplyLive, CompareRoot,
     RestoreRegistry, HookSweep, HookCredit
<1>2. ASSUME NEW ok, Return(g, ok)
      PROVE  /\ stage' \in [Goroutines -> Stages] /\ at' \in [Goroutines -> 0..peerTip]
             /\ \A o \in Goroutines : stage'[o] # "idle" => at'[o] > 0
             /\ \A o \in Goroutines : o # g => stage'[o] = stage[o] /\ at'[o] = at[o]
  BY <1>2, SyncParts, SyncValues, ReturnFacts
<1>3. ASSUME NEW s \in Stages, Goto(g, s), at' = at
      PROVE  /\ stage' \in [Goroutines -> Stages] /\ at' \in [Goroutines -> 0..peerTip]
             /\ \A o \in Goroutines : stage'[o] # "idle" => at'[o] > 0
             /\ \A o \in Goroutines : o # g => stage'[o] = stage[o] /\ at'[o] = at[o]
  BY <1>1, <1>3, SyncParts, SyncValues, GotoFacts
<1>4. (\E ok : Return(g, ok)) \/ (at' = at /\ \E s \in Stages : Goto(g, s))
  BY DEF TryAppend, CheckTip, ReplayClone, LockAndBackup, BackupRegistry, ApplyLive, CompareRoot,
     RestoreRegistry, HookSweep, HookCredit, Stages
<1>. QED
  BY <1>1, <1>2, <1>3, <1>4

\* The steps of an append keep the types.
LEMMA AppendSteps ==
    ASSUME SyncTypes, NEW g \in Goroutines, TryAppend(g)
    PROVE  SyncTypes'
<1>1. /\ UNCHANGED <<peerTip, lagged, low, inbox, faults, seen, last>>
      /\ stage' \in [Goroutines -> Stages] /\ at' \in [Goroutines -> 0..peerTip]
      /\ \A o \in Goroutines : stage'[o] # "idle" => at'[o] > 0
  BY AppendMoves DEF netVars
<1>2. tip' = tip \/ tip' = at[g]
  BY DEF TryAppend, CheckTip, ReplayClone, LockAndBackup, BackupRegistry, ApplyLive, CompareRoot,
     RestoreRegistry, HookSweep, HookCredit, nodeVars
<1>3. lock' = lock \/ lock' = g \/ lock' = Nobody
  BY DEF TryAppend, CheckTip, ReplayClone, LockAndBackup, BackupRegistry, ApplyLive, CompareRoot,
     RestoreRegistry, HookSweep, HookCredit, nodeVars
<1>4. reg' = reg \/ reg' = backup[g].reg \/ reg' = reg \ Matured(at[g])
  BY DEF TryAppend, CheckTip, ReplayClone, LockAndBackup, BackupRegistry, ApplyLive, CompareRoot,
     RestoreRegistry, HookSweep, HookCredit, nodeVars
<1>5. owed' = owed \/ owed' = [owed EXCEPT ![g] = Matured(at[g])]
  BY DEF TryAppend, CheckTip, ReplayClone, LockAndBackup, BackupRegistry, ApplyLive, CompareRoot,
     RestoreRegistry, HookSweep, HookCredit
<1>6. backup' = backup \/ backup' = [backup EXCEPT ![g].acc = acc] \/ backup' = [backup EXCEPT ![g].reg = reg]
  BY DEF TryAppend, CheckTip, ReplayClone, LockAndBackup, BackupRegistry, ApplyLive, CompareRoot,
     RestoreRegistry, HookSweep, HookCredit
<1>7. acc' \in Accounts
  <2>1. Applied(acc) \in Accounts /\ backup[g].acc \in Accounts
    BY SyncValues, AccountFacts
  <2>2. CASE HookCredit(g)
    BY <2>2, SyncValues, AccountFacts DEF HookCredit
  <2>3. CASE ~HookCredit(g)
    <3>1. acc' = acc \/ acc' = Applied(acc) \/ acc' = backup[g].acc
      BY <2>3 DEF TryAppend, CheckTip, ReplayClone, LockAndBackup, BackupRegistry, ApplyLive, CompareRoot,
         RestoreRegistry, HookSweep, RolledBack, nodeVars
    <3>. QED
      BY <2>1, <3>1, SyncValues
  <2>. QED
    BY <2>2, <2>3
<1>8. Matured(at[g]) \subseteq reg /\ backup[g].reg \subseteq Matures
  BY SyncValues DEF Matured
<1>9. backup' \in [Goroutines -> [acc : Accounts, reg : SUBSET Matures]]
  BY <1>6, SyncValues
<1>10. owed' \in [Goroutines -> SUBSET Matures] /\ reg' \subseteq Matures
  BY <1>4, <1>5, <1>8, SyncValues
<1>11. tip' \in 0..peerTip /\ lock' \in Goroutines \cup {Nobody}
  BY <1>2, <1>3, SyncValues
<1>. QED
  BY <1>1, <1>7, <1>9, <1>10, <1>11, SyncValues, StepTypes

LEMMA SyncNext == SyncTypes /\ [Next]_vars => SyncTypes'
<1>. SUFFICES ASSUME SyncTypes, [Next]_vars PROVE SyncTypes'
  OBVIOUS
<1>1. CASE ProduceBlock \/ RequestBlocks \/ LoseMessage \/ DiskLow \/ DiskRestored
  BY <1>1, NetSteps
<1>2. CASE ReadMessage \/ HandleBlock \/ FetchWindow
  BY <1>2, TakeSteps
<1>3. ASSUME NEW g \in Goroutines, TryAppend(g) PROVE SyncTypes'
  BY <1>3, AppendSteps
<1>4. CASE UNCHANGED vars
  BY <1>4 DEF vars, SyncTypes, TypeOK, RangesSealed
<1>. QED
  BY <1>1, <1>2, <1>3, <1>4 DEF Next

\* The inductive type invariant.
THEOREM SyncTypesCorrect == Spec => []SyncTypes
  BY SyncInit, SyncNext, PTL DEF Spec

----------------------------------------------------------------------------
(* Releases.                                                               *)

\* The heights are numbers.
LEMMA MaturesNat == \A m \in Matures : m \in Nat /\ m > 0
  BY SyncAssumption

\* Nothing a hook or an append knows has changed.
LEMMA FollowSame ==
    ASSUME FollowInv, UNCHANGED <<lagged, reg, tip, acc, owed, stage, at>>
    PROVE  FollowInv'
  BY DEF FollowInv, OnePlace, Pending, Owes, RegistryFollows, ReplayedPaid, NoRollback

\* A goroutine moves outside of hooks.
LEMMA FollowMove ==
    ASSUME FollowInv, NEW g \in Goroutines, UNCHANGED <<lagged, reg, tip, owed>>, acc'.paid = acc.paid,
           \A o \in Goroutines : o # g => stage'[o] = stage[o] /\ at'[o] = at[o],
           stage[g] \notin {"sweep", "credit"},
           lagged = {} => stage'[g] \notin {"sweep", "credit", "restore"},
           lagged = {} /\ stage'[g] \in {"lock", "backup", "apply", "compare"} =>
               \A m \in Matures : m < at'[g] => acc.paid[m] = 1
    PROVE  FollowInv'
<1>. SUFFICES ASSUME lagged = {} PROVE (OnePlace /\ RegistryFollows /\ ReplayedPaid /\ NoRollback)'
  BY DEF FollowInv
<1>1. OnePlace /\ RegistryFollows /\ ReplayedPaid /\ NoRollback
  BY DEF FollowInv
<1>2. \A o \in Goroutines, m \in Matures : Owes(o, m)' <=> Owes(o, m)
  BY DEF Owes
<1>3. OnePlace'
  BY <1>1, <1>2 DEF OnePlace, Pending
<1>4. \A o \in Goroutines : (stage'[o] = "sweep" <=> stage[o] = "sweep") /\ (stage[o] = "sweep" => at'[o] = at[o])
  OBVIOUS
<1>5. RegistryFollows'
  BY <1>1, <1>4 DEF RegistryFollows
<1>6. ReplayedPaid' /\ NoRollback'
  BY <1>1 DEF ReplayedPaid, NoRollback
<1>. QED
  BY <1>3, <1>5, <1>6

LEMMA FollowInit == Init => FollowInv
<1>. SUFFICES ASSUME Init PROVE FollowInv
  OBVIOUS
<1>1. \A g \in Goroutines : stage[g] = "idle"
  BY DEF Init
<1>2. reg = Matures /\ tip = 0 /\ acc = AccountsAt(0, 0)
  BY DEF Init
<1>3. \A m \in Matures : acc.paid[m] = 0 /\ ~(m <= tip)
  BY <1>2, MaturesNat DEF AccountsAt
<1>. QED
  BY <1>1, <1>2, <1>3 DEF FollowInv, OnePlace, Pending, Owes, RegistryFollows, ReplayedPaid, NoRollback

\* The network, and taking up blocks.
LEMMA FollowOther ==
    ASSUME FollowInv, SyncTypes,
           \/ ProduceBlock \/ RequestBlocks \/ LoseMessage \/ DiskLow \/ DiskRestored
           \/ ReadMessage \/ HandleBlock \/ FetchWindow
    PROVE  FollowInv'
<1>1. CASE ProduceBlock
  <2>1. UNCHANGED <<reg, tip, acc, owed, stage, at>> /\ (lagged' = {} => lagged = {})
    BY <1>1 DEF ProduceBlock, nodeVars, workVars
  <2>. QED
    BY <2>1 DEF FollowInv, OnePlace, Pending, Owes, RegistryFollows, ReplayedPaid, NoRollback
<1>2. CASE RequestBlocks \/ LoseMessage \/ DiskLow \/ DiskRestored
  BY <1>2, FollowSame DEF RequestBlocks, LoseMessage, DiskLow, DiskRestored, nodeVars, workVars
<1>3. CASE ReadMessage
  <2>1. PICK m \in inbox : StartBatch("gossip", m, "receive")
    BY <1>3 DEF ReadMessage
  <2>2. m \in (1..peerTip) \X (1..peerTip) /\ "receive" \in Stages
    BY DEF SyncTypes, RangesSealed, Stages
  <2>3. /\ stage'["gossip"] = "receive"
        /\ \A o \in Goroutines : o # "gossip" => stage'[o] = stage[o] /\ at'[o] = at[o]
    BY <2>1, <2>2, SyncParts, BatchFacts
  <2>4. UNCHANGED <<lagged, reg, tip, acc, owed>> /\ stage["gossip"] = "idle"
    BY <1>3 DEF ReadMessage, nodeVars
  <2>. QED
    BY <2>3, <2>4, SyncParts, FollowMove
<1>4. CASE HandleBlock
  <2>1. UNCHANGED <<lagged, reg, tip, acc, owed>> /\ stage["gossip"] = "receive"
    BY <1>4 DEF HandleBlock, netVars, nodeVars
  <2>2. /\ stage'["gossip"] \in {"idle", "receive", "check"}
        /\ \A o \in Goroutines : o # "gossip" => stage'[o] = stage[o] /\ at'[o] = at[o]
    <3>1. CASE at["gossip"] \in seen
      <4>1. Return("gossip", TRUE)
        BY <1>4, <3>1 DEF HandleBlock
      <4>. QED
        BY <4>1, SyncParts, ReturnFacts
    <3>2. CASE at["gossip"] \notin seen
      <4>1. Goto("gossip", "check") /\ at' = at /\ "check" \in Stages
        BY <1>4, <3>2 DEF HandleBlock, Stages
      <4>. QED
        BY <4>1, SyncParts, GotoFacts
    <3>. QED
      BY <3>1, <3>2
  <2>. QED
    BY <2>1, <2>2, SyncParts, FollowMove
<1>5. CASE FetchWindow
  <2>1. /\ UNCHANGED <<lagged, reg, tip, acc, owed>> /\ "http" \in Goroutines /\ stage["http"] = "idle"
        /\ StartBatch("http", WindowFrom(tip + 1), "check") /\ tip < peerTip
    BY <1>5 DEF FetchWindow, netVars, nodeVars, Goroutines
  <2>2. WindowFrom(tip + 1) \in (1..peerTip) \X (1..peerTip) /\ "check" \in Stages
    BY <2>1, WindowSealed DEF Stages
  <2>3. /\ stage'["http"] = "check"
        /\ \A o \in Goroutines : o # "http" => stage'[o] = stage[o] /\ at'[o] = at[o]
    BY <2>1, <2>2, SyncParts, BatchFacts
  <2>. QED
    BY <2>1, <2>3, FollowMove
<1>. QED
  BY <1>1, <1>2, <1>3, <1>4, <1>5

\* The append up to the lock.
LEMMA FollowEarly ==
    ASSUME FollowInv, SyncTypes, NEW g \in Goroutines,
           CheckTip(g) \/ ReplayClone(g) \/ LockAndBackup(g) \/ BackupRegistry(g)
    PROVE  FollowInv'
<1>0. TryAppend(g)
  BY DEF TryAppend
<1>1. UNCHANGED <<lagged, reg, tip, acc, owed>> /\ stage[g] \in {"check", "replay", "lock", "backup"}
  BY DEF CheckTip, ReplayClone, LockAndBackup, BackupRegistry, netVars, nodeVars
<1>2. \A o \in Goroutines : o # g => stage'[o] = stage[o] /\ at'[o] = at[o]
  BY <1>0, AppendMoves
<1>3. ASSUME NEW ok, Return(g, ok) PROVE stage'[g] \in {"idle", "receive", "check"}
  BY <1>3, SyncParts, ReturnFacts
<1>4. ASSUME NEW s \in Stages, Goto(g, s) PROVE stage'[g] = s
  BY <1>4, SyncParts, GotoFacts
<1>5. {"replay", "lock", "backup", "apply"} \subseteq Stages
  BY DEF Stages
<1>6. CASE stage'[g] \in {"idle", "receive", "check", "replay"}
  BY <1>1, <1>2, <1>6, FollowMove
<1>7. CASE stage'[g] \notin {"idle", "receive", "check", "replay"}
  <2>1. CASE CheckTip(g)
    BY <1>3, <1>4, <1>5, <1>7, <2>1 DEF CheckTip
  <2>2. CASE ReplayClone(g)
    <3>1. Goto(g, "lock") /\ at' = at /\ RootMatches(Applied(acc), at[g])
      BY <1>3, <1>7, <2>2 DEF ReplayClone
    <3>2. stage'[g] = "lock"
      BY <1>4, <1>5, <3>1
    <3>3. lagged = {} => \A m \in Matures : m < at[g] => acc.paid[m] = 1
      <4>. SUFFICES ASSUME lagged = {}, NEW m \in Matures, m < at[g] PROVE acc.paid[m] = 1
        OBVIOUS
      <4>1. Applied(acc).paid = acc.paid
        BY SyncValues DEF Applied, Accounts
      <4>2. Applied(acc) = AccountsAt(at[g], at[g] - 1)
        BY <3>1 DEF RootMatches, StateRoot
      <4>3. at[g] \in Nat
        BY SyncValues
      <4>. QED
        BY <4>1, <4>2, <4>3, MaturesNat DEF AccountsAt
    <3>. QED
      BY <1>1, <1>2, <3>1, <3>2, <3>3, FollowMove
  <2>3. CASE LockAndBackup(g)
    <3>1. Goto(g, "backup") /\ at' = at /\ stage[g] = "lock"
      BY <1>3, <1>7, <2>3 DEF LockAndBackup
    <3>2. stage'[g] = "backup"
      BY <1>4, <1>5, <3>1
    <3>3. lagged = {} => \A m \in Matures : m < at[g] => acc.paid[m] = 1
      BY <3>1 DEF FollowInv, ReplayedPaid
    <3>. QED
      BY <1>1, <1>2, <3>1, <3>2, <3>3, FollowMove
  <2>4. CASE BackupRegistry(g)
    <3>1. Goto(g, "apply") /\ at' = at /\ stage[g] = "backup"
      BY <2>4 DEF BackupRegistry
    <3>2. stage'[g] = "apply"
      BY <1>4, <1>5, <3>1
    <3>3. lagged = {} => \A m \in Matures : m < at[g] => acc.paid[m] = 1
      BY <3>1 DEF FollowInv, ReplayedPaid
    <3>. QED
      BY <1>1, <1>2, <3>1, <3>2, <3>3, FollowMove
  <2>. QED
    BY <2>1, <2>2, <2>3, <2>4
<1>. QED
  BY <1>6, <1>7

\* The live apply does not fail.
LEMMA FollowApply ==
    ASSUME FollowInv, AppliedInv, SyncTypes, NEW g \in Goroutines, ApplyLive(g)
    PROVE  FollowInv'
<1>0. TryAppend(g)
  BY DEF TryAppend
<1>1. /\ UNCHANGED <<lagged, reg, tip, owed>> /\ stage[g] = "apply" /\ at' = at
  BY DEF ApplyLive, netVars
<1>2. \A o \in Goroutines : o # g => stage'[o] = stage[o] /\ at'[o] = at[o]
  BY <1>0, AppendMoves
<1>3. Applies(acc, at[g])
  <2>1. acc.txs = tip /\ at[g] = tip + 1 /\ tip \in Nat
    BY <1>1 DEF AppliedInv, AppendInv, Shape
  <2>. QED
    BY <2>1 DEF Applies
<1>4. acc' = Applied(acc) /\ Goto(g, "compare") /\ "compare" \in Stages
  BY <1>3 DEF ApplyLive, Stages
<1>5. stage'[g] = "compare"
  BY <1>4, SyncParts, GotoFacts
<1>6. acc'.paid = acc.paid
  BY <1>4, SyncValues DEF Applied, Accounts
<1>7. lagged = {} => \A m \in Matures : m < at[g] => acc.paid[m] = 1
  BY <1>1 DEF FollowInv, ReplayedPaid
<1>. QED
  BY <1>1, <1>2, <1>5, <1>6, <1>7, FollowMove

\* The root of the live accounts is that of the block: what was paid when the
\* clone was replayed is paid still, and nothing of this block has matured.
LEMMA FollowCompare ==
    ASSUME FollowInv, AppliedInv, SyncTypes, NEW g \in Goroutines, CompareRoot(g)
    PROVE  FollowInv'
<1>0. TryAppend(g)
  BY DEF TryAppend
<1>1. /\ UNCHANGED <<lagged, reg, owed>> /\ stage[g] = "compare" /\ at' = at
  BY DEF CompareRoot, netVars
<1>2. \A o \in Goroutines : o # g => stage'[o] = stage[o] /\ at'[o] = at[o]
  BY <1>0, AppendMoves
<1>. SUFFICES ASSUME lagged = {} PROVE (OnePlace /\ RegistryFollows /\ ReplayedPaid /\ NoRollback)'
  BY <1>1 DEF FollowInv
<1>3. OnePlace /\ RegistryFollows /\ ReplayedPaid /\ NoRollback
  BY DEF FollowInv
<1>4. acc.txs = tip + 1 /\ at[g] = tip + 1 /\ tip \in Nat
  BY <1>1 DEF AppliedInv, AppendInv, Shape
<1>5. RootMatches(acc, at[g])
  <2>1. \A m \in Matures : acc.paid[m] = IF m <= tip THEN 1 ELSE 0
    <3>. SUFFICES ASSUME NEW m \in Matures PROVE acc.paid[m] = IF m <= tip THEN 1 ELSE 0
      OBVIOUS
    <3>1. CASE m <= tip
      <4>1. m < at[g]
        BY <1>4, <3>1, MaturesNat
      <4>. QED
        BY <1>1, <1>3, <3>1, <4>1 DEF ReplayedPaid
    <3>2. CASE ~(m <= tip)
      <4>1. m \in reg
        BY <1>3, <3>2 DEF RegistryFollows
      <4>. QED
        BY <1>3, <3>2, <4>1 DEF OnePlace, Pending
    <3>. QED
      BY <3>1, <3>2
  <2>2. acc = [txs |-> tip + 1, paid |-> [m \in Matures |-> IF m <= tip THEN 1 ELSE 0]]
    <3>1. acc = [txs |-> acc.txs, paid |-> acc.paid] /\ acc.paid \in [Matures -> Nat]
      BY SyncValues DEF Accounts
    <3>2. acc.paid = [m \in Matures |-> IF m <= tip THEN 1 ELSE 0]
      BY <2>1, <3>1
    <3>. QED
      BY <1>4, <3>1, <3>2
  <2>3. at[g] - 1 = tip
    BY <1>4
  <2>. QED
    BY <1>4, <2>2, <2>3 DEF RootMatches, StateRoot, AccountsAt
<1>6. tip' = at[g] /\ Goto(g, "sweep") /\ acc' = acc /\ "sweep" \in Stages
  BY <1>5 DEF CompareRoot, Stages
<1>7. stage'[g] = "sweep"
  BY <1>6, SyncParts, GotoFacts
<1>8. OnePlace'
  <2>1. \A o \in Goroutines, m \in Matures : Owes(o, m)' <=> Owes(o, m)
    BY <1>1, <1>2, <1>7 DEF Owes
  <2>. QED
    BY <1>1, <1>3, <1>6, <2>1 DEF OnePlace, Pending
<1>9. RegistryFollows'
  <2>1. tip' = tip + 1 /\ \A m \in Matures : m <= tip => m <= tip'
    BY <1>4, <1>6, MaturesNat
  <2>2. \A m \in Matures : m \notin reg' => m <= tip'
    BY <1>1, <1>3, <2>1 DEF RegistryFollows
  <2>3. \A m \in reg' : m <= tip' => stage'[g] = "sweep" /\ m <= at'[g]
    BY <1>1, <1>6, <1>7
  <2>4. \A o \in Goroutines : stage'[o] = "sweep" => at'[o] <= tip'
    <3>1. \A o \in Goroutines : o # g /\ stage[o] = "sweep" => at[o] <= tip /\ at[o] \in Nat
      BY <1>3, SyncValues DEF RegistryFollows
    <3>2. at[g] <= tip'
      BY <1>4, <1>6
    <3>. QED
      BY <1>1, <1>2, <1>4, <2>1, <3>1, <3>2
  <2>. QED
    BY <2>2, <2>3, <2>4 DEF RegistryFollows
<1>10. ReplayedPaid' /\ NoRollback'
  BY <1>1, <1>2, <1>3, <1>6, <1>7 DEF ReplayedPaid, NoRollback
<1>. QED
  BY <1>8, <1>9, <1>10

\* The hook takes the matured records out of the registry.
LEMMA FollowSweep ==
    ASSUME FollowInv, SyncTypes, NEW g \in Goroutines, HookSweep(g)
    PROVE  FollowInv'
<1>0. TryAppend(g)
  BY DEF TryAppend
<1>. DEFINE M == Matured(at[g])
<1>1. /\ UNCHANGED <<lagged, acc, tip>> /\ stage[g] = "sweep" /\ at' = at
      /\ owed' = [owed EXCEPT ![g] = M] /\ reg' = reg \ M /\ Goto(g, "credit") /\ "credit" \in Stages
  BY DEF HookSweep, netVars, Stages
<1>2. \A o \in Goroutines : o # g => stage'[o] = stage[o]
  BY <1>0, AppendMoves
<1>. SUFFICES ASSUME lagged = {} PROVE (OnePlace /\ RegistryFollows /\ ReplayedPaid /\ NoRollback)'
  BY <1>1 DEF FollowInv
<1>3. OnePlace /\ RegistryFollows /\ ReplayedPaid /\ NoRollback
  BY DEF FollowInv
<1>4. M \subseteq reg /\ \A m \in reg : m \in M <=> m <= at[g]
  BY DEF Matured
<1>. HIDE DEF M
<1>5. stage'[g] = "credit" /\ owed'[g] = M /\ \A o \in Goroutines : o # g => owed'[o] = owed[o]
  BY <1>1, SyncParts, SyncValues, GotoFacts
<1>6. \A m \in Matures : (Owes(g, m)' <=> m \in M) /\ ~Owes(g, m)
  BY <1>1, <1>5 DEF Owes
<1>7. \A o \in Goroutines, m \in Matures : o # g => (Owes(o, m)' <=> Owes(o, m))
  BY <1>2, <1>5 DEF Owes
<1>8. OnePlace'
  <2>1. \A m \in Matures : Pending(m)' <=> Pending(m)
    BY <1>1, <1>4, <1>6, <1>7 DEF Pending
  <2>2. \A m \in Matures : \A o \in Goroutines : Owes(o, m)' =>
            m \notin reg' /\ \A x \in Goroutines : Owes(x, m)' => x = o
    BY <1>1, <1>3, <1>4, <1>6, <1>7 DEF OnePlace
  <2>. QED
    BY <1>1, <1>3, <2>1, <2>2 DEF OnePlace
<1>9. RegistryFollows'
  <2>1. at[g] <= tip /\ at[g] \in Nat /\ tip \in Nat
    BY <1>1, <1>3, SyncValues DEF RegistryFollows
  <2>2. \A m \in Matures : m \notin reg' => m <= tip'
    <3>1. \A m \in M : m <= tip
      BY <1>4, <2>1, SyncValues, MaturesNat
    <3>. QED
      BY <1>1, <1>3, <3>1 DEF RegistryFollows
  <2>3. \A m \in reg' : m <= tip' => \E o \in Goroutines : stage'[o] = "sweep" /\ m <= at'[o]
    <3>. SUFFICES ASSUME NEW m \in reg', m <= tip'
                  PROVE  \E o \in Goroutines : stage'[o] = "sweep" /\ m <= at'[o]
      OBVIOUS
    <3>1. m \in reg /\ ~(m <= at[g])
      BY <1>1, <1>4
    <3>2. PICK o \in Goroutines : stage[o] = "sweep" /\ m <= at[o]
      BY <1>1, <1>3, <3>1 DEF RegistryFollows
    <3>. QED
      BY <1>1, <1>2, <3>1, <3>2
  <2>. QED
    BY <1>1, <1>2, <1>3, <1>5, <2>2, <2>3 DEF RegistryFollows
<1>10. ReplayedPaid' /\ NoRollback'
  BY <1>1, <1>2, <1>3, <1>5 DEF ReplayedPaid, NoRollback
<1>. QED
  BY <1>8, <1>9, <1>10

\* The hook pays what it took.
LEMMA FollowCredit ==
    ASSUME FollowInv, SyncTypes, NEW g \in Goroutines, HookCredit(g)
    PROVE  FollowInv'
<1>0. TryAppend(g)
  BY DEF TryAppend
<1>1. /\ UNCHANGED <<lagged, reg, tip, owed>> /\ stage[g] = "credit" /\ Return(g, TRUE)
      /\ acc' = [acc EXCEPT !.paid = [m \in Matures |-> @[m] + (IF m \in owed[g] THEN 1 ELSE 0)]]
  BY DEF HookCredit, netVars
<1>2. \A o \in Goroutines : o # g => stage'[o] = stage[o] /\ at'[o] = at[o]
  BY <1>0, AppendMoves
<1>. SUFFICES ASSUME lagged = {} PROVE (OnePlace /\ RegistryFollows /\ ReplayedPaid /\ NoRollback)'
  BY <1>1 DEF FollowInv
<1>3. OnePlace /\ RegistryFollows /\ ReplayedPaid /\ NoRollback
  BY DEF FollowInv
<1>4. stage'[g] \in {"idle", "receive", "check"}
  BY <1>1, SyncParts, ReturnFacts
<1>5. \A m \in Matures : acc'.paid[m] = acc.paid[m] + (IF m \in owed[g] THEN 1 ELSE 0)
  BY <1>1, SyncValues DEF Accounts
<1>6. \A m \in Matures : (Owes(g, m) <=> m \in owed[g]) /\ ~Owes(g, m)'
  BY <1>1, <1>4 DEF Owes
<1>7. \A o \in Goroutines, m \in Matures : o # g => (Owes(o, m)' <=> Owes(o, m))
  BY <1>1, <1>2 DEF Owes
<1>8. ASSUME NEW m \in Matures, m \in owed[g]
      PROVE  acc.paid[m] = 0 /\ acc'.paid[m] = 1 /\ ~Pending(m)'
  <2>1. Owes(g, m)
    BY <1>6, <1>8
  <2>2. acc.paid[m] = 0 /\ m \notin reg /\ \A o \in Goroutines : Owes(o, m) => o = g
    BY <1>3, <2>1 DEF OnePlace, Pending
  <2>3. acc'.paid[m] = 1
    BY <1>5, <1>8, <2>2
  <2>4. ~Pending(m)'
    BY <1>1, <1>6, <1>7, <2>2 DEF Pending
  <2>. QED
    BY <2>2, <2>3, <2>4
<1>9. ASSUME NEW m \in Matures, m \notin owed[g]
      PROVE  acc'.paid[m] = acc.paid[m] /\ (Pending(m)' <=> Pending(m))
  <2>1. acc.paid[m] \in Nat
    BY SyncValues DEF Accounts
  <2>2. acc'.paid[m] = acc.paid[m]
    BY <1>5, <1>9, <2>1
  <2>. QED
    BY <1>1, <1>6, <1>7, <1>9, <2>2 DEF Pending
<1>10. OnePlace'
  <2>1. \A m \in Matures : acc'.paid[m] = IF Pending(m)' THEN 0 ELSE 1
    BY <1>3, <1>8, <1>9 DEF OnePlace
  <2>2. \A m \in Matures : \A o \in Goroutines : Owes(o, m)' =>
            m \notin reg' /\ \A x \in Goroutines : Owes(x, m)' => x = o
    BY <1>1, <1>3, <1>6, <1>7 DEF OnePlace
  <2>. QED
    BY <2>1, <2>2 DEF OnePlace
<1>11. RegistryFollows'
  BY <1>1, <1>2, <1>3, <1>4 DEF RegistryFollows
<1>12. ReplayedPaid'
  <2>1. \A m \in Matures : acc.paid[m] = 1 => acc'.paid[m] = 1
    BY <1>8, <1>9
  <2>. QED
    BY <1>2, <1>3, <1>4, <2>1 DEF ReplayedPaid
<1>13. NoRollback'
  BY <1>2, <1>3, <1>4 DEF NoRollback
<1>. QED
  BY <1>10, <1>11, <1>12, <1>13

\* Nothing is rolled back on the chain of an orderly producer.
LEMMA FollowRestore ==
    ASSUME FollowInv, NEW g \in Goroutines, RestoreRegistry(g)
    PROVE  FollowInv'
<1>1. lagged' = lagged /\ stage[g] = "restore"
  BY DEF RestoreRegistry, netVars
<1>. QED
  BY <1>1 DEF FollowInv, NoRollback

LEMMA FollowNext == FollowInv /\ AppliedInv /\ SyncTypes /\ [Next]_vars => FollowInv'
<1>. SUFFICES ASSUME FollowInv, AppliedInv, SyncTypes, [Next]_vars PROVE FollowInv'
  OBVIOUS
<1>1. CASE \/ ProduceBlock \/ RequestBlocks \/ LoseMessage \/ DiskLow \/ DiskRestored
           \/ ReadMessage \/ HandleBlock \/ FetchWindow
  BY <1>1, FollowOther
<1>2. ASSUME NEW g \in Goroutines, TryAppend(g) PROVE FollowInv'
  BY <1>2, FollowEarly, FollowApply, FollowCompare, FollowRestore, FollowSweep, FollowCredit DEF TryAppend
<1>3. CASE UNCHANGED vars
  BY <1>3, FollowSame DEF vars
<1>. QED
  BY <1>1, <1>2, <1>3 DEF Next

\* The inductive invariant of the releases.
THEOREM FollowCorrect == Spec => []FollowInv
  BY FollowInit, FollowNext, AppliedCorrect, SyncTypesCorrect, PTL DEF Spec

\* Between appends and hooks the follower's accounts and registry are those of
\* its chain, for any number of blocks, records, messages and faults and any
\* interleaving of the two goroutines' appends and hooks, if the producer seals
\* no block before its hook of the one before: every release is paid once.
THEOREM StateCorrect == Spec => []StateInv
<1>1. FollowInv /\ AppliedInv /\ SyncTypes => StateInv
  <2>. SUFFICES ASSUME FollowInv, AppliedInv, SyncTypes PROVE StateInv
    OBVIOUS
  <2>1. TypeOK
    BY DEF SyncTypes
  <2>2. StateFollowsChain
    <3>. SUFFICES ASSUME lagged = {},
                         \A g \in Goroutines : stage[g] \in {"idle", "receive", "check", "replay", "lock"}
                  PROVE  acc = AccountsAt(tip, tip) /\ reg = {m \in Matures : m > tip}
      BY DEF StateFollowsChain
    <3>1. OnePlace /\ RegistryFollows
      BY DEF FollowInv
    <3>2. lock = Nobody
      BY SyncValues DEF AppliedInv, LockInv, HoldsLock
    <3>3. acc.txs = tip /\ tip \in Nat
      BY <3>2 DEF AppliedInv, AppliedOnce, Shape
    <3>4. \A m \in Matures : m \in reg <=> ~(m <= tip)
      BY <3>1, SyncValues DEF RegistryFollows
    <3>5. reg = {m \in Matures : m > tip}
      <4>1. \A m \in Matures : ~(m <= tip) <=> m > tip
        BY <3>3, MaturesNat
      <4>. QED
        BY <3>4, <4>1, SyncValues
    <3>6. \A m \in Matures : acc.paid[m] = IF m <= tip THEN 1 ELSE 0
      BY <3>1, <3>4 DEF OnePlace, Pending, Owes
    <3>7. acc = [txs |-> acc.txs, paid |-> acc.paid] /\ acc.paid \in [Matures -> Nat]
      BY SyncValues DEF Accounts
    <3>8. acc.paid = [m \in Matures |-> IF m <= tip THEN 1 ELSE 0]
      BY <3>6, <3>7
    <3>. QED
      BY <3>3, <3>5, <3>7, <3>8 DEF AccountsAt
  <2>. QED
    BY <2>1, <2>2 DEF StateInv
<1>. QED
  BY <1>1, FollowCorrect, AppliedCorrect, SyncTypesCorrect, PTL
=============================================================================

--------------------------- MODULE EdgePoolProofs ---------------------------
(***************************************************************************)
(* Proofs about EdgePool, for all sets of agents, requests and jobs: the   *)
(* receipt log holds one receipt for a job, what the relay counts is in    *)
(* the log, no receipt is in two proofs, and finished jobs stay finished.  *)
(***************************************************************************)
EXTENDS EdgePool, FiniteSetTheorems, TLAPS

Settlements == [bound : BOOLEAN, pending : SUBSET Receipts, consumed : SUBSET Receipts]

Memories ==
    [workers : [Workers -> {"gone", "able", "blank"}], jobs : [Jobs -> Workers \cup {None}],
     completing : SUBSET Jobs, receipts : SUBSET Receipts, compute : [Requests -> States],
     order : Seq(Requests), settlement : Settlements]

Files ==
    [log : SUBSET Receipts, compute : [Requests -> States], order : Seq(Requests),
     settlement : Settlements]

\* The steps of handleComplete between BeginComplete and CommitReceipt.
Checking == {"check", "verify", "append", "commit"}

Persisting == [at : {"persist"}, back : Memories, job : Jobs \cup {None}]
Completions == [at : Checking, job : Jobs, lease : Workers]
SettleCalls == [op : {"bind", "latest"}] \cup [op : {"ack"}, proof : SUBSET Receipts]
Settling == [at : {"settle"}, call : SettleCalls]

TypesOK ==
    /\ mem \in Memories /\ disk \in Files
    /\ mu \in Procs \cup {None} /\ persistMu \in {None, "hive"}
    /\ proc \in [Procs -> {Idle} \cup Persisting \cup Completions \cup Settling]
    /\ held \in [Workers -> Jobs \cup {None}]
    /\ got \subseteq SUBSET Receipts /\ committed \subseteq SUBSET Receipts

\* mu is held exactly by the handler that is about to write the job file.
LockOK == \A p \in Procs : proc[p].at = "persist" <=> mu = p

\* What is left of the maps when a write that is under way fails.
Stable == IF mu = None THEN mem ELSE proc[mu].back

\* The queue holds every known request once, and no more are open than fit.
QueueOK(order, compute) ==
    /\ IsInjective(order)
    /\ Range(order) = {q \in Requests : compute[q] # "none"}
    /\ Cardinality({q \in Requests : compute[q] \in Open}) <= MaxQueued

\* Completions in progress have different jobs; a job has a receipt in the
\* log only once its completion has written it.
LogOK(log, pr) ==
    /\ \A r, s \in log : r[1] = s[1] => r = s
    /\ \A w \in Workers : pr[w].at \in Checking =>
        /\ \A v \in Workers : pr[v].at \in Checking /\ pr[v].job = pr[w].job => v = w
        /\ IF pr[w].at = "commit" THEN <<pr[w].job, w>> \in log
           ELSE \A r \in log : r[1] # pr[w].job

\* The receipts that maps m count are those of the log, but for the one a
\* completion has just written, and their jobs are completed.
ReceiptsOK(m, log, pr) ==
    /\ m.receipts \subseteq log
    /\ \A r \in log : r \in m.receipts \/ (pr[r[2]].at = "commit" /\ pr[r[2]].job = r[1])
    /\ \A r \in m.receipts : r[1] \in Requests => m.compute[r[1]] = "completed"

\* A leased application job has the lease; a job under completion is kept
\* from other completions, or has expired and is leased no more.
LeasesOK(m, pr) ==
    /\ \A q \in Requests : m.jobs[q] # None => m.compute[q] = "leased"
    /\ \A w \in Workers : pr[w].at \in Checking =>
        /\ pr[w].job \in Requests => m.compute[pr[w].job] \in {"queued", "leased", "expired"}
        /\ \/ pr[w].job \in m.completing
           \/ pr[w].job \in Requests /\ m.compute[pr[w].job] = "expired"

MapsOK(m, log, pr) ==
    /\ m \in Memories /\ QueueOK(m.order, m.compute)
    /\ ReceiptsOK(m, log, pr) /\ LeasesOK(m, pr)

\* The files know what the maps m have answered.
SavedOK(m, d) ==
    /\ m.order = d.order
    /\ \A q \in Requests :
        /\ m.compute[q] = "completed" =>
              d.compute[q] = "completed" \/ \E r \in d.log : r[1] = q
        /\ m.compute[q] = "cancelled" => d.compute[q] = "cancelled"

RelayInv ==
    /\ TypesOK /\ LockOK
    /\ LogOK(disk.log, proc)
    /\ MapsOK(mem, disk.log, proc) /\ MapsOK(Stable, disk.log, proc)
    /\ QueueOK(disk.order, disk.compute) /\ SavedOK(Stable, disk)
    /\ mem.settlement = disk.settlement /\ Stable.settlement = disk.settlement

----------------------------------------------------------------------------
(* What a handler's record holds at each step.                             *)

\* No holder of a lock, worker or job is None.
LEMMA NoneIsNobody == None \notin Procs /\ None \notin Workers /\ None \notin Jobs
  BY PoolAssumption DEF PoolAssumption, Procs

\* Agents are callers, and requests are jobs.
LEMMA CallersAndJobs == /\ Workers \subseteq Procs /\ Requests \subseteq Jobs
                        /\ "client" \in Procs /\ "hive" \in Procs
                        /\ "client" \notin Workers /\ "hive" \notin Workers
  BY PoolAssumption DEF PoolAssumption, Procs, Jobs

\* A handler that is about to write has the memory it falls back on.
LEMMA PersistingRecord ==
    ASSUME TypesOK, NEW p \in Procs, proc[p].at = "persist"
    PROVE  proc[p] \in Persisting
<1>1. proc[p] \in {Idle} \cup Persisting \cup Completions \cup Settling
  BY DEF TypesOK
<1> QED
  BY <1>1 DEF Idle, Persisting, Completions, Settling, Checking

\* A completion has a job and the lease it read.
LEMMA CompletionRecord ==
    ASSUME TypesOK, NEW p \in Procs, proc[p].at \in Checking
    PROVE  proc[p] \in Completions
<1>1. proc[p] \in {Idle} \cup Persisting \cup Completions \cup Settling
  BY DEF TypesOK
<1> QED
  BY <1>1 DEF Idle, Persisting, Completions, Settling, Checking

\* A settlement handler has its call.
LEMMA SettlingRecord ==
    ASSUME TypesOK, NEW p \in Procs, proc[p].at = "settle"
    PROVE  proc[p] \in Settling
<1>1. proc[p] \in {Idle} \cup Persisting \cup Completions \cup Settling
  BY DEF TypesOK
<1> QED
  BY <1>1 DEF Idle, Persisting, Completions, Settling, Checking

\* The fall-back memory has the type of the maps.
LEMMA StableTyped == ASSUME TypesOK, LockOK PROVE Stable \in Memories
<1>1. CASE mu = None
  BY <1>1 DEF Stable, TypesOK
<1>2. CASE mu # None
  <2>1. mu \in Procs /\ proc[mu].at = "persist"
    BY <1>2 DEF TypesOK, LockOK
  <2>2. proc[mu] \in Persisting
    BY <2>1, PersistingRecord
  <2> QED
    BY <1>2, <2>2 DEF Stable, Persisting
<1> QED
  BY <1>1, <1>2

----------------------------------------------------------------------------
(* Ending or advancing a completion.                                       *)

\* A handler that ends leaves the log to the others.
LEMMA LogKept ==
    ASSUME NEW log, NEW pr, NEW p \in Procs, NEW x, DOMAIN pr = Procs,
           LogOK(log, pr), x.at \notin Checking
    PROVE  LogOK(log, [pr EXCEPT ![p] = x])
  BY CallersAndJobs DEF LogOK

\* A handler that ends before it wrote its receipt, or once it is counted,
\* leaves the receipts as they are.
LEMMA ReceiptsKept ==
    ASSUME NEW m, NEW log, NEW pr, NEW p \in Procs, NEW x, DOMAIN pr = Procs,
           ReceiptsOK(m, log, pr), pr[p].at # "commit" \/ <<pr[p].job, p>> \in m.receipts,
           log \subseteq Receipts
    PROVE  ReceiptsOK(m, log, [pr EXCEPT ![p] = x])
<1> DEFINE new == [pr EXCEPT ![p] = x]
<1>1. ASSUME NEW r \in log, r \notin m.receipts
      PROVE  new[r[2]].at = "commit" /\ new[r[2]].job = r[1]
  <2>1. pr[r[2]].at = "commit" /\ pr[r[2]].job = r[1] /\ r[2] \in Procs
    BY <1>1, CallersAndJobs DEF ReceiptsOK, Receipts
  <2>2. r = <<r[1], r[2]>>
    BY DEF Receipts
  <2>3. r[2] # p
    BY <1>1, <2>1, <2>2
  <2> QED
    BY <2>1, <2>3
<1> QED
  BY <1>1 DEF ReceiptsOK

\* ... and the leases.
LEMMA LeasesKept ==
    ASSUME NEW m, NEW pr, NEW p \in Procs, NEW x, DOMAIN pr = Procs,
           LeasesOK(m, pr), x.at \notin Checking
    PROVE  LeasesOK(m, [pr EXCEPT ![p] = x])
  BY CallersAndJobs DEF LeasesOK

----------------------------------------------------------------------------
(* The changes of the maps.                                                *)

\* A change that opens no job and makes none known keeps the queue.
LEMMA QueueShrinks ==
    ASSUME NEW order, NEW c, NEW d, QueueOK(order, c),
           \A q \in Requests : /\ d[q] = "none" <=> c[q] = "none"
                               /\ d[q] \in Open => c[q] \in Open
    PROVE  QueueOK(order, d)
<1> DEFINE open(x) == {q \in Requests : x[q] \in Open}
<1>1. open(d) \subseteq open(c) /\ IsFiniteSet(open(c))
  BY PoolAssumption, FS_Subset DEF PoolAssumption
<1>2. Cardinality(open(d)) <= Cardinality(open(c))
    /\ Cardinality(open(d)) \in Nat /\ Cardinality(open(c)) \in Nat
  BY <1>1, FS_Subset, FS_CardinalityType
<1>3. Cardinality(open(c)) <= MaxQueued /\ MaxQueued \in Nat
  BY PoolAssumption DEF QueueOK, PoolAssumption
<1>4. Cardinality(open(d)) <= MaxQueued
  <2> HIDE DEF open
  <2> QED BY <1>2, <1>3
<1>5. {q \in Requests : c[q] # "none"} = {q \in Requests : d[q] # "none"}
  OBVIOUS
<1> QED
  BY <1>4, <1>5 DEF QueueOK

\* pruneLocked and pruneComputeJobsLocked keep the maps in order, and finish
\* no job as completed or cancelled.
LEMMA PrunedKeeps ==
    ASSUME NEW m, NEW log, NEW pr, MapsOK(m, log, pr), log \subseteq Receipts,
           \A w \in Workers : pr[w].at \in Checking => pr[w].job \in Jobs
    PROVE  /\ MapsOK(Pruned(m), log, pr)
           /\ Pruned(m).order = m.order /\ Pruned(m).settlement = m.settlement
           /\ \A q \in Requests : m.compute[q] \notin Open => Pruned(m).compute[q] = m.compute[q]
           /\ \A q \in Requests : Pruned(m).compute[q] \in {"none", "completed", "cancelled"} =>
                                      Pruned(m).compute[q] = m.compute[q]
<1> DEFINE dead == {q \in Requests : m.compute[q] \in Open /\ q \in overdue}
           lapsed == {j \in Jobs : m.jobs[j] # None /\ <<j, m.jobs[j]>> \in late}
           compute == [q \in Requests |-> IF q \in dead THEN "expired"
                                          ELSE IF q \in lapsed /\ m.compute[q] = "leased"
                                          THEN "queued" ELSE m.compute[q]]
           jobs == [j \in Jobs |-> IF j \in dead \cup lapsed THEN None ELSE m.jobs[j]]
           n == [m EXCEPT !.jobs = jobs, !.completing = m.completing \ dead, !.compute = compute]
<1>1. m \in Memories
  BY DEF MapsOK
<1>2. Pruned(m) = n
  BY DEF Pruned
<1>3. /\ n.workers = m.workers /\ n.receipts = m.receipts /\ n.order = m.order
      /\ n.settlement = m.settlement /\ n.jobs = jobs /\ n.compute = compute
      /\ n.completing = m.completing \ dead
  BY <1>1 DEF Memories
<1>4. ASSUME NEW q \in Requests
      PROVE  /\ m.compute[q] \in States /\ compute[q] \in States
             /\ m.compute[q] \notin Open => compute[q] = m.compute[q]
             /\ compute[q] \in {"none", "completed", "cancelled"} => compute[q] = m.compute[q]
             /\ m.compute[q] = "none" => compute[q] = "none"
             /\ compute[q] \in Open => m.compute[q] \in Open
             /\ m.compute[q] \in {"queued", "leased", "expired"} => compute[q] \in {"queued", "leased", "expired"}
             /\ m.compute[q] = "expired" => compute[q] = "expired"
             /\ q \in dead => compute[q] = "expired"
  BY <1>1 DEF Memories, Open, States
<1>5. n \in Memories
  <2>1. compute \in [Requests -> States]
    BY <1>4
  <2>2. jobs \in [Jobs -> Workers \cup {None}]
    BY <1>1 DEF Memories
  <2> QED
    BY <1>1, <1>3, <2>1, <2>2 DEF Memories
<1>6. QueueOK(n.order, n.compute)
  <2>1. \A q \in Requests : /\ compute[q] = "none" <=> m.compute[q] = "none"
                            /\ compute[q] \in Open => m.compute[q] \in Open
    BY <1>4
  <2>2. QueueOK(m.order, m.compute)
    BY DEF MapsOK
  <2> HIDE DEF compute, n
  <2> QED BY <1>3, <2>1, <2>2, QueueShrinks
<1>7. ReceiptsOK(n, log, pr)
  <2>1. ReceiptsOK(m, log, pr)
    BY DEF MapsOK
  <2>2. ASSUME NEW r \in m.receipts, r[1] \in Requests PROVE compute[r[1]] = "completed"
    <3>1. m.compute[r[1]] = "completed"
      BY <2>1, <2>2 DEF ReceiptsOK
    <3> QED
      BY <1>4, <2>2, <3>1 DEF Open
  <2> HIDE DEF compute, n
  <2> QED BY <1>3, <2>1, <2>2 DEF ReceiptsOK
<1>8. LeasesOK(n, pr)
  <2>1. LeasesOK(m, pr)
    BY DEF MapsOK
  <2>2. ASSUME NEW q \in Requests, jobs[q] # None PROVE compute[q] = "leased"
    <3>1. q \notin dead \cup lapsed /\ m.jobs[q] # None
      BY <2>2, CallersAndJobs
    <3>2. m.compute[q] = "leased"
      BY <2>1, <3>1 DEF LeasesOK
    <3> QED
      BY <3>1, <3>2
  <2>3. ASSUME NEW w \in Workers, pr[w].at \in Checking
        PROVE  /\ pr[w].job \in Requests => compute[pr[w].job] \in {"queued", "leased", "expired"}
               /\ \/ pr[w].job \in m.completing \ dead
                  \/ pr[w].job \in Requests /\ compute[pr[w].job] = "expired"
    <3> DEFINE j == pr[w].job
    <3>1. /\ j \in Requests => m.compute[j] \in {"queued", "leased", "expired"}
          /\ j \in m.completing \/ (j \in Requests /\ m.compute[j] = "expired")
      BY <2>1, <2>3 DEF LeasesOK
    <3>2. CASE j \in Requests
      <4> HIDE DEF compute, j
      <4> QED BY <3>1, <3>2, <1>4 DEF j
    <3>3. CASE j \notin Requests
      BY <3>1, <3>3
    <3> QED
      BY <3>2, <3>3
  <2> HIDE DEF compute, n, jobs, dead
  <2> QED BY <1>3, <2>2, <2>3 DEF LeasesOK
<1>9. MapsOK(n, log, pr)
  BY <1>5, <1>6, <1>7, <1>8 DEF MapsOK
<1> HIDE DEF compute, n
<1> QED
  BY <1>2, <1>3, <1>4, <1>9

\* Counting a job of an agent touches nothing but the agent's entry.
LEMMA CountedKeeps ==
    ASSUME NEW m \in Memories, NEW w \in Workers
    PROVE  /\ Counted(m, w) \in Memories
           /\ Counted(m, w).receipts = m.receipts /\ Counted(m, w).order = m.order
           /\ Counted(m, w).settlement = m.settlement /\ Counted(m, w).jobs = m.jobs
           /\ Counted(m, w).compute = m.compute /\ Counted(m, w).completing = m.completing
  BY DEF Counted, Memories

\* rejectJob, the end of a completion that wrote nothing, keeps the maps in
\* order, though the lease it drops may be another agent's.
LEMMA RejectedKeeps ==
    ASSUME NEW m, NEW log, NEW pr, MapsOK(m, log, pr), log \subseteq Receipts, LogOK(log, pr),
           DOMAIN pr = Procs, NEW w \in Workers, pr[w].at \in {"check", "verify"},
           NEW j \in Jobs, j = pr[w].job, NEW x, x.at \notin Checking
    PROVE  /\ MapsOK(Rejected(m, j, w), log, [pr EXCEPT ![w] = x])
           /\ Rejected(m, j, w).order = m.order /\ Rejected(m, j, w).settlement = m.settlement
           /\ \A q \in Requests : m.compute[q] \notin Open => Rejected(m, j, w).compute[q] = m.compute[q]
           /\ \A q \in Requests : Rejected(m, j, w).compute[q] \in {"none", "completed", "cancelled"} =>
                                      Rejected(m, j, w).compute[q] = m.compute[q]
<1> DEFINE c == Counted(m, w)
           compute == [q \in Requests |-> IF q # j \/ m.compute[q] # "leased" THEN m.compute[q]
                                          ELSE IF q \in overdue THEN "expired" ELSE "queued"]
           n == [c EXCEPT !.jobs[j] = None, !.completing = c.completing \ {j}, !.compute = compute]
           new == [pr EXCEPT ![w] = x]
<1>1. m \in Memories
  BY DEF MapsOK
<1>2. c \in Memories /\ c.receipts = m.receipts /\ c.order = m.order /\ c.settlement = m.settlement
      /\ c.jobs = m.jobs /\ c.compute = m.compute /\ c.completing = m.completing
  BY <1>1, CountedKeeps
<1>3. Rejected(m, j, w) = n
  BY <1>2 DEF Rejected
<1>4. /\ n.workers = c.workers /\ n.receipts = m.receipts /\ n.order = m.order
      /\ n.settlement = m.settlement /\ n.jobs = [m.jobs EXCEPT ![j] = None] /\ n.compute = compute
      /\ n.completing = m.completing \ {j}
  <2> HIDE DEF c
  <2> QED BY <1>2 DEF Memories
<1>5. ASSUME NEW q \in Requests
      PROVE  /\ m.compute[q] \in States /\ compute[q] \in States
             /\ m.compute[q] \notin Open => compute[q] = m.compute[q]
             /\ compute[q] \in {"none", "completed", "cancelled"} => compute[q] = m.compute[q]
             /\ m.compute[q] = "none" => compute[q] = "none"
             /\ compute[q] \in Open => m.compute[q] \in Open
             /\ m.compute[q] \in {"queued", "leased", "expired"} => compute[q] \in {"queued", "leased", "expired"}
             /\ m.compute[q] = "expired" => compute[q] = "expired"
             /\ q # j => compute[q] = m.compute[q]
  BY <1>1 DEF Memories, Open, States
<1>6. n \in Memories
  <2>1. compute \in [Requests -> States]
    BY <1>5
  <2> HIDE DEF c, compute
  <2> QED
    BY <1>2, <2>1 DEF Memories
<1>7. QueueOK(n.order, n.compute)
  <2>1. \A q \in Requests : /\ compute[q] = "none" <=> m.compute[q] = "none"
                            /\ compute[q] \in Open => m.compute[q] \in Open
    BY <1>5
  <2>2. QueueOK(m.order, m.compute)
    BY DEF MapsOK
  <2> HIDE DEF compute, n
  <2> QED BY <1>4, <2>1, <2>2, QueueShrinks
<1>8. ReceiptsOK(n, log, new)
  <2>1. ReceiptsOK(m, log, pr)
    BY DEF MapsOK
  <2>2. ReceiptsOK(m, log, new)
    BY <2>1, ReceiptsKept, CallersAndJobs
  <2>3. ASSUME NEW r \in m.receipts, r[1] \in Requests PROVE compute[r[1]] = "completed"
    <3>1. m.compute[r[1]] = "completed"
      BY <2>1, <2>3 DEF ReceiptsOK
    <3> QED
      BY <1>5, <2>3, <3>1 DEF Open
  <2> HIDE DEF compute, n, new
  <2> QED BY <1>4, <2>2, <2>3 DEF ReceiptsOK
<1>9. LeasesOK(n, new)
  <2>1. LeasesOK(m, pr)
    BY DEF MapsOK
  <2>2. ASSUME NEW q \in Requests, [m.jobs EXCEPT ![j] = None][q] # None PROVE compute[q] = "leased"
    <3>1. q # j /\ m.jobs[q] # None
      BY <1>1, <2>2, CallersAndJobs DEF Memories
    <3> QED
      BY <2>1, <3>1, <1>5 DEF LeasesOK
  <2>3. ASSUME NEW v \in Workers, new[v].at \in Checking
        PROVE  /\ new[v].job \in Requests => compute[new[v].job] \in {"queued", "leased", "expired"}
               /\ \/ new[v].job \in m.completing \ {j}
                  \/ new[v].job \in Requests /\ compute[new[v].job] = "expired"
    <3>1. v # w /\ new[v] = pr[v]
      BY <2>3, CallersAndJobs
    <3>2. pr[v].job # j
      BY <2>3, <3>1 DEF LogOK, Checking
    <3>3. /\ pr[v].job \in Requests => m.compute[pr[v].job] \in {"queued", "leased", "expired"}
          /\ \/ pr[v].job \in m.completing
             \/ pr[v].job \in Requests /\ m.compute[pr[v].job] = "expired"
      BY <2>1, <2>3, <3>1 DEF LeasesOK
    <3> HIDE DEF compute, new
    <3> QED
      BY <3>1, <3>2, <3>3, <1>5
  <2> HIDE DEF compute, n, new
  <2> QED BY <1>4, <2>2, <2>3 DEF LeasesOK
<1>10. MapsOK(n, log, new)
  BY <1>6, <1>7, <1>8, <1>9 DEF MapsOK
<1> HIDE DEF compute, n, new
<1> QED
  BY <1>3, <1>4, <1>5, <1>10 DEF new

----------------------------------------------------------------------------
(* The answer of a handler.                                                *)

\* Everything the next state needs that concerns neither mu nor the handler.
Quiet ==
    /\ disk' = disk /\ persistMu' = persistMu /\ UNCHANGED hive
    /\ held' \in [Workers -> Jobs \cup {None}]

\* Maps that fit the files may be left in mu's keeping.
LEMMA HoldKeeps ==
    ASSUME RelayInv, NEW p \in Procs, NEW m, NEW back, NEW job \in Jobs \cup {None},
           mu = None, Hold(p, m, back, job), Quiet,
           MapsOK(m, disk.log, proc'), MapsOK(back, disk.log, proc'), SavedOK(back, disk),
           m.settlement = disk.settlement, back.settlement = disk.settlement
    PROVE  RelayInv'
<1> DEFINE x == [at |-> "persist", back |-> back, job |-> job]
<1>0. mu' = p /\ mem' = m /\ proc' = [proc EXCEPT ![p] = x] /\ DOMAIN proc = Procs
  BY DEF Hold, RelayInv, TypesOK
<1>1. x \in Persisting /\ x.at \notin Checking
  BY DEF Persisting, MapsOK, Checking
<1>2. TypesOK'
  <2>1. proc' \in [Procs -> {Idle} \cup Persisting \cup Completions \cup Settling]
    <3> HIDE DEF x
    <3> QED BY <1>0, <1>1 DEF RelayInv, TypesOK
  <2> QED
    BY <1>0, <2>1 DEF RelayInv, TypesOK, Quiet, hive, MapsOK
<1>3. LockOK'
  BY <1>0, NoneIsNobody DEF RelayInv, LockOK
<1>4. Stable' = back
  <2>1. proc'[p] = x /\ mu' # None
    BY <1>0, NoneIsNobody
  <2> QED
    BY <1>0, <2>1 DEF Stable
<1>5. LogOK(disk.log, proc')
  <2> HIDE DEF x
  <2> QED BY <1>0, <1>1, LogKept DEF RelayInv
<1> QED
  BY <1>0, <1>2, <1>3, <1>4, <1>5 DEF RelayInv, Quiet

\* A handler that answers at once, or holds mu to write the job file.
LEMMA FinishKeeps ==
    ASSUME RelayInv, NEW p \in Procs, NEW m, mu = None, Finish(p, m), Quiet,
           MapsOK(m, disk.log, proc'), SavedOK(m, disk), m.settlement = disk.settlement
    PROVE  RelayInv'
<1>1. CASE Hold(p, m, m, None)
  BY <1>1, HoldKeeps
<1>2. CASE mem' = m /\ proc' = [proc EXCEPT ![p] = Idle] /\ UNCHANGED mu
  <2>0. DOMAIN proc = Procs
    BY DEF RelayInv, TypesOK
  <2>1. TypesOK'
    BY <1>2 DEF RelayInv, TypesOK, Quiet, hive, MapsOK
  <2>2. LockOK'
    BY <1>2, NoneIsNobody, <2>0 DEF RelayInv, LockOK, Idle
  <2>3. Stable' = m
    BY <1>2 DEF Stable
  <2>4. LogOK(disk.log, proc')
    BY <1>2, <2>0, LogKept DEF RelayInv, Idle, Checking
  <2> QED
    BY <1>2, <2>1, <2>2, <2>3, <2>4 DEF RelayInv, Quiet
<1> QED
  BY <1>1, <1>2 DEF Finish

\* A handler that has written no receipt, and its maps, for the new state.
LEMMA MapsAfter ==
    ASSUME NEW m, NEW log, NEW pr, NEW p \in Procs, NEW x, DOMAIN pr = Procs,
           MapsOK(m, log, pr), log \subseteq Receipts, x.at \notin Checking,
           pr[p].at # "commit"
    PROVE  MapsOK(m, log, [pr EXCEPT ![p] = x])
  BY ReceiptsKept, LeasesKept DEF MapsOK

\* What an answer does to the handlers.
LEMMA AnswerEnds ==
    ASSUME NEW p, NEW m, Finish(p, m) \/ \E back, job : Hold(p, m, back, job)
    PROVE  /\ \E x : x.at \notin Checking /\ proc' = [proc EXCEPT ![p] = x]
           /\ mem' = m
<1>1. CASE \E back, job : Hold(p, m, back, job)
  <2>1. PICK back, job : Hold(p, m, back, job)
    BY <1>1
  <2>2. [at |-> "persist", back |-> back, job |-> job].at \notin Checking
    BY DEF Checking
  <2> QED
    BY <2>1, <2>2 DEF Hold
<1>2. CASE Finish(p, m)
  <2>1. Idle.at \notin Checking
    BY DEF Idle, Checking
  <2>2. CASE Hold(p, m, m, None)
    BY <2>2, <1>1
  <2> QED
    BY <1>2, <2>1, <2>2 DEF Finish
<1> QED
  BY <1>1, <1>2

\* The facts every handler starts from when mu is free.
LEMMA FreeFacts ==
    ASSUME RelayInv, mu = None
    PROVE  /\ DOMAIN proc = Procs /\ disk.log \subseteq Receipts
           /\ Stable = mem /\ SavedOK(mem, disk) /\ mem.settlement = disk.settlement
           /\ MapsOK(mem, disk.log, proc) /\ LogOK(disk.log, proc) /\ mem \in Memories
           /\ \A w \in Workers : proc[w].at \in Checking => proc[w].job \in Jobs
<1>1. DOMAIN proc = Procs /\ disk.log \subseteq Receipts
  BY DEF RelayInv, TypesOK, Files
<1>2. \A w \in Workers : proc[w].at \in Checking => proc[w].job \in Jobs
  BY CompletionRecord, CallersAndJobs DEF RelayInv, Completions
<1>3. Stable = mem
  BY DEF Stable
<1> QED
  BY <1>1, <1>2, <1>3 DEF RelayInv, TypesOK

----------------------------------------------------------------------------
(* One lemma for each action.                                              *)

\* The step FinalStays asks for.
FinalStep ==
    \A q \in Requests : mem.compute[q] \in {"completed", "cancelled"} /\ mu = None
                            => mem'.compute[q] = mem.compute[q]

StepOK == RelayInv' /\ FinalStep

\* The maps after a look at the deadlines still fit the files.
LEMMA PrunedFree ==
    ASSUME RelayInv, mu = None
    PROVE  LET m == Pruned(mem) IN
           /\ MapsOK(m, disk.log, proc) /\ SavedOK(m, disk) /\ m.settlement = disk.settlement
           /\ m \in Memories
           /\ \A q \in Requests : mem.compute[q] \notin Open => m.compute[q] = mem.compute[q]
<1> DEFINE m == Pruned(mem)
<1>1. /\ MapsOK(m, disk.log, proc) /\ m.order = mem.order /\ m.settlement = mem.settlement
      /\ \A q \in Requests : mem.compute[q] \notin Open => m.compute[q] = mem.compute[q]
      /\ \A q \in Requests : m.compute[q] \in {"none", "completed", "cancelled"} =>
                                 m.compute[q] = mem.compute[q]
  BY FreeFacts, PrunedKeeps
<1> HIDE DEF m
<1>2. SavedOK(m, disk)
  BY <1>1, FreeFacts DEF SavedOK
<1>3. m \in Memories
  BY <1>1 DEF MapsOK
<1> QED
  BY <1>1, <1>2, <1>3, FreeFacts DEF m

\* An agent registers.
LEMMA RegisterStep == ASSUME RelayInv, NEW w \in Workers, Register(w) PROVE StepOK
<1>1. mu = None /\ mem' = [mem EXCEPT !.workers[w] = "able"] /\ UNCHANGED <<disk, mu, persistMu, proc, held, hive>>
  BY DEF Register, hive
<1>2. /\ mem' \in Memories /\ mem'.jobs = mem.jobs /\ mem'.compute = mem.compute
      /\ mem'.completing = mem.completing /\ mem'.receipts = mem.receipts
      /\ mem'.order = mem.order /\ mem'.settlement = mem.settlement
  BY <1>1, FreeFacts DEF Memories
<1>3. MapsOK(mem', disk.log, proc) /\ SavedOK(mem', disk)
  BY <1>1, <1>2, FreeFacts DEF MapsOK, ReceiptsOK, LeasesOK, SavedOK
<1>4. Stable' = mem'
  BY <1>1 DEF Stable
<1>5. TypesOK' /\ LockOK'
  BY <1>1, <1>2 DEF RelayInv, TypesOK, LockOK, hive
<1> QED
  BY <1>1, <1>2, <1>3, <1>4, <1>5, FreeFacts DEF StepOK, RelayInv, FinalStep

\* An agent is given its open lease, the oldest waiting request or a new job.
LEMMA LeaseStep == ASSUME RelayInv, NEW w \in Workers, Lease(w) PROVE StepOK
<1> DEFINE m == Pruned(mem)
           mine == {j \in Jobs : m.jobs[j] = w}
<1>1. /\ mu = None /\ proc[w].at = "idle" /\ w \in Procs
      /\ UNCHANGED <<disk, persistMu, hive>> /\ held \in [Workers -> Jobs \cup {None}]
  <2>1. proc[w] = Idle /\ mu = None /\ UNCHANGED <<disk, persistMu, hive>>
    BY DEF Lease
  <2> QED
    BY <2>1, CallersAndJobs DEF Idle, RelayInv, TypesOK
<1>2. /\ MapsOK(m, disk.log, proc) /\ SavedOK(m, disk) /\ m.settlement = disk.settlement
      /\ m \in Memories
      /\ \A q \in Requests : mem.compute[q] \notin Open => m.compute[q] = mem.compute[q]
  BY <1>1, PrunedFree
<1>3. DOMAIN proc = Procs /\ disk.log \subseteq Receipts
  BY <1>1, FreeFacts
<1>a. ASSUME NEW n, MapsOK(n, disk.log, proc), mem' = n, \E x : x.at \notin Checking /\ proc' = [proc EXCEPT ![w] = x]
      PROVE  MapsOK(n, disk.log, proc')
  <2>1. PICK x : x.at \notin Checking /\ proc' = [proc EXCEPT ![w] = x]
    BY <1>a
  <2> QED
    BY <1>a, <2>1, <1>1, <1>3, MapsAfter
<1>4. ASSUME NEW j \in mine, held' = [held EXCEPT ![w] = j], Finish(w, m) PROVE StepOK
  <2>1. mem' = m /\ MapsOK(m, disk.log, proc')
    <3> HIDE DEF m
    <3> QED BY <1>4, <1>2, <1>a, AnswerEnds
  <2>2. Quiet
    BY <1>1, <1>4 DEF Quiet
  <2>3. RelayInv'
    <3> HIDE DEF m
    <3> QED BY <1>1, <1>2, <1>4, <2>1, <2>2, FinishKeeps
  <2> QED
    BY <1>2, <2>1, <2>3 DEF StepOK, FinalStep, Open
<1>5. ASSUME NEW i \in Waiting(m), UNCHANGED held,
             Hold(w, [m EXCEPT !.jobs[m.order[i]] = w, !.compute[m.order[i]] = "leased"], m, m.order[i])
      PROVE  StepOK
  <2> DEFINE q == m.order[i]
             n == [m EXCEPT !.jobs[q] = w, !.compute[q] = "leased"]
  <2>1. q \in Requests /\ m.compute[q] = "queued" /\ q \in Jobs
    <3> HIDE DEF m
    <3> QED BY <1>2, <1>5, CallersAndJobs DEF Memories, Waiting
  <2> HIDE DEF m, q
  <2>2. /\ n \in Memories /\ n.order = m.order /\ n.settlement = m.settlement /\ n.receipts = m.receipts
        /\ n.completing = m.completing
        /\ n.jobs = [m.jobs EXCEPT ![q] = w] /\ n.compute = [m.compute EXCEPT ![q] = "leased"]
    BY <1>2, <2>1 DEF Memories, States
  <2>3. \A k \in Requests : /\ k # q => n.compute[k] = m.compute[k] /\ n.jobs[k] = m.jobs[k]
                            /\ n.compute[q] = "leased"
    BY <1>2, <2>1, <2>2, CallersAndJobs DEF Memories
  <2> HIDE DEF n
  <2>4. QueueOK(n.order, n.compute)
    <3>1. \A k \in Requests : /\ n.compute[k] = "none" <=> m.compute[k] = "none"
                              /\ n.compute[k] \in Open => m.compute[k] \in Open
      BY <2>1, <2>3 DEF Open
    <3> QED
      BY <1>2, <2>2, <3>1, QueueShrinks DEF MapsOK
  <2>5. ReceiptsOK(n, disk.log, proc)
    BY <1>2, <2>1, <2>2, <2>3 DEF MapsOK, ReceiptsOK
  <2>6. LeasesOK(n, proc)
    <3>1. LeasesOK(m, proc)
      BY <1>2 DEF MapsOK
    <3>2. ASSUME NEW k \in Requests, n.jobs[k] # None PROVE n.compute[k] = "leased"
      BY <3>1, <3>2, <2>3 DEF LeasesOK
    <3>3. ASSUME NEW v \in Workers, proc[v].at \in Checking
          PROVE  /\ proc[v].job \in Requests => n.compute[proc[v].job] \in {"queued", "leased", "expired"}
                 /\ \/ proc[v].job \in n.completing
                    \/ proc[v].job \in Requests /\ n.compute[proc[v].job] = "expired"
      <4>1. /\ proc[v].job \in Requests => m.compute[proc[v].job] \in {"queued", "leased", "expired"}
            /\ \/ proc[v].job \in m.completing
               \/ proc[v].job \in Requests /\ m.compute[proc[v].job] = "expired"
        BY <3>1, <3>3 DEF LeasesOK
      <4> QED
        BY <4>1, <2>1, <2>2, <2>3
    <3> QED
      BY <3>2, <3>3 DEF LeasesOK
  <2>7. MapsOK(n, disk.log, proc)
    BY <2>2, <2>4, <2>5, <2>6 DEF MapsOK
  <2>8. Hold(w, n, m, q)
    BY <1>5 DEF n, q
  <2>9. \E x : x.at \notin Checking /\ proc' = [proc EXCEPT ![w] = x]
    BY <2>8, AnswerEnds
  <2>10. mem' = n /\ MapsOK(n, disk.log, proc') /\ MapsOK(m, disk.log, proc')
    BY <1>1, <1>2, <1>3, <2>7, <2>8, <2>9, MapsAfter DEF Hold
  <2>11. RelayInv'
    <3>1. Quiet
      BY <1>1, <1>5 DEF Quiet
    <3> QED
      BY <1>1, <1>2, <2>1, <2>2, <2>8, <2>10, <3>1, HoldKeeps
  <2> QED
    BY <1>2, <2>1, <2>3, <2>10, <2>11 DEF StepOK, FinalStep, Open
<1>6. ASSUME NEW j \in PlainJobs, Finish(w, [m EXCEPT !.jobs[j] = w]), held' = [held EXCEPT ![w] = j]
      PROVE  StepOK
  <2> DEFINE n == [m EXCEPT !.jobs[j] = w]
  <2> HIDE DEF m
  <2>1. j \in Jobs /\ j \notin Requests
    BY PoolAssumption DEF PoolAssumption, Jobs
  <2>2. /\ n \in Memories /\ n.order = m.order /\ n.settlement = m.settlement /\ n.receipts = m.receipts
        /\ n.completing = m.completing /\ n.compute = m.compute
        /\ \A k \in Requests : n.jobs[k] = m.jobs[k]
    BY <1>2, <2>1, CallersAndJobs DEF Memories
  <2> HIDE DEF n
  <2>3. MapsOK(n, disk.log, proc) /\ SavedOK(n, disk)
    BY <1>2, <2>2 DEF MapsOK, ReceiptsOK, LeasesOK, SavedOK
  <2>4. Finish(w, n)
    BY <1>6 DEF n
  <2>5. mem' = n /\ MapsOK(n, disk.log, proc')
    BY <1>a, <2>3, <2>4, AnswerEnds
  <2>6. RelayInv'
    <3>1. Quiet
      BY <1>1, <1>6, <2>1 DEF Quiet
    <3> QED
      BY <1>1, <1>2, <2>2, <2>3, <2>4, <2>5, <3>1, FinishKeeps
  <2> QED
    BY <1>2, <2>2, <2>5, <2>6 DEF StepOK, FinalStep, Open
<1> QED
  BY <1>4, <1>5, <1>6 DEF Lease

\* handleComplete up to the verification: the job is free of completions and
\* receipts, or has this agent's receipt and is completed.
LEMMA BeginCompleteStep == ASSUME RelayInv, NEW w \in Workers, BeginComplete(w) PROVE StepOK
<1> DEFINE j == held[w]
<1>1. /\ mu = None /\ proc[w] = Idle /\ j # None /\ w \in Procs
      /\ UNCHANGED <<disk, persistMu, held, hive>>
  BY CallersAndJobs DEF BeginComplete, hive
<1>2. j \in Jobs /\ held \in [Workers -> Jobs \cup {None}]
  BY <1>1 DEF RelayInv, TypesOK
<1>3. Quiet
  BY <1>1, <1>2 DEF Quiet
<1>6. proc[w].at # "commit"
  BY <1>1 DEF Idle
<1> USE FreeFacts
<1>4. CASE <<j, w>> \in mem.receipts /\ CompleteComputeJob(w, mem, j)
  <2>1. j \in Requests => mem.compute[j] = "completed"
    BY <1>1, <1>4 DEF MapsOK, ReceiptsOK
  <2>2. j \in Requests => [mem EXCEPT !.compute[j] = "completed"] = mem
    <3>1. ASSUME j \in Requests PROVE [mem.compute EXCEPT ![j] = "completed"] = mem.compute
      BY <1>1, <2>1, <3>1 DEF Memories
    <3> QED
      BY <1>1, <3>1 DEF Memories
  <2>3. Hold(w, mem, mem, None) \/ Finish(w, mem)
    BY <1>4, <2>2 DEF CompleteComputeJob
  <2>4. mem' = mem /\ \E x : x.at \notin Checking /\ proc' = [proc EXCEPT ![w] = x]
    BY <2>3, AnswerEnds
  <2>5. MapsOK(mem, disk.log, proc')
    <3>1. PICK x : x.at \notin Checking /\ proc' = [proc EXCEPT ![w] = x]
      BY <2>4
    <3> QED
      BY <1>1, <1>6, <3>1, MapsAfter
  <2>6. RelayInv'
    BY <1>1, <1>3, <2>3, <2>5, HoldKeeps, FinishKeeps
  <2> QED
    BY <2>4, <2>6 DEF StepOK, FinalStep
<1>5. CASE /\ ~HasReceipt(mem, j) /\ mem.jobs[j] # None /\ NotCompleting(j)
           /\ mem' = [mem EXCEPT !.completing = @ \cup {j}]
           /\ proc' = [proc EXCEPT ![w] = [at |-> "check", job |-> j, lease |-> mem.jobs[j]]]
           /\ UNCHANGED mu
  <2> DEFINE x == [at |-> "check", job |-> j, lease |-> mem.jobs[j]]
  <2>0. /\ proc' = [proc EXCEPT ![w] = x] /\ x.at = "check" /\ x.job = j /\ mu' = None
        /\ j \notin mem.completing /\ proc'[w] = x
        /\ \A p \in Procs : p # w => proc'[p] = proc[p]
    BY <1>1, <1>5 DEF NotCompleting
  <2>1. x \in Completions
    BY <1>1, <1>2, <1>5 DEF Completions, Checking, Memories
  <2> HIDE DEF x
  <2>2. /\ mem' \in Memories /\ mem'.jobs = mem.jobs /\ mem'.compute = mem.compute
        /\ mem'.completing = mem.completing \cup {j} /\ mem'.receipts = mem.receipts
        /\ mem'.order = mem.order /\ mem'.settlement = mem.settlement
    BY <1>1, <1>2, <1>5 DEF Memories
  <2>3. \A v \in Workers : proc[v].at \in Checking => proc[v].job # j
    <3>1. j \in Requests => mem.compute[j] = "leased"
      BY <1>1, <1>5 DEF MapsOK, LeasesOK
    <3> QED
      BY <1>1, <2>0, <3>1 DEF MapsOK, LeasesOK
  <2>4. \A r \in disk.log : r[1] # j
    <3> SUFFICES ASSUME NEW r \in disk.log, r[1] = j PROVE FALSE
      OBVIOUS
    <3>1. r \notin mem.receipts
      BY <1>5 DEF HasReceipt
    <3>2. proc[r[2]].at = "commit" /\ proc[r[2]].job = j
      BY <1>1, <3>1 DEF MapsOK, ReceiptsOK
    <3>3. r[2] \in Workers
      BY <1>1 DEF Receipts
    <3> QED
      BY <2>3, <3>2, <3>3 DEF Checking
  <2>5. LogOK(disk.log, proc')
    BY <1>1, <2>0, <2>3, <2>4, CallersAndJobs DEF LogOK
  <2>6. MapsOK(mem', disk.log, proc')
    <3>1. ReceiptsOK(mem', disk.log, proc')
      <4>1. ReceiptsOK(mem, disk.log, proc')
        BY <1>1, <1>6, <2>0, ReceiptsKept DEF MapsOK
      <4> QED
        BY <2>2, <4>1 DEF ReceiptsOK
    <3>2. LeasesOK(mem', proc')
      <4>1. LeasesOK(mem, proc) /\ (j \in Requests => mem.compute[j] = "leased")
        BY <1>1, <1>5 DEF MapsOK, LeasesOK
      <4> QED
        BY <2>0, <2>2, <4>1, CallersAndJobs DEF LeasesOK
    <3> QED
      BY <1>1, <2>2, <3>1, <3>2 DEF MapsOK
  <2>7. Stable' = mem' /\ SavedOK(mem', disk)
    BY <1>1, <2>0, <2>2 DEF Stable, SavedOK
  <2>8. TypesOK'
    <3>1. proc' \in [Procs -> {Idle} \cup Persisting \cup Completions \cup Settling]
      BY <2>0, <2>1 DEF RelayInv, TypesOK
    <3> QED
      BY <1>1, <2>0, <2>2, <3>1 DEF RelayInv, TypesOK, hive
  <2>9. LockOK'
    BY <1>1, <2>0, NoneIsNobody DEF RelayInv, LockOK
  <2> QED
    BY <1>1, <2>2, <2>5, <2>6, <2>7, <2>8, <2>9 DEF StepOK, RelayInv, FinalStep
<1> QED
  BY <1>4, <1>5 DEF BeginComplete

\* rejectJob.
LEMMA RejectJobStep ==
    ASSUME RelayInv, NEW w \in Workers, proc[w].at \in {"check", "verify"}, RejectJob(w)
    PROVE  StepOK
<1> DEFINE j == proc[w].job
           n == Rejected(mem, j, w)
<1>1. mu = None /\ w \in Procs /\ UNCHANGED <<disk, persistMu, held, hive>> /\ Finish(w, n)
  BY CallersAndJobs DEF RejectJob, hive
<1>2. j \in Jobs
  BY <1>1, FreeFacts DEF Checking
<1>3. PICK x : x.at \notin Checking /\ proc' = [proc EXCEPT ![w] = x] /\ mem' = n
  BY <1>1, AnswerEnds
<1>4. /\ MapsOK(n, disk.log, proc')
      /\ n.order = mem.order /\ n.settlement = mem.settlement
      /\ \A q \in Requests : mem.compute[q] \notin Open => n.compute[q] = mem.compute[q]
      /\ \A q \in Requests : n.compute[q] \in {"none", "completed", "cancelled"} =>
                                 n.compute[q] = mem.compute[q]
  <2>1. /\ MapsOK(mem, disk.log, proc) /\ disk.log \subseteq Receipts
        /\ LogOK(disk.log, proc) /\ DOMAIN proc = Procs
    BY <1>1, FreeFacts
  <2> QED
    BY <1>2, <1>3, <2>1, RejectedKeeps
<1> HIDE DEF n
<1>5. SavedOK(n, disk)
  BY <1>1, <1>4, FreeFacts DEF SavedOK
<1>6. Quiet
  BY <1>1 DEF Quiet, RelayInv, TypesOK
<1>7. RelayInv'
  BY <1>1, <1>4, <1>5, <1>6, FreeFacts, FinishKeeps
<1> QED
  BY <1>3, <1>4, <1>7 DEF StepOK, FinalStep, Open

\* A completion that is given up takes its job out of completing.
LEMMA ClearStep ==
    ASSUME RelayInv, NEW w \in Workers, proc[w].at \in {"verify", "append"}, ClearCompleting(w)
    PROVE  StepOK
<1> DEFINE j == proc[w].job
<1>1. /\ mu = None /\ w \in Procs /\ UNCHANGED <<disk, mu, persistMu, held, hive>>
      /\ mem' = [mem EXCEPT !.completing = @ \ {j}] /\ proc' = [proc EXCEPT ![w] = Idle]
  BY CallersAndJobs DEF ClearCompleting, hive
<1> USE FreeFacts
<1>2. /\ mem' \in Memories /\ mem'.jobs = mem.jobs /\ mem'.compute = mem.compute
      /\ mem'.completing = mem.completing \ {j} /\ mem'.receipts = mem.receipts
      /\ mem'.order = mem.order /\ mem'.settlement = mem.settlement
  BY <1>1 DEF Memories
<1>3. proc[w].at \in Checking /\ Idle.at \notin Checking /\ proc'[w] = Idle
  BY <1>1 DEF Checking, Idle
<1>4. LogOK(disk.log, proc')
  BY <1>1, <1>3, LogKept
<1>5. ReceiptsOK(mem', disk.log, proc')
  <2>1. ReceiptsOK(mem, disk.log, proc')
    BY <1>1, ReceiptsKept DEF MapsOK
  <2> QED
    BY <1>2, <2>1 DEF ReceiptsOK
<1>6. LeasesOK(mem', proc')
  <2>1. LeasesOK(mem, proc)
    BY <1>1 DEF MapsOK
  <2>2. ASSUME NEW v \in Workers, proc'[v].at \in Checking
        PROVE  v # w /\ proc'[v] = proc[v] /\ proc[v].job # j
    BY <1>1, <1>3, <2>2, CallersAndJobs DEF LogOK
  <2> QED
    BY <1>2, <2>1, <2>2 DEF LeasesOK
<1>7. Stable' = mem' /\ SavedOK(mem', disk)
  BY <1>1, <1>2 DEF Stable, SavedOK
<1>8. TypesOK' /\ LockOK'
  <2>1. TypesOK'
    BY <1>1, <1>2 DEF RelayInv, TypesOK, hive
  <2> QED
    BY <1>1, <2>1, NoneIsNobody DEF RelayInv, LockOK, Idle
<1>9. MapsOK(mem', disk.log, proc')
  BY <1>1, <1>2, <1>5, <1>6 DEF MapsOK
<1> QED
  BY <1>1, <1>2, <1>4, <1>7, <1>8, <1>9 DEF StepOK, RelayInv, FinalStep

\* A completion goes on, with its receipt written if it comes to "commit".
LEMMA AdvanceStep ==
    ASSUME RelayInv, NEW w \in Workers, NEW step \in {"verify", "append", "commit"},
           proc[w].at \in {"check", "verify", "append"}, At(w, step),
           disk' = IF step = "commit" THEN [disk EXCEPT !.log = @ \cup {<<proc[w].job, w>>}] ELSE disk
    PROVE  StepOK
<1> DEFINE j == proc[w].job
<1>1. /\ proc' = [proc EXCEPT ![w].at = step] /\ UNCHANGED <<mem, mu, persistMu, held, hive>>
      /\ w \in Procs /\ DOMAIN proc = Procs
  BY CallersAndJobs DEF At, hive, RelayInv, TypesOK
<1>2. proc[w] \in Completions /\ proc[w].at \in Checking /\ proc[w].at # "commit" /\ j \in Jobs
  <2>1. proc[w].at \in Checking
    BY DEF Checking
  <2> QED
    BY <1>1, <2>1, CompletionRecord DEF RelayInv, Completions
<1>3. /\ proc'[w] \in Completions /\ proc'[w].at = step /\ proc'[w].job = j
      /\ \A p \in Procs : p # w => proc'[p] = proc[p]
  BY <1>1, <1>2 DEF Completions, Checking
<1>4. /\ disk' \in Files /\ disk'.compute = disk.compute /\ disk'.order = disk.order
      /\ disk'.settlement = disk.settlement
      /\ disk'.log = IF step = "commit" THEN disk.log \cup {<<j, w>>} ELSE disk.log
      /\ disk.log \subseteq Receipts
  BY <1>2 DEF RelayInv, TypesOK, Files, Receipts
<1>5. TypesOK'
  <2>1. proc' \in [Procs -> {Idle} \cup Persisting \cup Completions \cup Settling]
    BY <1>1, <1>3 DEF RelayInv, TypesOK
  <2> QED
    BY <1>1, <1>4, <2>1 DEF RelayInv, TypesOK, hive
<1>6. LockOK' /\ Stable' = Stable
  <2>1. \A p \in Procs : proc'[p].at = "persist" <=> proc[p].at = "persist"
    BY <1>2, <1>3 DEF Checking
  <2>2. mu \in Procs => proc[mu].at = "persist"
    BY DEF RelayInv, LockOK
  <2>3. mu \in Procs => proc'[mu] = proc[mu]
    BY <1>2, <1>3, <2>2 DEF Checking
  <2> QED
    BY <1>1, <2>1, <2>3 DEF RelayInv, LockOK, Stable, TypesOK
<1>7. LogOK(disk'.log, proc')
  <2>0. LogOK(disk.log, proc)
    BY DEF RelayInv
  <2>1. \A r \in disk.log : r[1] # j
    BY <1>2, <2>0 DEF LogOK
  <2>2. \A v \in Workers : v # w /\ proc[v].at \in Checking => proc[v].job # j
    BY <1>2, <2>0 DEF LogOK
  <2>3. \A v \in Workers : proc'[v].job = proc[v].job /\ (proc'[v].at \in Checking <=> proc[v].at \in Checking)
    BY <1>2, <1>3, CallersAndJobs DEF Checking
  <2>4. \A r, s \in disk'.log : r[1] = s[1] => r = s
    BY <1>4, <2>0, <2>1 DEF LogOK
  <2>5. ASSUME NEW v \in Workers, proc'[v].at \in Checking
        PROVE  /\ \A u \in Workers : proc'[u].at \in Checking /\ proc'[u].job = proc'[v].job => u = v
               /\ IF proc'[v].at = "commit" THEN <<proc'[v].job, v>> \in disk'.log
                  ELSE \A r \in disk'.log : r[1] # proc'[v].job
    <3>1. CASE v = w
      BY <1>3, <1>4, <2>1, <2>2, <2>3, <3>1
    <3>2. CASE v # w
      <4>1. proc'[v] = proc[v] /\ proc[v].job # j
        BY <1>3, <2>2, <2>5, <3>2, CallersAndJobs
      <4> QED
        BY <1>4, <2>0, <2>3, <2>5, <4>1 DEF LogOK
    <3> QED
      BY <3>1, <3>2
  <2> QED
    BY <2>4, <2>5 DEF LogOK
<1>8. ASSUME NEW m, MapsOK(m, disk.log, proc) PROVE MapsOK(m, disk'.log, proc')
  <2>1. \A v \in Workers : proc'[v].job = proc[v].job /\ (proc'[v].at \in Checking <=> proc[v].at \in Checking)
    BY <1>2, <1>3, CallersAndJobs DEF Checking
  <2>2. LeasesOK(m, proc')
    BY <1>8, <2>1 DEF MapsOK, LeasesOK
  <2>3. ASSUME NEW r \in disk.log, r \notin m.receipts
        PROVE  proc'[r[2]].at = "commit" /\ proc'[r[2]].job = r[1]
    <3>1. proc[r[2]].at = "commit" /\ proc[r[2]].job = r[1] /\ r[2] \in Procs
      BY <1>4, <1>8, <2>3, CallersAndJobs DEF MapsOK, ReceiptsOK, Receipts
    <3> QED
      BY <1>2, <1>3, <3>1
  <2>4. ReceiptsOK(m, disk'.log, proc')
    BY <1>3, <1>4, <1>8, <2>3 DEF MapsOK, ReceiptsOK
  <2> QED
    BY <1>8, <2>2, <2>4 DEF MapsOK
<1>9. SavedOK(Stable', disk')
  BY <1>4, <1>6 DEF RelayInv, SavedOK
<1>10. MapsOK(mem', disk'.log, proc') /\ MapsOK(Stable', disk'.log, proc')
  BY <1>1, <1>6, <1>8 DEF RelayInv
<1> QED
  BY <1>1, <1>4, <1>5, <1>6, <1>7, <1>9, <1>10 DEF StepOK, RelayInv, FinalStep

\* The steps of handleComplete outside the lock.
LEMMA CompletionStep ==
    ASSUME RelayInv, NEW w \in Workers, CheckLease(w) \/ Verify(w) \/ AppendReceipt(w)
    PROVE  StepOK
<1>1. CASE CheckLease(w)
  BY <1>1, RejectJobStep, AdvanceStep DEF CheckLease
<1>2. CASE Verify(w)
  BY <1>2, RejectJobStep, ClearStep, AdvanceStep DEF Verify
<1>3. CASE AppendReceipt(w)
  BY <1>3, ClearStep, AdvanceStep DEF AppendReceipt
<1> QED
  BY <1>1, <1>2, <1>3

\* The receipt is counted once it is in the log.
LEMMA CommitReceiptStep == ASSUME RelayInv, NEW w \in Workers, CommitReceipt(w) PROVE StepOK
<1> DEFINE j == proc[w].job
           c == Counted(mem, w)
           m == [c EXCEPT !.jobs[j] = None, !.completing = @ \ {j}, !.receipts = @ \cup {<<j, w>>}]
           n == IF j \in Requests THEN [m EXCEPT !.compute[j] = "completed"] ELSE m
<1>1. /\ mu = None /\ w \in Procs /\ UNCHANGED <<disk, persistMu, held, hive>>
      /\ proc[w].at = "commit" /\ CompleteComputeJob(w, m, j)
  BY CallersAndJobs DEF CommitReceipt, hive
<1>2. /\ DOMAIN proc = Procs /\ disk.log \subseteq Receipts
      /\ SavedOK(mem, disk) /\ mem.settlement = disk.settlement
      /\ MapsOK(mem, disk.log, proc) /\ LogOK(disk.log, proc) /\ mem \in Memories
      /\ j \in Jobs /\ proc[w].at \in Checking
  BY <1>1, FreeFacts DEF Checking
<1>3. <<j, w>> \in disk.log /\ (j \in Requests => mem.compute[j] \in {"queued", "leased", "expired"})
  BY <1>1, <1>2 DEF LogOK, MapsOK, LeasesOK
<1>4. /\ c \in Memories /\ c.receipts = mem.receipts /\ c.order = mem.order /\ c.settlement = mem.settlement
      /\ c.jobs = mem.jobs /\ c.compute = mem.compute /\ c.completing = mem.completing
  BY <1>2, CountedKeeps
<1> HIDE DEF c
<1>5. /\ m \in Memories /\ m.receipts = mem.receipts \cup {<<j, w>>} /\ m.order = mem.order
      /\ m.settlement = mem.settlement /\ m.jobs = [mem.jobs EXCEPT ![j] = None]
      /\ m.compute = mem.compute /\ m.completing = mem.completing \ {j}
  <2>1. <<j, w>> \in Receipts
    BY <1>2 DEF Receipts
  <2>2. m \in Memories
    BY <1>2, <1>4, <2>1 DEF Memories
  <2> QED
    BY <1>4, <2>2 DEF Memories
<1> HIDE DEF m
<1>6. /\ n \in Memories /\ n.receipts = m.receipts /\ n.order = m.order /\ n.settlement = m.settlement
      /\ n.jobs = m.jobs /\ n.completing = m.completing
      /\ \A q \in Requests : n.compute[q] = IF q = j THEN "completed" ELSE mem.compute[q]
  BY <1>5 DEF Memories, States
<1>7. Hold(w, n, n, None) \/ Finish(w, n)
  BY <1>1 DEF CompleteComputeJob
<1> HIDE DEF n
<1>8. PICK x : x.at \notin Checking /\ proc' = [proc EXCEPT ![w] = x] /\ mem' = n
  BY <1>7, AnswerEnds
<1>9. QueueOK(n.order, n.compute)
  <2>1. \A q \in Requests : /\ n.compute[q] = "none" <=> mem.compute[q] = "none"
                            /\ n.compute[q] \in Open => mem.compute[q] \in Open
    BY <1>3, <1>6 DEF Open
  <2> QED
    BY <1>2, <1>5, <1>6, <2>1, QueueShrinks DEF MapsOK
<1>10. ReceiptsOK(n, disk.log, proc')
  <2>1. n.receipts = mem.receipts \cup {<<j, w>>}
    BY <1>5, <1>6
  <2>2. ReceiptsOK(n, disk.log, proc)
    BY <1>2, <1>3, <1>6, <2>1 DEF MapsOK, ReceiptsOK
  <2> QED
    BY <1>1, <1>2, <1>8, <2>1, <2>2, ReceiptsKept
<1>11. LeasesOK(n, proc')
  <2>1. LeasesOK(mem, proc)
    BY <1>2 DEF MapsOK
  <2>2. ASSUME NEW v \in Workers, proc'[v].at \in Checking
        PROVE  v # w /\ proc'[v] = proc[v] /\ proc[v].job # j
    <3>1. v # w
      BY <1>1, <1>2, <1>8, <2>2
    <3>2. proc'[v] = proc[v]
      BY <1>1, <1>2, <1>8, <3>1, CallersAndJobs
    <3> QED
      BY <1>2, <2>2, <3>1, <3>2 DEF LogOK
  <2>3. ASSUME NEW q \in Requests, n.jobs[q] # None PROVE n.compute[q] = "leased"
    <3>1. q # j /\ mem.jobs[q] # None
      BY <1>2, <1>5, <1>6, <2>3, CallersAndJobs DEF Memories
    <3> QED
      BY <1>6, <2>1, <3>1 DEF LeasesOK
  <2>4. ASSUME NEW v \in Workers, proc'[v].at \in Checking
        PROVE  /\ proc'[v].job \in Requests => n.compute[proc'[v].job] \in {"queued", "leased", "expired"}
               /\ \/ proc'[v].job \in n.completing
                  \/ proc'[v].job \in Requests /\ n.compute[proc'[v].job] = "expired"
    <3>1. v # w /\ proc'[v] = proc[v] /\ proc[v].job # j
      BY <2>2, <2>4
    <3>2. /\ proc[v].job \in Requests => mem.compute[proc[v].job] \in {"queued", "leased", "expired"}
          /\ \/ proc[v].job \in mem.completing
             \/ proc[v].job \in Requests /\ mem.compute[proc[v].job] = "expired"
      BY <2>1, <2>4, <3>1 DEF LeasesOK
    <3> QED
      BY <1>5, <1>6, <3>1, <3>2
  <2> QED
    BY <2>3, <2>4 DEF LeasesOK
<1>12. MapsOK(n, disk.log, proc')
  BY <1>6, <1>9, <1>10, <1>11 DEF MapsOK
<1>13. SavedOK(n, disk)
  <2>1. \E r \in disk.log : r[1] = j
    BY <1>3
  <2> QED
    BY <1>2, <1>5, <1>6, <2>1 DEF SavedOK
<1>14. RelayInv'
  <2>1. Quiet
    BY <1>1 DEF Quiet, RelayInv, TypesOK
  <2> QED
    BY <1>1, <1>2, <1>5, <1>6, <1>7, <1>12, <1>13, <2>1, HoldKeeps, FinishKeeps
<1> QED
  BY <1>3, <1>6, <1>8, <1>14 DEF StepOK, FinalStep

\* The job file is written, or the maps fall back.
LEMMA PersistStep == ASSUME RelayInv, NEW p \in Procs, PersistComputeJobs(p) PROVE StepOK
<1>1. /\ proc[p].at = "persist" /\ mu = p /\ mu' = None /\ proc' = [proc EXCEPT ![p] = Idle]
      /\ UNCHANGED <<persistMu, hive>> /\ DOMAIN proc = Procs
  BY DEF PersistComputeJobs, RelayInv, LockOK, TypesOK
<1>2. proc[p] \in Persisting /\ Stable = proc[p].back /\ mu # None
  BY <1>1, PersistingRecord, NoneIsNobody DEF RelayInv, Stable
<1>3. ASSUME NEW m, MapsOK(m, disk.log, proc) PROVE MapsOK(m, disk.log, proc')
  <2>1. disk.log \subseteq Receipts /\ Idle.at \notin Checking
    BY DEF RelayInv, TypesOK, Files, Idle, Checking
  <2> QED
    BY <1>1, <1>3, <2>1, MapsAfter
<1>4. LockOK' /\ LogOK(disk.log, proc') /\ Stable' = mem'
  <2>1. LockOK'
    BY <1>1, NoneIsNobody DEF RelayInv, LockOK, Idle
  <2>2. LogOK(disk.log, proc')
    BY <1>1, LogKept DEF RelayInv, Idle, Checking
  <2> QED
    BY <1>1, <2>1, <2>2 DEF Stable
<1>5. FinalStep
  BY <1>2 DEF FinalStep
<1>6. CASE /\ disk' = [disk EXCEPT !.compute = mem.compute, !.order = mem.order]
           /\ held' = IF p \in Workers /\ proc[p].job # None
                      THEN [held EXCEPT ![p] = proc[p].job] ELSE held
           /\ UNCHANGED mem
  <2>1. /\ disk' \in Files /\ disk'.log = disk.log /\ disk'.settlement = disk.settlement
        /\ disk'.compute = mem.compute /\ disk'.order = mem.order
    BY <1>6 DEF RelayInv, TypesOK, Files, Memories
  <2>2. held' \in [Workers -> Jobs \cup {None}]
    BY <1>2, <1>6 DEF RelayInv, TypesOK, Persisting
  <2>3. TypesOK'
    BY <1>1, <1>6, <2>1, <2>2 DEF RelayInv, TypesOK, hive
  <2>4. MapsOK(mem', disk'.log, proc') /\ QueueOK(disk'.order, disk'.compute)
    BY <1>3, <1>6, <2>1 DEF RelayInv, MapsOK
  <2>5. SavedOK(mem', disk')
    BY <1>6, <2>1 DEF SavedOK
  <2> QED
    BY <1>4, <1>5, <1>6, <2>1, <2>3, <2>4, <2>5 DEF StepOK, RelayInv
<1>7. CASE mem' = proc[p].back /\ UNCHANGED <<disk, held>>
  <2>1. TypesOK'
    BY <1>1, <1>2, <1>7 DEF RelayInv, TypesOK, hive, Persisting
  <2>2. MapsOK(mem', disk.log, proc') /\ SavedOK(mem', disk) /\ mem'.settlement = disk.settlement
    BY <1>2, <1>3, <1>7 DEF RelayInv
  <2> QED
    BY <1>4, <1>5, <1>7, <2>1, <2>2 DEF StepOK, RelayInv
<1> QED
  BY <1>6, <1>7 DEF PersistComputeJobs

\* A request is queued behind the others.
LEMMA SubmitStep == ASSUME RelayInv, NEW q \in Requests, SubmitComputeJob(q) PROVE StepOK
<1> DEFINE m == Pruned(mem)
           n == [m EXCEPT !.compute[q] = "queued", !.order = Append(@, q)]
           open(c) == {k \in Requests : c[k] \in Open}
<1>1. /\ mu = None /\ proc["client"] = Idle /\ m.compute[q] = "none"
      /\ Cardinality(open(m.compute)) < MaxQueued /\ Hold("client", n, m, None)
      /\ UNCHANGED <<disk, persistMu, held, hive>> /\ "client" \in Procs
  BY CallersAndJobs DEF SubmitComputeJob, New, hive
<1>2. /\ MapsOK(m, disk.log, proc) /\ SavedOK(m, disk) /\ m.settlement = disk.settlement
      /\ m \in Memories
      /\ \A k \in Requests : mem.compute[k] \notin Open => m.compute[k] = mem.compute[k]
  BY <1>1, PrunedFree
<1> HIDE DEF m
<1>3. /\ n \in Memories /\ n.order = Append(m.order, q) /\ n.settlement = m.settlement
      /\ n.receipts = m.receipts /\ n.completing = m.completing /\ n.jobs = m.jobs
      /\ n.compute = [m.compute EXCEPT ![q] = "queued"]
  <2>1. Append(m.order, q) \in Seq(Requests)
    BY <1>2 DEF Memories
  <2> QED
    BY <1>2, <2>1 DEF Memories, States
<1>4. \A k \in Requests : n.compute[k] = IF k = q THEN "queued" ELSE m.compute[k]
  BY <1>2, <1>3 DEF Memories
<1>5. Hold("client", n, m, None) /\ mem' = n
  BY <1>1 DEF Hold
<1> HIDE DEF n
<1>6. QueueOK(n.order, n.compute)
  <2> DEFINE o == m.order
  <2>0. o \in Seq(Requests) /\ QueueOK(o, m.compute)
    BY <1>2 DEF Memories, MapsOK
  <2>1. DOMAIN o = 1 .. Len(o) /\ Len(o) \in Nat
    BY <2>0
  <2>2. /\ DOMAIN n.order = 1 .. Len(o) + 1 /\ n.order[Len(o) + 1] = q
        /\ \A i \in DOMAIN o : n.order[i] = o[i]
    BY <1>3, <2>0
  <2>3. \A i \in DOMAIN o : o[i] # q
    <3>1. Range(o) = {k \in Requests : m.compute[k] # "none"}
      BY <2>0 DEF QueueOK
    <3> QED
      BY <1>1, <3>1 DEF Range
  <2>4. IsInjective(n.order)
    <3>1. IsInjective(o)
      BY <2>0 DEF QueueOK
    <3> HIDE DEF o
    <3> QED BY <2>1, <2>2, <2>3, <3>1 DEF IsInjective
  <2>5. Range(n.order) = {k \in Requests : n.compute[k] # "none"}
    <3>1. Range(o) = {k \in Requests : m.compute[k] # "none"}
      BY <2>0 DEF QueueOK
    <3>2. DOMAIN n.order = DOMAIN o \cup {Len(o) + 1}
      BY <2>1, <2>2
    <3>3. Range(n.order) = Range(o) \cup {q}
      <4> HIDE DEF o
      <4> QED BY <2>2, <3>2 DEF Range
    <3>4. {k \in Requests : n.compute[k] # "none"} = {k \in Requests : m.compute[k] # "none"} \cup {q}
      BY <1>4
    <3> QED
      BY <3>1, <3>3, <3>4
  <2>6. Cardinality(open(n.compute)) <= MaxQueued
    <3>1. open(n.compute) = open(m.compute) \cup {q} /\ q \notin open(m.compute)
      BY <1>1, <1>4 DEF Open
    <3>2. IsFiniteSet(open(m.compute))
      BY PoolAssumption, FS_Subset DEF PoolAssumption
    <3>3. Cardinality(open(n.compute)) = Cardinality(open(m.compute)) + 1
         /\ Cardinality(open(m.compute)) \in Nat
      <4> HIDE DEF open
      <4> QED BY <3>1, <3>2, FS_AddElement, FS_CardinalityType
    <3> HIDE DEF open
    <3> QED BY <1>1, <3>3, PoolAssumption DEF PoolAssumption
  <2> QED
    BY <2>4, <2>5, <2>6 DEF QueueOK
<1>7. ReceiptsOK(n, disk.log, proc) /\ LeasesOK(n, proc)
  <2>1. ReceiptsOK(m, disk.log, proc) /\ LeasesOK(m, proc)
    BY <1>2 DEF MapsOK
  <2>2. ReceiptsOK(n, disk.log, proc)
    BY <1>1, <1>3, <1>4, <2>1 DEF ReceiptsOK
  <2>3. \A v \in Workers : proc[v].at \in Checking => proc[v].job # q
    BY <1>1, <2>1 DEF LeasesOK
  <2>4. \A k \in Requests : n.jobs[k] # None => n.compute[k] = "leased"
    BY <1>1, <1>3, <1>4, <2>1 DEF LeasesOK
  <2> QED
    BY <1>3, <1>4, <2>1, <2>2, <2>3, <2>4 DEF LeasesOK
<1>8. MapsOK(n, disk.log, proc') /\ MapsOK(m, disk.log, proc')
  <2>1. PICK x : x.at \notin Checking /\ proc' = [proc EXCEPT !["client"] = x]
    BY <1>5, AnswerEnds
  <2>2. MapsOK(n, disk.log, proc)
    BY <1>3, <1>6, <1>7 DEF MapsOK
  <2>3. proc["client"].at # "commit" /\ DOMAIN proc = Procs /\ disk.log \subseteq Receipts
    BY <1>1, FreeFacts DEF Idle
  <2> QED
    BY <1>1, <1>2, <2>1, <2>2, <2>3, MapsAfter
<1>9. RelayInv'
  <2>1. Quiet
    BY <1>1 DEF Quiet, RelayInv, TypesOK
  <2> QED
    BY <1>1, <1>2, <1>3, <1>5, <1>8, <2>1, HoldKeeps
<1> QED
  BY <1>1, <1>2, <1>4, <1>5, <1>9 DEF StepOK, FinalStep, Open

\* A job is cancelled only while no completion has it.
LEMMA CancelStep == ASSUME RelayInv, NEW q \in Requests, CancelComputeJob(q) PROVE StepOK
<1> DEFINE n == [mem EXCEPT !.jobs[q] = None, !.completing = @ \ {q}, !.compute[q] = "cancelled"]
<1>1. /\ mu = None /\ proc["client"] = Idle /\ mem.compute[q] \in Open /\ q \notin mem.completing
      /\ Hold("client", n, mem, None)
      /\ UNCHANGED <<disk, persistMu, held, hive>> /\ "client" \in Procs
  BY CallersAndJobs DEF CancelComputeJob, Cancellable, hive
<1>2. /\ DOMAIN proc = Procs /\ disk.log \subseteq Receipts
      /\ SavedOK(mem, disk) /\ mem.settlement = disk.settlement
      /\ MapsOK(mem, disk.log, proc) /\ mem \in Memories /\ q \in Jobs
  BY <1>1, FreeFacts, CallersAndJobs
<1>3. /\ n \in Memories /\ n.order = mem.order /\ n.settlement = mem.settlement
      /\ n.receipts = mem.receipts /\ n.completing = mem.completing \ {q}
      /\ n.jobs = [mem.jobs EXCEPT ![q] = None] /\ n.compute = [mem.compute EXCEPT ![q] = "cancelled"]
  <2>1. n \in Memories
    BY <1>2 DEF Memories, States
  <2> QED
    BY <1>2, <2>1 DEF Memories
<1>4. \A k \in Requests : /\ n.compute[k] = IF k = q THEN "cancelled" ELSE mem.compute[k]
                          /\ n.jobs[k] = IF k = q THEN None ELSE mem.jobs[k]
  BY <1>2, <1>3, CallersAndJobs DEF Memories
<1>5. Hold("client", n, mem, None) /\ mem' = n
  BY <1>1 DEF Hold
<1> HIDE DEF n
<1>6. QueueOK(n.order, n.compute)
  <2>1. \A k \in Requests : /\ n.compute[k] = "none" <=> mem.compute[k] = "none"
                            /\ n.compute[k] \in Open => mem.compute[k] \in Open
    BY <1>1, <1>4 DEF Open
  <2> QED
    BY <1>2, <1>3, <2>1, QueueShrinks DEF MapsOK
<1>7. ReceiptsOK(n, disk.log, proc) /\ LeasesOK(n, proc)
  <2>1. ReceiptsOK(mem, disk.log, proc) /\ LeasesOK(mem, proc)
    BY <1>2 DEF MapsOK
  <2>2. ReceiptsOK(n, disk.log, proc)
    BY <1>1, <1>3, <1>4, <2>1 DEF ReceiptsOK, Open
  <2>3. \A v \in Workers : proc[v].at \in Checking => proc[v].job # q
    BY <1>1, <2>1 DEF LeasesOK, Open
  <2> QED
    BY <1>3, <1>4, <2>1, <2>2, <2>3 DEF LeasesOK
<1>8. MapsOK(n, disk.log, proc') /\ MapsOK(mem, disk.log, proc')
  <2>1. PICK x : x.at \notin Checking /\ proc' = [proc EXCEPT !["client"] = x]
    BY <1>5, AnswerEnds
  <2>2. MapsOK(n, disk.log, proc)
    BY <1>3, <1>6, <1>7 DEF MapsOK
  <2>3. proc["client"].at # "commit"
    BY <1>1 DEF Idle
  <2> QED
    BY <1>1, <1>2, <2>1, <2>2, <2>3, MapsAfter
<1>9. RelayInv'
  <2>1. Quiet
    BY <1>1 DEF Quiet, RelayInv, TypesOK
  <2> QED
    BY <1>1, <1>2, <1>3, <1>5, <1>8, <2>1, HoldKeeps
<1> QED
  BY <1>1, <1>4, <1>5, <1>9 DEF StepOK, FinalStep, Open

\* Reading the status.
LEMMA PollStep == ASSUME RelayInv, Poll PROVE StepOK
<1> DEFINE m == Pruned(mem)
<1>1. /\ mu = None /\ proc["client"] = Idle /\ Finish("client", m)
      /\ UNCHANGED <<disk, persistMu, held, hive>> /\ "client" \in Procs
  BY CallersAndJobs DEF Poll, hive
<1>2. /\ MapsOK(m, disk.log, proc) /\ SavedOK(m, disk) /\ m.settlement = disk.settlement
      /\ \A q \in Requests : mem.compute[q] \notin Open => m.compute[q] = mem.compute[q]
  BY <1>1, PrunedFree
<1> HIDE DEF m
<1>3. PICK x : x.at \notin Checking /\ proc' = [proc EXCEPT !["client"] = x] /\ mem' = m
  BY <1>1, AnswerEnds
<1>4. MapsOK(m, disk.log, proc')
  <2>1. proc["client"].at # "commit" /\ DOMAIN proc = Procs /\ disk.log \subseteq Receipts
    BY <1>1, FreeFacts DEF Idle
  <2> QED
    BY <1>1, <1>2, <1>3, <2>1, MapsAfter
<1>5. RelayInv'
  <2>1. Quiet
    BY <1>1 DEF Quiet, RelayInv, TypesOK
  <2> QED
    BY <1>1, <1>2, <1>4, <2>1, FinishKeeps
<1> QED
  BY <1>2, <1>3, <1>5 DEF StepOK, FinalStep, Open

----------------------------------------------------------------------------
(* Settlement.                                                             *)

\* What the handlers make of the settlement state: they change nothing of the
\* proofs, or issue a proof of unconsumed receipts when none is pending, or
\* consume the pending proof.
LEMMA OutcomeFacts ==
    ASSUME mem.receipts \subseteq Receipts, NEW s \in Settlements, NEW c \in SettleCalls,
           NEW o \in Outcomes(c, s)
    PROVE  /\ o.state \in Settlements /\ o.proof \subseteq Receipts
           /\ \/ /\ o.state.pending = s.pending /\ o.state.consumed = s.consumed
                 /\ o.proof \in {{}, s.pending}
              \/ /\ s.pending = {} /\ o.state.pending = o.proof /\ o.state.consumed = s.consumed
                 /\ o.proof \cap s.consumed = {}
              \/ /\ o.state.pending = {} /\ o.state.consumed = s.consumed \cup s.pending
                 /\ o.proof = {}
<1>1. CASE c.op = "bind"
  <2>1. o = [state |-> [s EXCEPT !.bound = TRUE], proof |-> {}]
    BY <1>1 DEF Outcomes
  <2> QED
    BY <2>1 DEF Settlements
<1>2. CASE c.op = "latest"
  <2>1. CASE s.pending # {}
    <3>1. o = [state |-> s, proof |-> s.pending]
      BY <1>2, <2>1 DEF Outcomes
    <3> QED
      BY <3>1 DEF Settlements
  <2>2. CASE s.pending = {}
    <3>1. PICK b \in Batches(s) : o = [state |-> [s EXCEPT !.pending = b], proof |-> b]
      BY <1>2, <2>2 DEF Outcomes
    <3>2. b \subseteq mem.receipts \ s.consumed
      BY <2>2 DEF Batches
    <3>3. b \subseteq Receipts /\ b \cap s.consumed = {}
      BY <3>2
    <3> QED
      BY <2>2, <3>1, <3>3 DEF Settlements
  <2> QED
    BY <2>1, <2>2
<1>3. CASE c.op = "ack"
  <2>1. /\ s.pending = c.proof
        /\ o = [state |-> [s EXCEPT !.pending = {}, !.consumed = s.consumed \cup c.proof], proof |-> {}]
    BY <1>3 DEF Outcomes, SettleCalls
  <2> QED
    BY <2>1 DEF Settlements
<1> QED
  BY <1>1, <1>2, <1>3 DEF SettleCalls

\* Every proof received is consumed or pending, and they are disjoint.
ProofsOK(s, received) ==
    /\ s.pending \cap s.consumed = {}
    /\ \A p \in received : p \subseteq s.consumed \/ p = s.pending
    /\ \A p, q \in received : p # q => p \cap q = {}

\* The proofs stay disjoint whatever the handlers answer.
LEMMA OutcomeKeeps ==
    ASSUME mem.receipts \subseteq Receipts, NEW s \in Settlements, NEW c \in SettleCalls,
           NEW o \in Outcomes(c, s), ProofsOK(s, got)
    PROVE  /\ ProofsOK(o.state, got)
           /\ ProofsOK(o.state, IF o.proof = {} THEN got ELSE got \cup {o.proof})
<1>1. CASE /\ o.state.pending = s.pending /\ o.state.consumed = s.consumed
           /\ o.proof \in {{}, s.pending}
  BY <1>1 DEF ProofsOK
<1>2. CASE /\ s.pending = {} /\ o.state.pending = o.proof /\ o.state.consumed = s.consumed
           /\ o.proof \cap s.consumed = {}
  BY <1>2 DEF ProofsOK
<1>3. CASE /\ o.state.pending = {} /\ o.state.consumed = s.consumed \cup s.pending
           /\ o.proof = {}
  BY <1>3 DEF ProofsOK
<1> QED
  BY <1>1, <1>2, <1>3, OutcomeFacts

\* The Hive asks.
LEMMA HiveCallStep == ASSUME RelayInv, HiveCall PROVE StepOK
<1>1. PICK c \in Calls : proc' = [proc EXCEPT !["hive"] = [at |-> "settle", call |-> c]]
  BY DEF HiveCall
<1> DEFINE x == [at |-> "settle", call |-> c]
<1>2. /\ proc["hive"].at = "idle" /\ persistMu' = "hive" /\ "hive" \in Procs
      /\ UNCHANGED <<mem, disk, mu, held, hive>> /\ DOMAIN proc = Procs
  BY CallersAndJobs DEF HiveCall, Idle, hive, RelayInv, TypesOK
<1>3. x \in Settling /\ x.at = "settle"
  BY DEF Calls, SettleCalls, Settling, RelayInv, TypesOK
<1>4. x.at \notin Checking
  BY DEF Checking
<1> HIDE DEF x
<1>5. proc' = [proc EXCEPT !["hive"] = x] /\ \A p \in Procs : p # "hive" => proc'[p] = proc[p]
  BY <1>1, <1>2 DEF x
<1>6. TypesOK'
  <2>1. proc' \in [Procs -> {Idle} \cup Persisting \cup Completions \cup Settling]
    BY <1>3, <1>5 DEF RelayInv, TypesOK
  <2> QED
    BY <1>2, <2>1 DEF RelayInv, TypesOK, hive
<1>7. LockOK' /\ Stable' = Stable
  <2>1. mu # "hive"
    BY <1>2 DEF RelayInv, LockOK
  <2> QED
    BY <1>2, <1>3, <1>5, <2>1 DEF RelayInv, LockOK, Stable, TypesOK
<1>8. LogOK(disk.log, proc')
  BY <1>2, <1>4, <1>5, LogKept DEF RelayInv
<1>9. MapsOK(mem, disk.log, proc') /\ MapsOK(Stable, disk.log, proc')
  <2>1. disk.log \subseteq Receipts /\ proc["hive"].at # "commit"
    BY <1>2 DEF RelayInv, TypesOK, Files
  <2> QED
    BY <1>2, <1>4, <1>5, <2>1, MapsAfter DEF RelayInv
<1> QED
  BY <1>2, <1>6, <1>7, <1>8, <1>9 DEF StepOK, RelayInv, FinalStep

\* The Hive is answered.
LEMMA HiveAnswerStep == ASSUME RelayInv, HiveAnswer PROVE StepOK
<1>1. /\ proc["hive"].at = "settle" /\ mu = None /\ mu' = None /\ persistMu' = None /\ "hive" \in Procs
      /\ proc' = [proc EXCEPT !["hive"] = Idle] /\ UNCHANGED <<held, committed>> /\ DOMAIN proc = Procs
  BY CallersAndJobs DEF HiveAnswer, RelayInv, TypesOK
<1>2. proc["hive"] \in Settling
  BY <1>1, SettlingRecord DEF RelayInv
<1> DEFINE c == proc["hive"].call
<1>3. c \in SettleCalls /\ mem.settlement \in Settlements /\ mem.receipts \subseteq Receipts
  BY <1>2 DEF Settling, RelayInv, TypesOK, Memories
<1>4. LogOK(disk.log, proc') /\ MapsOK(mem, disk.log, proc')
  <2>1. Idle.at \notin Checking /\ disk.log \subseteq Receipts /\ proc["hive"].at # "commit"
    BY <1>1 DEF Idle, Checking, RelayInv, TypesOK, Files
  <2> QED
    BY <1>1, <2>1, LogKept, MapsAfter DEF RelayInv
<1>5. LockOK' /\ Stable' = mem' /\ SavedOK(mem, disk)
  <2>1. LockOK'
    BY <1>1, NoneIsNobody DEF RelayInv, LockOK, Idle
  <2> QED
    BY <1>1, <2>1, FreeFacts DEF Stable
<1>6. CASE UNCHANGED <<mem, disk, got>>
  <2>1. TypesOK'
    BY <1>1, <1>6 DEF RelayInv, TypesOK
  <2> QED
    BY <1>4, <1>5, <1>6, <2>1 DEF StepOK, RelayInv, FinalStep
<1>7. ASSUME NEW o \in Outcomes(c, mem.settlement),
             mem' = [mem EXCEPT !.settlement = o.state],
             disk' = [disk EXCEPT !.settlement = Saved(o.state, @)],
             got' = IF o.proof = {} THEN got ELSE got \cup {o.proof}
      PROVE  StepOK
  <2>1. o.state \in Settlements /\ o.proof \subseteq Receipts
    BY <1>3, OutcomeFacts
  <2>2. /\ mem' \in Memories /\ mem'.settlement = o.state /\ mem'.workers = mem.workers
        /\ mem'.jobs = mem.jobs /\ mem'.completing = mem.completing /\ mem'.receipts = mem.receipts
        /\ mem'.compute = mem.compute /\ mem'.order = mem.order
    BY <1>7, <2>1 DEF RelayInv, TypesOK, Memories
  <2>3. /\ disk' \in Files /\ disk'.settlement = o.state /\ disk'.log = disk.log
        /\ disk'.compute = disk.compute /\ disk'.order = disk.order
    BY <1>7, <2>1 DEF RelayInv, TypesOK, Files, Saved
  <2>4. TypesOK'
    BY <1>1, <1>7, <2>1, <2>2, <2>3 DEF RelayInv, TypesOK
  <2>5. MapsOK(mem', disk'.log, proc') /\ SavedOK(mem', disk')
    BY <1>4, <1>5, <2>2, <2>3 DEF MapsOK, ReceiptsOK, LeasesOK, SavedOK
  <2> QED
    BY <1>4, <1>5, <2>2, <2>3, <2>4, <2>5 DEF StepOK, RelayInv, FinalStep
<1> QED
  BY <1>6, <1>7 DEF HiveAnswer

----------------------------------------------------------------------------
(* Time, the chain and crashes.                                            *)

\* Steps that touch neither the relay nor its callers.
LEMMA OutsideStep ==
    ASSUME RelayInv, \/ ChainCommit \/ LeaseLapses \/ UNCHANGED vars
                     \/ \E q \in Requests : DeadlinePasses(q)
    PROVE  StepOK
<1>1. UNCHANGED <<mem, disk, mu, persistMu, proc, held, got>> /\ committed' \subseteq SUBSET Receipts
  BY DEF ChainCommit, LeaseLapses, DeadlinePasses, vars, clock, hive, RelayInv, TypesOK
<1>2. TypesOK' /\ LockOK' /\ Stable' = Stable
  BY <1>1 DEF RelayInv, TypesOK, LockOK, Stable
<1> QED
  BY <1>1, <1>2 DEF StepOK, RelayInv, FinalStep

\* A relay that starts again knows every receipt of the log and, from the
\* file, every finished job.
LEMMA RestartStep == ASSUME RelayInv, Restart PROVE StepOK
<1> DEFINE compute == [q \in Requests |-> Reloaded(q)]
           m == [workers |-> [w \in Workers |-> "gone"], jobs |-> [j \in Jobs |-> None], completing |-> {},
                 receipts |-> disk.log, compute |-> compute, order |-> disk.order,
                 settlement |-> disk.settlement]
           n == Pruned(m)
           idle == [p \in Procs |-> Idle]
<1>1. /\ mem' = n /\ disk' = [disk EXCEPT !.compute = n.compute] /\ mu' = None /\ persistMu' = None
      /\ proc' = idle /\ UNCHANGED <<held, hive>>
  BY DEF Restart, hive
<1>2. disk \in Files /\ QueueOK(disk.order, disk.compute) /\ disk.log \subseteq Receipts
  BY DEF RelayInv, TypesOK, Files
<1>3. ASSUME NEW r \in disk.log, r[1] \in Requests PROVE disk.compute[r[1]] # "none"
  <2>1. MapsOK(Stable, disk.log, proc) /\ SavedOK(Stable, disk)
    BY DEF RelayInv
  <2>2. r[2] \in Workers
    BY <1>2 DEF Receipts
  <2>3. Stable.compute[r[1]] # "none"
    BY <1>3, <2>1, <2>2 DEF MapsOK, ReceiptsOK, LeasesOK, Checking
  <2>4. {q \in Requests : Stable.compute[q] # "none"} = {q \in Requests : disk.compute[q] # "none"}
    BY <1>2, <2>1 DEF MapsOK, QueueOK, SavedOK
  <2> QED
    BY <1>3, <2>3, <2>4
<1>4. ASSUME NEW q \in Requests
      PROVE  /\ compute[q] \in States
             /\ compute[q] = "none" <=> disk.compute[q] = "none"
             /\ compute[q] \in Open => disk.compute[q] \in Open
             /\ (\E r \in disk.log : r[1] = q) => compute[q] = "completed"
             /\ compute[q] = "leased" => FALSE
             /\ disk.compute[q] = "completed" => compute[q] = "completed"
             /\ disk.compute[q] = "cancelled" /\ (~\E r \in disk.log : r[1] = q) => compute[q] = "cancelled"
  BY <1>2, <1>3 DEF Reloaded, Files, States, Open
<1>5. m \in Memories
  <2>1. compute \in [Requests -> States]
    BY <1>4
  <2> HIDE DEF compute
  <2> QED
    BY <1>2, <2>1 DEF Memories, Files
<1>6. /\ m.jobs = [j \in Jobs |-> None] /\ m.receipts = disk.log /\ m.compute = compute
      /\ m.order = disk.order /\ m.settlement = disk.settlement
  OBVIOUS
<1> HIDE DEF m, compute
<1>7. MapsOK(m, disk.log, idle)
  <2>1. QueueOK(m.order, m.compute)
    BY <1>2, <1>4, <1>6, QueueShrinks
  <2>2. ReceiptsOK(m, disk.log, idle)
    BY <1>4, <1>6 DEF ReceiptsOK
  <2>3. LeasesOK(m, idle)
    BY <1>6, CallersAndJobs DEF LeasesOK, Idle, Checking
  <2> QED
    BY <1>5, <2>1, <2>2, <2>3 DEF MapsOK
<1>8. /\ MapsOK(n, disk.log, idle) /\ n.order = m.order /\ n.settlement = m.settlement
      /\ \A q \in Requests : m.compute[q] \notin Open => n.compute[q] = m.compute[q]
  BY <1>2, <1>7, PrunedKeeps, CallersAndJobs DEF Idle, Checking
<1>9. n \in Memories /\ QueueOK(n.order, n.compute)
  BY <1>8 DEF MapsOK
<1> HIDE DEF n
<1>10. /\ disk' \in Files /\ disk'.log = disk.log /\ disk'.order = disk.order
       /\ disk'.settlement = disk.settlement /\ disk'.compute = n.compute
  BY <1>1, <1>2, <1>9 DEF Files, Memories
<1>11. TypesOK' /\ LockOK' /\ Stable' = mem'
  <2>1. TypesOK'
    BY <1>1, <1>9, <1>10 DEF RelayInv, TypesOK, hive
  <2> QED
    BY <1>1, <2>1, NoneIsNobody DEF LockOK, Stable, Idle
<1>12. LogOK(disk'.log, proc')
  BY <1>1, <1>10, CallersAndJobs DEF RelayInv, LogOK, Idle, Checking
<1>13. SavedOK(mem', disk')
  BY <1>1, <1>6, <1>8, <1>10 DEF SavedOK
<1>14. RelayInv'
  BY <1>1, <1>6, <1>8, <1>9, <1>10, <1>11, <1>12, <1>13 DEF RelayInv
<1>15. FinalStep
  <2> SUFFICES ASSUME NEW q \in Requests, mem.compute[q] \in {"completed", "cancelled"}, mu = None
               PROVE  mem'.compute[q] = mem.compute[q]
    BY DEF FinalStep
  <2>1. SavedOK(mem, disk) /\ MapsOK(mem, disk.log, proc)
    BY FreeFacts
  <2>2. CASE mem.compute[q] = "completed"
    <3>1. compute[q] = "completed"
      BY <1>4, <2>1, <2>2 DEF SavedOK
    <3> QED
      BY <1>1, <1>6, <1>8, <2>2, <3>1 DEF Open
  <2>3. CASE mem.compute[q] = "cancelled"
    <3>1. ASSUME NEW r \in disk.log, r[1] = q PROVE FALSE
      <4>1. r[2] \in Workers
        BY <1>2 DEF Receipts
      <4> QED
        BY <2>1, <2>3, <3>1, <4>1 DEF MapsOK, ReceiptsOK, LeasesOK, Checking
    <3>2. compute[q] = "cancelled"
      BY <1>4, <2>1, <2>3, <3>1 DEF SavedOK
    <3> QED
      BY <1>1, <1>6, <1>8, <2>3, <3>2 DEF Open
  <2> QED
    BY <2>2, <2>3
<1> QED
  BY <1>14, <1>15 DEF StepOK

----------------------------------------------------------------------------
(* The theorems.                                                           *)

\* A relay without files.
LEMMA InitRelay == Init => RelayInv /\ ProofsOK(disk.settlement, got)
<1> SUFFICES ASSUME Init PROVE RelayInv /\ ProofsOK(disk.settlement, got)
  OBVIOUS
<1>1. /\ mem = [workers |-> [w \in Workers |-> "gone"], jobs |-> [j \in Jobs |-> None], completing |-> {},
                receipts |-> {}, compute |-> [q \in Requests |-> "none"], order |-> <<>>,
                settlement |-> NoSettlement]
      /\ disk = [log |-> {}, compute |-> mem.compute, order |-> <<>>, settlement |-> NoSettlement]
      /\ mu = None /\ persistMu = None /\ proc = [p \in Procs |-> Idle]
      /\ held = [w \in Workers |-> None] /\ got = {} /\ committed = {}
  BY DEF Init
<1>2. NoSettlement \in Settlements /\ ProofsOK(NoSettlement, {})
  BY DEF NoSettlement, Settlements, ProofsOK
<1>3. mem \in Memories /\ disk \in Files
  BY <1>1, <1>2 DEF Memories, Files, States
<1>4. TypesOK /\ LockOK /\ Stable = mem
  <2>1. TypesOK
    BY <1>1, <1>3 DEF TypesOK
  <2> QED
    BY <1>1, <2>1, NoneIsNobody DEF LockOK, Stable, Idle
<1>5. QueueOK(<<>>, [q \in Requests |-> "none"])
  <2>1. {q \in Requests : [k \in Requests |-> "none"][q] \in Open} = {}
    BY DEF Open
  <2>2. Cardinality({}) = 0
    BY FS_EmptySet
  <2> QED
    BY <2>1, <2>2, PoolAssumption DEF QueueOK, IsInjective, Range, PoolAssumption
<1>6. MapsOK(mem, disk.log, proc)
  <2>1. ReceiptsOK(mem, disk.log, proc)
    BY <1>1 DEF ReceiptsOK
  <2>2. LeasesOK(mem, proc)
    BY <1>1, CallersAndJobs DEF LeasesOK, Idle, Checking
  <2> QED
    BY <1>1, <1>3, <1>5, <2>1, <2>2 DEF MapsOK
<1>7. LogOK(disk.log, proc) /\ SavedOK(mem, disk)
  BY <1>1, CallersAndJobs DEF LogOK, SavedOK, Idle, Checking
<1> QED
  BY <1>1, <1>2, <1>4, <1>5, <1>6, <1>7 DEF RelayInv

\* Every step keeps the invariant and the finished jobs.
LEMMA RelayStep == ASSUME RelayInv, [Next]_vars PROVE StepOK
  BY RegisterStep, LeaseStep, BeginCompleteStep, CompletionStep, CommitReceiptStep,
     PersistStep, SubmitStep, CancelStep, PollStep, HiveCallStep, HiveAnswerStep,
     OutsideStep, RestartStep DEF Next

\* Only the answer to the Hive touches the proofs.
LEMMA ProofsStep ==
    ASSUME RelayInv, ProofsOK(disk.settlement, got), [Next]_vars
    PROVE  ProofsOK(disk'.settlement, got')
<1>1. CASE HiveAnswer
  <2>1. proc["hive"] \in Settling /\ mem.settlement = disk.settlement /\ mem.settlement \in Settlements
        /\ mem.receipts \subseteq Receipts /\ disk \in Files
    BY <1>1, SettlingRecord, CallersAndJobs DEF HiveAnswer, RelayInv, TypesOK, Memories
  <2> DEFINE c == proc["hive"].call
  <2>2. c \in SettleCalls
    BY <2>1 DEF Settling
  <2>3. CASE UNCHANGED <<disk, got>>
    BY <2>3
  <2>4. ASSUME NEW o \in Outcomes(c, mem.settlement),
               disk' = [disk EXCEPT !.settlement = Saved(o.state, @)],
               got' = IF o.proof = {} THEN got ELSE got \cup {o.proof}
        PROVE  ProofsOK(disk'.settlement, got')
    <3>1. disk'.settlement = o.state
      BY <2>1, <2>4 DEF Files, Saved
    <3> QED
      BY <2>1, <2>2, <2>4, <3>1, OutcomeKeeps
  <2> QED
    BY <1>1, <2>3, <2>4 DEF HiveAnswer
<1>2. CASE [Next]_vars /\ ~HiveAnswer
  <2>1. got' = got
    BY <1>2 DEF Next, vars, clock, hive, Register, Lease, BeginComplete, CheckLease, Verify, AppendReceipt,
       CommitReceipt, RejectJob, ClearCompleting, At, PersistComputeJobs, SubmitComputeJob,
       CancelComputeJob, DeadlinePasses, Poll, HiveCall, ChainCommit, LeaseLapses, Restart
  <2>2. disk \in Files
    BY DEF RelayInv, TypesOK
  <2>3. \/ disk' = disk \/ \E log : disk' = [disk EXCEPT !.log = log]
        \/ \E c : disk' = [disk EXCEPT !.compute = c]
        \/ \E c, o : disk' = [disk EXCEPT !.compute = c, !.order = o]
    BY <1>2 DEF Next, vars, Register, Lease, BeginComplete, CheckLease, Verify, AppendReceipt,
       CommitReceipt, RejectJob, ClearCompleting, PersistComputeJobs, SubmitComputeJob,
       CancelComputeJob, DeadlinePasses, Poll, HiveCall, ChainCommit, LeaseLapses, Restart
  <2>4. disk'.settlement = disk.settlement
    BY <2>2, <2>3 DEF Files
  <2> QED
    BY <2>1, <2>4
<1> QED
  BY <1>1, <1>2

\* RelayInv is an invariant, and so is the account of the proofs.
THEOREM RelayCorrect == Spec => [](RelayInv /\ ProofsOK(disk.settlement, got))
<1> DEFINE Inv == RelayInv /\ ProofsOK(disk.settlement, got)
<1>1. Init => Inv
  BY InitRelay
<1>2. Inv /\ [Next]_vars => Inv'
  BY RelayStep, ProofsStep DEF StepOK
<1> QED
  BY <1>1, <1>2, PTL DEF Spec

\* What the relay counts is in the log, and its maps, queue and files have
\* their types (handleComplete, enqueueComputeJob, loadComputeJobs).
THEOREM LogCorrect == Spec => []LogInv
<1>1. RelayInv => LogInv
  <2> SUFFICES ASSUME RelayInv PROVE LogInv
    OBVIOUS
  <2>1. /\ mem \in Memories /\ disk \in Files /\ MapsOK(mem, disk.log, proc)
        /\ mu \in Procs \cup {None} /\ persistMu \in {None, "hive"}
    BY DEF RelayInv, TypesOK
  <2>2. \A p \in Procs : proc[p].at \in Steps
    <3> SUFFICES ASSUME NEW p \in Procs PROVE proc[p].at \in Steps
      OBVIOUS
    <3>1. proc[p] \in {Idle} \cup Persisting \cup Completions \cup Settling
      BY DEF RelayInv, TypesOK
    <3> QED
      BY <3>1 DEF Idle, Persisting, Completions, Settling, Checking, Steps
  <2>3. TypeOK
    BY <2>1, <2>2 DEF TypeOK, Memories, Files, MapsOK, QueueOK
  <2> QED
    BY <2>1, <2>3 DEF LogInv, CountedIsLogged, MapsOK, ReceiptsOK
<1> QED
  BY <1>1, RelayCorrect, PTL

\* The log holds one receipt for a job, for any number of agents, leases that
\* lapse and come again, failed writes and crashes (handleComplete).
THEOREM ReceiptCorrect == Spec => []OneReceiptPerJob
<1>1. RelayInv => OneReceiptPerJob
  BY DEF RelayInv, LogOK, OneReceiptPerJob
<1> QED
  BY <1>1, RelayCorrect, PTL

\* No receipt is in two proofs that the Hive received, for batches of any
\* size (LatestSettlementProof, AcknowledgeSettlementProof).
THEOREM ProofsCorrect == Spec => []ProofsDisjoint
<1>1. ProofsOK(disk.settlement, got) => ProofsDisjoint
  BY DEF ProofsOK, ProofsDisjoint
<1> QED
  BY <1>1, RelayCorrect, PTL

\* A completed or cancelled job stays so, restarts included.
THEOREM FinalCorrect == Spec => FinalStays
<1>1. RelayInv /\ [Next]_vars => FinalStep
  BY RelayStep DEF StepOK
<1>2. RelayInv /\ [Next]_vars =>
        [\A q \in Requests : mem.compute[q] \in {"completed", "cancelled"} /\ mu = None
                                 => mem'.compute[q] = mem.compute[q]]_vars
  BY <1>1 DEF FinalStep
<1> QED
  BY <1>2, RelayCorrect, PTL DEF Spec, FinalStays
=============================================================================

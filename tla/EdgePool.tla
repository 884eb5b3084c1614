------------------------------ MODULE EdgePool ------------------------------
(***************************************************************************)
(* The edge relay of pkg/edgepool (coordinator.go, compute_gateway.go,     *)
(* settlement.go) with the agents, the application client and the Mother   *)
(* Hive that call it.  Agents lease jobs, compute and complete them; the   *)
(* relay verifies a result outside its lock, writes a receipt to the       *)
(* receipt log and only then updates its maps.  Application jobs are kept  *)
(* in a file of their own.  The Hive fetches signed batches of receipts,   *)
(* settles them on the chain and acknowledges them.                        *)
(*                                                                         *)
(* Handlers run concurrently; a step is what a handler does between two    *)
(* points where it waits.  Two locks are explicit: mu guards the maps and  *)
(* is kept while the job file is written, which takes persistMu; the       *)
(* settlement handlers take persistMu first and then mu.  There is one     *)
(* kind of resource; budgets, signatures and request authentication are    *)
(* left out, and so is the trimming of the job history after 1024 jobs.    *)
(***************************************************************************)
EXTENDS Integers, Sequences, SequencesExt, FiniteSets

CONSTANTS
    Workers,           \* agents
    Requests,          \* client_request_ids; a request's job has the same name
    PlainJobs,         \* jobs the relay makes up when no request waits
    MaxVerifications,  \* verification slots
    MaxQueued,         \* maximumQueuedComputeJobs
    MaxProofReceipts,
    MaxFailures,       \* bound: crashes of the relay and file writes that fail
    None

Jobs == Requests \cup PlainJobs
Procs == Workers \cup {"client", "hive"}

ASSUME PoolAssumption ==
    /\ Requests \cap PlainJobs = {} /\ IsFiniteSet(Requests)
    /\ Workers \cap {"client", "hive"} = {} /\ None \notin Procs \cup Jobs
    /\ MaxVerifications \in Nat \ {0} /\ MaxQueued \in Nat /\ MaxProofReceipts \in Nat \ {0}

VARIABLES
    mem,        \* the relay's maps
    disk,       \* its files
    mu,         \* holder of the lock of the maps, or None
    persistMu,  \* holder of the lock of the files, or None
    proc,       \* what every caller's request is doing
    held,       \* the job an agent has in hand
    late,       \* leases <<job, worker>> past their ExpiresAt
    overdue,    \* requests past their deadline
    used,       \* plain jobs made so far
    got,        \* proofs the Hive has received
    committed,  \* proofs settled on the chain
    failures    \* crashes and failed writes so far

vars == <<mem, disk, mu, persistMu, proc, held, late, overdue, used, got,
          committed, failures>>
clock == <<late, overdue>>
hive == <<got, committed>>

Idle == [at |-> "idle"]
Open == {"queued", "leased"}
NoSettlement == [bound |-> FALSE, pending |-> {}, consumed |-> {}]

Init ==
    /\ mem = [workers |-> [w \in Workers |-> "gone"], jobs |-> [j \in Jobs |-> None], completing |-> {},
              receipts |-> {}, compute |-> [q \in Requests |-> "none"], order |-> <<>>,
              settlement |-> NoSettlement]
    /\ disk = [log |-> {}, compute |-> mem.compute, order |-> <<>>,
               settlement |-> NoSettlement]
    /\ mu = None /\ persistMu = None
    /\ proc = [p \in Procs |-> Idle]
    /\ held = [w \in Workers |-> None]
    /\ late = {} /\ overdue = {} /\ used = {}
    /\ got = {} /\ committed = {}
    /\ failures = 0

-----------------------------------------------------------------------------
(* The maps.                                                               *)

HasReceipt(m, j) == \E r \in m.receipts : r[1] = j

\* Deadlines are looked at only when a job is leased or released.
PrunedLeasesOnly(m) ==
    LET lapsed == {j \in Jobs : m.jobs[j] # None /\ <<j, m.jobs[j]>> \in late}
    IN  [m EXCEPT !.jobs = [j \in Jobs |-> IF j \in lapsed THEN None ELSE @[j]],
                  !.compute = [q \in Requests |-> IF q \in lapsed /\ @[q] = "leased"
                                                  THEN "queued" ELSE @[q]]]

\* pruneLocked drops lapsed leases; pruneComputeJobsLocked expires overdue
\* jobs, verified or not, and puts jobs whose lease lapsed back in the queue.
Pruned(m) ==
    LET dead == {q \in Requests : m.compute[q] \in Open /\ q \in overdue}
        lapsed == {j \in Jobs : m.jobs[j] # None /\ <<j, m.jobs[j]>> \in late}
    IN  [m EXCEPT !.jobs = [j \in Jobs |-> IF j \in dead \cup lapsed THEN None ELSE @[j]],
                  !.completing = @ \ dead,
                  !.compute = [q \in Requests |-> IF q \in dead THEN "expired"
                                                  ELSE IF q \in lapsed /\ @[q] = "leased"
                                                  THEN "queued" ELSE @[q]]]

\* Counting a job of an unknown agent makes an entry without capabilities.
Counted(m, w) == [m EXCEPT !.workers[w] = IF @ = "gone" THEN "blank" ELSE @]

\* rejectJob ends the lease whoever holds it, and releaseComputeJobLocked
\* queues the job again.
Rejected(m, j, w) ==
    [Counted(m, w) EXCEPT
              !.jobs[j] = None,
              !.completing = @ \ {j},
              !.compute = [q \in Requests |->
                             IF q # j \/ @[q] # "leased" THEN @[q]
                             ELSE IF q \in overdue THEN "expired" ELSE "queued"]]

\* loadComputeJobs
Reloaded(q) ==
    IF \E r \in disk.log : r[1] = q THEN "completed"
    ELSE IF disk.compute[q] = "leased" THEN "queued" ELSE disk.compute[q]

-----------------------------------------------------------------------------
(* Locks.  A handler that changed application jobs keeps mu while it waits *)
(* for persistMu; "back" is the memory it leaves if the write fails, "job" *)
(* the job its agent learns of when it succeeds.                           *)

Hold(p, m, back, job) ==
    /\ mu' = p
    /\ mem' = m
    /\ proc' = [proc EXCEPT ![p] = [at |-> "persist", back |-> back, job |-> job]]

\* Answers at once when no application job changed.
Finish(p, m) ==
    IF m.compute = mem.compute
    THEN mem' = m /\ proc' = [proc EXCEPT ![p] = Idle] /\ UNCHANGED mu
    ELSE Hold(p, m, m, None)

\* completeComputeJobLocked looks at no earlier state and always writes.
CompleteComputeJob(p, m, j) ==
    IF j \in Requests
    THEN LET done == [m EXCEPT !.compute[j] = "completed"] IN Hold(p, done, done, None)
    ELSE Finish(p, m)

Fails == failures < MaxFailures /\ failures' = failures + 1

PersistComputeJobs(p) ==
    /\ proc[p].at = "persist" /\ persistMu = None
    /\ \/ /\ disk' = [disk EXCEPT !.compute = mem.compute, !.order = mem.order]
          /\ held' = IF p \in Workers /\ proc[p].job # None
                     THEN [held EXCEPT ![p] = proc[p].job] ELSE held
          /\ UNCHANGED <<mem, failures>>
       \/ Fails /\ mem' = proc[p].back /\ UNCHANGED <<disk, held>>
    /\ mu' = None
    /\ proc' = [proc EXCEPT ![p] = Idle]
    /\ UNCHANGED <<persistMu, used, clock, hive>>

-----------------------------------------------------------------------------
(* Agents.                                                                 *)

\* An agent registers when it starts and when the relay answers that it does
\* not know it (runResourceLoop).
Register(w) ==
    /\ proc[w] = Idle /\ mu = None /\ mem.workers[w] = "gone"
    /\ mem' = [mem EXCEPT !.workers[w] = "able"]
    /\ UNCHANGED <<disk, mu, persistMu, proc, held, used, clock, hive, failures>>

\* The places in the queue of the requests that wait.
Waiting(m) == {i \in DOMAIN m.order : m.compute[m.order[i]] = "queued"}

\* handleLease: the agent's open lease, else the oldest waiting request, else
\* a job made up by the relay.
Lease(w) ==
    LET m == Pruned(mem)
        mine == {j \in Jobs : m.jobs[j] = w}
    IN  /\ proc[w] = Idle /\ mu = None /\ mem.workers[w] = "able"
        /\ \/ \E j \in mine :
                /\ held' = [held EXCEPT ![w] = j]
                /\ Finish(w, m)
                /\ UNCHANGED <<late, used>>
           \/ /\ mine = {}
              /\ \E i \in Waiting(m) :
                    LET q == m.order[i]
                    IN  /\ \A k \in Waiting(m) : i <= k
                        /\ Hold(w, [m EXCEPT !.jobs[q] = w, !.compute[q] = "leased"], m, q)
                        /\ late' = late \ {<<q, w>>}
              /\ UNCHANGED <<held, used>>
           \/ /\ mine = {} /\ Waiting(m) = {}
              /\ \E j \in PlainJobs \ used :
                    /\ Finish(w, [m EXCEPT !.jobs[j] = w])
                    /\ held' = [held EXCEPT ![w] = j]
                    /\ used' = used \cup {j}
              /\ UNCHANGED late
        /\ UNCHANGED <<disk, persistMu, overdue, hive, failures>>

Verifying == {w \in Workers : proc[w].at \in {"check", "verify", "append", "commit"}}

\* Nothing keeps a second completion of the job out.
NotCompletingUnchecked(j) == TRUE

NotCompleting(j) == j \notin mem.completing

\* handleComplete up to the verification; a job that has this agent's receipt
\* already is only completed again.
BeginComplete(w) ==
    LET j == held[w]
    IN  /\ proc[w] = Idle /\ mu = None /\ j # None
        /\ \/ /\ <<j, w>> \in mem.receipts
              /\ CompleteComputeJob(w, mem, j)
           \/ /\ ~HasReceipt(mem, j) /\ mem.jobs[j] # None /\ NotCompleting(j)
              /\ Cardinality(Verifying) < MaxVerifications
              /\ mem' = [mem EXCEPT !.completing = @ \cup {j}]
              /\ proc' = [proc EXCEPT ![w] = [at |-> "check", job |-> j, lease |-> mem.jobs[j]]]
              /\ UNCHANGED mu
        /\ UNCHANGED <<disk, persistMu, held, used, clock, hive, failures>>

RejectJob(w) ==
    /\ mu = None
    /\ Finish(w, Rejected(mem, proc[w].job, w))
    /\ UNCHANGED <<disk, persistMu, held, used, clock, hive, failures>>

ClearCompleting(w) ==
    /\ mu = None
    /\ mem' = [mem EXCEPT !.completing = @ \ {proc[w].job}]
    /\ proc' = [proc EXCEPT ![w] = Idle]
    /\ UNCHANGED <<disk, mu, persistMu, held, used, clock, hive>>

At(w, step) ==
    /\ proc' = [proc EXCEPT ![w].at = step]
    /\ UNCHANGED <<mem, mu, persistMu, held, used, clock, hive, failures>>

\* The lease handleComplete read may have lapsed before it is looked at.
CheckLease(w) ==
    /\ proc[w].at = "check"
    /\ IF <<proc[w].job, proc[w].lease>> \in late THEN RejectJob(w)
       ELSE At(w, "verify") /\ UNCHANGED disk

\* VerifyJobResultContext: another agent's lease, or a wrong digest, rejects;
\* a request that is cut off may be sent again.
Verify(w) ==
    /\ proc[w].at = "verify"
    /\ \/ proc[w].lease = w /\ At(w, "append") /\ UNCHANGED disk
       \/ RejectJob(w)
       \/ ClearCompleting(w) /\ UNCHANGED failures

\* A receipt that could not be written is counted all the same.
AppendReceiptUnchecked(w) ==
    /\ proc[w].at = "append" /\ persistMu = None
    /\ \/ disk' = [disk EXCEPT !.log = @ \cup {<<proc[w].job, w>>}]
       \/ UNCHANGED disk
    /\ At(w, "commit")

AppendReceipt(w) ==
    /\ proc[w].at = "append" /\ persistMu = None
    /\ \/ /\ disk' = [disk EXCEPT !.log = @ \cup {<<proc[w].job, w>>}]
          /\ At(w, "commit")
       \/ Fails /\ ClearCompleting(w)

CommitReceipt(w) ==
    LET j == proc[w].job
        m == [Counted(mem, w) EXCEPT !.jobs[j] = None, !.completing = @ \ {j},
                                     !.receipts = @ \cup {<<j, w>>}]
    IN  /\ proc[w].at = "commit" /\ mu = None
        /\ CompleteComputeJob(w, m, j)
        /\ UNCHANGED <<disk, persistMu, held, used, clock, hive, failures>>

-----------------------------------------------------------------------------
(* The application client.                                                 *)

\* A known client_request_id is answered with the job it has.
New(m, q) == m.compute[q] = "none"

SubmitComputeJob(q) ==
    LET m == Pruned(mem)
    IN  /\ proc["client"] = Idle /\ mu = None
        /\ New(m, q)
        /\ Cardinality({x \in Requests : m.compute[x] \in Open}) < MaxQueued
        /\ Hold("client", [m EXCEPT !.compute[q] = "queued", !.order = Append(@, q)], m, None)
        /\ UNCHANGED <<disk, persistMu, held, used, clock, hive, failures>>

\* A job whose result is being verified is cancelled as well.
CancellableAlways(q) == mem.compute[q] \in Open

Cancellable(q) == mem.compute[q] \in Open /\ q \notin mem.completing

CancelComputeJob(q) ==
    /\ proc["client"] = Idle /\ mu = None
    /\ Cancellable(q)
    /\ Hold("client", [mem EXCEPT !.jobs[q] = None, !.completing = @ \ {q},
                                  !.compute[q] = "cancelled"], mem, None)
    /\ UNCHANGED <<disk, persistMu, held, used, clock, hive, failures>>

\* Reading the status or a job prunes.
Poll ==
    /\ proc["client"] = Idle /\ mu = None
    /\ Pruned(mem) # mem
    /\ Finish("client", Pruned(mem))
    /\ UNCHANGED <<disk, persistMu, held, used, clock, hive, failures>>

-----------------------------------------------------------------------------
(* Settlement.  A proof is the set of its receipts.                        *)

\* sortedUnconsumedReceipts, asked for only while no proof is pending.
Batches(s) ==
    LET free == IF s.pending = {} THEN mem.receipts \ s.consumed ELSE {}
    IN  {b \in SUBSET free : b # {} /\ \/ b = free /\ Cardinality(b) <= MaxProofReceipts
                                       \/ Cardinality(b) = MaxProofReceipts}

Calls == {[op |-> "bind"], [op |-> "latest"]} \cup [op : {"ack"}, proof : committed]

HiveCall ==
    /\ proc["hive"] = Idle /\ persistMu = None
    /\ \E c \in Calls : proc' = [proc EXCEPT !["hive"] = [at |-> "settle", call |-> c]]
    /\ persistMu' = "hive"
    /\ UNCHANGED <<mem, disk, mu, held, used, clock, hive, failures>>

\* BindSettlement, LatestSettlementProof and AcknowledgeSettlementProof: the
\* states to save, with the proof the answer carries.
Outcomes(c, s) ==
    CASE c.op = "bind"   -> {[state |-> [s EXCEPT !.bound = TRUE], proof |-> {}]}
      [] c.op = "latest" -> IF s.pending # {} THEN {[state |-> s, proof |-> s.pending]}
                            ELSE IF ~s.bound THEN {}
                            ELSE {[state |-> [s EXCEPT !.pending = b], proof |-> b] : b \in Batches(s)}
      [] c.op = "ack"    -> IF s.pending # c.proof THEN {}
                            ELSE {[state |-> [s EXCEPT !.pending = {}, !.consumed = @ \cup c.proof],
                                   proof |-> {}]}

\* The answer does not wait for the file.
SavedLater(new, old) == old

Saved(new, old) == new

HiveAnswer ==
    /\ proc["hive"].at = "settle" /\ mu = None
    /\ \/ /\ Outcomes(proc["hive"].call, mem.settlement) = {}
          /\ UNCHANGED <<mem, disk, got, failures>>
       \/ \E o \in Outcomes(proc["hive"].call, mem.settlement) :
            \/ /\ mem' = [mem EXCEPT !.settlement = o.state]
               /\ disk' = [disk EXCEPT !.settlement = Saved(o.state, @)]
               /\ got' = IF o.proof = {} THEN got ELSE got \cup {o.proof}
               /\ UNCHANGED failures
            \/ /\ o.state # mem.settlement /\ Fails
               /\ UNCHANGED <<mem, disk, got>>
    /\ persistMu' = None
    /\ proc' = [proc EXCEPT !["hive"] = Idle]
    /\ UNCHANGED <<mu, held, used, clock, committed>>

\* The chain refuses a proof with a receipt it has settled before.
ChainCommit ==
    /\ \E p \in got : p \cap UNION committed = {} /\ committed' = committed \cup {p}
    /\ UNCHANGED <<mem, disk, mu, persistMu, proc, held, used, clock, got, failures>>

-----------------------------------------------------------------------------
(* Time and crashes.                                                       *)

LeaseLapses ==
    /\ \E j \in Jobs : mem.jobs[j] # None /\ <<j, mem.jobs[j]>> \notin late
                       /\ late' = late \cup {<<j, mem.jobs[j]>>}
    /\ UNCHANGED <<mem, disk, mu, persistMu, proc, held, overdue, used, hive, failures>>

DeadlinePasses(q) ==
    /\ mem.compute[q] \in Open /\ q \notin overdue
    /\ overdue' = overdue \cup {q}
    /\ UNCHANGED <<mem, disk, mu, persistMu, proc, held, late, used, hive, failures>>

\* NewCoordinator after a crash: leases and registrations are gone.
Restart ==
    LET compute == [q \in Requests |-> Reloaded(q)]
        m == Pruned([workers |-> [w \in Workers |-> "gone"], jobs |-> [j \in Jobs |-> None], completing |-> {},
                     receipts |-> disk.log, compute |-> compute, order |-> disk.order,
                     settlement |-> disk.settlement])
    IN  /\ Fails
        /\ mem' = m
        /\ disk' = [disk EXCEPT !.compute = m.compute]
        /\ mu' = None /\ persistMu' = None
        /\ proc' = [p \in Procs |-> Idle]
        /\ UNCHANGED <<held, used, clock, hive>>

Next ==
    \/ \E w \in Workers :
        \/ Register(w) \/ Lease(w) \/ BeginComplete(w) \/ CheckLease(w)
        \/ Verify(w) \/ AppendReceipt(w) \/ CommitReceipt(w)
    \/ \E p \in Procs : PersistComputeJobs(p)
    \/ \E q \in Requests : SubmitComputeJob(q) \/ CancelComputeJob(q) \/ DeadlinePasses(q)
    \/ Poll \/ HiveCall \/ HiveAnswer \/ ChainCommit
    \/ LeaseLapses \/ Restart

Spec == Init /\ [][Next]_vars

(***************************************************************************)
(* Deadlines pass.  Only the handler that holds mu is about to write the   *)
(* job file, and it goes on when the lock of the files is free.  Go's      *)
(* mutexes hand over to the longest waiter: the polls that clients and     *)
(* agents send all the time, and a settlement handler, get mu if it is     *)
(* released again and again.                                               *)
(***************************************************************************)
Fairness ==
    /\ WF_vars(\E q \in Requests : DeadlinePasses(q))
    /\ WF_vars(\E p \in Procs : PersistComputeJobs(p))
    /\ SF_vars(Poll)

FairSpec == Spec /\ Fairness
HiveSpec == FairSpec /\ SF_vars(HiveAnswer)

-----------------------------------------------------------------------------
(* Properties.                                                             *)

States == {"none", "queued", "leased", "completed", "cancelled", "expired"}
Receipts == Jobs \X Workers
Steps == {"idle", "persist", "check", "verify", "append", "commit", "settle"}

\* Type invariant.
TypeOK ==
    /\ mem.workers \in [Workers -> {"gone", "able", "blank"}]
    /\ mem.jobs \in [Jobs -> Workers \cup {None}] /\ mem.completing \subseteq Jobs
    /\ mem.receipts \subseteq Receipts /\ disk.log \subseteq Receipts
    /\ mem.compute \in [Requests -> States] /\ disk.compute \in [Requests -> States]
    /\ IsInjective(mem.order) /\ Range(mem.order) = {q \in Requests : mem.compute[q] # "none"}
    /\ Cardinality({q \in Requests : mem.compute[q] \in Open}) <= MaxQueued
    /\ mu \in Procs \cup {None} /\ persistMu \in {None, "hive"}
    /\ \A p \in Procs : proc[p].at \in Steps

\* The receipt log never holds receipts of two agents for one job, though a
\* lease may lapse and the job be leased again while the first agent's result
\* is verified; loadReceipts would refuse to start on such a log.
OneReceiptPerJob == \A r, s \in disk.log : r[1] = s[1] => r = s

\* Every receipt the relay counts is in the log, so nothing that was settled
\* or answered is forgotten by a crash (handleComplete appends first).
CountedIsLogged == mem.receipts \subseteq disk.log

\* The relay's state has its types and what it counts is logged.
LogInv == TypeOK /\ CountedIsLogged

\* No receipt is in two proofs the Hive received, over lost and repeated
\* acknowledgements, failed writes and restarts: the chain would refuse the
\* second proof, and the relay, which repeats it until it is acknowledged,
\* could settle nothing any more (LatestSettlementProof).
ProofsDisjoint == \A p, q \in got : p # q => p \cap q = {}

\* A completed or cancelled application job stays so, over restarts and late
\* results (CancelComputeJob, completeComputeJobLocked, loadComputeJobs).
\* An answer is given once mu is free, so states are compared between such
\* moments.  Expired is not final: a result that was being verified when the
\* deadline passed completes the job.
FinalStays ==
    [][\A q \in Requests :
        mem.compute[q] \in {"completed", "cancelled"} /\ mu = None
            => mem'.compute[q] = mem.compute[q]]_vars

\* The two locks are taken crosswise: mu by a handler that is to write the
\* job file, persistMu by a settlement handler.  Neither is ever released.
LockCycle == persistMu # None /\ mu # None

\* Every application job comes to an end, by its deadline if nothing else
\* does it, unless the locks are taken crosswise (pruneComputeJobsLocked).
EventuallyTerminal ==
    \A q \in Requests : mem.compute[q] \in Open ~> mem.compute[q] \notin Open \/ LockCycle

\* An agent that delivers a result, or fetches a job, is answered once the
\* relay writes the job file (handleComplete, handleLease).
AgentAnswered ==
    \A w \in Workers : proc[w].at = "persist" ~> proc[w].at = "idle"
=============================================================================

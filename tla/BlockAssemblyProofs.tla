------------------------ MODULE BlockAssemblyProofs ------------------------
(***************************************************************************)
(* Proofs about BlockAssembly, for all proofs, miners, request goroutines, *)
(* transactions, windows, pool sizes and schedules: a proof is accepted    *)
(* once unless two requests race for it, the pool's nonce index is that of *)
(* the pending transactions, no accepted proof is lost or paid twice, and  *)
(* what miners are paid stays within the emission schedule and its cap.    *)
(***************************************************************************)
EXTENDS BlockAssembly, FiniteSetTheorems, TLAPS

----------------------------------------------------------------------------
(* The intake of proofs.                                                   *)

Request == [step : {"tip", "work"}, proof : Proofs, tip : Nat]

IntakeTypes ==
    /\ tip \in Nat /\ seen \subseteq Proofs /\ raced \subseteq Proofs
    /\ accepted \in [Proofs -> Nat]
    /\ sub \in [Submitters -> Request \cup {NoRequest}]

\* A request has read a tip that the chain has reached, and works on a proof
\* only if that tip is in the grace window.
RequestsBehind ==
    \A s \in Submitters : sub[s] # NoRequest =>
        sub[s].tip <= tip /\ (sub[s].step = "work" => InTime(sub[s]))

\* Accepted, and no race for it since.
Settled(p) == accepted[p] > 0 /\ p \notin raced

\* Such a proof is remembered or too old for every later request ...
SettledStays ==
    \A p \in Proofs : Settled(p) => p \in seen \/ tip - ProofHeight[p] > Grace

\* ... and every request that holds it will find that out.
SettledHeld ==
    \A s \in Submitters : sub[s] # NoRequest /\ Settled(sub[s].proof) =>
        sub[s].step = "tip" /\ (sub[s].proof \in seen \/ ~InTime(sub[s]))

IntakeInv == IntakeTypes /\ RequestsBehind /\ SettledStays /\ SettledHeld /\ AcceptedOnce

\* The windows and the heights of the proofs.
LEMMA Windows ==
    /\ Grace \in Nat /\ Retain \in Nat /\ Grace <= Retain
    /\ \A p \in Proofs : ProofHeight[p] \in Nat
  BY AssemblyAssumption DEF AssemblyAssumption

\* A request is not the absence of one.
LEMMA RequestFacts ==
    /\ \A r \in Request : r # NoRequest /\ r.proof \in Proofs /\ r.tip \in Nat /\ r.step \in {"tip", "work"}
    /\ \A p \in Proofs, n \in Nat, st \in {"tip", "work"} : [step |-> st, proof |-> p, tip |-> n] \in Request
    /\ \A r \in Request : [r EXCEPT !.step = "work"] \in Request
    /\ NoRequest.step = "idle"
<1>1. \A r \in Request : r.step \in {"tip", "work"} /\ r.proof \in Proofs /\ r.tip \in Nat
  BY DEF Request
<1>2. NoRequest.step = "idle"
  BY DEF NoRequest
<1>3. \A r \in Request : r # NoRequest
  BY <1>1, <1>2
<1>4. \A p \in Proofs, n \in Nat, st \in {"tip", "work"} : [step |-> st, proof |-> p, tip |-> n] \in Request
  BY DEF Request
<1>5. \A r \in Request : [r EXCEPT !.step = "work"] \in Request
  BY DEF Request
<1> QED
  BY <1>1, <1>2, <1>3, <1>4, <1>5

LEMMA IntakeInit == Init => IntakeInv
<1> SUFFICES ASSUME Init PROVE IntakeInv
  OBVIOUS
<1>1. IntakeTypes
  BY DEF Init, IntakeTypes
<1>2. \A p \in Proofs : accepted[p] = 0
  BY DEF Init
<1>3. \A s \in Submitters : sub[s] = NoRequest
  BY DEF Init
<1> QED
  BY <1>1, <1>2, <1>3 DEF IntakeInv, RequestsBehind, SettledStays, SettledHeld, Settled, AcceptedOnce

\* A request arrives.
LEMMA IntakeSubmit ==
    ASSUME IntakeInv, NEW s \in Submitters, NEW p \in Proofs, Submit(s, p)
    PROVE  IntakeInv'
<1> DEFINE r == [step |-> "tip", proof |-> p, tip |-> tip]
<1>1. /\ sub' = [sub EXCEPT ![s] = r] /\ tip' = tip /\ seen' = seen /\ accepted' = accepted
      /\ raced' = raced
  BY DEF Submit, ledger
<1>2. /\ tip \in Nat /\ seen \subseteq Proofs /\ raced \subseteq Proofs
      /\ accepted \in [Proofs -> Nat] /\ sub \in [Submitters -> Request \cup {NoRequest}]
  BY DEF IntakeInv, IntakeTypes
<1>3. r \in Request /\ r.step = "tip" /\ r.proof = p /\ r.tip = tip /\ r # NoRequest
  BY <1>2, RequestFacts
<1> HIDE DEF r
<1>4. /\ sub' \in [Submitters -> Request \cup {NoRequest}] /\ sub'[s] = r
      /\ \A o \in Submitters : o # s => sub'[o] = sub[o]
  BY <1>1, <1>2, <1>3
<1>5. IntakeTypes'
  BY <1>1, <1>2, <1>4 DEF IntakeTypes
<1>6. \A q \in Proofs : Settled(q)' <=> Settled(q)
  BY <1>1 DEF Settled
<1>7. RequestsBehind'
  BY <1>1, <1>2, <1>3, <1>4 DEF IntakeInv, RequestsBehind, InTime
<1>8. Settled(p) => p \in seen \/ ~InTime(r)
  BY <1>2, <1>3, Windows DEF IntakeInv, SettledStays, InTime
<1>9. SettledHeld'
  BY <1>1, <1>3, <1>4, <1>8 DEF IntakeInv, SettledHeld, InTime, Settled
<1>10. SettledStays' /\ AcceptedOnce'
  BY <1>1, <1>6 DEF IntakeInv, SettledStays, AcceptedOnce
<1> QED
  BY <1>5, <1>7, <1>9, <1>10 DEF IntakeInv

\* The window and the set of ids are asked.
LEMMA IntakeCheck ==
    ASSUME IntakeInv, NEW s \in Submitters, CheckProof(s)
    PROVE  IntakeInv'
<1> DEFINE r == sub[s]
           new == IF InTime(r) /\ r.proof \notin seen THEN [r EXCEPT !.step = "work"] ELSE NoRequest
<1>1. /\ sub' = [sub EXCEPT ![s] = new] /\ tip' = tip /\ seen' = seen /\ accepted' = accepted
      /\ raced' = raced /\ r.step = "tip"
  BY DEF CheckProof, ledger, IntakeInv, IntakeTypes
<1>2. /\ tip \in Nat /\ seen \subseteq Proofs /\ raced \subseteq Proofs
      /\ accepted \in [Proofs -> Nat] /\ sub \in [Submitters -> Request \cup {NoRequest}]
  BY DEF IntakeInv, IntakeTypes
<1>3. r \in Request /\ r # NoRequest
  BY <1>1, <1>2, RequestFacts
<1>4. new = NoRequest \/ /\ new \in Request /\ InTime(r) /\ r.proof \notin seen
                         /\ new.proof = r.proof /\ new.tip = r.tip /\ new.step = "work"
  BY <1>3, RequestFacts DEF Request
<1> HIDE DEF r, new
<1>5. /\ sub' \in [Submitters -> Request \cup {NoRequest}] /\ sub'[s] = new
      /\ \A o \in Submitters : o # s => sub'[o] = sub[o]
  BY <1>1, <1>2, <1>4
<1>6. IntakeTypes'
  BY <1>1, <1>2, <1>5 DEF IntakeTypes
<1>7. r.tip <= tip
  BY <1>3 DEF IntakeInv, RequestsBehind, r
<1>8. RequestsBehind'
  BY <1>1, <1>4, <1>5, <1>7 DEF IntakeInv, RequestsBehind, InTime
<1>9. Settled(r.proof) => new = NoRequest
  BY <1>3, <1>4 DEF IntakeInv, SettledHeld, r
<1>10. SettledHeld'
  BY <1>1, <1>4, <1>5, <1>9 DEF IntakeInv, SettledHeld, InTime, Settled
<1>11. SettledStays' /\ AcceptedOnce'
  BY <1>1 DEF IntakeInv, SettledStays, AcceptedOnce, Settled
<1> QED
  BY <1>6, <1>8, <1>10, <1>11 DEF IntakeInv

\* A proof is accepted and recorded.
LEMMA IntakeAccept ==
    ASSUME IntakeInv, NEW s \in Submitters, AcceptProof(s)
    PROVE  IntakeInv'
<1> DEFINE r == sub[s]
           p == sub[s].proof
<1>1. /\ sub' = [sub EXCEPT ![s] = NoRequest] /\ tip' = tip /\ r.step = "work"
      /\ seen' = Recorded(p) /\ accepted' = [accepted EXCEPT ![p] = @ + 1]
      /\ raced' = raced \cup (({p} \cup (seen \ Recorded(p))) \cap Held(s))
  BY DEF AcceptProof, ledger
<1>2. /\ tip \in Nat /\ seen \subseteq Proofs /\ raced \subseteq Proofs
      /\ accepted \in [Proofs -> Nat] /\ sub \in [Submitters -> Request \cup {NoRequest}]
  BY DEF IntakeInv, IntakeTypes
<1>3. r \in Request /\ r # NoRequest /\ p \in Proofs /\ r.tip \in Nat
  BY <1>1, <1>2, RequestFacts
<1>4. r.tip <= tip /\ ProofHeight[p] <= r.tip
  BY <1>1, <1>3 DEF IntakeInv, RequestsBehind, InTime
<1> HIDE DEF r, p
<1>5. /\ sub' \in [Submitters -> Request \cup {NoRequest}] /\ sub'[s] = NoRequest
      /\ \A o \in Submitters : o # s => sub'[o] = sub[o]
  BY <1>1, <1>2
<1>6. /\ accepted' \in [Proofs -> Nat] /\ accepted'[p] = accepted[p] + 1
      /\ \A q \in Proofs : q # p => accepted'[q] = accepted[q]
  BY <1>1, <1>2, <1>3
<1>7. /\ p \in seen' /\ seen' \subseteq Proofs
      /\ \A q \in seen : q \notin seen' => ProofHeight[q] < ProofHeight[p] - Retain
  <2>1. seen' = {q \in seen \cup {p} : ProofHeight[q] >= ProofHeight[p] - Retain}
    BY <1>1 DEF Recorded
  <2>2. \A q \in Proofs : /\ ProofHeight[q] \in Nat /\ Retain \in Nat
                          /\ ProofHeight[p] >= ProofHeight[p] - Retain
                          /\ ~(ProofHeight[q] >= ProofHeight[p] - Retain)
                               => ProofHeight[q] < ProofHeight[p] - Retain
    BY <1>3, Windows
  <2> QED
    BY <1>2, <1>3, <2>1, <2>2
<1>8. /\ raced' \subseteq Proofs /\ raced \subseteq raced'
      /\ \A o \in Submitters : o # s /\ sub[o] # NoRequest =>
            /\ sub[o].proof = p => p \in raced'
            /\ sub[o].proof \in seen /\ sub[o].proof \notin seen' => sub[o].proof \in raced'
  <2>1. \A o \in Submitters : o # s /\ sub[o] # NoRequest => sub[o].proof \in Held(s)
    BY DEF Held
  <2> QED
    BY <1>1, <1>2, <1>3, <2>1
<1>9. IntakeTypes'
  BY <1>1, <1>2, <1>5, <1>6, <1>7, <1>8 DEF IntakeTypes
<1>10. RequestsBehind'
  BY <1>1, <1>5 DEF IntakeInv, RequestsBehind, InTime
<1>11. AcceptedOnce'
  <2> SUFFICES ASSUME NEW q \in Proofs, accepted'[q] > 1 PROVE q \in raced'
    BY DEF AcceptedOnce
  <2>1. CASE q # p
    BY <1>6, <1>8, <2>1 DEF IntakeInv, AcceptedOnce
  <2>2. CASE q = p
    <3>1. accepted[p] > 0
      BY <1>2, <1>3, <1>6, <2>2
    <3>2. ~Settled(p)
      BY <1>1, <1>3 DEF IntakeInv, SettledHeld, r, p
    <3> QED
      BY <1>8, <2>2, <3>1, <3>2 DEF Settled
  <2> QED
    BY <2>1, <2>2
<1>12. SettledStays'
  <2> SUFFICES ASSUME NEW q \in Proofs, Settled(q)' PROVE q \in seen' \/ tip' - ProofHeight[q] > Grace
    BY DEF SettledStays
  <2>1. CASE q # p
    <3>1. Settled(q)
      BY <1>6, <1>8, <2>1 DEF Settled
    <3>2. q \in seen \/ tip - ProofHeight[q] > Grace
      BY <3>1 DEF IntakeInv, SettledStays
    <3>3. q \in seen /\ q \notin seen' => tip - ProofHeight[q] > Grace
      <4>1. ProofHeight[q] \in Nat /\ ProofHeight[p] \in Nat /\ Retain \in Nat /\ Grace \in Nat /\ Grace <= Retain
        BY <1>3, Windows
      <4> QED
        BY <1>2, <1>3, <1>4, <1>7, <4>1
    <3> QED
      BY <1>1, <3>2, <3>3
  <2> QED
    BY <1>7, <2>1
<1>13. SettledHeld'
  <2> SUFFICES ASSUME NEW o \in Submitters, sub'[o] # NoRequest, Settled(sub[o].proof)'
               PROVE  sub'[o].step = "tip" /\ (sub'[o].proof \in seen' \/ ~InTime(sub[o])')
    <3>1. \A o \in Submitters : sub'[o] # NoRequest => sub'[o] = sub[o]
      BY <1>5
    <3> QED
      BY <3>1 DEF SettledHeld
  <2>1. o # s /\ sub'[o] = sub[o] /\ sub[o] # NoRequest /\ sub[o] \in Request
    BY <1>2, <1>5
  <2> DEFINE q == sub[o].proof
  <2>2. q \in Proofs /\ q # p
    BY <1>8, <2>1, RequestFacts DEF Settled
  <2>3. Settled(q)
    BY <1>6, <1>8, <2>1, <2>2 DEF Settled
  <2>4. sub[o].step = "tip" /\ (q \in seen \/ ~InTime(sub[o]))
    BY <2>1, <2>3 DEF IntakeInv, SettledHeld
  <2>5. q \in seen => q \in seen'
    BY <1>8, <2>1 DEF Settled
  <2> QED
    BY <2>1, <2>4, <2>5 DEF InTime
<1> QED
  BY <1>9, <1>10, <1>11, <1>12, <1>13 DEF IntakeInv

\* A request ends without an acceptance.
LEMMA IntakeReject ==
    ASSUME IntakeInv, NEW s \in Submitters, RejectProof(s)
    PROVE  IntakeInv'
<1>1. /\ sub' = [sub EXCEPT ![s] = NoRequest] /\ tip' = tip /\ seen' = seen /\ accepted' = accepted
      /\ raced' = raced
  BY DEF RejectProof, ledger
<1>2. sub \in [Submitters -> Request \cup {NoRequest}]
  BY DEF IntakeInv, IntakeTypes
<1>3. /\ sub' \in [Submitters -> Request \cup {NoRequest}] /\ sub'[s] = NoRequest
      /\ \A o \in Submitters : o # s => sub'[o] = sub[o]
  BY <1>1, <1>2
<1> QED
  BY <1>1, <1>3 DEF IntakeInv, IntakeTypes, RequestsBehind, SettledStays, SettledHeld, Settled, InTime, AcceptedOnce

\* The chain grows and the intake stays as it is.
LEMMA IntakeTip ==
    ASSUME IntakeInv, UNCHANGED intake, tip' \in {tip, tip + 1}
    PROVE  IntakeInv'
<1>1. /\ sub' = sub /\ seen' = seen /\ accepted' = accepted /\ raced' = raced
  BY DEF intake
<1>2. tip \in Nat /\ tip' \in Nat /\ tip <= tip'
  BY DEF IntakeInv, IntakeTypes
<1>3. IntakeTypes'
  BY <1>1, <1>2 DEF IntakeInv, IntakeTypes
<1>4. RequestsBehind'
  <2>1. \A o \in Submitters : sub[o] # NoRequest => sub[o].tip \in Nat
    BY RequestFacts DEF IntakeInv, IntakeTypes
  <2> QED
    BY <1>1, <1>2, <2>1 DEF IntakeInv, RequestsBehind, InTime
<1>5. SettledStays'
  <2>1. \A p \in Proofs : tip - ProofHeight[p] > Grace => tip' - ProofHeight[p] > Grace
    BY <1>2, Windows
  <2> QED
    BY <1>1, <2>1 DEF IntakeInv, SettledStays, Settled
<1>6. SettledHeld' /\ AcceptedOnce'
  BY <1>1 DEF IntakeInv, SettledHeld, Settled, InTime, AcceptedOnce
<1> QED
  BY <1>3, <1>4, <1>5, <1>6 DEF IntakeInv

LEMMA IntakeNext == IntakeInv /\ [Next]_vars => IntakeInv'
<1> SUFFICES ASSUME IntakeInv, [Next]_vars PROVE IntakeInv'
  OBVIOUS
<1>1. ASSUME NEW s \in Submitters, NEW p \in Proofs, Submit(s, p) PROVE IntakeInv'
  BY <1>1, IntakeSubmit
<1>2. ASSUME NEW s \in Submitters, CheckProof(s) \/ AcceptProof(s) \/ RejectProof(s) PROVE IntakeInv'
  BY <1>2, IntakeCheck, IntakeAccept, IntakeReject
<1>3. ASSUME NEW t \in UserTxs, AddUser(t) PROVE IntakeInv'
  BY <1>3, IntakeTip DEF AddUser, ledger
<1>4. CASE AgePool \/ EvictStale
  BY <1>4, IntakeTip DEF AgePool, EvictStale, ledger
<1>5. ASSUME NEW incl, AppendExternal(incl) PROVE IntakeInv'
  BY <1>5, IntakeTip DEF AppendExternal
<1>6. CASE StartTick \/ AddOwn \/ DrainPool \/ BatchFails
  BY <1>6, IntakeTip DEF StartTick, AddOwn, DrainPool, BatchFails, ledger
<1>7. CASE AddOwnRefused \/ ProduceRefused \/ BlockFailed
  BY <1>7, IntakeTip DEF AddOwnRefused, ProduceRefused, BlockFailed, FailTick, ledger
<1>8. CASE SealBlock
  BY <1>8, IntakeTip DEF SealBlock
<1>9. ASSUME NEW t, RestoreOne(t) PROVE IntakeInv'
  BY <1>9, IntakeTip DEF RestoreOne, ledger
<1>10. CASE UNCHANGED vars
  BY <1>10, IntakeTip DEF vars, intake
<1> QED
  BY <1>1, <1>2, <1>3, <1>4, <1>5, <1>6, <1>7, <1>8, <1>9, <1>10 DEF Next, DriverStep

\* The inductive invariant of the intake.
THEOREM IntakeCorrect == Spec => []IntakeInv
  BY IntakeInit, IntakeNext, PTL DEF Spec

\* A proof is accepted once unless requests race for it: what the ProofIDSet
\* forgets is too old for Verify, for any windows with Grace <= Retain, any
\* number of requests and blocks that arrive between their steps.
THEOREM AcceptedOnceCorrect == Spec => []AcceptedOnce
<1>1. IntakeInv => AcceptedOnce
  BY DEF IntakeInv
<1> QED
  BY <1>1, IntakeCorrect, PTL

----------------------------------------------------------------------------
(* The pool and its index.                                                 *)

\* A transaction of users or of the driver.
TxShape(t) == DOMAIN t = TxFields /\ t.nonce \in Nat

TrackedOf(p) == {t \in p : Tracks(t)}

\* No two pending transactions compete for a nonce.
NoCompetitors(p) == \A t, u \in p : Tracks(t) /\ Tracks(u) /\ Key(t) = Key(u) => t = u

PoolOK(p, ix) ==
    /\ IsFiniteSet(p) /\ Cardinality(p) <= MaxSize /\ \A t \in p : TxShape(t)
    /\ NoCompetitors(p) /\ ix = {Key(t) : t \in TrackedOf(p)}

\* Such a pool has as many tracked transactions as its index has nonces.
LEMMA IndexCounts ==
    ASSUME NEW p, NEW ix, PoolOK(p, ix)
    PROVE  Cardinality(ix) = Cardinality(TrackedOf(p))
<1> DEFINE T == TrackedOf(p)
           f == [t \in T |-> Key(t)]
<1>1. IsFiniteSet(T)
  BY FS_Subset DEF PoolOK, TrackedOf
<1>2. /\ f \in [T -> ix] /\ \A k \in ix : \E t \in T : f[t] = k
      /\ \A t, u \in T : f[t] = f[u] => t = u
  BY DEF PoolOK, NoCompetitors, TrackedOf
<1> HIDE DEF f
<1>3. f \in Surjection(T, ix) /\ f \in Injection(T, ix)
  BY <1>2 DEF Surjection, Injection, IsInjective
<1> QED
  BY <1>1, <1>3, FS_Surjection

\* Transactions leave the pool, and their nonces the index.
LEMMA RemoveKeeps ==
    ASSUME NEW p, NEW ix, PoolOK(p, ix), NEW gone, gone \subseteq p
    PROVE  PoolOK(p \ gone, Untracked(gone, ix))
<1> DEFINE q == p \ gone
<1>1. IsFiniteSet(q) /\ Cardinality(q) <= Cardinality(p) /\ Cardinality(q) \in Nat /\ Cardinality(p) \in Nat
  BY FS_Subset, FS_CardinalityType DEF PoolOK
<1>2. Cardinality(q) <= MaxSize
  BY <1>1, AssemblyAssumption DEF PoolOK, AssemblyAssumption
<1>3. (\A t \in q : TxShape(t)) /\ NoCompetitors(q)
  BY DEF PoolOK, NoCompetitors
<1>4. Untracked(gone, ix) = {Key(t) : t \in TrackedOf(q)}
  BY DEF Untracked, PoolOK, NoCompetitors, TrackedOf
<1> QED
  BY <1>1, <1>2, <1>3, <1>4 DEF PoolOK

\* Add: a transaction that is not refused enters, another may have to leave.
LEMMA AddKeeps ==
    ASSUME NEW p, NEW ix, PoolOK(p, ix), NEW t, TxShape(t), ~Refused(t, p, ix),
           NEW o \in AddOutcomes(t, p, ix)
    PROVE  PoolOK(o.pool, o.index)
<1>0. MaxSize \in Nat \ {0} /\ Cardinality(p) \in Nat /\ IsFiniteSet(p)
  BY AssemblyAssumption, FS_CardinalityType DEF PoolOK, AssemblyAssumption
<1>1. ASSUME NEW q, NEW iq, PoolOK(q, iq), iq \subseteq ix, Cardinality(q) < MaxSize
      PROVE  PoolOK(q \cup {t}, Tracked(t, iq))
  <2>1. IsFiniteSet(q) /\ Cardinality(q) \in Nat
    BY <1>1, FS_CardinalityType DEF PoolOK
  <2>2. IsFiniteSet(q \cup {t}) /\ Cardinality(q \cup {t}) <= Cardinality(q) + 1
    <3>1. /\ IsFiniteSet(q \cup {t})
          /\ Cardinality(q \cup {t}) = IF t \in q THEN Cardinality(q) ELSE Cardinality(q) + 1
      BY <2>1, FS_AddElement
    <3> QED
      BY <2>1, <3>1
  <2>3. IsFiniteSet(q \cup {t}) /\ Cardinality(q \cup {t}) \in Nat
    BY <2>2, FS_CardinalityType
  <2>4. Cardinality(q \cup {t}) <= MaxSize
    BY <1>0, <1>1, <2>1, <2>2, <2>3
  <2>5. Tracks(t) => Key(t) \notin iq
    BY <1>1 DEF Refused
  <2>6. NoCompetitors(q \cup {t})
    BY <1>1, <2>5 DEF PoolOK, NoCompetitors, TrackedOf
  <2>7. Tracked(t, iq) = {Key(u) : u \in TrackedOf(q \cup {t})}
    BY <1>1 DEF PoolOK, Tracked, TrackedOf
  <2> QED
    BY <1>1, <2>2, <2>4, <2>6, <2>7 DEF PoolOK
<1>2. CASE Cardinality(p) < MaxSize
  <2>1. o = [pool |-> p \cup {t}, index |-> Tracked(t, ix)]
    BY <1>2 DEF AddOutcomes
  <2> QED
    BY <1>1, <1>2, <2>1
<1>3. CASE ~(Cardinality(p) < MaxSize)
  <2>1. PICK low \in p : o = [pool |-> (p \ {low}) \cup {t}, index |-> Tracked(t, Untracked({low}, ix))]
    BY <1>3 DEF AddOutcomes, Cheapest
  <2>2. PoolOK(p \ {low}, Untracked({low}, ix))
    BY RemoveKeeps
  <2>3. Untracked({low}, ix) \subseteq ix
    BY DEF Untracked
  <2>4. Cardinality(p \ {low}) < MaxSize
    <3>1. Cardinality(p \ {low}) = Cardinality(p) - 1
      BY <1>0, FS_RemoveElement
    <3> QED
      BY <1>0, <3>1 DEF PoolOK
  <2>5. PoolOK((p \ {low}) \cup {t}, Tracked(t, Untracked({low}, ix)))
    BY <1>1, <2>2, <2>3, <2>4
  <2> QED
    BY <2>1, <2>5
<1> QED
  BY <1>2, <1>3

\* Transactions get old.
LEMMA AgeKeeps ==
    ASSUME NEW p, NEW ix, PoolOK(p, ix)
    PROVE  PoolOK(Aged(p), ix)
<1> DEFINE q == Aged(p)
           f == [t \in p |-> [t EXCEPT !.old = TRUE]]
<1>1. ASSUME NEW t \in p
      PROVE  /\ TxShape(f[t]) /\ f[t].sender = t.sender /\ f[t].nonce = t.nonce /\ f[t].kind = t.kind
  BY DEF PoolOK, TxShape, TxFields
<1>2. f \in [p -> q] /\ \A u \in q : \E t \in p : f[t] = u
  BY DEF Aged
<1>3. q = {f[t] : t \in p}
  BY DEF Aged
<1> HIDE DEF f, q
<1>4. f \in Surjection(p, q)
  BY <1>2 DEF Surjection
<1>5. IsFiniteSet(q) /\ Cardinality(q) <= Cardinality(p)
  BY <1>4, FS_Surjection DEF PoolOK
<1>6. Cardinality(q) <= MaxSize
  <2>1. Cardinality(q) \in Nat /\ Cardinality(p) \in Nat /\ MaxSize \in Nat
    BY <1>5, FS_CardinalityType, AssemblyAssumption DEF PoolOK, AssemblyAssumption
  <2> QED
    BY <1>5, <2>1 DEF PoolOK
<1>7. \A t \in p : (Tracks(f[t]) <=> Tracks(t)) /\ Key(f[t]) = Key(t)
  BY <1>1 DEF Tracks, Key
<1>8. NoCompetitors(q)
  BY <1>2, <1>7 DEF PoolOK, NoCompetitors
<1>9. ix = {Key(t) : t \in TrackedOf(q)}
  <2>1. {Key(t) : t \in TrackedOf(q)} = {Key(t) : t \in TrackedOf(p)}
    BY <1>2, <1>7 DEF TrackedOf
  <2> QED
    BY <2>1 DEF PoolOK
<1>10. \A u \in q : TxShape(u)
  BY <1>1, <1>2
<1> QED
  BY <1>5, <1>6, <1>8, <1>9, <1>10 DEF PoolOK, q

----------------------------------------------------------------------------
(* The driver's tick.                                                      *)

TickFields == {"at", "own", "todo", "drained"}

\* A running tick: its transactions, the proofs it took and, from the drain
\* on, its batch.
Busy(k) ==
    /\ k.at \in {"add", "apply", "restore", "failed"}
    /\ DOMAIN k = IF k.at = "add" THEN TickFields ELSE TickFields \cup {"batch"}
    /\ k.todo \subseteq k.own /\ \A t \in k.own : TxShape(t)
    /\ k.drained \in [Miners -> Nat]
    /\ k.at # "add" => IsFiniteSet(k.batch) /\ \A t \in k.batch : TxShape(t)

\* A tick leaves room for its block below the last height.
TickOK(k, h) == k = Idle \/ (Busy(k) /\ h < MaxHeight)

AssemblyInv == TypeOK /\ PoolOK(pool, index) /\ TickOK(tick, tip)

\* A busy tick is not idle.
LEMMA BusyNotIdle == \A k : Busy(k) => k # Idle
  BY DEF Busy, Idle

\* The constants.
LEMMA Constants ==
    /\ MaxHeight \in Nat /\ MaxExternal \in Nat /\ MaxExternal < MaxHeight /\ Sends \in Nat
    /\ IsFiniteSet(Miners) /\ Funder \in Senders /\ \A p \in Proofs : Miner[p] \in Miners
    /\ \A t \in UserTxs : TxShape(t)
    /\ \A p \in Proofs : Resubmits[p] \in Nat
<1>1. /\ MaxHeight \in Nat /\ MaxExternal \in Nat /\ MaxExternal < MaxHeight /\ Sends \in Nat
      /\ IsFiniteSet(Proofs) /\ DOMAIN Miner = Proofs /\ Resubmits \in [Proofs -> Nat]
      /\ \A t \in UserTxs : TxShape(t)
  BY AssemblyAssumption DEF AssemblyAssumption, TxShape
<1>2. Miners = {Miner[p] : p \in Proofs}
  BY <1>1 DEF Miners, Range
<1>3. IsFiniteSet(Miners)
  <2> DEFINE f == [p \in Proofs |-> Miner[p]]
  <2>1. f \in Surjection(Proofs, Miners)
    BY <1>2 DEF Surjection
  <2> HIDE DEF f
  <2> QED
    BY <1>1, <2>1, FS_Surjection
<1> QED
  BY <1>1, <1>2, <1>3 DEF Senders

\* Some transaction of a set has the least nonce.
LEMMA LeastNonce ==
    ASSUME NEW S, S # {}, \A t \in S : TxShape(t)
    PROVE  \E t \in S : \A u \in S : t.nonce <= u.nonce
<1> DEFINE N == {t.nonce : t \in S}
<1>1. N \subseteq Nat /\ N # {}
  BY DEF TxShape
<1> DEFINE R == {ss \in Nat \X Nat : ss[1] < ss[2]}
<1>a. IsWellFoundedOn(R, Nat)
  BY NatLessThanWellFounded DEF OpToRel
<1>b. \A k, n \in Nat : k < n => <<k, n>> \in R
  OBVIOUS
<1> HIDE DEF R, N
<1>2. PICK n \in N : \A k \in N : ~(<<k, n>> \in R)
  BY <1>1, <1>a, WFMin
<1>3. \A k \in N : n <= k
  <2>1. \A k \in N : ~(k < n) /\ k \in Nat /\ n \in Nat
    BY <1>1, <1>2, <1>b
  <2> QED
    BY <2>1
<1> QED
  BY <1>3 DEF N

\* The transaction that the tick adds next is one of its own.
LEMMA NextOwnFacts ==
    ASSUME Busy(tick), tick.todo # {}
    PROVE  NextOwn \in tick.todo /\ TxShape(NextOwn)
<1>1. \A t \in tick.todo : TxShape(t)
  BY DEF Busy
<1>2. \E t \in tick.todo : \A u \in tick.todo : t.nonce <= u.nonce
  BY <1>1, LeastNonce
<1> QED
  BY <1>1, <1>2 DEF NextOwn

\* The driver's transactions.
LEMMA BuildFacts ==
    ASSUME NEW q, NEW reward, NEW n \in Nat
    PROVE  \A t \in BuildTxs(q, reward, n) : TxShape(t)
<1> DEFINE S == {m \in Miners : q[m] > 0 /\ reward > 0}
<1>1. TxShape(Heartbeat(n))
  BY DEF Heartbeat, TxShape, TxFields
<1>2. ASSUME NEW m PROVE TxShape(RewardTx(q, m, S, reward, n))
  <2> HIDE DEF S
  <2>1. Rank(m, S) \in Nat
    <3>1. IsFiniteSet({x \in S : x < m})
      BY Constants, FS_Subset DEF S
    <3> QED
      BY <3>1, FS_CardinalityType DEF Rank
  <2> DEFINE t == RewardTx(q, m, S, reward, n)
  <2>2. DOMAIN t = TxFields
    BY DEF RewardTx, TxFields
  <2>3. t.nonce = n + Rank(m, S)
    BY DEF RewardTx
  <2> QED
    BY <2>1, <2>2, <2>3 DEF TxShape
<1>3. BuildTxs(q, reward, n) = IF S = {} THEN {Heartbeat(n)} ELSE {RewardTx(q, m, S, reward, n) : m \in S}
  BY DEF BuildTxs
<1> HIDE DEF S
<1> QED
  BY <1>1, <1>2, <1>3

\* The nonces after a block.
LEMMA AfterFacts ==
    ASSUME nonces \in [Senders -> Nat], NEW incl, IsFiniteSet(incl)
    PROVE  AfterBlock(incl) \in [Senders -> Nat]
<1>1. ASSUME NEW s \in Senders PROVE Cardinality({t \in incl : t.sender = s}) \in Nat
  <2>1. IsFiniteSet({t \in incl : t.sender = s})
    BY FS_Subset
  <2> QED
    BY <2>1, FS_CardinalityType
<1> QED
  BY <1>1 DEF AfterBlock

----------------------------------------------------------------------------
(* Steps.                                                                  *)

LEMMA AssemblyInit == Init => AssemblyInv
<1> SUFFICES ASSUME Init PROVE AssemblyInv
  OBVIOUS
<1>1. /\ MaxSize \in Nat /\ MaxHeight \in Nat /\ Sends \in Nat
  BY AssemblyAssumption DEF AssemblyAssumption
<1>2. IsFiniteSet({}) /\ Cardinality({}) = 0
  BY FS_EmptySet
<1>3. TypeOK
  BY <1>1, <1>2, Constants DEF Init, TypeOK
<1>4. PoolOK(pool, index)
  BY <1>1, <1>2 DEF Init, PoolOK, NoCompetitors, TrackedOf
<1> QED
  BY <1>3, <1>4 DEF Init, AssemblyInv, TickOK

\* The requests touch the queue alone.
LEMMA IntakeSteps ==
    ASSUME AssemblyInv, IntakeInv, NEW s \in Submitters,
           \/ \E p \in Proofs : Submit(s, p)
           \/ CheckProof(s) \/ AcceptProof(s) \/ RejectProof(s)
    PROVE  AssemblyInv'
<1>1. /\ pool' = pool /\ index' = index /\ tip' = tip /\ tick' = tick /\ nonces' = nonces
      /\ unsent' = unsent /\ forfeited' = forfeited
  BY DEF Submit, CheckProof, AcceptProof, RejectProof, mempool, ledger
<1>2. /\ seen' \subseteq Proofs /\ raced' \subseteq Proofs /\ accepted' \in [Proofs -> Nat]
  BY IntakeSubmit, IntakeCheck, IntakeAccept, IntakeReject DEF IntakeInv, IntakeTypes
<1>3. queue' \in [Miners -> Nat]
  <2>1. CASE AcceptProof(s)
    <3>1. queue' = [queue EXCEPT ![Miner[sub[s].proof]] = @ + 1] /\ sub[s].step = "work"
      BY <2>1 DEF AcceptProof
    <3>2. sub[s].proof \in Proofs
      BY <3>1, RequestFacts DEF IntakeInv, IntakeTypes
    <3>3. Miner[sub[s].proof] \in Miners
      BY <3>2, Constants
    <3> QED
      BY <3>1, <3>3 DEF AssemblyInv, TypeOK
  <2>2. CASE ~AcceptProof(s)
    BY <2>2 DEF Submit, CheckProof, RejectProof, AssemblyInv, TypeOK
  <2> QED
    BY <2>1, <2>2
<1>4. \A p \in Proofs : submitted'[p] \in 0 .. Resubmits[p]
  <2>1. CASE \E p \in Proofs : Submit(s, p)
    <3>1. PICK p \in Proofs : Submit(s, p)
      BY <2>1
    <3>2. submitted' = [submitted EXCEPT ![p] = @ + 1] /\ submitted[p] < Resubmits[p]
      BY <3>1 DEF Submit
    <3>3. \A q \in Proofs : submitted[q] \in 0 .. Resubmits[q] /\ Resubmits[q] \in Nat
      BY Constants DEF AssemblyInv, TypeOK
    <3>4. \A q \in Proofs : submitted'[q] = submitted[q] \/ (q = p /\ submitted'[q] = submitted[q] + 1)
      BY <3>2
    <3> QED
      BY <3>2, <3>3, <3>4
  <2>2. CASE ~\E p \in Proofs : Submit(s, p)
    BY <2>2 DEF CheckProof, AcceptProof, RejectProof, AssemblyInv, TypeOK
  <2> QED
    BY <2>1, <2>2
<1> QED
  BY <1>1, <1>2, <1>3, <1>4 DEF AssemblyInv, TypeOK

\* A step that leaves the intake as it is keeps the types if it keeps these.
LEMMA OtherTypes ==
    ASSUME AssemblyInv, UNCHANGED intake, tip' \in 0 .. MaxHeight, nonces' \in [Senders -> Nat],
           PoolOK(pool, index)', TickOK(tick, tip)', unsent' \in [UserTxs -> 0 .. Sends],
           queue' \in [Miners -> Nat], forfeited' \in [Miners -> Nat]
    PROVE  AssemblyInv'
<1>1. seen' = seen /\ raced' = raced /\ accepted' = accepted /\ submitted' = submitted
  BY DEF intake
<1>2. TypeOK'
  BY <1>1 DEF AssemblyInv, TypeOK, PoolOK
<1> QED
  BY <1>2 DEF AssemblyInv

\* The parts of the invariant that the steps of the pool and the driver use.
LEMMA Parts ==
    ASSUME AssemblyInv
    PROVE  /\ tip \in 0 .. MaxHeight /\ nonces \in [Senders -> Nat]
           /\ unsent \in [UserTxs -> 0 .. Sends] /\ queue \in [Miners -> Nat]
           /\ forfeited \in [Miners -> Nat] /\ PoolOK(pool, index) /\ TickOK(tick, tip)
  BY DEF AssemblyInv, TypeOK

\* What other goroutines do with the pool.
LEMMA PoolSteps ==
    ASSUME AssemblyInv, (\E t \in UserTxs : AddUser(t)) \/ AgePool \/ EvictStale
    PROVE  AssemblyInv'
<1>1. /\ UNCHANGED <<intake, queue, tick, tip, nonces, forfeited>>
  BY DEF AddUser, AgePool, EvictStale, ledger
<1>2. PoolOK(pool', index') /\ unsent' \in [UserTxs -> 0 .. Sends]
  <2>1. CASE \E t \in UserTxs : AddUser(t)
    <3>1. PICK t \in UserTxs : AddUser(t)
      BY <2>1
    <3>2. unsent' = [unsent EXCEPT ![t] = @ - 1] /\ unsent[t] > 0
      BY <3>1 DEF AddUser
    <3>3. unsent' \in [UserTxs -> 0 .. Sends]
      BY <3>2, Parts, Constants
    <3>4. CASE ~Refused(t, pool, index) /\ \E o \in AddOutcomes(t, pool, index) : pool' = o.pool /\ index' = o.index
      BY <3>3, <3>4, Parts, Constants, AddKeeps
    <3>5. CASE UNCHANGED mempool
      BY <3>3, <3>5, Parts DEF mempool
    <3> QED
      BY <3>1, <3>4, <3>5 DEF AddUser
  <2>2. CASE AgePool
    BY <2>2, Parts, AgeKeeps DEF AgePool
  <2>3. CASE EvictStale
    <3>1. Stale(pool) \subseteq pool
      BY DEF Stale
    <3> QED
      BY <2>3, <3>1, Parts, RemoveKeeps DEF EvictStale
  <2> QED
    BY <2>1, <2>2, <2>3
<1> QED
  BY <1>1, <1>2, Parts, OtherTypes

\* A peer's block takes transactions out of the pool.
LEMMA ExternalStep ==
    ASSUME AssemblyInv, NEW incl, incl \subseteq pool, AppendExternal(incl)
    PROVE  AssemblyInv'
<1>1. /\ UNCHANGED <<intake, unsent, queue, tick, forfeited>> /\ tip < MaxExternal /\ tip' = tip + 1
      /\ nonces' = [AfterBlock(incl) EXCEPT ![Funder] = @ + 1]
      /\ pool' = pool \ incl /\ index' = Untracked(incl, index)
  BY DEF AppendExternal
<1>2. tip' \in 0 .. MaxHeight /\ tip' < MaxHeight
  BY <1>1, Parts, Constants
<1>3. IsFiniteSet(incl)
  BY Parts, FS_Subset DEF PoolOK
<1>4. AfterBlock(incl) \in [Senders -> Nat]
  BY <1>3, Parts, AfterFacts
<1>5. nonces' \in [Senders -> Nat]
  BY <1>1, <1>4, Constants
<1>6. PoolOK(pool', index')
  BY <1>1, Parts, RemoveKeeps
<1>7. TickOK(tick', tip')
  BY <1>1, <1>2, Parts DEF TickOK
<1> QED
  BY <1>1, <1>2, <1>5, <1>6, <1>7, Parts, OtherTypes

\* A tick at one of its steps is busy.
LEMMA AtBusy ==
    ASSUME AssemblyInv, tick.at # "idle"
    PROVE  Busy(tick) /\ tip < MaxHeight
  BY Parts DEF TickOK, Idle

\* The tick begins.
LEMMA StartStep ==
    ASSUME AssemblyInv, StartTick
    PROVE  AssemblyInv'
<1> DEFINE own == BuildTxs(queue, BlockRewardDust(tip + 1), nonces[Funder])
           k == [at |-> "add", own |-> own, todo |-> own, drained |-> queue]
<1>1. /\ UNCHANGED <<intake, unsent, pool, index, nonces, forfeited, tip>> /\ tip < MaxHeight
      /\ tick' = k /\ queue' = [m \in Miners |-> 0]
  BY DEF StartTick, mempool, ledger
<1>2. \A t \in own : TxShape(t)
  <2>1. nonces[Funder] \in Nat
    BY Parts, Constants
  <2> QED
    BY <2>1, BuildFacts
<1> HIDE DEF own
<1>3. Busy(k)
  BY <1>2, Parts DEF Busy, TickFields
<1> HIDE DEF k
<1>4. TickOK(tick', tip') /\ PoolOK(pool', index')
  BY <1>1, <1>3, Parts DEF TickOK
<1>5. queue' \in [Miners -> Nat]
  BY <1>1
<1> QED
  BY <1>1, <1>4, <1>5, Parts, OtherTypes

\* The tick's next transaction enters the pool.
LEMMA AddOwnStep ==
    ASSUME AssemblyInv, AddOwn
    PROVE  AssemblyInv'
<1>1. /\ UNCHANGED <<intake, unsent, queue, tip, nonces, forfeited>>
      /\ tick.at = "add" /\ tick.todo # {} /\ ~Refused(NextOwn, pool, index)
      /\ tick' = [tick EXCEPT !.todo = @ \ {NextOwn}]
  BY DEF AddOwn, ledger
<1>2. PICK o \in AddOutcomes(NextOwn, pool, index) : pool' = o.pool /\ index' = o.index
  BY DEF AddOwn
<1>3. Busy(tick) /\ tip < MaxHeight
  BY <1>1, AtBusy
<1>4. TxShape(NextOwn)
  BY <1>1, <1>3, NextOwnFacts
<1>5. PoolOK(pool', index')
  BY <1>1, <1>2, <1>4, Parts, AddKeeps
<1>6. Busy(tick')
  BY <1>1, <1>3 DEF Busy, TickFields
<1>7. TickOK(tick', tip')
  BY <1>1, <1>3, <1>6 DEF TickOK
<1> QED
  BY <1>1, <1>5, <1>7, Parts, OtherTypes

\* The tick fails.
LEMMA FailStep ==
    ASSUME AssemblyInv, tick.at # "idle", FailTick
    PROVE  AssemblyInv'
<1> DEFINE own == {t \in pool : t.id \in IDs(tick.own \ tick.todo)}
<1>1. /\ UNCHANGED <<intake, unsent, tip, nonces, forfeited>>
      /\ pool' = WithoutOwn(pool, own) /\ index' = Untracked(own, index)
      /\ queue' = Requeued(tick.drained) /\ tick' = Idle
  BY DEF FailTick, ledger
<1>2. own \subseteq pool /\ WithoutOwn(pool, own) = pool \ own
  BY DEF WithoutOwn, IDs
<1> HIDE DEF own
<1>3. PoolOK(pool', index')
  BY <1>1, <1>2, Parts, RemoveKeeps
<1>4. tick.drained \in [Miners -> Nat]
  BY AtBusy DEF Busy
<1>5. queue' \in [Miners -> Nat]
  BY <1>1, <1>4, Parts DEF Requeued
<1>6. TickOK(tick', tip')
  BY <1>1 DEF TickOK
<1> QED
  BY <1>1, <1>3, <1>5, <1>6, Parts, OtherTypes

\* The batch leaves the pool.
LEMMA DrainStep ==
    ASSUME AssemblyInv, DrainPool
    PROVE  AssemblyInv'
<1>1. UNCHANGED <<intake, unsent, queue, tip, nonces, forfeited>> /\ tick.at = "add"
  BY DEF DrainPool, ledger
<1>2. PICK b \in Drainable(pool) :
          /\ pool' = pool \ b /\ index' = Untracked(b, index)
          /\ tick' = [at |-> "apply", own |-> tick.own, todo |-> {},
                      drained |-> tick.drained, batch |-> b]
  BY DEF DrainPool
<1>3. b \subseteq pool
  BY DEF Drainable
<1>4. IsFiniteSet(b) /\ \A t \in b : TxShape(t)
  BY <1>3, Parts, FS_Subset DEF PoolOK
<1>5. PoolOK(pool', index')
  BY <1>2, <1>3, Parts, RemoveKeeps
<1>6. Busy(tick) /\ tip < MaxHeight
  BY <1>1, AtBusy
<1>7. Busy(tick')
  BY <1>2, <1>4, <1>6 DEF Busy, TickFields
<1>8. TickOK(tick', tip')
  BY <1>1, <1>6, <1>7 DEF TickOK
<1> QED
  BY <1>1, <1>5, <1>8, Parts, OtherTypes

\* The block is sealed.
LEMMA SealStep ==
    ASSUME AssemblyInv, SealBlock
    PROVE  AssemblyInv'
<1> DEFINE incl == Included(tick.batch)
<1>1. /\ UNCHANGED <<intake, unsent, pool, index>> /\ tick.at = "apply"
      /\ tip' = tip + 1 /\ nonces' = AfterBlock(incl) /\ tick' = Idle
      /\ queue' = Requeued(Unpaid(incl))
      /\ forfeited' = [m \in Miners |-> forfeited[m] + Shareless[m]]
  BY DEF SealBlock, mempool
<1>2. Busy(tick) /\ tip < MaxHeight
  BY <1>1, AtBusy
<1>3. tip' \in 0 .. MaxHeight
  BY <1>1, <1>2, Parts, Constants
<1>4. IsFiniteSet(tick.batch) /\ tick.drained \in [Miners -> Nat]
  BY <1>1, <1>2 DEF Busy
<1>5. IsFiniteSet(incl)
  BY <1>4, FS_Subset DEF Included
<1> HIDE DEF incl
<1>6. nonces' \in [Senders -> Nat]
  BY <1>1, <1>5, Parts, AfterFacts
<1>7. \A m \in Miners : Unpaid(incl)[m] \in Nat /\ Shareless[m] \in Nat
  BY <1>4 DEF Unpaid, Shareless
<1>8. queue' \in [Miners -> Nat] /\ forfeited' \in [Miners -> Nat]
  BY <1>1, <1>7, Parts DEF Requeued
<1>9. TickOK(tick', tip') /\ PoolOK(pool', index')
  BY <1>1, Parts DEF TickOK
<1> QED
  BY <1>1, <1>3, <1>6, <1>8, <1>9, Parts, OtherTypes

\* The batch goes back to the pool.
LEMMA RestoreSteps ==
    ASSUME AssemblyInv, BatchFails \/ \E t \in tick.batch : RestoreOne(t)
    PROVE  AssemblyInv'
<1>1. UNCHANGED <<intake, unsent, queue, tip, nonces, forfeited>>
  BY DEF BatchFails, RestoreOne, ledger
<1>2. CASE BatchFails
  <2>1. /\ tick.at = "apply" /\ tick' = [tick EXCEPT !.at = "restore"]
        /\ pool' = pool /\ index' = index
    BY <1>2 DEF BatchFails, mempool
  <2>2. Busy(tick) /\ tip < MaxHeight
    BY <2>1, AtBusy
  <2>3. Busy(tick')
    BY <2>1, <2>2 DEF Busy, TickFields
  <2>4. TickOK(tick', tip') /\ PoolOK(pool', index')
    BY <1>1, <2>1, <2>2, <2>3, Parts DEF TickOK
  <2> QED
    BY <1>1, <2>4, Parts, OtherTypes
<1>3. CASE \E t \in tick.batch : RestoreOne(t)
  <2>1. PICK t \in tick.batch : RestoreOne(t)
    BY <1>3
  <2> DEFINE at == IF tick.batch = {t} THEN "failed" ELSE tick.at
  <2>2. tick.at = "restore" /\ tick' = [tick EXCEPT !.batch = @ \ {t}, !.at = at]
    BY <2>1 DEF RestoreOne
  <2>3. Busy(tick) /\ tip < MaxHeight
    BY <2>2, AtBusy
  <2>4. TxShape(t) /\ IsFiniteSet(tick.batch \ {t})
    BY <2>2, <2>3, FS_Subset DEF Busy
  <2>5. at \in {"restore", "failed"}
    BY <2>2
  <2> HIDE DEF at
  <2>6. Busy(tick')
    BY <2>2, <2>3, <2>4, <2>5 DEF Busy, TickFields
  <2>7. PoolOK(pool', index')
    <3>1. CASE ~Refused(t, pool, index) /\ \E o \in AddOutcomes(t, pool, index) : pool' = o.pool /\ index' = o.index
      BY <2>4, <3>1, Parts, AddKeeps
    <3>2. CASE UNCHANGED mempool
      BY <3>2, Parts DEF mempool
    <3> QED
      BY <2>1, <3>1, <3>2 DEF RestoreOne
  <2>8. TickOK(tick', tip')
    BY <1>1, <2>3, <2>6 DEF TickOK
  <2> QED
    BY <1>1, <2>7, <2>8, Parts, OtherTypes
<1> QED
  BY <1>2, <1>3

LEMMA AssemblyNext == AssemblyInv /\ IntakeInv /\ [Next]_vars => AssemblyInv'
<1> SUFFICES ASSUME AssemblyInv, IntakeInv, [Next]_vars PROVE AssemblyInv'
  OBVIOUS
<1>1. ASSUME NEW s \in Submitters, NEW p \in Proofs, Submit(s, p) PROVE AssemblyInv'
  BY <1>1, IntakeSteps
<1>2. ASSUME NEW s \in Submitters, CheckProof(s) \/ AcceptProof(s) \/ RejectProof(s) PROVE AssemblyInv'
  BY <1>2, IntakeSteps
<1>3. CASE (\E t \in UserTxs : AddUser(t)) \/ AgePool \/ EvictStale
  BY <1>3, PoolSteps
<1>4. CASE AppendExternal({})
  BY <1>4, ExternalStep
<1>5. ASSUME NEW t \in pool, AppendExternal({t}) PROVE AssemblyInv'
  BY <1>5, ExternalStep
<1>6. CASE StartTick
  BY <1>6, StartStep
<1>7. CASE AddOwn
  BY <1>7, AddOwnStep
<1>8. CASE AddOwnRefused \/ ProduceRefused \/ BlockFailed
  <2>1. tick.at # "idle" /\ FailTick
    BY <1>8 DEF AddOwnRefused, ProduceRefused, BlockFailed
  <2> QED
    BY <2>1, FailStep
<1>9. CASE DrainPool
  BY <1>9, DrainStep
<1>10. CASE SealBlock
  BY <1>10, SealStep
<1>11. CASE BatchFails \/ \E t \in tick.batch : RestoreOne(t)
  BY <1>11, RestoreSteps
<1>12. CASE UNCHANGED vars
  <2>1. UNCHANGED <<intake, tip, nonces, pool, index, tick, unsent, queue, forfeited>>
    BY <1>12 DEF vars, intake
  <2> QED
    BY <2>1, Parts, OtherTypes
<1> QED
  BY <1>1, <1>2, <1>3, <1>4, <1>5, <1>6, <1>7, <1>8, <1>9, <1>10, <1>11, <1>12
     DEF Next, DriverStep

\* The inductive invariant of the pool and the driver.
THEOREM AssemblyCorrect == Spec => []AssemblyInv
  BY AssemblyInit, AssemblyNext, IntakeCorrect, PTL DEF Spec

\* The pool stays within MaxSize and its nonce index names exactly the nonces
\* of its contract-tagged transactions, whatever handlers, the sweeper, peers'
\* blocks and a failed tick's removals and restorations do to it in between.
THEOREM PoolCorrect == Spec => []PoolInv
<1>1. AssemblyInv => PoolInv
  <2> SUFFICES ASSUME AssemblyInv PROVE PoolInv
    OBVIOUS
  <2>1. TypeOK /\ PoolOK(pool, index)
    BY DEF AssemblyInv
  <2>2. Cardinality(index) = Cardinality(TrackedOf(pool))
    BY <2>1, IndexCounts
  <2>3. index = {Key(t) : t \in TrackedOf(pool)}
    BY <2>1 DEF PoolOK
  <2>4. NonceIndexMatchesPool
    BY <2>2, <2>3 DEF NonceIndexMatchesPool, TrackedOf
  <2> QED
    BY <2>1, <2>4 DEF PoolInv
<1> QED
  BY <1>1, AssemblyCorrect, PTL

----------------------------------------------------------------------------
(* Sums over finite sets.  The induction is by least counterexample, which *)
(* needs no operator parameter.                                            *)

\* A set of subsets of a finite set has a least element.
LEMMA LeastSet ==
    ASSUME NEW S, IsFiniteSet(S), NEW F, F \subseteq SUBSET S, F # {}
    PROVE  \E T \in F : \A U \in F : U \subseteq T => U = T
<1>1. IsWellFoundedOn(StrictSubsetOrdering(S), FiniteSubsetsOf(S))
  BY FS_StrictSubsetOrderingWellFounded
<1>2. FiniteSubsetsOf(S) = SUBSET S
  BY FS_FiniteSubsetsOfFinite
<1>3. PICK T \in F : \A U \in F : ~(<<U, T>> \in StrictSubsetOrdering(S))
  BY <1>1, <1>2, WFMin
<1>4. ASSUME NEW U \in F, U \subseteq T, U # T PROVE FALSE
  <2>1. <<U, T>> \in StrictSubsetOrdering(S)
    BY <1>4 DEF StrictSubsetOrdering
  <2> QED
    BY <2>1, <1>3
<1> QED
  BY <1>4

\* The element that a fold takes first.
Pick(s) == CHOOSE x \in s : TRUE

\* g sums f over the subsets of S.
SumTable(g, f, S) == g = [s \in SUBSET S |-> IF s = {} THEN 0 ELSE f[Pick(s)] + g[s \ {Pick(s)}]]

\* A sum is the value of such a function.
LEMMA SumIs ==
    ASSUME NEW f, NEW S
    PROVE  SumFunctionOnSet(f, S) = (CHOOSE g : SumTable(g, f, S))[S]
  BY DEF SumFunctionOnSet, FoldFunctionOnSet, MapThenFoldSet, SumTable, Pick

\* One summand of such a function.
LEMMA TableAt ==
    ASSUME NEW f, NEW S, NEW g, SumTable(g, f, S), NEW s \in SUBSET S
    PROVE  /\ s = {} => g[s] = 0
           /\ s # {} => /\ Pick(s) \in s /\ s \ {Pick(s)} \in SUBSET S
                       /\ g[s] = f[Pick(s)] + g[s \ {Pick(s)}]
<1>1. s # {} => Pick(s) \in s
  BY DEF Pick
<1>2. g[s] = IF s = {} THEN 0 ELSE f[Pick(s)] + g[s \ {Pick(s)}]
  BY DEF SumTable
<1> QED
  BY <1>1, <1>2

\* Two such functions agree where both are defined.
LEMMA TableAgree ==
    ASSUME NEW f, NEW S, IsFiniteSet(S), NEW T, NEW g, SumTable(g, f, S), NEW h, SumTable(h, f, T),
           NEW u, u \subseteq S, u \subseteq T
    PROVE  g[u] = h[u]
<1> DEFINE F == {s \in SUBSET S : s \subseteq T /\ g[s] # h[s]}
<1>1. ASSUME F # {} PROVE FALSE
  <2>1. PICK s \in F : \A r \in F : r \subseteq s => r = s
    <3> HIDE DEF F
    <3>1. F \subseteq SUBSET S
      BY DEF F
    <3> QED
      BY <1>1, <3>1, LeastSet
  <2>2. s \in SUBSET S /\ s \in SUBSET T /\ g[s] # h[s]
    BY <2>1
  <2> DEFINE x == Pick(s)
  <2> HIDE DEF F, x
  <2>a. /\ s = {} => g[s] = 0
        /\ s # {} => x \in s /\ s \ {x} \in SUBSET S /\ g[s] = f[x] + g[s \ {x}]
    BY <2>2, TableAt DEF x
  <2>b. /\ s = {} => h[s] = 0
        /\ s # {} => s \ {x} \in SUBSET T /\ h[s] = f[x] + h[s \ {x}]
    BY <2>2, TableAt DEF x
  <2>3. s # {}
    BY <2>2, <2>a, <2>b
  <2>4. /\ x \in s /\ s \ {x} \in SUBSET S /\ s \ {x} \in SUBSET T
        /\ g[s] = f[x] + g[s \ {x}] /\ h[s] = f[x] + h[s \ {x}]
    BY <2>a, <2>b, <2>3
  <2>5. s \ {x} \notin F
    BY <2>1, <2>4
  <2> QED
    BY <2>2, <2>4, <2>5 DEF F
<1> QED
  BY <1>1

\* There is one for every finite set.
LEMMA TableExist ==
    ASSUME NEW f, NEW S, IsFiniteSet(S)
    PROVE  \E g : SumTable(g, f, S)
<1> DEFINE F == {U \in SUBSET S : ~\E g : SumTable(g, f, U)}
<1>1. ASSUME F # {} PROVE FALSE
  <2>1. PICK T \in F : \A r \in F : r \subseteq T => r = T
    <3> HIDE DEF F
    <3>1. F \subseteq SUBSET S
      BY DEF F
    <3> QED
      BY <1>1, <3>1, LeastSet
  <2>2. T \in SUBSET S /\ ~\E g : SumTable(g, f, T)
    BY <2>1
  <2> DEFINE G(U) == CHOOSE g : SumTable(g, f, U)
             h == [s \in SUBSET T |-> IF s = {} THEN 0
                     ELSE f[Pick(s)] + G(s \ {Pick(s)})[s \ {Pick(s)}]]
  <2>3. ASSUME NEW U \in SUBSET T, U # T PROVE IsFiniteSet(U) /\ SumTable(G(U), f, U)
    <3>1. U \in SUBSET S /\ U \notin F
      BY <2>1, <2>2, <2>3
    <3>2. \E g : SumTable(g, f, U)
      BY <3>1
    <3> QED
      BY <3>1, <3>2, FS_Subset
  <2>4. ASSUME NEW U \in SUBSET T, U # T PROVE h[U] = G(U)[U]
    <3>1. IsFiniteSet(U) /\ SumTable(G(U), f, U)
      BY <2>3, <2>4
    <3> DEFINE V == U \ {Pick(U)}
    <3>2. CASE U = {}
      <4>1. h[U] = 0
        BY <3>2
      <4>2. G(U)[U] = 0
        <5> HIDE DEF G
        <5>1. U \in SUBSET U
          OBVIOUS
        <5> QED
          BY <3>1, <3>2, <5>1, TableAt
      <4> QED BY <4>1, <4>2
    <3>3. CASE U # {}
      <4>1. h[U] = f[Pick(U)] + G(V)[V]
        BY <3>3
      <4> HIDE DEF G, h
      <4>2. Pick(U) \in U /\ V \in SUBSET U /\ G(U)[U] = f[Pick(U)] + G(U)[V]
        BY <3>1, <3>3, TableAt
      <4>3. V \in SUBSET T /\ V # T
        BY <4>2
      <4>4. SumTable(G(V), f, V)
        BY <2>3, <4>3
      <4>5. G(U)[V] = G(V)[V]
        BY <3>1, <4>2, <4>4, TableAgree
      <4> QED
        BY <4>1, <4>2, <4>5
    <3> QED
      BY <3>2, <3>3
  <2>5. ASSUME NEW s \in SUBSET T
        PROVE  h[s] = IF s = {} THEN 0 ELSE f[Pick(s)] + h[s \ {Pick(s)}]
    <3> DEFINE V == s \ {Pick(s)}
    <3>1. s # {} => h[s] = f[Pick(s)] + G(V)[V]
      OBVIOUS
    <3>2. s = {} => h[s] = 0
      OBVIOUS
    <3>3. s # {} => V \in SUBSET T /\ V # T
      BY DEF Pick
    <3> HIDE DEF G, h
    <3>4. s # {} => h[V] = G(V)[V]
      BY <3>3, <2>4
    <3> QED
      BY <3>1, <3>2, <3>4
  <2>6. h = [s \in SUBSET T |-> IF s = {} THEN 0 ELSE f[Pick(s)] + h[s \ {Pick(s)}]]
    <3>1. h = [s \in SUBSET T |-> h[s]]
      OBVIOUS
    <3> HIDE DEF h
    <3> QED
      BY <3>1, <2>5
  <2> QED
    BY <2>2, <2>6 DEF SumTable
<1> QED
  BY <1>1

\* The recursion that a sum follows.
LEMMA SumStep ==
    ASSUME NEW f, NEW S, IsFiniteSet(S)
    PROVE  /\ S = {} => SumFunctionOnSet(f, S) = 0
           /\ S # {} => /\ Pick(S) \in S /\ SumFunctionOnSet(f, S) = f[Pick(S)] + SumFunctionOnSet(f, S \ {Pick(S)})
<1> DEFINE G(U) == CHOOSE g : SumTable(g, f, U)
           V == S \ {Pick(S)}
<1>1. IsFiniteSet(V) /\ V \in SUBSET S
  BY FS_Subset
<1>2. SumTable(G(S), f, S) /\ SumTable(G(V), f, V)
  BY <1>1, TableExist
<1>3. SumFunctionOnSet(f, S) = G(S)[S] /\ SumFunctionOnSet(f, V) = G(V)[V]
  BY SumIs
<1> HIDE DEF G
<1>4. G(S)[V] = G(V)[V]
  BY <1>1, <1>2, TableAgree
<1>5. S \in SUBSET S
  OBVIOUS
<1>6. /\ S = {} => G(S)[S] = 0
      /\ S # {} => Pick(S) \in S /\ G(S)[S] = f[Pick(S)] + G(S)[V]
  BY <1>2, <1>5, TableAt
<1> QED
  BY <1>3, <1>4, <1>6

\* Sums of natural numbers are natural numbers.
LEMMA SumNat ==
    ASSUME NEW f, NEW S, IsFiniteSet(S), \A x \in S : f[x] \in Nat
    PROVE  SumFunctionOnSet(f, S) \in Nat
<1> DEFINE F == {s \in SUBSET S : SumFunctionOnSet(f, s) \notin Nat}
<1>1. ASSUME F # {} PROVE FALSE
  <2>1. PICK s \in F : \A r \in F : r \subseteq s => r = s
    <3> HIDE DEF F
    <3>1. F \subseteq SUBSET S
      BY DEF F
    <3> QED
      BY <1>1, <3>1, LeastSet
  <2>2. IsFiniteSet(s) /\ s \in SUBSET S
    BY FS_Subset
  <2>a. s = {} => SumFunctionOnSet(f, s) = 0
    BY <2>2, SumStep
  <2>b. SumFunctionOnSet(f, s) \notin Nat /\ 0 \in Nat
    BY <2>1
  <2>3. s # {}
    BY <2>a, <2>b
  <2>4. Pick(s) \in s /\ SumFunctionOnSet(f, s) = f[Pick(s)] + SumFunctionOnSet(f, s \ {Pick(s)})
    BY <2>2, <2>3, SumStep
  <2>5. s \ {Pick(s)} \notin F
    BY <2>1, <2>4
  <2>6. SumFunctionOnSet(f, s \ {Pick(s)}) \in Nat /\ f[Pick(s)] \in Nat
    BY <2>2, <2>4, <2>5
  <2> QED
    BY <2>1, <2>4, <2>6
<1> QED
  BY <1>1

\* Only the values on the set count.
LEMMA SumSame ==
    ASSUME NEW f, NEW g, NEW S, IsFiniteSet(S), \A x \in S : f[x] = g[x]
    PROVE  SumFunctionOnSet(f, S) = SumFunctionOnSet(g, S)
<1> DEFINE F == {s \in SUBSET S : SumFunctionOnSet(f, s) # SumFunctionOnSet(g, s)}
<1>1. ASSUME F # {} PROVE FALSE
  <2>1. PICK s \in F : \A r \in F : r \subseteq s => r = s
    <3> HIDE DEF F
    <3>1. F \subseteq SUBSET S
      BY DEF F
    <3> QED
      BY <1>1, <3>1, LeastSet
  <2>2. IsFiniteSet(s) /\ s \in SUBSET S
    BY FS_Subset
  <2>3. s # {}
    BY <2>1, <2>2, SumStep
  <2>4. /\ Pick(s) \in s /\ SumFunctionOnSet(f, s) = f[Pick(s)] + SumFunctionOnSet(f, s \ {Pick(s)})
        /\ SumFunctionOnSet(g, s) = g[Pick(s)] + SumFunctionOnSet(g, s \ {Pick(s)})
    BY <2>2, <2>3, SumStep
  <2>5. s \ {Pick(s)} \notin F
    BY <2>1, <2>4
  <2>6. SumFunctionOnSet(f, s \ {Pick(s)}) = SumFunctionOnSet(g, s \ {Pick(s)}) /\ f[Pick(s)] = g[Pick(s)]
    BY <2>2, <2>4, <2>5
  <2> QED
    BY <2>1, <2>4, <2>6
<1> QED
  BY <1>1

\* Any element may be taken out first.
LEMMA SumRemove ==
    ASSUME NEW f, NEW S, IsFiniteSet(S), \A x \in S : f[x] \in Nat, NEW x \in S
    PROVE  SumFunctionOnSet(f, S) = f[x] + SumFunctionOnSet(f, S \ {x})
<1> DEFINE F == {s \in SUBSET S : \E y \in s : SumFunctionOnSet(f, s) # f[y] + SumFunctionOnSet(f, s \ {y})}
<1>1. ASSUME F # {} PROVE FALSE
  <2>1. PICK s \in F : \A r \in F : r \subseteq s => r = s
    <3> HIDE DEF F
    <3>1. F \subseteq SUBSET S
      BY DEF F
    <3> QED
      BY <1>1, <3>1, LeastSet
  <2>2. PICK y \in s : SumFunctionOnSet(f, s) # f[y] + SumFunctionOnSet(f, s \ {y})
    BY <2>1
  <2> DEFINE p == Pick(s)
             u == s \ {p}
             v == s \ {y}
             w == (s \ {p}) \ {y}
  <2>3. IsFiniteSet(s) /\ s \in SUBSET S /\ s # {}
    BY <2>1, <2>2, FS_Subset
  <2>4. p \in s /\ SumFunctionOnSet(f, s) = f[p] + SumFunctionOnSet(f, u)
    BY <2>3, SumStep
  <2>5. p # y
    BY <2>2, <2>4
  <2>6. u \notin F /\ v \notin F /\ u \in SUBSET S /\ v \in SUBSET S /\ y \in u /\ p \in v
    BY <2>1, <2>2, <2>3, <2>4, <2>5
  <2>7. SumFunctionOnSet(f, u) = f[y] + SumFunctionOnSet(f, w)
    BY <2>6
  <2>8. v \ {p} = w
    OBVIOUS
  <2>9. SumFunctionOnSet(f, v) = f[p] + SumFunctionOnSet(f, w)
    BY <2>6, <2>8
  <2>10. IsFiniteSet(w) /\ w \in SUBSET S
    BY <2>3, FS_Subset
  <2>11. SumFunctionOnSet(f, w) \in Nat /\ f[p] \in Nat /\ f[y] \in Nat
    BY <2>2, <2>3, <2>4, <2>10, SumNat
  <2> HIDE DEF p, u, v, w
  <2> QED
    BY <2>2, <2>4, <2>7, <2>9, <2>11 DEF v
<1> QED
  BY <1>1
\* Sums of functions that differ at one point.
LEMMA SumChange ==
    ASSUME NEW f, NEW g, NEW S, IsFiniteSet(S), NEW x \in S,
           \A y \in S : f[y] \in Nat /\ g[y] \in Nat, \A y \in S : y # x => f[y] = g[y]
    PROVE  SumFunctionOnSet(g, S) = SumFunctionOnSet(f, S) - f[x] + g[x]
<1> DEFINE R == S \ {x}
<1>1. IsFiniteSet(R) /\ R \subseteq S
  BY FS_Subset
<1>2. SumFunctionOnSet(f, R) = SumFunctionOnSet(g, R)
  BY <1>1, SumSame
<1>3. SumFunctionOnSet(f, S) = f[x] + SumFunctionOnSet(f, R) /\ SumFunctionOnSet(g, S) = g[x] + SumFunctionOnSet(g, R)
  BY SumRemove
<1>4. SumFunctionOnSet(f, R) \in Nat /\ f[x] \in Nat /\ g[x] \in Nat
  BY <1>1, SumNat
<1> HIDE DEF R
<1> QED
  BY <1>2, <1>3, <1>4

\* The sum of a sum.
LEMMA SumPlus ==
    ASSUME NEW f, NEW g, NEW h, NEW S, IsFiniteSet(S),
           \A x \in S : f[x] \in Nat /\ g[x] \in Nat /\ h[x] = f[x] + g[x]
    PROVE  SumFunctionOnSet(h, S) = SumFunctionOnSet(f, S) + SumFunctionOnSet(g, S)
<1> DEFINE F == {s \in SUBSET S : SumFunctionOnSet(h, s) # SumFunctionOnSet(f, s) + SumFunctionOnSet(g, s)}
<1>1. ASSUME F # {} PROVE FALSE
  <2>1. PICK s \in F : \A r \in F : r \subseteq s => r = s
    <3> HIDE DEF F
    <3>1. F \subseteq SUBSET S
      BY DEF F
    <3> QED
      BY <1>1, <3>1, LeastSet
  <2>2. IsFiniteSet(s) /\ s \in SUBSET S /\ SumFunctionOnSet(h, s) # SumFunctionOnSet(f, s) + SumFunctionOnSet(g, s)
    BY <2>1, FS_Subset
  <2> DEFINE x == Pick(s)
             u == s \ {x}
  <2>3. /\ s = {} => SumFunctionOnSet(f, s) = 0 /\ SumFunctionOnSet(g, s) = 0 /\ SumFunctionOnSet(h, s) = 0
        /\ s # {} => /\ x \in s /\ SumFunctionOnSet(f, s) = f[x] + SumFunctionOnSet(f, u)
                    /\ SumFunctionOnSet(g, s) = g[x] + SumFunctionOnSet(g, u) /\ SumFunctionOnSet(h, s) = h[x] + SumFunctionOnSet(h, u)
    BY <2>2, SumStep
  <2>4. x \in s
    <3> HIDE DEF x, u
    <3> QED
      BY <2>2, <2>3
  <2>5. u \in SUBSET S /\ u \notin F /\ IsFiniteSet(u)
    BY <2>1, <2>2, <2>4, FS_Subset
  <2>6. SumFunctionOnSet(h, u) = SumFunctionOnSet(f, u) + SumFunctionOnSet(g, u)
    BY <2>5
  <2>7. SumFunctionOnSet(f, u) \in Nat /\ SumFunctionOnSet(g, u) \in Nat /\ f[x] \in Nat /\ g[x] \in Nat /\ h[x] = f[x] + g[x]
    BY <2>2, <2>4, <2>5, SumNat
  <2> HIDE DEF x, u, F
  <2> QED
    BY <2>2, <2>3, <2>4, <2>6, <2>7
<1> QED
  BY <1>1

\* What is 0 outside a subset sums up over the subset.
LEMMA SumWithin ==
    ASSUME NEW f, NEW g, NEW S, IsFiniteSet(S), NEW K \in SUBSET S,
           \A x \in K : f[x] \in Nat,
           \A x \in S : g[x] = IF x \in K THEN f[x] ELSE 0
    PROVE  SumFunctionOnSet(g, S) = SumFunctionOnSet(f, K)
<1> DEFINE F == {s \in SUBSET S : SumFunctionOnSet(g, s) # SumFunctionOnSet(f, s \cap K)}
<1>1. ASSUME F # {} PROVE FALSE
  <2>1. PICK s \in F : \A r \in F : r \subseteq s => r = s
    <3> HIDE DEF F
    <3>1. F \subseteq SUBSET S
      BY DEF F
    <3> QED
      BY <1>1, <3>1, LeastSet
  <2>2. IsFiniteSet(s) /\ s \in SUBSET S /\ SumFunctionOnSet(g, s) # SumFunctionOnSet(f, s \cap K)
    BY <2>1, FS_Subset
  <2> DEFINE x == Pick(s)
             u == s \ {x}
  <2>3. /\ s = {} => SumFunctionOnSet(g, s) = 0
        /\ s # {} => x \in s /\ SumFunctionOnSet(g, s) = g[x] + SumFunctionOnSet(g, u)
    BY <2>2, SumStep
  <2>4. CASE s = {}
    <3>1. s \cap K = {}
      BY <2>4
    <3>2. SumFunctionOnSet(f, s \cap K) = 0
      BY <3>1, FS_EmptySet, SumStep
    <3> HIDE DEF x, u
    <3> QED
      BY <2>2, <2>3, <2>4, <3>2
  <2>5. CASE s # {}
    <3>1. u \in SUBSET S /\ u \notin F /\ x \in s
      BY <2>1, <2>2, <2>3, <2>5
    <3>2. SumFunctionOnSet(g, u) = SumFunctionOnSet(f, u \cap K)
      BY <3>1
    <3>3. IsFiniteSet(u \cap K) /\ IsFiniteSet(s \cap K)
      BY <2>2, <3>1, FS_Subset
    <3>4. SumFunctionOnSet(f, u \cap K) \in Nat
      BY <3>3, SumNat
    <3>5. CASE x \in K
      <4>1. (s \cap K) \ {x} = u \cap K /\ x \in s \cap K
        BY <3>1, <3>5
      <4>2. \A y \in s \cap K : f[y] \in Nat
        OBVIOUS
      <4>3. SumFunctionOnSet(f, s \cap K) = f[x] + SumFunctionOnSet(f, u \cap K)
        <5> HIDE DEF x, u
        <5> QED
          BY <3>3, <4>1, <4>2, SumRemove
      <4>4. g[x] = f[x]
        BY <2>2, <3>1, <3>5
      <4> HIDE DEF x, u
      <4> QED
        BY <2>2, <2>3, <2>5, <3>2, <4>3, <4>4
    <3>6. CASE x \notin K
      <4>1. s \cap K = u \cap K
        BY <3>6
      <4>2. g[x] = 0
        BY <2>2, <3>1, <3>6
      <4>3. 0 + SumFunctionOnSet(f, u \cap K) = SumFunctionOnSet(f, u \cap K)
        BY <3>4
      <4>4. SumFunctionOnSet(g, s) = SumFunctionOnSet(f, u \cap K)
        BY <2>3, <2>5, <3>2, <4>2, <4>3
      <4>5. SumFunctionOnSet(f, s \cap K) = SumFunctionOnSet(f, u \cap K)
        BY <4>1
      <4> QED
        BY <2>2, <4>4, <4>5
    <3> QED
      BY <3>5, <3>6
  <2> QED
    BY <2>4, <2>5
<1>2. S \cap K = K
  OBVIOUS
<1> QED
  BY <1>1, <1>2

\* A function with one value other than 0.
LEMMA SumOne ==
    ASSUME NEW g, NEW S, IsFiniteSet(S), NEW p \in S, NEW v \in Nat,
           \A x \in S : g[x] = IF x = p THEN v ELSE 0
    PROVE  SumFunctionOnSet(g, S) = v
<1>1. SumFunctionOnSet(g, S) = g[p] + SumFunctionOnSet(g, S \ {p})
  <2>1. \A x \in S : g[x] \in Nat
    OBVIOUS
  <2> QED
    BY <2>1, SumRemove
<1> DEFINE R == S \ {p}
           z == [x \in R |-> 0]
<1>2. IsFiniteSet(R) /\ R \subseteq S
  BY FS_Subset
<1>3. SumFunctionOnSet(g, R) = 0
  <2>1. {} \in SUBSET R /\ \A x \in {} : z[x] \in Nat
    OBVIOUS
  <2>2. \A x \in R : g[x] = IF x \in {} THEN z[x] ELSE 0
    OBVIOUS
  <2> HIDE DEF R, z
  <2>3. SumFunctionOnSet(g, R) = SumFunctionOnSet(z, {})
    BY <1>2, <2>1, <2>2, SumWithin
  <2> QED
    BY <2>3, FS_EmptySet, SumStep
<1> HIDE DEF R, z
<1> QED
  BY <1>1, <1>3 DEF R

\* No summand exceeds the sum.
LEMMA SumMember ==
    ASSUME NEW f, NEW S, IsFiniteSet(S), \A y \in S : f[y] \in Nat, NEW x \in S
    PROVE  f[x] <= SumFunctionOnSet(f, S)
<1>1. SumFunctionOnSet(f, S) = f[x] + SumFunctionOnSet(f, S \ {x})
  BY SumRemove
<1>2. IsFiniteSet(S \ {x}) /\ \A y \in S \ {x} : f[y] \in Nat
  BY FS_Subset
<1>3. SumFunctionOnSet(f, S \ {x}) \in Nat /\ f[x] \in Nat
  BY <1>2, SumNat
<1> QED
  BY <1>1, <1>3

\* The sum of a function is that over its domain.
LEMMA SumAll ==
    ASSUME NEW f, NEW S, DOMAIN f = S
    PROVE  SumFunction(f) = SumFunctionOnSet(f, S)
  BY DEF SumFunction

\* 1 << n.
Pow(n) == 2 ^ n

LEMMA PowSets ==
    ASSUME NEW S, IsFiniteSet(S)
    PROVE  Cardinality(SUBSET S) = Pow(Cardinality(S)) /\ Pow(Cardinality(S)) \in Nat
<1>1. IsFiniteSet(SUBSET S) /\ Cardinality(SUBSET S) = 2 ^ Cardinality(S)
  BY FS_SUBSET
<1>2. Cardinality(SUBSET S) \in Nat
  BY <1>1, FS_CardinalityType
<1> QED
  BY <1>1, <1>2 DEF Pow

LEMMA PowFacts ==
    /\ Pow(0) = 1
    /\ \A n \in Nat : Pow(n) \in Nat \ {0} /\ Pow(n + 1) = 2 * Pow(n)
<1>1. Pow(0) = 1
  <2>1. IsFiniteSet({}) /\ Cardinality({}) = 0
    BY FS_EmptySet
  <2>2. SUBSET {} = {{}}
    OBVIOUS
  <2>3. Cardinality({{}}) = 1
    BY FS_Singleton
  <2>4. Cardinality(SUBSET {}) = Pow(Cardinality({}))
    BY <2>1, PowSets
  <2> QED
    BY <2>1, <2>2, <2>3, <2>4
<1>2. ASSUME NEW n \in Nat PROVE Pow(n) \in Nat \ {0} /\ Pow(n + 1) = 2 * Pow(n)
  <2> DEFINE S == 1 .. n
             x == n + 1
             T == 1 .. n + 1
             A == SUBSET S
             B == {U \cup {x} : U \in A}
             f == [U \in A |-> U \cup {x}]
  <2>1. IsFiniteSet(S) /\ Cardinality(S) = n /\ IsFiniteSet(T) /\ Cardinality(T) = n + 1
    <3>1. /\ IsFiniteSet(1 .. n) /\ Cardinality(1 .. n) = IF 1 > n THEN 0 ELSE n - 1 + 1
          /\ IsFiniteSet(1 .. n + 1) /\ Cardinality(1 .. n + 1) = IF 1 > n + 1 THEN 0 ELSE n + 1 - 1 + 1
      BY FS_Interval
    <3> QED
      BY <3>1
  <2>2. x \notin S /\ T = S \cup {x}
    OBVIOUS
  <2>3. IsFiniteSet(A) /\ Cardinality(A) = Pow(n) /\ Pow(n) \in Nat
    BY <2>1, FS_SUBSET, PowSets
  <2>4. Cardinality(SUBSET T) = Pow(n + 1) /\ Pow(n + 1) \in Nat
    BY <2>1, PowSets
  <2> HIDE DEF S, T, x
  <2>5. f \in [A -> B] /\ (\A V \in B : \E U \in A : f[U] = V) /\ \A U, V \in A : f[U] = f[V] => U = V
    <3>1. \A U, V \in A : U \cup {x} = V \cup {x} => U = V
      BY <2>2
    <3>2. \A V \in B : \E U \in A : f[U] = V
      OBVIOUS
    <3>3. f \in [A -> B]
      OBVIOUS
    <3>4. \A U \in A : f[U] = U \cup {x}
      OBVIOUS
    <3> HIDE DEF f, A, B
    <3> QED
      BY <3>1, <3>2, <3>3, <3>4
  <2>6. SUBSET T = A \cup B /\ A \cap B = {}
    <3>1. ASSUME NEW U \in SUBSET T PROVE U \in A \cup B
      <4>1. CASE x \in U
        <5>1. U \ {x} \in A /\ U = (U \ {x}) \cup {x}
          BY <2>2, <4>1
        <5> QED
          BY <5>1
      <4>2. CASE x \notin U
        BY <2>2, <4>2
      <4> QED
        BY <4>1, <4>2
    <3>2. ASSUME NEW U \in A \cup B PROVE U \in SUBSET T
      BY <2>2
    <3>3. A \cap B = {}
      BY <2>2
    <3> QED
      BY <3>1, <3>2, <3>3
  <2> HIDE DEF f, A, B
  <2>7. f \in Surjection(A, B) /\ f \in Injection(A, B)
    BY <2>5 DEF Surjection, Injection, IsInjective
  <2>8. IsFiniteSet(B) /\ Cardinality(B) = Pow(n)
    BY <2>3, <2>7, FS_Surjection
  <2>9. Cardinality(A \cup B) = Cardinality(A) + Cardinality(B) - Cardinality({})
    BY <2>3, <2>6, <2>8, FS_Union
  <2>10. Pow(n) # 0
    <3>1. {} \in A
      BY DEF A
    <3> QED
      BY <2>3, <3>1, FS_EmptySet
  <2>11. Cardinality({}) = 0
    BY FS_EmptySet
  <2>12. Pow(n + 1) = Pow(n) + Pow(n) - 0
    BY <2>3, <2>4, <2>6, <2>8, <2>9, <2>11
  <2> QED
    BY <2>3, <2>10, <2>12
<1> QED
  BY <1>1, <1>2

----------------------------------------------------------------------------
(* The emission schedule.                                                  *)

\* A quotient is the largest number whose product fits.
LEMMA Quotient ==
    ASSUME NEW a \in Nat, NEW b \in Nat \ {0}
    PROVE  /\ a \div b \in Nat /\ b * (a \div b) <= a
           /\ \A k \in Nat : b * k <= a => k <= a \div b
<1> DEFINE q == a \div b
<1>1. q \in Nat /\ b * q <= a /\ a < b * q + b
  OBVIOUS
<1> HIDE DEF q
<1>2. ASSUME NEW k \in Nat, b * k <= a, ~(k <= q) PROVE FALSE
  <2>1. k >= q + 1
    BY <1>1, <1>2
  <2>2. b * k >= b * (q + 1)
    BY <1>1, <2>1
  <2>3. b * (q + 1) = b * q + b
    BY <1>1
  <2> QED
    BY <1>1, <1>2, <2>2, <2>3
<1> QED
  BY <1>1, <1>2 DEF q

\* Twice a quotient by twice the divisor.
LEMMA HalfQuotient ==
    ASSUME NEW a \in Nat, NEW b \in Nat \ {0}
    PROVE  a \div (2 * b) \in Nat /\ 2 * (a \div (2 * b)) <= a \div b
<1> DEFINE q == a \div (2 * b)
<1>1. 2 * b \in Nat \ {0}
  OBVIOUS
<1>2. q \in Nat /\ (2 * b) * q <= a
  BY <1>1, Quotient
<1> HIDE DEF q
<1>3. b * (2 * q) = (2 * b) * q /\ 2 * q \in Nat
  BY <1>2
<1>4. 2 * q <= a \div b
  BY <1>2, <1>3, Quotient
<1> QED
  BY <1>2, <1>4 DEF q

\* A smaller numerator has a smaller quotient.
LEMMA QuotientMonotone ==
    ASSUME NEW a \in Nat, NEW c \in Nat, a <= c, NEW b \in Nat \ {0}
    PROVE  a \div b <= c \div b
<1>1. a \div b \in Nat /\ b * (a \div b) <= a
  BY Quotient
<1>2. b * (a \div b) <= c
  BY <1>1
<1> QED
  BY <1>1, <1>2, Quotient

\* The constants of the schedule.
LEMMA ScheduleConstants == MiningCap \in Nat /\ BlocksPerEpoch \in Nat \ {0}
  BY AssemblyAssumption DEF AssemblyAssumption

\* What is left of the cap before an epoch.
LeftBefore(e) == MiningCap \div Pow(e)

\* The reward of every block of an epoch.
EpochReward(e) == EpochAllocationDust(e) \div BlocksPerEpoch

\* An epoch gets half of what is left, and its blocks not more than that.
LEMMA AllocationHalves ==
    ASSUME NEW e \in Nat
    PROVE  /\ EpochAllocationDust(e) \in Nat /\ LeftBefore(e) \in Nat /\ EpochReward(e) \in Nat
           /\ EpochAllocationDust(e) = LeftBefore(e + 1)
           /\ 2 * EpochAllocationDust(e) <= LeftBefore(e)
           /\ BlocksPerEpoch * EpochReward(e) <= EpochAllocationDust(e)
<1>1. Pow(e) \in Nat \ {0} /\ Pow(e + 1) = 2 * Pow(e)
  BY PowFacts
<1>2. EpochAllocationDust(e) = MiningCap \div Pow(e + 1)
  BY DEF EpochAllocationDust, Pow
<1>3. MiningCap \div (2 * Pow(e)) \in Nat /\ 2 * (MiningCap \div (2 * Pow(e))) <= MiningCap \div Pow(e)
  BY <1>1, ScheduleConstants, HalfQuotient
<1>4. EpochAllocationDust(e) = MiningCap \div (2 * Pow(e))
  BY <1>1, <1>2
<1>5. MiningCap \div Pow(e) \in Nat
  BY <1>1, ScheduleConstants, Quotient
<1>6. EpochAllocationDust(e) \in Nat
  BY <1>3, <1>4
<1>7. EpochReward(e) \in Nat /\ BlocksPerEpoch * EpochReward(e) <= EpochAllocationDust(e)
  BY <1>6, ScheduleConstants, Quotient DEF EpochReward
<1> QED
  BY <1>2, <1>3, <1>4, <1>5, <1>6, <1>7 DEF LeftBefore

\* Rewards never grow from one epoch to the next.
LEMMA RewardHalves ==
    ASSUME NEW e \in Nat
    PROVE  EpochReward(e + 1) <= EpochReward(e)
<1>1. /\ EpochAllocationDust(e) \in Nat /\ EpochAllocationDust(e + 1) \in Nat
      /\ 2 * EpochAllocationDust(e + 1) <= EpochAllocationDust(e)
  BY AllocationHalves
<1>2. EpochAllocationDust(e + 1) <= EpochAllocationDust(e)
  BY <1>1
<1> QED
  BY <1>1, <1>2, ScheduleConstants, QuotientMonotone DEF EpochReward

\* The epoch of a height and the blocks of it that are sealed.
LEMMA EpochOf ==
    ASSUME NEW h \in Nat
    PROVE  /\ EpochForHeight(h + 1) \in Nat
           /\ BlocksPerEpoch * EpochForHeight(h + 1) <= h
           /\ h < BlocksPerEpoch * EpochForHeight(h + 1) + BlocksPerEpoch
           /\ BlockRewardDust(h + 1) = EpochReward(EpochForHeight(h + 1))
           /\ BlockRewardDust(h + 1) \in Nat
<1>1. h + 1 # 0 /\ h + 1 - 1 = h
  OBVIOUS
<1>2. EpochForHeight(h + 1) = h \div BlocksPerEpoch
  BY <1>1 DEF EpochForHeight
<1>3. BlocksPerEpoch \in Nat \ {0}
  BY ScheduleConstants
<1>4. /\ h \div BlocksPerEpoch \in Nat
      /\ BlocksPerEpoch * (h \div BlocksPerEpoch) <= h
      /\ h < BlocksPerEpoch * (h \div BlocksPerEpoch) + BlocksPerEpoch
  BY <1>3
<1>5. BlockRewardDust(h + 1) = EpochReward(EpochForHeight(h + 1))
  BY <1>1 DEF BlockRewardDust, EpochReward
<1> QED
  BY <1>2, <1>4, <1>5, AllocationHalves

\* The next height is of the same epoch or begins the next one.
LEMMA NextEpoch ==
    ASSUME NEW h \in Nat
    PROVE  \/ EpochForHeight(h + 2) = EpochForHeight(h + 1)
           \/ /\ EpochForHeight(h + 2) = EpochForHeight(h + 1) + 1
              /\ h + 1 = BlocksPerEpoch * EpochForHeight(h + 2)
<1> DEFINE B == BlocksPerEpoch
           e == EpochForHeight(h + 1)
           d == EpochForHeight(h + 2)
<1>1. B \in Nat \ {0}
  BY ScheduleConstants
<1>2. e \in Nat /\ B * e <= h /\ h < B * e + B
  BY EpochOf
<1>3. h + 1 \in Nat /\ h + 1 + 1 = h + 2
  OBVIOUS
<1>4. d \in Nat /\ B * d <= h + 1 /\ h + 1 < B * d + B
  BY <1>3, EpochOf
<1> HIDE DEF B, e, d
<1>5. ASSUME d < e PROVE FALSE
  <2>1. B * (d + 1) <= B * e
    BY <1>1, <1>2, <1>4, <1>5
  <2>2. B * (d + 1) = B * d + B
    BY <1>1, <1>4
  <2> QED
    BY <1>1, <1>2, <1>4, <2>1, <2>2
<1>6. ASSUME d > e + 1 PROVE FALSE
  <2>1. B * (e + 2) <= B * d
    BY <1>1, <1>2, <1>4, <1>6
  <2>2. B * (e + 2) = B * e + B + B
    BY <1>1, <1>2
  <2> QED
    BY <1>1, <1>2, <1>4, <2>1, <2>2
<1>7. d = e \/ d = e + 1
  BY <1>2, <1>4, <1>5, <1>6
<1>8. ASSUME d = e + 1 PROVE h + 1 = B * d
  <2>1. B * d = B * e + B
    BY <1>1, <1>2, <1>8
  <2> QED
    BY <1>1, <1>2, <1>4, <2>1
<1> QED
  BY <1>7, <1>8 DEF B, e, d

\* Rewards never grow from one height to the next.
LEMMA RewardFalls ==
    ASSUME NEW h \in Nat
    PROVE  /\ BlockRewardDust(h + 1) \in Nat /\ BlockRewardDust(h + 2) \in Nat
           /\ BlockRewardDust(h + 2) <= BlockRewardDust(h + 1)
<1>1. h + 1 \in Nat /\ h + 1 + 1 = h + 2
  OBVIOUS
<1>2. /\ BlockRewardDust(h + 1) = EpochReward(EpochForHeight(h + 1)) /\ BlockRewardDust(h + 1) \in Nat
      /\ EpochForHeight(h + 1) \in Nat
  BY EpochOf
<1>3. BlockRewardDust(h + 2) = EpochReward(EpochForHeight(h + 2)) /\ BlockRewardDust(h + 2) \in Nat
  BY <1>1, EpochOf
<1>4. EpochForHeight(h + 2) = EpochForHeight(h + 1) \/ EpochForHeight(h + 2) = EpochForHeight(h + 1) + 1
  BY NextEpoch
<1>5. EpochReward(EpochForHeight(h + 1) + 1) <= EpochReward(EpochForHeight(h + 1))
  BY <1>2, RewardHalves
<1> QED
  BY <1>2, <1>3, <1>4, <1>5

\* What the epochs before one emit.
EmittedBefore(n) == SumFunction([e \in 0 .. n - 1 |-> EpochReward(e) * BlocksPerEpoch])

\* One epoch more.
LEMMA EmittedBeforeStep ==
    /\ EmittedBefore(0) = 0
    /\ \A n \in Nat : /\ EmittedBefore(n) \in Nat
                     /\ EmittedBefore(n + 1) = EmittedBefore(n) + EpochReward(n) * BlocksPerEpoch
<1> DEFINE f(n) == [e \in 0 .. n - 1 |-> EpochReward(e) * BlocksPerEpoch]
<1>1. \A n \in Nat : EmittedBefore(n) = SumFunctionOnSet(f(n), 0 .. n - 1)
  BY SumAll DEF EmittedBefore
<1>2. \A e \in Nat : EpochReward(e) * BlocksPerEpoch \in Nat
  BY AllocationHalves, ScheduleConstants
<1>3. \A n \in Nat : IsFiniteSet(0 .. n - 1)
  BY FS_Interval
<1>4. EmittedBefore(0) = 0
  <2>1. 0 .. 0 - 1 = {}
    OBVIOUS
  <2>2. 0 \in Nat
    OBVIOUS
  <2> HIDE DEF f
  <2>3. EmittedBefore(0) = SumFunctionOnSet(f(0), {})
    BY <1>1, <2>1, <2>2
  <2> QED
    BY <2>3, FS_EmptySet, SumStep
<1>5. ASSUME NEW n \in Nat
      PROVE  /\ EmittedBefore(n) \in Nat
             /\ EmittedBefore(n + 1) = EmittedBefore(n) + EpochReward(n) * BlocksPerEpoch
  <2> DEFINE S == 0 .. n - 1
             T == 0 .. n
             g == f(n)
             h == f(n + 1)
  <2>1. T = 0 .. n + 1 - 1 /\ n \in T /\ T \ {n} = S /\ n + 1 \in Nat
    OBVIOUS
  <2>2. \A e \in S : g[e] = EpochReward(e) * BlocksPerEpoch /\ g[e] \in Nat
    BY <1>2
  <2>3. \A e \in T : h[e] = EpochReward(e) * BlocksPerEpoch /\ h[e] \in Nat
    BY <1>2
  <2>4. IsFiniteSet(S) /\ IsFiniteSet(T)
    BY <1>3, <2>1
  <2>5. EmittedBefore(n) = SumFunctionOnSet(g, S) /\ EmittedBefore(n + 1) = SumFunctionOnSet(h, T)
    BY <1>1, <2>1
  <2> HIDE DEF g, h, S, T, f
  <2>6. SumFunctionOnSet(h, T) = h[n] + SumFunctionOnSet(h, T \ {n})
    BY <2>1, <2>3, <2>4, SumRemove
  <2>7. SumFunctionOnSet(h, S) = SumFunctionOnSet(g, S)
    <3>1. \A e \in S : h[e] = g[e]
      BY <2>1, <2>2, <2>3
    <3> QED
      BY <2>4, <3>1, SumSame
  <2>8. SumFunctionOnSet(g, S) \in Nat
    BY <2>2, <2>4, SumNat
  <2>9. h[n] = EpochReward(n) * BlocksPerEpoch /\ h[n] \in Nat
    BY <2>1, <2>3
  <2> QED
    BY <2>1, <2>5, <2>6, <2>7, <2>8, <2>9
<1> QED
  BY <1>4, <1>5

\* A set of natural numbers that is not empty has a least element.
LEMMA LeastNat ==
    ASSUME NEW F, F \subseteq Nat, F # {}
    PROVE  \E n \in F : \A k \in F : n <= k
<1> DEFINE R == {ss \in Nat \X Nat : ss[1] < ss[2]}
<1>a. IsWellFoundedOn(R, Nat)
  BY NatLessThanWellFounded DEF OpToRel
<1>b. \A k, n \in Nat : k < n => <<k, n>> \in R
  OBVIOUS
<1> HIDE DEF R
<1>2. PICK n \in F : \A k \in F : ~(<<k, n>> \in R)
  BY <1>a, WFMin
<1>3. \A k \in F : ~(k < n) /\ k \in Nat /\ n \in Nat
  BY <1>2, <1>b
<1> QED
  BY <1>3

\* The epochs before one emit what is not left at most.
LEMMA WithinCap == \A n \in Nat : EmittedBefore(n) + LeftBefore(n) <= MiningCap
<1> DEFINE F == {n \in Nat : ~(EmittedBefore(n) + LeftBefore(n) <= MiningCap)}
<1>1. ASSUME F # {} PROVE FALSE
  <2>1. PICK n \in F : \A k \in F : n <= k
    <3> HIDE DEF F
    <3>1. F \subseteq Nat
      BY DEF F
    <3> QED
      BY <1>1, <3>1, LeastNat
  <2>2. n \in Nat /\ ~(EmittedBefore(n) + LeftBefore(n) <= MiningCap)
    OBVIOUS
  <2>3. CASE n = 0
    <3>1. LeftBefore(0) = MiningCap
      BY PowFacts, ScheduleConstants DEF LeftBefore
    <3> QED
      BY <2>2, <2>3, <3>1, EmittedBeforeStep, ScheduleConstants
  <2>4. CASE n # 0
    <3> DEFINE k == n - 1
    <3>1. k \in Nat /\ n = k + 1 /\ ~(n <= k)
      BY <2>2, <2>4
    <3>2. EmittedBefore(k) + LeftBefore(k) <= MiningCap
      BY <2>1, <3>1
    <3> HIDE DEF k, F
    <3>3. /\ EmittedBefore(k) \in Nat
          /\ EmittedBefore(n) = EmittedBefore(k) + EpochReward(k) * BlocksPerEpoch
      BY <3>1, EmittedBeforeStep
    <3>4. /\ EpochAllocationDust(k) \in Nat /\ LeftBefore(k) \in Nat /\ EpochReward(k) \in Nat
          /\ EpochAllocationDust(k) = LeftBefore(n) /\ 2 * EpochAllocationDust(k) <= LeftBefore(k)
          /\ BlocksPerEpoch * EpochReward(k) <= EpochAllocationDust(k)
      BY <3>1, AllocationHalves
    <3>5. BlocksPerEpoch * EpochReward(k) = EpochReward(k) * BlocksPerEpoch /\ EpochReward(k) * BlocksPerEpoch \in Nat
      BY <3>4, ScheduleConstants
    <3> QED
      BY <2>2, <3>2, <3>3, <3>4, <3>5, ScheduleConstants
  <2> QED
    BY <2>3, <2>4
<1> QED
  BY <1>1

\* The closed form at a height.
LEMMA CumulativeAt ==
    ASSUME NEW h \in Nat
    PROVE  /\ CumulativeEmittedDust(0) = 0
           /\ CumulativeEmittedDust(h + 1) = EmittedBefore(EpochForHeight(h + 1)) + EpochReward(EpochForHeight(h + 1))
                                             * (h + 1 - BlocksPerEpoch * EpochForHeight(h + 1))
<1> DEFINE e == EpochForHeight(h + 1)
<1>1. h + 1 # 0
  OBVIOUS
<1>2. ASSUME NEW x
      PROVE  CumulativeEmittedDust(x) =
               IF x = 0 THEN 0
               ELSE EmittedBefore(EpochForHeight(x))
                    + EpochReward(EpochForHeight(x)) * (x - EpochForHeight(x) * BlocksPerEpoch)
  BY Zenon DEF CumulativeEmittedDust, EmittedBefore, EpochReward
<1>3. e \in Nat
  BY EpochOf
<1>6. CumulativeEmittedDust(0) = 0
  BY <1>2
<1>4. CumulativeEmittedDust(h + 1) = EmittedBefore(e) + EpochReward(e) * (h + 1 - e * BlocksPerEpoch)
  <2> DEFINE x == h + 1
  <2>1. x # 0 /\ e = EpochForHeight(x)
    BY <1>1
  <2> HIDE DEF x, e
  <2>2. CumulativeEmittedDust(x) = EmittedBefore(e) + EpochReward(e) * (x - e * BlocksPerEpoch)
    BY <1>2, <2>1
  <2> QED
    BY <1>3, <2>2, ScheduleConstants DEF x
<1> HIDE DEF e
<1>5. e * BlocksPerEpoch = BlocksPerEpoch * e
  BY <1>3, ScheduleConstants
<1>7. CumulativeEmittedDust(h + 1) = EmittedBefore(e) + EpochReward(e) * (h + 1 - BlocksPerEpoch * e)
  BY <1>4, <1>5
<1> QED
  BY <1>6, <1>7 DEF e

\* A block adds its reward to the closed form.
LEMMA CumulativeStep ==
    ASSUME NEW h \in Nat
    PROVE  CumulativeEmittedDust(h + 1) = CumulativeEmittedDust(h) + BlockRewardDust(h + 1)
<1> DEFINE B == BlocksPerEpoch
<1>0. B \in Nat \ {0}
  BY ScheduleConstants
<1>1. CASE h = 0
  <2> DEFINE e == EpochForHeight(h + 1)
  <2>1. e \in Nat /\ B * e <= h /\ BlockRewardDust(h + 1) = EpochReward(e) /\ EpochReward(e) \in Nat
    BY EpochOf, AllocationHalves
  <2>2. CumulativeEmittedDust(0) = 0 /\ CumulativeEmittedDust(h + 1) = EmittedBefore(e) + EpochReward(e) * (h + 1 - B * e)
    BY CumulativeAt
  <2> HIDE DEF e, B
  <2>3. B * e = 0 /\ e = 0
    BY <1>0, <1>1, <2>1
  <2>4. EmittedBefore(e) = 0
    BY <2>3, EmittedBeforeStep
  <2> QED
    BY <1>1, <2>1, <2>2, <2>3, <2>4
<1>2. CASE h # 0
  <2> DEFINE k == h - 1
             e == EpochForHeight(k + 1)
             d == EpochForHeight(k + 2)
             r == EpochReward(e)
             s == EpochReward(d)
  <2>1. k \in Nat /\ h = k + 1 /\ h + 1 = k + 2 /\ k + 1 + 1 = k + 2 /\ k + 1 \in Nat
    BY <1>2
  <2>2. CumulativeEmittedDust(h) = EmittedBefore(e) + r * (h - B * e)
    <3> HIDE DEF k
    <3>1. CumulativeEmittedDust(k + 1) = EmittedBefore(e) + r * (k + 1 - B * e)
      BY <2>1, CumulativeAt
    <3>2. B * e \in Nat
      <4>1. e \in Nat /\ B \in Nat
        BY <2>1, EpochOf, ScheduleConstants
      <4> HIDE DEF e, B
      <4> QED
        BY <4>1
    <3>3. h - B * e = k + 1 - B * e
      BY <2>1, <3>2
    <3> HIDE DEF e, r, B
    <3> QED
      BY <2>1, <3>1, <3>3
  <2>3. CumulativeEmittedDust(h + 1) = EmittedBefore(d) + s * (h + 1 - B * d)
    BY <2>1, CumulativeAt
  <2>4. e \in Nat /\ d \in Nat /\ BlockRewardDust(h + 1) = s
    BY <2>1, EpochOf
  <2>5. d = e \/ (d = e + 1 /\ h = B * d)
    BY <2>1, NextEpoch
  <2>6. r \in Nat /\ s \in Nat /\ EmittedBefore(e) \in Nat /\ EmittedBefore(e + 1) = EmittedBefore(e) + r * B
    BY <2>4, AllocationHalves, EmittedBeforeStep
  <2>7. d = e => s = r
    OBVIOUS
  <2> HIDE DEF k, e, d, r, s, B
  <2>8. CASE d = e
    <3>1. s * (h + 1 - B * d) = r * (h - B * e) + r
      <4>1. B * e \in Nat
        BY <1>0, <2>4
      <4> DEFINE x == B * e
      <4> HIDE DEF x
      <4>2. r * (h + 1 - x) = r * (h - x) + r
        BY <2>6, <4>1 DEF x
      <4> QED
        BY <2>7, <2>8, <4>2 DEF x
    <3>2. r * (h - B * e) \in Int
      BY <1>0, <2>4, <2>6
    <3> QED
      BY <2>2, <2>3, <2>4, <2>6, <2>7, <2>8, <3>1, <3>2
  <2>9. CASE d = e + 1 /\ h = B * d
    <3>1. B * d = B * e + B
      BY <1>0, <2>4, <2>9
    <3>2. h - B * e = B /\ h + 1 - B * d = 1
      BY <1>0, <2>4, <2>9, <3>1
    <3>3. CumulativeEmittedDust(h) = EmittedBefore(e) + r * B /\ CumulativeEmittedDust(h + 1) = EmittedBefore(d) + s * 1
      BY <2>2, <2>3, <3>2
    <3> QED
      BY <1>0, <2>4, <2>6, <2>9, <3>3
  <2> QED
    BY <2>5, <2>8, <2>9
<1> QED
  BY <1>1, <1>2

\* The schedule is within the cap.
LEMMA CumulativeCap ==
    ASSUME NEW h \in Nat
    PROVE  CumulativeEmittedDust(h) \in Nat /\ CumulativeEmittedDust(h) <= MiningCap
<1>1. CASE h = 0
  <2>1. CumulativeEmittedDust(0) = 0
    BY CumulativeAt
  <2> QED
    BY <1>1, <2>1, ScheduleConstants
<1>2. CASE h # 0
  <2> DEFINE B == BlocksPerEpoch
             k == h - 1
             e == EpochForHeight(k + 1)
             r == EpochReward(e)
             x == h - B * e
  <2>1. k \in Nat /\ h = k + 1
    BY <1>2
  <2>2. CumulativeEmittedDust(h) = EmittedBefore(e) + r * x
    <3> HIDE DEF k
    <3>1. CumulativeEmittedDust(k + 1) = EmittedBefore(e) + r * (k + 1 - B * e)
      BY <2>1, CumulativeAt
    <3>2. B * e \in Nat
      <4>1. e \in Nat /\ B \in Nat
        BY <2>1, EpochOf, ScheduleConstants
      <4> HIDE DEF e, B
      <4> QED
        BY <4>1
    <3>3. h - B * e = k + 1 - B * e
      BY <2>1, <3>2
    <3> HIDE DEF e, r, B
    <3> QED
      BY <2>1, <3>1, <3>3
  <2>3. e \in Nat /\ B * e <= k /\ k < B * e + B
    BY <2>1, EpochOf
  <2>4. /\ EpochAllocationDust(e) \in Nat /\ LeftBefore(e) \in Nat /\ r \in Nat
        /\ 2 * EpochAllocationDust(e) <= LeftBefore(e) /\ B * r <= EpochAllocationDust(e)
    BY <2>3, AllocationHalves
  <2>5. EmittedBefore(e) \in Nat /\ EmittedBefore(e) + LeftBefore(e) <= MiningCap
    BY <2>3, EmittedBeforeStep, WithinCap
  <2>6. B \in Nat \ {0} /\ MiningCap \in Nat
    BY ScheduleConstants
  <2>7. x \in Nat /\ x <= B
    <3> HIDE DEF B, e, k
    <3> QED
      BY <2>1, <2>3, <2>6
  <2> HIDE DEF B, k, e, r, x
  <2>8. r * x \in Nat /\ r * x <= B * r /\ B * r \in Nat
    BY <2>4, <2>6, <2>7
  <2> QED
    BY <2>2, <2>4, <2>5, <2>6, <2>8
<1> QED
  BY <1>1, <1>2

\* The closed form is the sum of the rewards: one block more.
LEMMA ScheduleStep ==
    ASSUME NEW n \in Nat, CumulativeEmittedDust(n) = SumFunction([h \in 1 .. n |-> BlockRewardDust(h)])
    PROVE  CumulativeEmittedDust(n + 1) = SumFunction([h \in 1 .. n + 1 |-> BlockRewardDust(h)])
<1> DEFINE S == 1 .. n
           T == 1 .. n + 1
           f == [h \in S |-> BlockRewardDust(h)]
           g == [h \in T |-> BlockRewardDust(h)]
<1>1. n + 1 \in T /\ T \ {n + 1} = S
  OBVIOUS
<1>2. \A h \in T : BlockRewardDust(h) \in Nat
  <2>1. \A h \in T : h - 1 \in Nat /\ h - 1 + 1 = h
    OBVIOUS
  <2> QED
    BY <2>1, EpochOf
<1>3. IsFiniteSet(S) /\ IsFiniteSet(T)
  BY FS_Interval
<1>4. (\A h \in T : g[h] = BlockRewardDust(h) /\ g[h] \in Nat) /\ \A h \in S : f[h] = g[h]
  BY <1>1, <1>2
<1>5. SumFunction(f) = SumFunctionOnSet(f, S) /\ SumFunction(g) = SumFunctionOnSet(g, T)
  BY SumAll
<1> HIDE DEF S, T, f, g
<1>6. SumFunctionOnSet(g, T) = g[n + 1] + SumFunctionOnSet(g, T \ {n + 1})
  BY <1>1, <1>3, <1>4, SumRemove
<1>7. SumFunctionOnSet(f, S) = SumFunctionOnSet(g, S)
  BY <1>3, <1>4, SumSame
<1>8. CumulativeEmittedDust(n + 1) = CumulativeEmittedDust(n) + BlockRewardDust(n + 1) /\ CumulativeEmittedDust(n) \in Nat
  BY CumulativeStep, CumulativeCap
<1>9. BlockRewardDust(n + 1) \in Nat /\ g[n + 1] = BlockRewardDust(n + 1)
  BY <1>1, <1>2, <1>4
<1>10. CumulativeEmittedDust(n) = SumFunction(f)
  BY DEF f, S
<1>11. SumFunctionOnSet(g, T) = g[n + 1] + SumFunctionOnSet(g, S)
  BY <1>1, <1>6
<1>12. CumulativeEmittedDust(n + 1) = SumFunction(g)
  BY <1>5, <1>7, <1>8, <1>9, <1>10, <1>11
<1> QED
  BY <1>12 DEF g, T

\* The shares of a tick are floors of parts of its reward.
LEMMA SharesWithin ==
    ASSUME NEW q, NEW a, NEW S, IsFiniteSet(S), NEW r \in Nat,
           \A m \in S : q[m] \in Nat,
           SumFunctionOnSet(q, S) # 0,
           \A m \in S : a[m] \in Nat /\ a[m] <= (r * q[m]) \div SumFunctionOnSet(q, S)
    PROVE  SumFunctionOnSet(a, S) <= r
<1> DEFINE T == SumFunctionOnSet(q, S)
           F == {s \in SUBSET S : ~(T * SumFunctionOnSet(a, s) <= r * SumFunctionOnSet(q, s))}
<1>0. T \in Nat \ {0}
  BY SumNat
<1>1. \A m \in S : T * a[m] <= r * q[m]
  <2> SUFFICES ASSUME NEW m \in S PROVE T * a[m] <= r * q[m]
    OBVIOUS
  <2> DEFINE d == (r * q[m]) \div T
  <2>1. a[m] \in Nat /\ a[m] <= d /\ r * q[m] \in Nat
    OBVIOUS
  <2> HIDE DEF T
  <2>2. d \in Nat /\ T * d <= r * q[m]
    BY <1>0, <2>1, Quotient
  <2> HIDE DEF d
  <2>3. T * a[m] <= T * d
    BY <1>0, <2>1, <2>2
  <2> QED
    BY <1>0, <2>1, <2>2, <2>3
<1> HIDE DEF T
<1>2. ASSUME F # {} PROVE FALSE
  <2>1. PICK s \in F : \A u \in F : u \subseteq s => u = s
    <3> HIDE DEF F
    <3>1. F \subseteq SUBSET S
      BY DEF F
    <3> QED
      BY <1>2, <3>1, LeastSet
  <2>2. IsFiniteSet(s) /\ s \in SUBSET S /\ ~(T * SumFunctionOnSet(a, s) <= r * SumFunctionOnSet(q, s))
    BY <2>1, FS_Subset
  <2> DEFINE x == Pick(s)
             u == s \ {x}
  <2>3. /\ s = {} => SumFunctionOnSet(a, s) = 0 /\ SumFunctionOnSet(q, s) = 0
        /\ s # {} => /\ x \in s /\ SumFunctionOnSet(a, s) = a[x] + SumFunctionOnSet(a, u)
                    /\ SumFunctionOnSet(q, s) = q[x] + SumFunctionOnSet(q, u)
    BY <2>2, SumStep
  <2>4. x \in s
    <3> HIDE DEF x, u
    <3>1. T * 0 = 0 /\ r * 0 = 0
      BY <1>0
    <3> QED
      BY <2>2, <2>3, <3>1
  <2>5. u \in SUBSET S /\ u \notin F /\ IsFiniteSet(u)
    BY <2>1, <2>2, <2>4, FS_Subset
  <2>6. T * SumFunctionOnSet(a, u) <= r * SumFunctionOnSet(q, u)
    BY <2>5
  <2>7. SumFunctionOnSet(a, u) \in Nat /\ SumFunctionOnSet(q, u) \in Nat /\ a[x] \in Nat /\ q[x] \in Nat
    BY <2>2, <2>4, <2>5, SumNat
  <2>8. T * a[x] <= r * q[x]
    BY <1>1, <2>2, <2>4
  <2> DEFINE A == SumFunctionOnSet(a, u)
             Q == SumFunctionOnSet(q, u)
             y == a[x]
             z == q[x]
  <2>9. SumFunctionOnSet(a, s) = y + A /\ SumFunctionOnSet(q, s) = z + Q
    BY <2>3, <2>4
  <2>10. A \in Nat /\ Q \in Nat /\ y \in Nat /\ z \in Nat /\ T * A <= r * Q /\ T * y <= r * z
    BY <2>6, <2>7, <2>8
  <2> HIDE DEF x, u, F, A, Q, y, z
  <2>11. T * (y + A) = T * y + T * A /\ r * (z + Q) = r * z + r * Q
    BY <1>0, <2>10
  <2>12. T * y \in Nat /\ T * A \in Nat /\ r * z \in Nat /\ r * Q \in Nat
    BY <1>0, <2>10
  <2> QED
    BY <2>2, <2>9, <2>10, <2>11, <2>12
<1>3. T * SumFunctionOnSet(a, S) <= r * T
  BY <1>2 DEF T
<1>4. SumFunctionOnSet(a, S) \in Nat
  BY SumNat
<1> DEFINE A == SumFunctionOnSet(a, S)
<1>5. A \in Nat /\ T * A <= T * r
  <2>1. r * T = T * r
    BY <1>0
  <2> QED
    BY <1>3, <1>4, <2>1
<1> HIDE DEF A
<1>6. A <= r
  <2> SUFFICES ASSUME A >= r + 1 PROVE FALSE
    BY <1>5
  <2>1. T * A >= T * (r + 1)
    BY <1>0, <1>5
  <2>2. T * (r + 1) = T * r + T /\ T * r \in Nat
    BY <1>0
  <2> QED
    BY <1>0, <1>5, <2>1, <2>2
<1> QED
  BY <1>6 DEF A

----------------------------------------------------------------------------
(* The transactions of a tick.                                             *)

\* Ranks number a finite set of addresses from 0.
LEMMA Ranks ==
    ASSUME NEW S, S \subseteq Nat, IsFiniteSet(S)
    PROVE  /\ Cardinality(S) \in Nat
           /\ \A m \in S : Rank(m, S) \in 0 .. Cardinality(S) - 1
           /\ \A m, x \in S : Rank(m, S) = Rank(x, S) => m = x
           /\ \A i \in 0 .. Cardinality(S) - 1 : \E m \in S : Rank(m, S) = i
<1> DEFINE c == Cardinality(S)
           D(m) == {x \in S : x < m}
<1>1. c \in Nat
  BY FS_CardinalityType
<1>2. \A m \in S : IsFiniteSet(D(m)) /\ Cardinality(D(m)) \in Nat /\ Rank(m, S) = Cardinality(D(m))
  BY FS_Subset, FS_CardinalityType DEF Rank
<1>3. ASSUME NEW m \in S PROVE Rank(m, S) \in 0 .. c - 1
  <2>1. D(m) \subseteq S \ {m}
    OBVIOUS
  <2>2. IsFiniteSet(S \ {m}) /\ Cardinality(S \ {m}) = c - 1
    BY FS_RemoveElement
  <2>3. Cardinality(D(m)) <= Cardinality(S \ {m})
    BY <2>1, <2>2, FS_Subset
  <2> HIDE DEF c, D
  <2> QED
    BY <1>1, <1>2, <2>2, <2>3
<1>4. ASSUME NEW m \in S, NEW x \in S, m < x PROVE Rank(m, S) # Rank(x, S)
  <2>1. D(m) \in SUBSET D(x) /\ m \in D(x) /\ m \notin D(m)
    <3>1. ASSUME NEW y \in S, y < m PROVE y < x
      <4>1. y \in Nat /\ m \in Nat /\ x \in Nat
        OBVIOUS
      <4> QED
        BY <1>4, <3>1, <4>1
    <3>2. ~(m < m)
      OBVIOUS
    <3> QED
      BY <1>4, <3>1, <3>2
  <2>2. D(m) # D(x)
    BY <2>1
  <2> HIDE DEF D
  <2> QED
    BY <1>2, <2>1, <2>2, FS_Subset
<1>5. \A m, x \in S : Rank(m, S) = Rank(x, S) => m = x
  <2>1. \A m, x \in S : m < x \/ x < m \/ m = x
    OBVIOUS
  <2> QED
    BY <1>4, <2>1
<1> DEFINE I == 0 .. c - 1
           f == [m \in S |-> Rank(m, S)]
<1>6. f \in [S -> I] /\ \A m, x \in S : f[m] = f[x] => m = x
  <2>1. \A m \in S : f[m] = Rank(m, S)
    OBVIOUS
  <2>2. f \in [S -> I]
    BY <1>3
  <2> HIDE DEF f
  <2> QED
    BY <1>5, <2>1, <2>2
<1>7. IsFiniteSet(I) /\ Cardinality(I) = c
  <2>1. IsFiniteSet(0 .. c - 1) /\ Cardinality(0 .. c - 1) = IF 0 > c - 1 THEN 0 ELSE c - 1 - 0 + 1
    BY <1>1, FS_Interval
  <2> QED
    BY <1>1, <2>1
<1>8. f \in Injection(S, I)
  <2> HIDE DEF f, I
  <2> QED
    BY <1>6 DEF Injection, IsInjective
<1>9. f \in Surjection(S, I)
  <2> HIDE DEF f, I
  <2> QED
    BY <1>7, <1>8, FS_Injection DEF c
<1>10. \A i \in I : \E m \in S : f[m] = i
  BY <1>9 DEF Surjection
<1>11. \A i \in I : \E m \in S : Rank(m, S) = i
  BY <1>10
<1> QED
  BY <1>1, <1>3, <1>5, <1>11

Paying(q) == {m \in Miners : q[m] > 0}

\* The tick pays a reward r, from nonce b on, to every miner it took proofs of.
Pays(k, r, b) ==
    /\ Paying(k.drained) # {}
    /\ k.own = {RewardTx(k.drained, m, Paying(k.drained), r, b) : m \in Paying(k.drained)}

\* The tick pays nobody.
Beats(k) == \E t : k.own = {t} /\ t.kind = "beat" /\ t.to = Funder

DriverIDs == {"beat", "reward"} \X Nat \X Nat

\* The transactions of clients and of the driver.
Form(t) ==
    \/ t.kind = "user" /\ t.id \notin DriverIDs
    \/ t.kind = "beat" /\ t.no \in Nat /\ t.id = <<"beat", t.nonce, t.no>>
    \/ /\ t.kind = "reward" /\ t.id = <<"reward", t.nonce, t.to>> /\ t.sender = Funder
       /\ t.to \in Miners /\ t.count \in Nat /\ t.amount \in Nat

LEMMA MinerFacts == Miners \subseteq Nat /\ Funder \notin Miners /\ IsFiniteSet(Miners)
  BY AssemblyAssumption, Constants DEF AssemblyAssumption

LEMMA UserForm == \A t \in UserTxs : Form(t)
  BY AssemblyAssumption DEF AssemblyAssumption, Form, DriverIDs

LEMMA PayingFacts ==
    ASSUME NEW q
    PROVE  Paying(q) \subseteq Miners /\ Paying(q) \subseteq Nat /\ IsFiniteSet(Paying(q)) /\ Cardinality(Paying(q)) \in Nat
<1>1. Paying(q) \in SUBSET Miners
  BY DEF Paying
<1> QED
  BY <1>1, MinerFacts, FS_Subset, FS_CardinalityType

\* The proofs a tick took are some.
LEMMA TotalPositive ==
    ASSUME NEW q \in [Miners -> Nat], Paying(q) # {}
    PROVE  Total(q) \in Nat \ {0}
<1>1. PICK m \in Miners : q[m] > 0
  BY DEF Paying
<1>2. SumFunctionOnSet(q, Miners) \in Nat /\ q[m] <= SumFunctionOnSet(q, Miners) /\ q[m] \in Nat
  BY MinerFacts, SumNat, SumMember
<1> QED
  BY <1>1, <1>2 DEF Total

\* One payout.
LEMMA RewardFacts ==
    ASSUME NEW q \in [Miners -> Nat], NEW r \in Nat, NEW b \in Nat, NEW m \in Paying(q)
    PROVE  LET t == RewardTx(q, m, Paying(q), r, b) IN
           /\ t.kind = "reward" /\ t.to = m /\ t.count = q[m] /\ t.nonce = b + Rank(m, Paying(q))
           /\ t.amount = (r * q[m]) \div Total(q) /\ TxShape(t) /\ Form(t)
<1> DEFINE S == Paying(q)
           t == RewardTx(q, m, S, r, b)
<1>1. Rank(m, S) \in Nat /\ m \in Miners /\ q[m] \in Nat
  BY PayingFacts, Ranks
<1>2. Total(q) \in Nat \ {0}
  BY TotalPositive
<1>3. (r * q[m]) \div Total(q) \in Nat
  <2>1. r * q[m] \in Nat
    BY <1>1
  <2> QED
    BY <1>2, <2>1, Quotient
<1> HIDE DEF S
<1>4. /\ t.kind = "reward" /\ t.to = m /\ t.count = q[m] /\ t.nonce = b + Rank(m, S) /\ t.sender = Funder
      /\ t.amount = (r * q[m]) \div Total(q) /\ t.id = <<"reward", b + Rank(m, S), m>> /\ DOMAIN t = TxFields
  BY DEF RewardTx, TxFields
<1> HIDE DEF t
<1>5. TxShape(t)
  BY <1>1, <1>4 DEF TxShape
<1>6. Form(t)
  BY <1>1, <1>3, <1>4 DEF Form
<1> QED
  BY <1>4, <1>5, <1>6 DEF t, S

\* Payouts own of the proofs q: one for every miner, with the c nonces from b on.
Payroll(own, q, r, b, c) ==
    /\ c \in Nat
    /\ \A t \in own : /\ t.kind = "reward" /\ t.to \in Paying(q) /\ t.to \in Miners
                        /\ t.count = q[t.to] /\ t.nonce \in b .. b + c - 1 /\ Form(t) /\ TxShape(t)
                        /\ t.amount = (r * q[t.to]) \div Total(q)
    /\ \A t, u \in own : t.to = u.to => t = u
    /\ \A t, u \in own : t.nonce = u.nonce => t = u
    /\ \A m \in Paying(q) : \E t \in own : t.to = m
    /\ \A n \in b .. b + c - 1 : \E t \in own : t.nonce = n

LEMMA OwnFacts ==
    ASSUME NEW k, k.drained \in [Miners -> Nat], NEW r \in Nat, NEW b \in Nat, Pays(k, r, b)
    PROVE  Payroll(k.own, k.drained, r, b, Cardinality(Paying(k.drained)))
<1> DEFINE q == k.drained
           S == Paying(q)
           c == Cardinality(S)
           f(m) == RewardTx(q, m, S, r, b)
<1>1. /\ c \in Nat /\ (\A m \in S : Rank(m, S) \in 0 .. c - 1)
      /\ (\A m, x \in S : Rank(m, S) = Rank(x, S) => m = x)
      /\ \A i \in 0 .. c - 1 : \E m \in S : Rank(m, S) = i
  BY PayingFacts, Ranks
<1>2. \A m \in S : /\ f(m).kind = "reward" /\ f(m).to = m /\ f(m).count = q[m] /\ f(m).nonce = b + Rank(m, S)
                   /\ f(m).amount = (r * q[m]) \div Total(q) /\ TxShape(f(m)) /\ Form(f(m))
  BY RewardFacts
<1>3. k.own = {f(m) : m \in S}
  BY DEF Pays
<1>4. S \subseteq Miners
  BY PayingFacts
<1> HIDE DEF q, S, c, f
<1>5. \A t \in k.own : \E m \in S : t = f(m)
  BY <1>3
<1>6. \A t \in k.own : /\ t.kind = "reward" /\ t.to \in S /\ t.to \in Miners /\ t = f(t.to)
                       /\ t.count = q[t.to] /\ t.nonce = b + Rank(t.to, S) /\ Form(t) /\ TxShape(t)
                       /\ t.amount = (r * q[t.to]) \div Total(q)
  BY <1>2, <1>4, <1>5
<1>7. \A t \in k.own : t.nonce \in b .. b + c - 1
  <2> SUFFICES ASSUME NEW t \in k.own PROVE t.nonce \in b .. b + c - 1
    OBVIOUS
  <2>1. t.nonce = b + Rank(t.to, S) /\ Rank(t.to, S) \in 0 .. c - 1
    BY <1>1, <1>6
  <2> QED
    BY <1>1, <2>1
<1>8. \A t, u \in k.own : t.to = u.to => t = u
  BY <1>6
<1>9. \A t, u \in k.own : t.nonce = u.nonce => t = u
  <2> SUFFICES ASSUME NEW t \in k.own, NEW u \in k.own, t.nonce = u.nonce PROVE t = u
    OBVIOUS
  <2>1. b + Rank(t.to, S) = b + Rank(u.to, S) /\ t.to \in S /\ u.to \in S
    BY <1>6
  <2>2. Rank(t.to, S) \in Int /\ Rank(u.to, S) \in Int
    BY <1>1, <2>1
  <2>3. Rank(t.to, S) = Rank(u.to, S)
    BY <2>1, <2>2
  <2> QED
    BY <1>1, <1>8, <2>1, <2>3
<1>10. \A m \in S : f(m) \in k.own /\ f(m).to = m
  BY <1>2, <1>3
<1>11. \A n \in b .. b + c - 1 : \E t \in k.own : t.nonce = n
  <2> SUFFICES ASSUME NEW n \in b .. b + c - 1 PROVE \E t \in k.own : t.nonce = n
    OBVIOUS
  <2>1. n - b \in 0 .. c - 1
    BY <1>1
  <2>2. PICK m \in S : Rank(m, S) = n - b
    BY <1>1, <2>1
  <2>3. f(m) \in k.own /\ f(m).nonce = n
    BY <1>2, <1>10, <2>2
  <2> QED
    BY <2>3
<1>12. /\ \A t \in k.own : /\ t.kind = "reward" /\ t.to \in S /\ t.to \in Miners
                           /\ t.count = q[t.to] /\ t.nonce \in b .. b + c - 1 /\ Form(t) /\ TxShape(t)
                           /\ t.amount = (r * q[t.to]) \div Total(q)
       /\ \A m \in S : \E t \in k.own : t.to = m
  BY <1>6, <1>7, <1>10
<1>13. Payroll(k.own, q, r, b, c)
  BY <1>1, <1>8, <1>9, <1>11, <1>12 DEF Payroll, S
<1> QED
  BY <1>13 DEF q, S, c

\* The heartbeat's number is free: the pool holds MaxSize ids at most.
LEMMA BeatFacts ==
    ASSUME NEW n \in Nat, IsFiniteSet(pool), Cardinality(pool) <= MaxSize
    PROVE  /\ Heartbeat(n).kind = "beat" /\ Heartbeat(n).to = Funder /\ Form(Heartbeat(n))
<1> DEFINE K == 0 .. MaxSize
           f == [t \in pool |-> t.id]
           J == {<<"beat", n, i>> : i \in K}
           g == [i \in K |-> <<"beat", n, i>>]
           h == CHOOSE i \in K : <<"beat", n, i>> \notin IDs(pool)
<1>1. MaxSize \in Nat
  BY AssemblyAssumption DEF AssemblyAssumption
<1>2. IsFiniteSet(K) /\ Cardinality(K) = MaxSize + 1
  <2>1. IsFiniteSet(0 .. MaxSize) /\ Cardinality(0 .. MaxSize) = IF 0 > MaxSize THEN 0 ELSE MaxSize - 0 + 1
    BY <1>1, FS_Interval
  <2> QED
    BY <1>1, <2>1
<1>3. IsFiniteSet(IDs(pool)) /\ Cardinality(IDs(pool)) <= Cardinality(pool)
  <2>1. f \in Surjection(pool, IDs(pool))
    BY DEF IDs, Surjection
  <2> HIDE DEF f
  <2> QED
    BY <2>1, FS_Surjection
<1>4. IsFiniteSet(J) /\ Cardinality(J) = Cardinality(K)
  <2>1. g \in [K -> J] /\ (\A j \in J : \E i \in K : g[i] = j) /\ \A i, j \in K : g[i] = g[j] => i = j
    OBVIOUS
  <2> HIDE DEF g, J, K
  <2>2. g \in Surjection(K, J) /\ g \in Injection(K, J)
    BY <2>1 DEF Surjection, Injection, IsInjective
  <2> QED
    BY <1>2, <2>2, FS_Surjection
<1>5. ~(J \subseteq IDs(pool))
  <2> SUFFICES ASSUME J \in SUBSET IDs(pool) PROVE FALSE
    OBVIOUS
  <2> HIDE DEF J, K
  <2>1. Cardinality(J) <= Cardinality(IDs(pool))
    BY <1>3, FS_Subset
  <2>2. Cardinality(IDs(pool)) \in Nat /\ Cardinality(pool) \in Nat
    BY <1>3, FS_CardinalityType
  <2> QED
    BY <1>1, <1>2, <1>3, <1>4, <2>1, <2>2
<1>6. \E i \in K : <<"beat", n, i>> \notin IDs(pool)
  BY <1>5
<1>7. h \in Nat
  <2>1. h \in K
    <3> HIDE DEF K
    <3> QED
      BY <1>6
  <2> QED
    BY <1>1, <2>1
<1>8. Heartbeat(n) = [kind |-> "beat", id |-> <<"beat", n, h>>, sender |-> Funder,
         nonce |-> n, fee |-> 0, no |-> h, to |-> Funder, count |-> 0,
         amount |-> 0, old |-> FALSE]
  BY DEF Heartbeat
<1> HIDE DEF h
<1>9. /\ Heartbeat(n).kind = "beat" /\ Heartbeat(n).to = Funder /\ Heartbeat(n).no = h
      /\ Heartbeat(n).id = <<"beat", n, h>> /\ Heartbeat(n).nonce = n
  BY <1>8
<1> QED
  BY <1>7, <1>9 DEF Form

----------------------------------------------------------------------------
(* What a block includes.                                                  *)

\* Of the transactions of one nonce, some comes before no other.
LEMMA FirstOf ==
    ASSUME NEW X, X # {}, \A t \in X : t.kind = "beat" => t.no \in Nat
    PROVE  \E u \in X : ~\E v \in X : Before(v, u)
<1> DEFINE Y == {t \in X : t.kind = "beat"}
           N == {t.no : t \in Y}
<1>1. CASE Y = {}
  <2>1. \A u, v \in X : ~Before(v, u)
    BY <1>1 DEF Before
  <2> QED
    BY <2>1
<1>2. CASE Y # {}
  <2>1. N \subseteq Nat /\ N # {}
    BY <1>2
  <2>2. PICK n \in N : \A k \in N : n <= k
    <3> HIDE DEF N
    <3> QED
      BY <2>1, LeastNat
  <2>3. PICK u \in Y : u.no = n
    OBVIOUS
  <2>4. ASSUME NEW v \in X, Before(v, u) PROVE FALSE
    <3>1. v.kind = "beat" /\ v.no < u.no
      BY <2>4 DEF Before
    <3>2. v.no \in N /\ v.no \in Nat /\ u.no \in Nat /\ n <= v.no
      BY <2>2, <3>1
    <3> QED
      BY <2>3, <3>1, <3>2
  <2> QED
    BY <2>4
<1> QED
  BY <1>1, <1>2

\* Nonces of a sender that a block spends are below its next nonce.
LEMMA SpentBelow ==
    ASSUME nonces \in [Senders -> Nat], NEW batch, IsFiniteSet(batch),
           \A t \in batch : TxShape(t) /\ (t.kind = "beat" => t.no \in Nat),
           NEW t \in Included(batch), t.sender \in Senders
    PROVE  nonces[t.sender] <= t.nonce /\ t.nonce < AfterBlock(Included(batch))[t.sender]
<1> DEFINE s == t.sender
           c == nonces[s]
           n == t.nonce
           I == Included(batch)
           G == {u \in I : u.sender = s}
           H == {u \in G : u.nonce \in c .. n}
           f == [u \in H |-> u.nonce]
<1>1. /\ t \in batch /\ n \in Nat /\ c \in Nat /\ n >= c
      /\ \A i \in c .. n : \E u \in batch : u.sender = s /\ u.nonce = i
  BY DEF Included, TxShape
<1>2. ASSUME NEW i \in c .. n PROVE \E u \in H : u.nonce = i
  <2> DEFINE X == {u \in batch : u.sender = s /\ u.nonce = i}
  <2>1. X # {} /\ \A u \in X : u.kind = "beat" => u.no \in Nat
    BY <1>1
  <2>2. PICK u \in X : ~\E v \in X : Before(v, u)
    <3> HIDE DEF X
    <3> QED
      BY <2>1, FirstOf
  <2>3. ~\E v \in batch : Before(v, u)
    BY <2>2 DEF Before
  <2>4. \A j \in c .. i : j \in c .. n
    BY <1>1
  <2>5. u \in batch /\ u.nonce = i /\ u.sender = s /\ i >= c
    BY <1>1
  <2>6. u \in I
    BY <1>1, <2>3, <2>4, <2>5 DEF Included
  <2> QED
    BY <2>5, <2>6
<1>3. IsFiniteSet(G) /\ H \in SUBSET G
  BY FS_Subset DEF Included
<1>4. IsFiniteSet(H) /\ Cardinality(H) <= Cardinality(G) /\ Cardinality(G) \in Nat
  BY <1>3, FS_Subset, FS_CardinalityType
<1>5. f \in Surjection(H, c .. n)
  <2>1. f \in [H -> c .. n]
    OBVIOUS
  <2>2. \A i \in c .. n : \E u \in H : f[u] = i
    BY <1>2
  <2> HIDE DEF f, H
  <2> QED
    BY <2>1, <2>2 DEF Surjection
<1>6. Cardinality(c .. n) <= Cardinality(H)
  <2> HIDE DEF f, H, c, n
  <2> QED
    BY <1>4, <1>5, FS_Surjection
<1>7. Cardinality(c .. n) = n - c + 1
  <2> HIDE DEF c, n
  <2>1. Cardinality(c .. n) = IF c > n THEN 0 ELSE n - c + 1
    BY <1>1, FS_Interval
  <2> QED
    BY <1>1, <2>1
<1>8. AfterBlock(I)[s] = c + Cardinality(G)
  BY DEF AfterBlock
<1>9. Cardinality(H) \in Nat
  BY <1>4, FS_CardinalityType
<1> HIDE DEF c, n, G, H, I, s, f
<1>10. c <= n /\ n < AfterBlock(I)[s]
  BY <1>1, <1>4, <1>6, <1>7, <1>8, <1>9
<1> QED
  BY <1>10 DEF c, n, I, s

\* No nonce falls.
LEMMA NoncesGrow ==
    ASSUME nonces \in [Senders -> Nat], NEW I, IsFiniteSet(I)
    PROVE  AfterBlock(I)[Funder] \in Nat /\ nonces[Funder] <= AfterBlock(I)[Funder]
<1> DEFINE G == {t \in I : t.sender = Funder}
<1>1. Cardinality(G) \in Nat
  BY FS_Subset, FS_CardinalityType
<1>2. Funder \in Senders /\ nonces[Funder] \in Nat
  BY Constants
<1>3. AfterBlock(I)[Funder] = nonces[Funder] + Cardinality(G)
  BY <1>2 DEF AfterBlock
<1> HIDE DEF G
<1> QED
  BY <1>1, <1>2, <1>3

----------------------------------------------------------------------------
(* Payouts that wait.  A payout that a sealed block left out stays in the   *)
(* pool while its proofs are queued again: such a payout is live as long as *)
(* its nonce is not spent, and the next tick must not pay its proofs too.   *)

\* What a later block may include.
Pending(p, k) == IF k.at \in {"idle", "add"} THEN p ELSE p \cup k.batch

\* What the running tick has added.
AddedOf(k) == IF k.at = "idle" THEN {} ELSE k.own \ k.todo

\* Pending payouts of earlier ticks.
Waiting(p, k) == {t \in Pending(p, k) : t.kind = "reward" /\ t \notin AddedOf(k)}

\* The forms of the pending transactions and of the tick's own.
FormsOK(p, k) ==
    /\ \A t \in Pending(p, k) : Form(t) /\ TxShape(t)
    /\ k.at # "idle" => \A t \in k.own : Form(t)
    /\ k.at \notin {"idle", "add"} => k.todo = {}

\* A tick that pays r from the nonce b on: a payout of an earlier tick is
\* spent or has the nonce of one that the tick has still to add; the schedule
\* up to the next block covers r.
PayTick(W, k, b, r, h, e) ==
    /\ Pays(k, r, b) /\ e + r <= CumulativeEmittedDust(h + 1)
    /\ \A t \in W : t.nonce < b \/ \E u \in k.todo : u.nonce = t.nonce

\* A tick that pays nobody although rewards have not ended has no live payout.
BeatTick(W, k, n, h) ==
    /\ Beats(k)
    /\ BlockRewardDust(h + 1) > 0 => \A t \in W : t.nonce < n

\* Between ticks the live payouts have the nonces that the next tick will use.
Rest(W, n, q, h) ==
    BlockRewardDust(h + 1) > 0 => \A t \in W : t.nonce < n + Cardinality(Paying(q))

NonceOK(W, k, n, q, h, e) ==
    IF k.at = "idle" THEN Rest(W, n, q, h)
    ELSE \/ BeatTick(W, k, n, h)
         \/ \E b \in 0 .. n, r \in Nat \ {0} : PayTick(W, k, b, r, h, e)

\* The proofs that a running tick took.
Taken(k, m) == IF k.at = "idle" THEN 0 ELSE k.drained[m]

\* What is queued besides the proofs of a payout that waits.
Besides(k, q, m) == IF k.at = "idle" THEN 0 ELSE q[m]

\* A miner has one live payout at most, for proofs that are not paid yet; the
\* proofs of a miner are those queued, taken, paid and forfeited.
AccountOK(W, k, n, q, d, f, a) ==
    /\ d \in [Miners -> Nat]
    /\ \A t, u \in W : t.nonce >= n /\ u.nonce >= n /\ t.to = u.to => t = u
    /\ \A t \in W : t.nonce >= n => d[t.to] + t.count + Besides(k, q, t.to) <= a[t.to]
    /\ \A m \in Miners : /\ q[m] + d[m] + Taken(k, m) <= a[m]
                         /\ a[m] <= q[m] + d[m] + Taken(k, m) + f[m]

\* The schedule covers what is paid and what the live payouts still pay.
EmitOK(W, n, e, h) ==
    /\ e \in Nat
    /\ \E w \in [Miners -> Nat] :
          /\ \A t \in W : t.nonce >= n => t.amount <= w[t.to]
          /\ e + SumFunctionOnSet(w, Miners) <= CumulativeEmittedDust(h)
    /\ CumulativeEmittedDust(h) = SumFunction([i \in 1 .. h |-> BlockRewardDust(i)])

\* The block reward does not grow, the schedule does not shrink.
LEMMA ScheduleMonotone ==
    ASSUME NEW h \in Nat, NEW i \in {h, h + 1}
    PROVE  /\ i \in Nat /\ BlockRewardDust(h + 1) \in Nat /\ BlockRewardDust(i + 1) \in Nat
           /\ BlockRewardDust(i + 1) > 0 => BlockRewardDust(h + 1) > 0
           /\ CumulativeEmittedDust(h) \in Nat /\ CumulativeEmittedDust(i) \in Nat
           /\ CumulativeEmittedDust(h + 1) \in Nat /\ CumulativeEmittedDust(i + 1) \in Nat
           /\ CumulativeEmittedDust(h) <= CumulativeEmittedDust(i)
           /\ CumulativeEmittedDust(h + 1) <= CumulativeEmittedDust(i + 1)
<1>1. CASE i = h
  BY <1>1, RewardFalls, CumulativeCap
<1>2. CASE i = h + 1
  <2>1. i \in Nat /\ i + 1 = h + 2
    BY <1>2
  <2>2. /\ BlockRewardDust(h + 1) \in Nat /\ BlockRewardDust(h + 2) \in Nat
        /\ BlockRewardDust(h + 2) <= BlockRewardDust(h + 1)
    BY RewardFalls
  <2>3. /\ CumulativeEmittedDust(h) \in Nat /\ CumulativeEmittedDust(h + 1) \in Nat /\ CumulativeEmittedDust(h + 2) \in Nat
    BY CumulativeCap
  <2>4. CumulativeEmittedDust(h + 1) = CumulativeEmittedDust(h) + BlockRewardDust(h + 1)
    BY CumulativeStep
  <2>5. CumulativeEmittedDust(i + 1) = CumulativeEmittedDust(i) + BlockRewardDust(i + 1)
    BY <2>1, CumulativeStep
  <2> QED
    BY <1>2, <2>1, <2>2, <2>3, <2>4, <2>5
<1> QED
  BY <1>1, <1>2

\* Fewer payouts wait, nonces are spent, proofs are queued or a block comes.
LEMMA NonceLess ==
    ASSUME NEW W, NEW V, V \subseteq W, \A t \in W : TxShape(t),
           NEW k, NEW l, l.at = "idle" <=> k.at = "idle",
           k.at # "idle" => l.own = k.own /\ l.todo = k.todo /\ l.drained = k.drained,
           NEW n \in Nat, NEW o \in Nat, n <= o,
           NEW q, NEW s, Paying(q) \subseteq Paying(s),
           NEW h \in Nat, NEW i \in {h, h + 1}, NEW e \in Nat,
           NonceOK(W, k, n, q, h, e)
    PROVE  NonceOK(V, l, o, s, i, e)
<1>0. \A t \in W : t.nonce \in Nat
  BY DEF TxShape
<1>1. CASE k.at = "idle"
  <2>1. Cardinality(Paying(q)) <= Cardinality(Paying(s)) /\ Cardinality(Paying(q)) \in Nat /\ Cardinality(Paying(s)) \in Nat
    BY PayingFacts, FS_Subset
  <2>2. \A t \in W : t.nonce < n + Cardinality(Paying(q)) => t.nonce < o + Cardinality(Paying(s))
    BY <1>0, <2>1
  <2>3. Rest(W, n, q, h)
    BY <1>1 DEF NonceOK
  <2>4. Rest(V, o, s, i)
    BY <2>2, <2>3, ScheduleMonotone DEF Rest
  <2> QED
    BY <1>1, <2>4 DEF NonceOK
<1>2. ASSUME k.at # "idle", BeatTick(W, k, n, h) PROVE NonceOK(V, l, o, s, i, e)
  <2>1. \A t \in W : t.nonce < n => t.nonce < o
    BY <1>0
  <2>2. BeatTick(V, l, o, i)
    BY <1>2, <2>1, ScheduleMonotone DEF BeatTick, Beats
  <2> QED
    BY <1>2, <2>2 DEF NonceOK
<1>3. ASSUME k.at # "idle", NEW b \in 0 .. n, NEW r \in Nat \ {0}, PayTick(W, k, b, r, h, e)
      PROVE  NonceOK(V, l, o, s, i, e)
  <2>1. b \in 0 .. o
    OBVIOUS
  <2>2. e + r <= CumulativeEmittedDust(i + 1)
    <3>1. e + r <= CumulativeEmittedDust(h + 1)
      BY <1>3 DEF PayTick
    <3>2. CumulativeEmittedDust(h + 1) <= CumulativeEmittedDust(i + 1) /\ CumulativeEmittedDust(h + 1) \in Nat /\ CumulativeEmittedDust(i + 1) \in Nat
      BY ScheduleMonotone
    <3> QED
      BY <3>1, <3>2
  <2>3. PayTick(V, l, b, r, i, e)
    BY <1>3, <2>2 DEF PayTick, Pays
  <2> QED
    BY <1>3, <2>1, <2>3 DEF NonceOK
<1> QED
  BY <1>1, <1>2, <1>3 DEF NonceOK

LEMMA EmitLess ==
    ASSUME NEW W, NEW V, V \subseteq W, \A t \in W : TxShape(t),
           NEW n \in Nat, NEW o \in Nat, n <= o, NEW e, NEW h \in Nat, NEW i \in {h, h + 1},
           EmitOK(W, n, e, h)
    PROVE  EmitOK(V, o, e, i)
<1>1. PICK w \in [Miners -> Nat] :
          /\ \A t \in W : t.nonce >= n => t.amount <= w[t.to]
          /\ e + SumFunctionOnSet(w, Miners) <= CumulativeEmittedDust(h)
  BY DEF EmitOK
<1>2. \A t \in W : t.nonce >= o => t.nonce >= n
  BY DEF TxShape
<1>3. SumFunctionOnSet(w, Miners) \in Nat /\ e \in Nat
  BY MinerFacts, SumNat DEF EmitOK
<1>4. e + SumFunctionOnSet(w, Miners) <= CumulativeEmittedDust(i)
  <2>1. /\ CumulativeEmittedDust(h) <= CumulativeEmittedDust(i)
        /\ CumulativeEmittedDust(h) \in Nat /\ CumulativeEmittedDust(i) \in Nat
    BY ScheduleMonotone
  <2> QED
    BY <1>1, <1>3, <2>1
<1>5. CumulativeEmittedDust(i) = SumFunction([j \in 1 .. i |-> BlockRewardDust(j)])
  <2>1. CumulativeEmittedDust(h) = SumFunction([j \in 1 .. h |-> BlockRewardDust(j)])
    BY DEF EmitOK
  <2> QED
    BY <2>1, ScheduleStep
<1>6. \A t \in V : t.nonce >= o => t.amount <= w[t.to]
  BY <1>1, <1>2
<1> QED
  BY <1>3, <1>4, <1>5, <1>6 DEF EmitOK

\* ... and the accounts gain accepted proofs x, which are queued.
LEMMA AccountLess ==
    ASSUME NEW W, NEW V, V \subseteq W, \A t \in W : TxShape(t) /\ t.to \in Miners /\ t.count \in Nat,
           NEW k, NEW l, l.at = "idle" <=> k.at = "idle",
           k.at # "idle" => l.drained = k.drained /\ k.drained \in [Miners -> Nat],
           NEW n \in Nat, NEW o \in Nat, n <= o,
           NEW q \in [Miners -> Nat], NEW s \in [Miners -> Nat], NEW d, NEW f \in [Miners -> Nat],
           NEW a \in [Miners -> Nat], NEW c \in [Miners -> Nat],
           NEW x \in [Miners -> Nat], \A m \in Miners : s[m] = q[m] + x[m] /\ c[m] = a[m] + x[m],
           AccountOK(W, k, n, q, d, f, a)
    PROVE  AccountOK(V, l, o, s, d, f, c)
<1>0. \A t \in W : t.nonce >= o => t.nonce >= n
  BY DEF TxShape
<1>1. d \in [Miners -> Nat]
  BY DEF AccountOK
<1>2. ASSUME NEW t \in V, t.nonce >= o
      PROVE  d[t.to] + t.count + Besides(l, s, t.to) <= c[t.to]
  <2>1. d[t.to] + t.count + Besides(k, q, t.to) <= a[t.to] /\ t.to \in Miners /\ t.count \in Nat
    BY <1>0, <1>2 DEF AccountOK
  <2>2. CASE k.at = "idle"
    BY <1>1, <2>1, <2>2 DEF Besides
  <2>3. CASE k.at # "idle"
    <3>1. d[t.to] + t.count + q[t.to] <= a[t.to] /\ s[t.to] = q[t.to] + x[t.to] /\ c[t.to] = a[t.to] + x[t.to]
      BY <2>1, <2>3 DEF Besides
    <3>2. /\ d[t.to] \in Nat /\ q[t.to] \in Nat /\ a[t.to] \in Nat /\ x[t.to] \in Nat
      BY <1>1, <2>1
    <3>3. d[t.to] + t.count + s[t.to] <= c[t.to]
      BY <2>1, <3>1, <3>2
    <3> QED
      BY <2>3, <3>3 DEF Besides
  <2> QED
    BY <2>2, <2>3
<1>3. ASSUME NEW m \in Miners
      PROVE  /\ s[m] + d[m] + Taken(l, m) <= c[m]
             /\ c[m] <= s[m] + d[m] + Taken(l, m) + f[m]
  <2>1. Taken(l, m) = Taken(k, m) /\ Taken(k, m) \in Nat
    BY DEF Taken
  <2>2. q[m] + d[m] + Taken(k, m) <= a[m] /\ a[m] <= q[m] + d[m] + Taken(k, m) + f[m]
    BY DEF AccountOK
  <2>3. q[m] \in Nat /\ d[m] \in Nat /\ f[m] \in Nat /\ a[m] \in Nat /\ x[m] \in Nat
        /\ s[m] = q[m] + x[m] /\ c[m] = a[m] + x[m]
    BY <1>1
  <2> QED
    BY <2>1, <2>2, <2>3
<1>4. \A t, u \in V : t.nonce >= o /\ u.nonce >= o /\ t.to = u.to => t = u
  BY <1>0 DEF AccountOK
<1> QED
  BY <1>1, <1>2, <1>3, <1>4 DEF AccountOK

\* Aging: the fields that matter here stay.
Ages(V, W) ==
    \A t \in V : \E u \in W : /\ t = [u EXCEPT !.old = TRUE] /\ t.nonce = u.nonce /\ t.to = u.to
                              /\ t.count = u.count /\ t.amount = u.amount

\* The pool gets old between ticks.
LEMMA Aging ==
    ASSUME NEW W, NEW V, Ages(V, W), NEW k, k.at = "idle",
           NEW n, NEW q, NEW h, NEW e, NEW d, NEW f, NEW a,
           NonceOK(W, k, n, q, h, e), AccountOK(W, k, n, q, d, f, a), EmitOK(W, n, e, h)
    PROVE  NonceOK(V, k, n, q, h, e) /\ AccountOK(V, k, n, q, d, f, a) /\ EmitOK(V, n, e, h)
<1>1. NonceOK(V, k, n, q, h, e)
  BY DEF Ages, NonceOK, Rest
<1>2. \A t, u \in V : t.nonce >= n /\ u.nonce >= n /\ t.to = u.to => t = u
  <2> SUFFICES ASSUME NEW t \in V, NEW u \in V, t.nonce >= n, u.nonce >= n, t.to = u.to PROVE t = u
    OBVIOUS
  <2>1. PICK x \in W : t = [x EXCEPT !.old = TRUE] /\ t.nonce = x.nonce /\ t.to = x.to
    BY DEF Ages
  <2>2. PICK y \in W : u = [y EXCEPT !.old = TRUE] /\ u.nonce = y.nonce /\ u.to = y.to
    BY DEF Ages
  <2>3. x = y
    BY <2>1, <2>2 DEF AccountOK
  <2> QED
    BY <2>1, <2>2, <2>3
<1>3. \A t \in V : t.nonce >= n => d[t.to] + t.count + Besides(k, q, t.to) <= a[t.to]
  <2> SUFFICES ASSUME NEW t \in V, t.nonce >= n PROVE d[t.to] + t.count + Besides(k, q, t.to) <= a[t.to]
    OBVIOUS
  <2>1. PICK x \in W : t.nonce = x.nonce /\ t.to = x.to /\ t.count = x.count
    BY DEF Ages
  <2> QED
    BY <2>1 DEF AccountOK
<1>4. AccountOK(V, k, n, q, d, f, a)
  BY <1>2, <1>3 DEF AccountOK
<1>5. EmitOK(V, n, e, h)
  <2>1. PICK w \in [Miners -> Nat] :
          /\ \A t \in W : t.nonce >= n => t.amount <= w[t.to]
          /\ e + SumFunctionOnSet(w, Miners) <= CumulativeEmittedDust(h)
    BY DEF EmitOK
  <2>2. \A t \in V : t.nonce >= n => t.amount <= w[t.to]
    BY <2>1 DEF Ages
  <2> QED
    BY <2>1, <2>2 DEF EmitOK
<1> QED
  BY <1>1, <1>4, <1>5

\* What a tick with the reward r builds for the queue q.
Builds(l, q, r, n) ==
    LET S == {m \in Miners : q[m] > 0 /\ r > 0}
    IN  IF S = {} THEN Beats(l) ELSE l.own = {RewardTx(q, m, S, r, n) : m \in S}

\* A tick takes the queue q: of the nonces that it uses, the live payouts have
\* some, and if it pays nobody there are none.
LEMMA Starting ==
    ASSUME NEW W, \A t \in W : TxShape(t) /\ t.to \in Miners /\ t.count \in Nat,
           NEW k, k.at = "idle", NEW n \in Nat, NEW q \in [Miners -> Nat], NEW h \in Nat, NEW e,
           NEW d, NEW f, NEW a \in [Miners -> Nat],
           NonceOK(W, k, n, q, h, e), AccountOK(W, k, n, q, d, f, a), EmitOK(W, n, e, h),
           NEW l, l.at = "add", l.drained = q, l.todo = l.own,
           Builds(l, q, BlockRewardDust(h + 1), n), NEW s \in [Miners -> Nat], \A m \in Miners : s[m] = 0
    PROVE  NonceOK(W, l, n, s, h, e) /\ AccountOK(W, l, n, s, d, f, a)
<1> DEFINE r == BlockRewardDust(h + 1)
           c == Cardinality(Paying(q))
<1>0. r \in Nat /\ c \in Nat /\ \A t \in W : t.nonce \in Nat
  BY EpochOf, PayingFacts DEF TxShape
<1>1. r > 0 => \A t \in W : t.nonce < n + c
  BY DEF NonceOK, Rest
<1>2. NonceOK(W, l, n, s, h, e)
  <2>1. ASSUME r > 0, Paying(q) # {} PROVE NonceOK(W, l, n, s, h, e)
    <3>1. Pays(l, r, n)
      <4>1. {m \in Miners : q[m] > 0 /\ r > 0} = Paying(q)
        BY <2>1 DEF Paying
      <4> HIDE DEF r
      <4> QED
        BY <2>1, <4>1 DEF Pays, Builds, r
    <3>2. \A i \in n .. n + c - 1 : \E t \in l.own : t.nonce = i
      BY <1>0, <3>1, OwnFacts DEF Payroll
    <3>3. \A t \in W : t.nonce < n \/ \E u \in l.todo : u.nonce = t.nonce
      <4> SUFFICES ASSUME NEW t \in W, ~(t.nonce < n) PROVE \E u \in l.todo : u.nonce = t.nonce
        OBVIOUS
      <4>1. t.nonce < n + c /\ t.nonce \in Nat
        BY <1>0, <1>1, <2>1
      <4> HIDE DEF c, r
      <4>2. t.nonce \in n .. n + c - 1
        BY <1>0, <4>1
      <4> QED
        BY <3>2, <4>2
    <3>4. e + r <= CumulativeEmittedDust(h + 1)
      <4>1. PICK w \in [Miners -> Nat] : e + SumFunctionOnSet(w, Miners) <= CumulativeEmittedDust(h)
        BY DEF EmitOK
      <4>2. SumFunctionOnSet(w, Miners) \in Nat /\ e \in Nat
        BY MinerFacts, SumNat DEF EmitOK
      <4>3. CumulativeEmittedDust(h + 1) = CumulativeEmittedDust(h) + r /\ CumulativeEmittedDust(h) \in Nat
        BY CumulativeStep, CumulativeCap
      <4> HIDE DEF r
      <4> QED
        BY <1>0, <4>1, <4>2, <4>3
    <3>5. n \in 0 .. n /\ r \in Nat \ {0}
      <4> HIDE DEF r
      <4> QED
        BY <1>0, <2>1
    <3> HIDE DEF r, c
    <3>6. PayTick(W, l, n, r, h, e)
      BY <3>1, <3>3, <3>4 DEF PayTick
    <3> QED
      BY <3>5, <3>6 DEF NonceOK
  <2>2. ASSUME ~(r > 0 /\ Paying(q) # {}) PROVE NonceOK(W, l, n, s, h, e)
    <3>1. {m \in Miners : q[m] > 0 /\ r > 0} = {}
      BY <2>2 DEF Paying
    <3>2. Beats(l)
      BY <3>1 DEF Builds
    <3>3. r > 0 => c = 0
      BY <2>2, FS_EmptySet
    <3> HIDE DEF c, r
    <3>4. r > 0 => \A t \in W : t.nonce < n
      BY <1>0, <1>1, <3>3
    <3>5. BeatTick(W, l, n, h)
      BY <3>2, <3>4 DEF BeatTick, r
    <3> QED
      BY <3>5 DEF NonceOK
  <2> QED
    BY <2>1, <2>2
<1>3. AccountOK(W, l, n, s, d, f, a)
  <2>1. d \in [Miners -> Nat]
    BY DEF AccountOK
  <2>2. \A t \in W : t.nonce >= n => d[t.to] + t.count + Besides(l, s, t.to) <= a[t.to]
    <3> SUFFICES ASSUME NEW t \in W, t.nonce >= n PROVE d[t.to] + t.count + Besides(l, s, t.to) <= a[t.to]
      OBVIOUS
    <3>1. d[t.to] + t.count + Besides(k, q, t.to) <= a[t.to] /\ t.to \in Miners
      BY DEF AccountOK
    <3>2. Besides(k, q, t.to) = 0 /\ Besides(l, s, t.to) = 0
      BY <3>1 DEF Besides
    <3> QED
      BY <3>1, <3>2
  <2>3. \A m \in Miners : /\ s[m] + d[m] + Taken(l, m) <= a[m]
                          /\ a[m] <= s[m] + d[m] + Taken(l, m) + f[m]
    <3> SUFFICES ASSUME NEW m \in Miners
                 PROVE  /\ s[m] + d[m] + Taken(l, m) <= a[m]
                        /\ a[m] <= s[m] + d[m] + Taken(l, m) + f[m]
      OBVIOUS
    <3>1. q[m] + d[m] + Taken(k, m) <= a[m] /\ a[m] <= q[m] + d[m] + Taken(k, m) + f[m]
      BY DEF AccountOK
    <3>2. Taken(k, m) = 0 /\ Taken(l, m) = q[m] /\ s[m] = 0
      BY DEF Taken
    <3>3. q[m] \in Nat /\ d[m] \in Nat
      BY <2>1
    <3>4. q[m] + d[m] + 0 = 0 + d[m] + q[m]
      BY <3>3
    <3> QED
      BY <3>1, <3>2, <3>4
  <2> QED
    BY <2>1, <2>2, <2>3 DEF AccountOK
<1> QED
  BY <1>2, <1>3

\* The tick adds x, of which no waiting payout has the nonce.
LEMMA Adding ==
    ASSUME NEW W, NEW V, V \subseteq W, NEW k, k.at # "idle", NEW l, l.at # "idle",
           l.own = k.own, l.drained = k.drained, NEW x, l.todo = k.todo \ {x},
           \A t \in V : t.nonce # x.nonce, NEW n, NEW q, NEW h, NEW e, NonceOK(W, k, n, q, h, e)
    PROVE  NonceOK(V, l, n, q, h, e)
<1>1. ASSUME BeatTick(W, k, n, h) PROVE NonceOK(V, l, n, q, h, e)
  <2>1. BeatTick(V, l, n, h)
    BY <1>1 DEF BeatTick, Beats
  <2> QED
    BY <2>1 DEF NonceOK
<1>2. ASSUME NEW b \in 0 .. n, NEW r \in Nat \ {0}, PayTick(W, k, b, r, h, e)
      PROVE  NonceOK(V, l, n, q, h, e)
  <2>1. PayTick(V, l, b, r, h, e)
    BY <1>2 DEF PayTick, Pays
  <2> QED
    BY <2>1 DEF NonceOK
<1> QED
  BY <1>1, <1>2 DEF NonceOK

\* The tick fails: what it took is queued again.
LEMMA Failing ==
    ASSUME NEW W, NEW V, V \subseteq W, \A t \in W : TxShape(t) /\ t.to \in Miners /\ t.count \in Nat,
           NEW k, k.at # "idle", k.todo \subseteq k.own, k.drained \in [Miners -> Nat],
           NEW l, l.at = "idle", NEW n \in Nat,
           NEW q \in [Miners -> Nat], NEW s, \A m \in Miners : s[m] = q[m] + k.drained[m],
           NEW h, NEW e, NEW d, NEW f \in [Miners -> Nat], NEW a \in [Miners -> Nat],
           NonceOK(W, k, n, q, h, e), AccountOK(W, k, n, q, d, f, a)
    PROVE  NonceOK(V, l, n, s, h, e) /\ AccountOK(V, l, n, s, d, f, a)
<1>0. \A t \in W : t.nonce \in Nat
  BY DEF TxShape
<1>1. Rest(V, n, s, h)
  <2>0. Cardinality(Paying(s)) \in Nat
    BY PayingFacts
  <2>1. ASSUME BeatTick(W, k, n, h) PROVE Rest(V, n, s, h)
    <3>1. \A t \in V : t.nonce < n => t.nonce < n + Cardinality(Paying(s))
      BY <1>0, <2>0
    <3> QED
      BY <2>1, <3>1 DEF BeatTick, Rest
  <2>2. ASSUME NEW b \in 0 .. n, NEW r \in Nat \ {0}, PayTick(W, k, b, r, h, e) PROVE Rest(V, n, s, h)
    <3> DEFINE c == Cardinality(Paying(k.drained))
    <3>1. b \in Nat /\ r \in Nat /\ Pays(k, r, b)
      BY <2>2 DEF PayTick
    <3>2. c \in Nat /\ \A u \in k.own : u.nonce \in b .. b + c - 1
      BY <3>1, OwnFacts DEF Payroll
    <3>3. c <= Cardinality(Paying(s))
      <4>1. Paying(k.drained) \in SUBSET Paying(s)
        <5>1. \A m \in Miners : k.drained[m] > 0 => s[m] > 0
          OBVIOUS
        <5> QED
          BY <5>1 DEF Paying
      <4>2. IsFiniteSet(Paying(s))
        BY PayingFacts
      <4> QED
        BY <4>1, <4>2, FS_Subset
    <3> HIDE DEF c
    <3>4. ASSUME NEW t \in V PROVE t.nonce < n + Cardinality(Paying(s))
      <4>1. t.nonce < b \/ t.nonce \in b .. b + c - 1
        BY <2>2, <3>2 DEF PayTick
      <4> QED
        BY <1>0, <2>0, <3>1, <3>2, <3>3, <4>1
    <3> QED
      BY <3>4 DEF Rest
  <2> QED
    BY <2>1, <2>2 DEF NonceOK
<1>2. d \in [Miners -> Nat]
  BY DEF AccountOK
<1>3. \A t \in V : t.nonce >= n => d[t.to] + t.count + Besides(l, s, t.to) <= a[t.to]
  <2> SUFFICES ASSUME NEW t \in V, t.nonce >= n PROVE d[t.to] + t.count + Besides(l, s, t.to) <= a[t.to]
    OBVIOUS
  <2>1. d[t.to] + t.count + q[t.to] <= a[t.to] /\ t.to \in Miners /\ t.count \in Nat
    BY DEF AccountOK, Besides
  <2>2. d[t.to] \in Nat /\ q[t.to] \in Nat /\ a[t.to] \in Nat
    BY <1>2, <2>1
  <2>3. Besides(l, s, t.to) = 0
    BY DEF Besides
  <2> QED
    BY <2>1, <2>2, <2>3
<1>4. ASSUME NEW m \in Miners
      PROVE  /\ s[m] + d[m] + Taken(l, m) <= a[m]
             /\ a[m] <= s[m] + d[m] + Taken(l, m) + f[m]
  <2>1. q[m] + d[m] + k.drained[m] <= a[m] /\ a[m] <= q[m] + d[m] + k.drained[m] + f[m]
    BY DEF AccountOK, Taken
  <2>2. Taken(l, m) = 0 /\ s[m] = q[m] + k.drained[m]
    BY DEF Taken
  <2>3. q[m] \in Nat /\ d[m] \in Nat /\ k.drained[m] \in Nat /\ a[m] \in Nat /\ f[m] \in Nat
    BY <1>2
  <2> QED
    BY <2>1, <2>2, <2>3
<1>5. AccountOK(V, l, n, s, d, f, a)
  BY <1>2, <1>3, <1>4 DEF AccountOK
<1> QED
  BY <1>1, <1>5 DEF NonceOK

----------------------------------------------------------------------------
(* A block pays.                                                           *)

\* Proofs and dust that a block pays to a miner.
CountPaid(I, m) == SumFunction([t \in Payouts(I, m) |-> t.count])
AmountPaid(I, m) == SumFunction([t \in Payouts(I, m) |-> t.amount])

LEMMA PaidNone ==
    ASSUME NEW I, NEW m, Payouts(I, m) = {}
    PROVE  CountPaid(I, m) = 0 /\ AmountPaid(I, m) = 0
<1> DEFINE P == Payouts(I, m)
           f == [t \in P |-> t.count]
           g == [t \in P |-> t.amount]
<1>1. CountPaid(I, m) = SumFunctionOnSet(f, P) /\ AmountPaid(I, m) = SumFunctionOnSet(g, P)
  <2>1. DOMAIN f = P /\ DOMAIN g = P
    OBVIOUS
  <2>2. CountPaid(I, m) = SumFunction(f) /\ AmountPaid(I, m) = SumFunction(g)
    BY DEF CountPaid, AmountPaid
  <2> HIDE DEF P, f, g
  <2> QED
    BY <2>1, <2>2, SumAll
<1>2. IsFiniteSet(P) /\ P = {}
  BY FS_EmptySet
<1> HIDE DEF P, f, g
<1> QED
  BY <1>1, <1>2, SumStep

LEMMA PaidOne ==
    ASSUME NEW I, NEW m, NEW t \in Payouts(I, m), \A u \in Payouts(I, m) : u = t, t.count \in Nat, t.amount \in Nat
    PROVE  CountPaid(I, m) = t.count /\ AmountPaid(I, m) = t.amount
<1> DEFINE P == Payouts(I, m)
           f == [u \in P |-> u.count]
           g == [u \in P |-> u.amount]
<1>1. CountPaid(I, m) = SumFunctionOnSet(f, P) /\ AmountPaid(I, m) = SumFunctionOnSet(g, P)
  <2>1. DOMAIN f = P /\ DOMAIN g = P
    OBVIOUS
  <2>2. CountPaid(I, m) = SumFunction(f) /\ AmountPaid(I, m) = SumFunction(g)
    BY DEF CountPaid, AmountPaid
  <2> HIDE DEF P, f, g
  <2> QED
    BY <2>1, <2>2, SumAll
<1>2. IsFiniteSet(P) /\ t \in P /\ \A u \in P : u = t
  <2>1. P = {t}
    OBVIOUS
  <2> QED
    BY <2>1, FS_Singleton
<1>3. \A u \in P : f[u] = t.count /\ g[u] = t.amount
  BY <1>2
<1> HIDE DEF P, f, g
<1>4. SumFunctionOnSet(f, P) = t.count
  BY <1>2, <1>3, SumOne
<1>5. SumFunctionOnSet(g, P) = t.amount
  BY <1>2, <1>3, SumOne
<1> QED
  BY <1>1, <1>4, <1>5

\* What is set aside for the miners pays them, and the rest stays aside.
LEMMA PaidFrom ==
    ASSUME NEW I, NEW w \in [Miners -> Nat],
           \A m \in Miners : AmountPaid(I, m) \in Nat /\ AmountPaid(I, m) <= w[m],
           NEW e \in Nat, NEW c, e + SumFunctionOnSet(w, Miners) <= c, c \in Nat
    PROVE  LET v == [m \in Miners |-> w[m] - AmountPaid(I, m)]
               z == e + SumFunction([m \in Miners |-> AmountPaid(I, m)])
           IN  v \in [Miners -> Nat] /\ z \in Nat /\ z + SumFunctionOnSet(v, Miners) <= c
<1> DEFINE v == [m \in Miners |-> w[m] - AmountPaid(I, m)]
           g == [m \in Miners |-> AmountPaid(I, m)]
<1>1. \A m \in Miners : /\ v[m] \in Nat /\ g[m] \in Nat /\ w[m] \in Nat /\ w[m] = g[m] + v[m]
                        /\ g[m] = AmountPaid(I, m)
  OBVIOUS
<1>2. v \in [Miners -> Nat] /\ DOMAIN g = Miners
  BY <1>1
<1> HIDE DEF v, g
<1>3. SumFunctionOnSet(w, Miners) = SumFunctionOnSet(g, Miners) + SumFunctionOnSet(v, Miners)
  <2>1. \A m \in Miners : g[m] \in Nat /\ v[m] \in Nat /\ w[m] = g[m] + v[m]
    BY <1>1
  <2>2. IsFiniteSet(Miners)
    BY MinerFacts
  <2> QED
    BY <2>1, <2>2, SumPlus
<1>4. SumFunctionOnSet(g, Miners) \in Nat /\ SumFunctionOnSet(v, Miners) \in Nat
  BY <1>1, MinerFacts, SumNat
<1>5. SumFunction(g) = SumFunctionOnSet(g, Miners)
  BY <1>2, SumAll
<1>6. e + SumFunction(g) \in Nat /\ (e + SumFunction(g)) + SumFunctionOnSet(v, Miners) <= c
  BY <1>3, <1>4, <1>5
<1> QED
  BY <1>2, <1>6 DEF v, g

\* A payout of the driver.
RewardForm(t) ==
    /\ t.kind = "reward" /\ t.to \in Miners /\ t.count \in Nat /\ t.amount \in Nat /\ t.nonce \in Nat

\* What a block does to the queue q, the forfeited proofs f, the paid proofs d
\* and the dust e of the tick k.
QueuedAgain(k, I, q, s) ==
    \A m \in Miners : s[m] = q[m] + IF \E t \in k.own : t.to = m /\ t.id \notin IDs(I)
                                    THEN k.drained[m] ELSE 0
Forfeits(k, f, g) ==
    \A m \in Miners : g[m] = f[m] + IF \E t \in k.own : t.to = m THEN 0 ELSE k.drained[m]
PaysOut(I, d, e, c, z) ==
    /\ c = [m \in Miners |-> d[m] + CountPaid(I, m)]
    /\ z = e + SumFunction([m \in Miners |-> AmountPaid(I, m)])

\* It spends nonces from n to o of what is pending.
Spends(I, X, n, o) ==
    \A t \in I : Form(t) /\ (t.kind = "reward" => t \in X /\ n <= t.nonce /\ t.nonce < o)

\* The block of a tick that pays nobody includes, if anything, payouts of
\* earlier ticks; the proofs that this tick took are forfeited.
LEMMA SealBeat ==
    ASSUME NEW W, NEW V, V \subseteq W, \A t \in W : RewardForm(t),
           NEW k, k.at # "idle", k.drained \in [Miners -> Nat], NEW l, l.at = "idle",
           NEW n \in Nat, NEW o \in Nat, n <= o, NEW h \in Nat, NEW e,
           NEW q \in [Miners -> Nat], NEW d, NEW f \in [Miners -> Nat], NEW a \in [Miners -> Nat],
           BeatTick(W, k, n, h), AccountOK(W, k, n, q, d, f, a), EmitOK(W, n, e, h),
           NEW I, Spends(I, W, n, o), NEW s \in [Miners -> Nat], QueuedAgain(k, I, q, s),
           NEW g, Forfeits(k, f, g), NEW c, NEW z, PaysOut(I, d, e, c, z)
    PROVE  NonceOK(V, l, o, s, h + 1, z) /\ AccountOK(V, l, o, s, c, g, a) /\ EmitOK(V, o, z, h + 1)
<1>0. \A t \in W : RewardForm(t) /\ t.nonce \in Nat /\ t.count \in Nat /\ t.amount \in Nat /\ t.to \in Miners
  BY DEF RewardForm
<1>a. \A m \in Miners : s[m] = q[m] /\ g[m] = f[m] + k.drained[m]
  <2>1. \A t \in k.own : t.to \notin Miners
    BY MinerFacts DEF BeatTick, Beats
  <2>2. \A m \in Miners : s[m] = q[m] + 0 /\ g[m] = f[m] + k.drained[m]
    BY <2>1 DEF QueuedAgain, Forfeits
  <2> QED
    BY <2>2
<1>1. h + 1 \in Nat /\ (BlockRewardDust(h + 2) > 0 => BlockRewardDust(h + 1) > 0)
      /\ CumulativeEmittedDust(h) \in Nat /\ CumulativeEmittedDust(h + 1) \in Nat
      /\ CumulativeEmittedDust(h) <= CumulativeEmittedDust(h + 1)
  <2>1. h + 1 \in {h, h + 1} /\ (h + 1) + 1 = h + 2
    OBVIOUS
  <2> QED
    BY <2>1, ScheduleMonotone
<1>2. NonceOK(V, l, o, s, h + 1, z)
  <2>1. (h + 1) + 1 = h + 2 /\ Cardinality(Paying(s)) \in Nat
    BY PayingFacts
  <2>2. BlockRewardDust(h + 2) > 0 => \A t \in V : t.nonce < n
    BY <1>1 DEF BeatTick
  <2>3. \A t \in V : t.nonce < n => t.nonce < o + Cardinality(Paying(s))
    BY <1>0, <2>1
  <2>4. Rest(V, o, s, h + 1)
    BY <2>1, <2>2, <2>3 DEF Rest
  <2> QED
    BY <2>4 DEF NonceOK
<1>3. \A t, u \in W : t.nonce >= n /\ u.nonce >= n /\ t.to = u.to => t = u
  BY DEF AccountOK
\* A miner is paid by its one live payout or not at all.
<1>4. ASSUME NEW m \in Miners
      PROVE  \/ Payouts(I, m) = {} /\ CountPaid(I, m) = 0 /\ AmountPaid(I, m) = 0
             \/ \E t \in W : /\ t.nonce >= n /\ t.nonce < o /\ t.to = m
                             /\ CountPaid(I, m) = t.count /\ AmountPaid(I, m) = t.amount
  <2>1. CASE Payouts(I, m) = {}
    BY <2>1, PaidNone
  <2>2. CASE Payouts(I, m) # {}
    <3>1. PICK t : t \in Payouts(I, m)
      BY <2>2
    <3>2. \A u \in Payouts(I, m) : u \in W /\ u.nonce >= n /\ u.nonce < o /\ u.to = m
      BY <1>0 DEF Payouts, Spends
    <3>3. \A u \in Payouts(I, m) : u = t
      BY <1>3, <3>1, <3>2
    <3>4. CountPaid(I, m) = t.count /\ AmountPaid(I, m) = t.amount
      <4>1. t.count \in Nat /\ t.amount \in Nat
        BY <1>0, <3>1, <3>2
      <4> QED
        BY <3>1, <3>3, <4>1, PaidOne
    <3> QED
      BY <3>1, <3>2, <3>3, <3>4
  <2> QED
    BY <2>1, <2>2
<1>5. \A m \in Miners : CountPaid(I, m) \in Nat /\ AmountPaid(I, m) \in Nat
  BY <1>0, <1>4
\* The miner of a payout that stays live was not paid.
<1>6. ASSUME NEW t \in V, t.nonce >= o
      PROVE  t \in W /\ t.nonce >= n /\ CountPaid(I, t.to) = 0 /\ AmountPaid(I, t.to) = 0
  <2>1. t \in W /\ t.nonce >= n /\ t.to \in Miners
    BY <1>0, <1>6
  <2>2. ASSUME NEW u \in W, u.nonce >= n, u.nonce < o, u.to = t.to PROVE FALSE
    <3>1. u = t
      BY <1>3, <2>1, <2>2
    <3> QED
      BY <1>0, <1>6, <2>2, <3>1
  <2> QED
    BY <1>4, <2>1, <2>2
<1>7. d \in [Miners -> Nat] /\ c \in [Miners -> Nat] /\ \A m \in Miners : c[m] = d[m] + CountPaid(I, m)
  <2>1. d \in [Miners -> Nat]
    BY DEF AccountOK
  <2> QED
    BY <1>5, <2>1 DEF PaysOut
<1>8. \A t \in V : t.nonce >= o => c[t.to] + t.count + Besides(l, s, t.to) <= a[t.to]
  <2> SUFFICES ASSUME NEW t \in V, t.nonce >= o PROVE c[t.to] + t.count + Besides(l, s, t.to) <= a[t.to]
    OBVIOUS
  <2>1. t \in W /\ t.nonce >= n /\ CountPaid(I, t.to) = 0 /\ t.to \in Miners /\ t.count \in Nat
    BY <1>0, <1>6
  <2>2. d[t.to] + t.count + q[t.to] <= a[t.to]
    BY <2>1 DEF AccountOK, Besides
  <2>3. Besides(l, s, t.to) = 0
    BY DEF Besides
  <2>4. c[t.to] = d[t.to] + 0 /\ d[t.to] \in Nat /\ q[t.to] \in Nat /\ a[t.to] \in Nat
    BY <1>7, <2>1
  <2> QED
    BY <2>1, <2>2, <2>3, <2>4
<1>9. ASSUME NEW m \in Miners
      PROVE  /\ s[m] + c[m] + Taken(l, m) <= a[m]
             /\ a[m] <= s[m] + c[m] + Taken(l, m) + g[m]
  <2>1. q[m] + d[m] + k.drained[m] <= a[m] /\ a[m] <= q[m] + d[m] + k.drained[m] + f[m]
    BY DEF AccountOK, Taken
  <2>2. Taken(l, m) = 0 /\ s[m] = q[m] /\ g[m] = f[m] + k.drained[m] /\ c[m] = d[m] + CountPaid(I, m)
    BY <1>a, <1>7 DEF Taken
  <2>3. q[m] \in Nat /\ d[m] \in Nat /\ k.drained[m] \in Nat /\ a[m] \in Nat /\ f[m] \in Nat /\ CountPaid(I, m) \in Nat
    BY <1>5, <1>7
  <2>4. CountPaid(I, m) = 0 \/ d[m] + CountPaid(I, m) + q[m] <= a[m]
    <3>1. ASSUME NEW t \in W, t.nonce >= n, t.to = m, CountPaid(I, m) = t.count
          PROVE  d[m] + CountPaid(I, m) + q[m] <= a[m]
      BY <3>1 DEF AccountOK, Besides
    <3> QED
      BY <1>4, <3>1
  <2> QED
    BY <2>1, <2>2, <2>3, <2>4
<1>10. \A t, u \in V : t.nonce >= o /\ u.nonce >= o /\ t.to = u.to => t = u
  BY <1>3, <1>6
<1>11. AccountOK(V, l, o, s, c, g, a)
  BY <1>7, <1>8, <1>9, <1>10 DEF AccountOK
<1>12. EmitOK(V, o, z, h + 1)
  <2>1. PICK w \in [Miners -> Nat] :
          /\ \A t \in W : t.nonce >= n => t.amount <= w[t.to]
          /\ e + SumFunctionOnSet(w, Miners) <= CumulativeEmittedDust(h)
    BY DEF EmitOK
  <2>2. \A m \in Miners : AmountPaid(I, m) \in Nat /\ AmountPaid(I, m) <= w[m]
    <3> SUFFICES ASSUME NEW m \in Miners PROVE AmountPaid(I, m) <= w[m]
      BY <1>5
    <3>1. AmountPaid(I, m) = 0 \/ \E t \in W : t.nonce >= n /\ t.to = m /\ AmountPaid(I, m) = t.amount
      BY <1>4
    <3> QED
      BY <2>1, <3>1
  <2> DEFINE v == [m \in Miners |-> w[m] - AmountPaid(I, m)]
  <2>3. e \in Nat
    BY DEF EmitOK
  <2>4. v \in [Miners -> Nat] /\ z \in Nat /\ z + SumFunctionOnSet(v, Miners) <= CumulativeEmittedDust(h)
    BY <1>1, <2>1, <2>2, <2>3, PaidFrom DEF PaysOut
  <2>5. \A t \in V : t.nonce >= o => t.amount <= v[t.to]
    <3> SUFFICES ASSUME NEW t \in V, t.nonce >= o PROVE t.amount <= v[t.to]
      OBVIOUS
    <3>1. t \in W /\ t.nonce >= n /\ AmountPaid(I, t.to) = 0 /\ t.to \in Miners
      BY <1>0, <1>6
    <3>2. t.amount <= w[t.to] /\ w[t.to] \in Nat /\ t.amount \in Nat
      BY <1>0, <2>1, <3>1
    <3>3. v[t.to] = w[t.to] - 0
      BY <3>1
    <3> QED
      BY <3>2, <3>3
  <2> HIDE DEF v
  <2>6. SumFunctionOnSet(v, Miners) \in Nat
    BY <2>4, MinerFacts, SumNat
  <2>7. z + SumFunctionOnSet(v, Miners) <= CumulativeEmittedDust(h + 1)
    BY <1>1, <2>4, <2>6
  <2>8. CumulativeEmittedDust(h + 1) = SumFunction([i \in 1 .. h + 1 |-> BlockRewardDust(i)])
    <3>1. CumulativeEmittedDust(h) = SumFunction([i \in 1 .. h |-> BlockRewardDust(i)])
      BY DEF EmitOK
    <3> QED
      BY <3>1, ScheduleStep
  <2> QED
    BY <2>4, <2>5, <2>7, <2>8 DEF EmitOK
<1> QED
  BY <1>2, <1>11, <1>12

\* The block of a tick that pays: what it includes is the tick's own, and of
\* a payout that it leaves out the proofs are queued again.
LEMMA SealPay ==
    ASSUME NEW W, \A t \in W : RewardForm(t),
           NEW k, k.at # "idle", k.todo = {}, k.drained \in [Miners -> Nat], NEW l, l.at = "idle",
           NEW V, V \subseteq W \cup k.own,
           NEW n \in Nat, NEW o \in Nat, n <= o, NEW h \in Nat, NEW e \in Nat,
           NEW q \in [Miners -> Nat], NEW d, NEW f \in [Miners -> Nat], NEW a \in [Miners -> Nat],
           NEW b \in 0 .. n, NEW r \in Nat \ {0}, PayTick(W, k, b, r, h, e),
           AccountOK(W, k, n, q, d, f, a), EmitOK(W, n, e, h),
           NEW I, Spends(I, W \cup k.own, n, o), NEW s \in [Miners -> Nat], QueuedAgain(k, I, q, s),
           NEW g, Forfeits(k, f, g), NEW c, NEW z, PaysOut(I, d, e, c, z)
    PROVE  NonceOK(V, l, o, s, h + 1, z) /\ AccountOK(V, l, o, s, c, g, a) /\ EmitOK(V, o, z, h + 1)
<1> DEFINE p == k.drained
           j == Cardinality(Paying(p))
<1>0. b \in Nat /\ b <= n /\ r \in Nat /\ Pays(k, r, b) /\ e + r <= CumulativeEmittedDust(h + 1)
      /\ \A t \in W : t.nonce < b
  BY DEF PayTick
<1>1a. Payroll(k.own, p, r, b, j)
  BY <1>0, OwnFacts
<1> HIDE DEF p, j
<1>1. /\ j \in Nat
      /\ \A t \in k.own : /\ t.kind = "reward" /\ t.to \in Paying(p) /\ t.to \in Miners
                          /\ t.count = p[t.to] /\ t.nonce \in b .. b + j - 1 /\ Form(t) /\ TxShape(t)
                          /\ t.amount = (r * p[t.to]) \div Total(p)
      /\ \A t, u \in k.own : t.to = u.to => t = u
      /\ \A t, u \in k.own : t.nonce = u.nonce => t = u
      /\ \A m \in Paying(p) : \E t \in k.own : t.to = m
      /\ \A i \in b .. b + j - 1 : \E t \in k.own : t.nonce = i
  BY <1>1a DEF Payroll
<1>2. \A t \in k.own : /\ t.count \in Nat /\ t.amount \in Nat /\ t.nonce \in Nat /\ t.to \in Miners /\ t.kind = "reward"
                       /\ t.id = <<"reward", t.nonce, t.to>>
  BY <1>1 DEF Form, TxShape
\* Payouts of earlier ticks are spent.
<1>3. \A t \in W : t.nonce \in Nat /\ t.nonce < n /\ t.nonce < o
  BY <1>0 DEF RewardForm
<1>4. \A t \in I : t.kind = "reward" => t \in k.own /\ n <= t.nonce /\ t.nonce < o
  <2>1. \A t \in W : ~(n <= t.nonce)
    BY <1>3
  <2> QED
    BY <2>1 DEF Spends
<1>5. ASSUME NEW t \in V, t.nonce >= o PROVE t \in k.own
  <2>1. t \notin W
    BY <1>3, <1>5
  <2> QED
    BY <2>1
\* The block names an own transaction if and only if it includes it.
<1>6. ASSUME NEW t \in k.own PROVE t.id \in IDs(I) <=> t \in I
  <2>1. ASSUME NEW u \in I, u.id = t.id PROVE u = t
    <3>1. u.id = <<"reward", t.nonce, t.to>> /\ t.nonce \in Nat /\ t.to \in Nat
      BY <1>2, <2>1, MinerFacts
    <3>2. u.id \in DriverIDs
      BY <3>1 DEF DriverIDs
    <3>3. Form(u)
      BY DEF Spends
    <3>4. u.kind = "reward" /\ u.id = <<"reward", u.nonce, u.to>>
      BY <3>1, <3>2, <3>3 DEF Form
    <3>5. u.nonce = t.nonce
      BY <3>1, <3>4
    <3> QED
      BY <1>1, <1>4, <3>4, <3>5
  <2> QED
    BY <2>1 DEF IDs
<1>7. d \in [Miners -> Nat]
  BY DEF AccountOK
\* A miner's payout is included, left out, or there is none.
<1>8. ASSUME NEW t \in k.own, t \in I
      PROVE  /\ CountPaid(I, t.to) = p[t.to] /\ AmountPaid(I, t.to) = t.amount
             /\ s[t.to] = q[t.to] /\ g[t.to] = f[t.to]
  <2>1. \A u \in k.own : u.to = t.to => u.id \in IDs(I)
    BY <1>1, <1>6, <1>8
  <2>2. t \in Payouts(I, t.to) /\ \A u \in Payouts(I, t.to) : u = t
    BY <1>1, <1>4, <1>8 DEF Payouts
  <2>3. CountPaid(I, t.to) = t.count /\ AmountPaid(I, t.to) = t.amount
    BY <1>2, <2>2, PaidOne
  <2>4. t.to \in Miners /\ t.count = p[t.to]
    BY <1>1
  <2>5. s[t.to] = q[t.to] + 0 /\ g[t.to] = f[t.to] + 0
    BY <2>1, <2>4 DEF QueuedAgain, Forfeits
  <2> QED
    BY <2>3, <2>4, <2>5
<1>9. ASSUME NEW t \in k.own, t \notin I
      PROVE  /\ Payouts(I, t.to) = {} /\ CountPaid(I, t.to) = 0 /\ AmountPaid(I, t.to) = 0
             /\ s[t.to] = q[t.to] + p[t.to] /\ g[t.to] = f[t.to]
  <2>1. t.id \notin IDs(I) /\ t.to \in Miners
    BY <1>1, <1>6, <1>9
  <2>2. Payouts(I, t.to) = {}
    BY <1>1, <1>4, <1>9 DEF Payouts
  <2>3. CountPaid(I, t.to) = 0 /\ AmountPaid(I, t.to) = 0
    BY <2>2, PaidNone
  <2>4. s[t.to] = q[t.to] + p[t.to] /\ g[t.to] = f[t.to] + 0
    BY <2>1 DEF p, QueuedAgain, Forfeits
  <2> QED
    BY <2>1, <2>2, <2>3, <2>4
<1>10. ASSUME NEW m \in Miners, ~\E t \in k.own : t.to = m
       PROVE  /\ CountPaid(I, m) = 0 /\ AmountPaid(I, m) = 0 /\ s[m] = q[m] /\ g[m] = f[m] /\ p[m] = 0
  <2>1. p[m] = 0
    <3>1. p[m] \in Nat /\ ~(p[m] > 0)
      BY <1>1, <1>10 DEF p, Paying
    <3> QED
      BY <3>1
  <2>2. Payouts(I, m) = {}
    BY <1>4, <1>10 DEF Payouts
  <2>3. CountPaid(I, m) = 0 /\ AmountPaid(I, m) = 0
    BY <2>2, PaidNone
  <2>4. s[m] = q[m] + 0 /\ g[m] = f[m] + p[m]
    BY <1>10 DEF p, QueuedAgain, Forfeits
  <2> QED
    BY <2>1, <2>3, <2>4
<1> DEFINE Out(m) == \/ CountPaid(I, m) = p[m] /\ s[m] = q[m]
                     \/ CountPaid(I, m) = 0 /\ s[m] = q[m] + p[m]
<1>11. \A m \in Miners : Out(m) /\ g[m] = f[m] /\ CountPaid(I, m) \in Nat /\ AmountPaid(I, m) \in Nat /\ p[m] \in Nat
  <2> SUFFICES ASSUME NEW m \in Miners
               PROVE  Out(m) /\ g[m] = f[m] /\ CountPaid(I, m) \in Nat /\ AmountPaid(I, m) \in Nat /\ p[m] \in Nat
    OBVIOUS
  <2>0. p[m] \in Nat
    BY DEF p
  <2>1. ASSUME NEW t \in k.own, t.to = m
        PROVE  Out(m) /\ g[m] = f[m] /\ CountPaid(I, m) \in Nat /\ AmountPaid(I, m) \in Nat
    BY <1>2, <1>8, <1>9, <2>0, <2>1
  <2>2. ASSUME ~\E t \in k.own : t.to = m
        PROVE  Out(m) /\ g[m] = f[m] /\ CountPaid(I, m) \in Nat /\ AmountPaid(I, m) \in Nat
    BY <1>10, <2>2
  <2> QED
    BY <2>0, <2>1, <2>2
<1>12. c \in [Miners -> Nat] /\ \A m \in Miners : c[m] = d[m] + CountPaid(I, m)
  BY <1>7, <1>11 DEF PaysOut
<1>13. ASSUME NEW m \in Miners
       PROVE  /\ s[m] + c[m] + Taken(l, m) <= a[m]
              /\ a[m] <= s[m] + c[m] + Taken(l, m) + g[m]
  <2>1. q[m] + d[m] + p[m] <= a[m] /\ a[m] <= q[m] + d[m] + p[m] + f[m]
    BY DEF AccountOK, Taken, p
  <2>2. Taken(l, m) = 0 /\ g[m] = f[m] /\ c[m] = d[m] + CountPaid(I, m) /\ Out(m)
    BY <1>11, <1>12 DEF Taken
  <2>3. q[m] \in Nat /\ d[m] \in Nat /\ p[m] \in Nat /\ a[m] \in Nat /\ f[m] \in Nat /\ CountPaid(I, m) \in Nat
    BY <1>7, <1>11
  <2>4. s[m] + c[m] = q[m] + d[m] + p[m]
    BY <2>2, <2>3
  <2> QED
    BY <2>1, <2>2, <2>3, <2>4
\* A live payout is one that the block left out.
<1>14. ASSUME NEW t \in V, t.nonce >= o PROVE t \in k.own /\ t \notin I
  BY <1>2, <1>4, <1>5, <1>14
<1>15. \A t \in V : t.nonce >= o => c[t.to] + t.count + Besides(l, s, t.to) <= a[t.to]
  <2> SUFFICES ASSUME NEW t \in V, t.nonce >= o PROVE c[t.to] + t.count + Besides(l, s, t.to) <= a[t.to]
    OBVIOUS
  <2>1. t \in k.own /\ t \notin I /\ t.to \in Miners /\ t.count = p[t.to]
    BY <1>1, <1>14
  <2>2. q[t.to] + d[t.to] + p[t.to] <= a[t.to]
    BY <2>1 DEF AccountOK, Taken, p
  <2>3. Besides(l, s, t.to) = 0 /\ c[t.to] = d[t.to] + 0
    BY <1>9, <1>12, <2>1 DEF Besides
  <2>4. d[t.to] \in Nat /\ q[t.to] \in Nat /\ a[t.to] \in Nat /\ p[t.to] \in Nat
    BY <1>7, <1>11, <2>1
  <2> QED
    BY <2>1, <2>2, <2>3, <2>4
<1>16. \A t, u \in V : t.nonce >= o /\ u.nonce >= o /\ t.to = u.to => t = u
  BY <1>1, <1>5
<1>17. AccountOK(V, l, o, s, c, g, a)
  BY <1>12, <1>13, <1>15, <1>16 DEF AccountOK
\* The payouts left out have the nonces from o on, and their miners are queued.
<1>18. Rest(V, o, s, h + 1)
  <2> DEFINE N == o .. b + j - 1
             Own(i) == CHOOSE t \in k.own : t.nonce = i
             x == [i \in N |-> Own(i).to]
  <2>1. ASSUME NEW i \in N PROVE /\ Own(i) \in k.own /\ Own(i).nonce = i /\ Own(i).to \in Paying(s)
    <3>1. i \in b .. b + j - 1
      BY <1>0, <1>1
    <3>2. Own(i) \in k.own /\ Own(i).nonce = i
      BY <1>1, <3>1
    <3> DEFINE t == Own(i)
    <3>3. t \in k.own /\ t.nonce = i
      BY <3>2
    <3> HIDE DEF Own, t
    <3>4. t.nonce >= o
      BY <3>3
    <3>5. t \notin I
      BY <1>2, <1>4, <3>3, <3>4
    <3>6. s[t.to] = q[t.to] + p[t.to] /\ t.to \in Miners /\ t.to \in Paying(p)
      BY <1>1, <1>9, <3>3, <3>5
    <3>7. p[t.to] > 0 /\ q[t.to] \in Nat /\ p[t.to] \in Nat
      BY <1>11, <3>6 DEF Paying
    <3>8. s[t.to] > 0
      BY <3>6, <3>7
    <3> QED
      BY <3>2, <3>6, <3>8 DEF Paying, t
  <2> HIDE DEF Own
  <2>2. x \in [N -> Paying(s)] /\ \A i \in N : x[i] = Own(i).to
    BY <2>1
  <2>3. \A i, y \in N : x[i] = x[y] => i = y
    BY <1>1, <2>1, <2>2
  <2> HIDE DEF x, N
  <2>4. x \in Injection(N, Paying(s))
    BY <2>2, <2>3 DEF Injection, IsInjective
  <2>5. IsFiniteSet(Paying(s)) /\ Cardinality(Paying(s)) \in Nat
    BY PayingFacts
  <2>6. Cardinality(N) <= Cardinality(Paying(s))
    BY <2>4, <2>5, FS_Injection
  <2>7. Cardinality(N) \in Int /\ b + j - o <= Cardinality(N)
    <3> DEFINE y == b + j - 1
    <3>1. o \in Int /\ y \in Int
      BY <1>0, <1>1
    <3>2. N = o .. y
      BY DEF N
    <3> HIDE DEF y
    <3>3. Cardinality(N) = IF o > y THEN 0 ELSE y - o + 1
      BY <3>1, <3>2, FS_Interval
    <3>4. Cardinality(N) \in Int /\ y - o + 1 <= Cardinality(N)
      BY <3>1, <3>3
    <3> QED
      BY <1>0, <1>1, <3>4 DEF y
  <2>8. b + j <= o + Cardinality(Paying(s))
    BY <1>0, <1>1, <2>5, <2>6, <2>7
  <2>9. ASSUME NEW t \in V PROVE t.nonce < o + Cardinality(Paying(s))
    <3>1. CASE t \in W
      BY <1>3, <2>5, <3>1
    <3>2. CASE t \in k.own
      <4>1. t.nonce \in b .. b + j - 1
        BY <1>1, <3>2
      <4> QED
        BY <1>0, <1>1, <2>5, <2>8, <4>1
    <3> QED
      BY <3>1, <3>2
  <2> QED
    BY <2>9 DEF Rest
<1>19. NonceOK(V, l, o, s, h + 1, z)
  BY <1>18 DEF NonceOK
\* The amounts of the tick's payouts are within its reward.
<1>20. EmitOK(V, o, z, h + 1)
  <2> DEFINE w == [m \in Miners |-> (r * p[m]) \div Total(p)]
             v == [m \in Miners |-> w[m] - AmountPaid(I, m)]
  <2>1. p \in [Miners -> Nat] /\ Paying(p) # {}
    BY <1>0 DEF p, Pays
  <2>2. Total(p) \in Nat \ {0}
    BY <2>1, TotalPositive
  <2>3. \A m \in Miners : w[m] \in Nat /\ w[m] = (r * p[m]) \div Total(p)
    <3> SUFFICES ASSUME NEW m \in Miners PROVE (r * p[m]) \div Total(p) \in Nat
      OBVIOUS
    <3>1. r * p[m] \in Nat
      BY <1>0, <2>1
    <3> QED
      BY <2>2, <3>1, Quotient
  <2>4. w \in [Miners -> Nat]
    BY <2>3
  <2> HIDE DEF w
  <2>5. SumFunctionOnSet(w, Miners) <= r /\ SumFunctionOnSet(w, Miners) \in Nat
    <3>1. \A m \in Miners : p[m] \in Nat /\ w[m] \in Nat /\ w[m] <= (r * p[m]) \div SumFunctionOnSet(p, Miners)
      BY <2>1, <2>3 DEF Total
    <3>2. SumFunctionOnSet(p, Miners) # 0
      BY <2>2 DEF Total
    <3>3. \A m \in Miners : w[m] \in Nat
      BY <2>3
    <3>4. IsFiniteSet(Miners)
      BY MinerFacts
    <3> QED
      BY <1>0, <3>1, <3>2, <3>3, <3>4, SharesWithin, SumNat
  <2>6. \A t \in k.own : t.amount = w[t.to] /\ t.to \in Miners
    BY <1>1, <2>3
  <2>7. \A m \in Miners : AmountPaid(I, m) \in Nat /\ AmountPaid(I, m) <= w[m]
    <3> SUFFICES ASSUME NEW m \in Miners PROVE AmountPaid(I, m) <= w[m]
      BY <1>11
    <3>1. AmountPaid(I, m) = 0 \/ AmountPaid(I, m) = w[m]
      BY <1>8, <1>9, <1>10, <2>6
    <3> QED
      BY <2>3, <3>1
  <2>8. e + SumFunctionOnSet(w, Miners) <= CumulativeEmittedDust(h + 1) /\ CumulativeEmittedDust(h + 1) \in Nat
    <3>1. CumulativeEmittedDust(h + 1) \in Nat
      BY CumulativeCap
    <3> QED
      BY <1>0, <2>5, <3>1
  <2>9. v \in [Miners -> Nat] /\ z \in Nat /\ z + SumFunctionOnSet(v, Miners) <= CumulativeEmittedDust(h + 1)
    <3>1. e + SumFunctionOnSet(w, Miners) <= CumulativeEmittedDust(h + 1)
      BY <2>8
    <3>2. CumulativeEmittedDust(h + 1) \in Nat
      BY <2>8
    <3> QED
      BY <2>4, <2>7, <3>1, <3>2, PaidFrom DEF PaysOut
  <2>10. \A t \in V : t.nonce >= o => t.amount <= v[t.to]
    <3> SUFFICES ASSUME NEW t \in V, t.nonce >= o PROVE t.amount <= v[t.to]
      OBVIOUS
    <3>1. t \in k.own /\ t \notin I /\ t.to \in Miners /\ t.amount = w[t.to]
      BY <1>14, <2>6
    <3>2. v[t.to] = w[t.to] - 0 /\ w[t.to] \in Nat
      BY <1>9, <2>3, <3>1
    <3> QED
      BY <3>1, <3>2
  <2> HIDE DEF v
  <2>11. CumulativeEmittedDust(h + 1) = SumFunction([i \in 1 .. h + 1 |-> BlockRewardDust(i)])
    <3>1. CumulativeEmittedDust(h) = SumFunction([i \in 1 .. h |-> BlockRewardDust(i)])
      BY DEF EmitOK
    <3> QED
      BY <3>1, ScheduleStep
  <2> QED
    BY <2>9, <2>10, <2>11 DEF EmitOK
<1> QED
  BY <1>17, <1>19, <1>20

----------------------------------------------------------------------------
(* The invariant of the payouts, and its steps.                            *)

ProofsOf(m) == {p \in Proofs : Miner[p] = m}

\* How often proofs of each miner were accepted.
AcceptedBy(a) == [m \in Miners |-> SumFunctionOnSet(a, ProofsOf(m))]

PayInv ==
    LET W == Waiting(pool, tick)
        n == nonces[Funder]
    IN  /\ FormsOK(pool, tick)
        /\ NonceOK(W, tick, n, queue, tip, emitted)
        /\ AccountOK(W, tick, n, queue, paid, forfeited, AcceptedBy(accepted))
        /\ EmitOK(W, n, emitted, tip)

LEMMA ProofSets == \A m : IsFiniteSet(ProofsOf(m))
  BY AssemblyAssumption, FS_Subset DEF AssemblyAssumption, ProofsOf

LEMMA AcceptedType ==
    ASSUME NEW a \in [Proofs -> Nat]
    PROVE  AcceptedBy(a) \in [Miners -> Nat]
<1>1. ASSUME NEW m \in Miners PROVE SumFunctionOnSet(a, ProofsOf(m)) \in Nat
  <2>1. \A p \in ProofsOf(m) : a[p] \in Nat
    BY DEF ProofsOf
  <2> QED
    BY <2>1, ProofSets, SumNat
<1> QED
  BY <1>1 DEF AcceptedBy

\* One proof more of its miner.
LEMMA AcceptedOneMore ==
    ASSUME NEW a \in [Proofs -> Nat], NEW c \in [Proofs -> Nat], NEW p \in Proofs,
           c[p] = a[p] + 1, \A q \in Proofs : q # p => c[q] = a[q]
    PROVE  \A m \in Miners : AcceptedBy(c)[m] = AcceptedBy(a)[m] + IF m = Miner[p] THEN 1 ELSE 0
<1> SUFFICES ASSUME NEW m \in Miners
             PROVE  AcceptedBy(c)[m] = AcceptedBy(a)[m] + IF m = Miner[p] THEN 1 ELSE 0
  OBVIOUS
<1> DEFINE S == ProofsOf(m)
<1>1. IsFiniteSet(S) /\ \A q \in S : a[q] \in Nat /\ c[q] \in Nat /\ q \in Proofs
  BY ProofSets DEF ProofsOf
<1>2. p \in S <=> m = Miner[p]
  BY DEF ProofsOf
<1>3. AcceptedBy(c)[m] = SumFunctionOnSet(c, S) /\ AcceptedBy(a)[m] = SumFunctionOnSet(a, S)
  BY DEF AcceptedBy
<1> HIDE DEF S
<1>4. SumFunctionOnSet(a, S) \in Nat
  BY <1>1, SumNat
<1>5. CASE p \in S
  <2>1. \A q \in S : q # p => a[q] = c[q]
    BY <1>1
  <2>2. SumFunctionOnSet(c, S) = SumFunctionOnSet(a, S) - a[p] + c[p]
    BY <1>1, <1>5, <2>1, SumChange
  <2>3. SumFunctionOnSet(c, S) = SumFunctionOnSet(a, S) + 1
    BY <1>4, <2>2
  <2> QED
    BY <1>2, <1>3, <1>5, <2>3
<1>6. CASE p \notin S
  <2>1. \A q \in S : c[q] = a[q]
    BY <1>1, <1>6
  <2>2. SumFunctionOnSet(c, S) = SumFunctionOnSet(a, S)
    BY <1>1, <2>1, SumSame
  <2>3. SumFunctionOnSet(c, S) = SumFunctionOnSet(a, S) + 0
    BY <1>4, <2>2
  <2> QED
    BY <1>2, <1>3, <1>6, <2>3
<1> QED
  BY <1>5, <1>6

\* A sum of zeros.
LEMMA SumZero ==
    ASSUME NEW f, NEW S, IsFiniteSet(S), \A x \in S : f[x] = 0
    PROVE  SumFunctionOnSet(f, S) = 0
<1>1. {} \in SUBSET S /\ \A x \in S : f[x] = IF x \in {} THEN f[x] ELSE 0
  OBVIOUS
<1>2. SumFunctionOnSet(f, S) = SumFunctionOnSet(f, {})
  BY <1>1, SumWithin
<1>3. IsFiniteSet({})
  BY FS_EmptySet
<1> QED
  BY <1>2, <1>3, SumStep

LEMMA PayInit == Init => PayInv
<1> SUFFICES ASSUME Init PROVE PayInv
  OBVIOUS
<1>1. /\ pool = {} /\ tick = Idle /\ tick.at = "idle" /\ tip = 0 /\ emitted = 0 /\ nonces[Funder] = 0
      /\ queue = [m \in Miners |-> 0] /\ paid = [m \in Miners |-> 0] /\ forfeited = [m \in Miners |-> 0]
      /\ accepted = [p \in Proofs |-> 0]
  BY Constants DEF Init, Idle
<1>2. Waiting(pool, tick) = {} /\ FormsOK(pool, tick)
  BY <1>1 DEF Waiting, Pending, FormsOK
<1>3. NonceOK({}, tick, 0, queue, 0, 0)
  BY <1>1 DEF NonceOK, Rest
<1>4. \A m \in Miners : AcceptedBy(accepted)[m] = 0
  <2> SUFFICES ASSUME NEW m \in Miners PROVE SumFunctionOnSet(accepted, ProofsOf(m)) = 0
    BY DEF AcceptedBy
  <2>1. \A p \in ProofsOf(m) : accepted[p] = 0
    BY <1>1 DEF ProofsOf
  <2> QED
    BY <2>1, ProofSets, SumZero
<1>5. AccountOK({}, tick, 0, queue, paid, forfeited, AcceptedBy(accepted))
  BY <1>1, <1>4 DEF AccountOK, Taken
<1>6. EmitOK({}, 0, 0, 0)
  <2> DEFINE w == [m \in Miners |-> 0]
             f == [i \in 1 .. 0 |-> BlockRewardDust(i)]
  <2>1. w \in [Miners -> Nat] /\ \A m \in Miners : w[m] = 0
    OBVIOUS
  <2>2. SumFunctionOnSet(w, Miners) = 0
    <3> HIDE DEF w
    <3> QED
      BY <2>1, MinerFacts, SumZero
  <2>3. SumFunction(f) = 0
    <3>1. DOMAIN f = 1 .. 0
      OBVIOUS
    <3> HIDE DEF f
    <3>2. 1 .. 0 = {} /\ IsFiniteSet(1 .. 0)
      <4>1. 1 .. 0 = {}
        OBVIOUS
      <4> QED
        BY <4>1, FS_EmptySet
    <3>3. SumFunction(f) = SumFunctionOnSet(f, 1 .. 0)
      BY <3>1, SumAll
    <3> QED
      BY <3>2, <3>3, SumStep
  <2>4. CumulativeEmittedDust(0) = 0
    BY CumulativeAt
  <2>5. 0 + SumFunctionOnSet(w, Miners) <= CumulativeEmittedDust(0)
    BY <2>2, <2>4
  <2> HIDE DEF w
  <2> QED
    BY <2>1, <2>3, <2>4, <2>5 DEF EmitOK, f
<1> QED
  BY <1>1, <1>2, <1>3, <1>5, <1>6 DEF PayInv

\* The types in such a state.
LEMMA PayTypes ==
    ASSUME AssemblyInv, IntakeInv, PayInv
    PROVE  /\ tip \in Nat /\ nonces[Funder] \in Nat /\ queue \in [Miners -> Nat]
           /\ forfeited \in [Miners -> Nat] /\ AcceptedBy(accepted) \in [Miners -> Nat]
           /\ emitted \in Nat /\ paid \in [Miners -> Nat]
           /\ \A t \in Waiting(pool, tick) :
                 RewardForm(t) /\ TxShape(t) /\ t.to \in Miners /\ t.count \in Nat
           /\ tick.at # "idle" => /\ Busy(tick) /\ tick.drained \in [Miners -> Nat] /\ tick.todo \subseteq tick.own
           /\ tick = Idle <=> tick.at = "idle"
<1>1. tip \in Nat /\ nonces[Funder] \in Nat /\ queue \in [Miners -> Nat] /\ forfeited \in [Miners -> Nat]
  BY Parts, Constants
<1>2. AcceptedBy(accepted) \in [Miners -> Nat]
  BY AcceptedType DEF IntakeInv, IntakeTypes
<1>3. emitted \in Nat /\ paid \in [Miners -> Nat] /\ FormsOK(pool, tick)
  BY DEF PayInv, EmitOK, AccountOK
<1>4. \A t \in Waiting(pool, tick) : t.kind = "reward" /\ Form(t) /\ TxShape(t)
  BY <1>3 DEF Waiting, FormsOK
<1>5. \A t \in Waiting(pool, tick) : RewardForm(t) /\ TxShape(t) /\ t.to \in Miners /\ t.count \in Nat
  BY <1>4 DEF Form, TxShape, RewardForm
<1>6. tick.at # "idle" => Busy(tick) /\ tick.drained \in [Miners -> Nat] /\ tick.todo \subseteq tick.own
  BY AtBusy DEF Busy
<1>7. tick = Idle <=> tick.at = "idle"
  BY Parts DEF TickOK, Busy, Idle
<1> QED
  BY <1>1, <1>2, <1>3, <1>5, <1>6, <1>7

\* Steps that pay nothing: fewer payouts wait, nonces are spent, a block comes,
\* or accepted proofs x are queued.
LEMMA LessStep ==
    ASSUME AssemblyInv, IntakeInv, PayInv, AssemblyInv', IntakeInv',
           FormsOK(pool', tick'), Waiting(pool', tick') \subseteq Waiting(pool, tick),
           tick'.at = "idle" <=> tick.at = "idle",
           tick.at # "idle" => tick'.own = tick.own /\ tick'.todo = tick.todo /\ tick'.drained = tick.drained,
           nonces[Funder] <= nonces'[Funder], tip' \in {tip, tip + 1},
           UNCHANGED <<paid, forfeited, emitted>>,
           NEW x \in [Miners -> Nat],
           \A m \in Miners : /\ queue'[m] = queue[m] + x[m]
                             /\ AcceptedBy(accepted')[m] = AcceptedBy(accepted)[m] + x[m]
    PROVE  PayInv'
<1> DEFINE W == Waiting(pool, tick)
           V == Waiting(pool', tick')
           n == nonces[Funder]
           o == nonces'[Funder]
           a == AcceptedBy(accepted)
           c == AcceptedBy(accepted')
<1>1. /\ tip \in Nat /\ n \in Nat /\ queue \in [Miners -> Nat] /\ forfeited \in [Miners -> Nat]
      /\ a \in [Miners -> Nat] /\ emitted \in Nat
      /\ \A t \in W : TxShape(t) /\ t.to \in Miners /\ t.count \in Nat
      /\ tick.at # "idle" => tick.drained \in [Miners -> Nat]
  BY PayTypes
<1>2. o \in Nat /\ queue' \in [Miners -> Nat]
  BY Constants DEF AssemblyInv, TypeOK
<1>3. c \in [Miners -> Nat]
  <2>1. accepted' \in [Proofs -> Nat]
    BY DEF IntakeInv, IntakeTypes
  <2> QED
    BY <2>1, AcceptedType
<1>4. NonceOK(W, tick, n, queue, tip, emitted) /\ AccountOK(W, tick, n, queue, paid, forfeited, a) /\ EmitOK(W, n, emitted, tip)
  BY DEF PayInv
<1>5. Paying(queue) \subseteq Paying(queue')
  <2>1. \A m \in Miners : queue[m] > 0 => queue'[m] > 0
    BY <1>1
  <2> QED
    BY <2>1 DEF Paying
<1>6. V \subseteq W /\ n <= o /\ \A m \in Miners : queue'[m] = queue[m] + x[m] /\ c[m] = a[m] + x[m]
  OBVIOUS
<1> HIDE DEF W, V, n, o, a, c
<1>7. NonceOK(V, tick', o, queue', tip', emitted)
  BY <1>1, <1>2, <1>4, <1>5, <1>6, NonceLess
<1>8. AccountOK(V, tick', o, queue', paid, forfeited, c)
  BY <1>1, <1>2, <1>3, <1>4, <1>6, AccountLess
<1>9. EmitOK(V, o, emitted, tip')
  <2>1. /\ V \subseteq W /\ (\A t \in W : TxShape(t)) /\ n \in Nat /\ o \in Nat /\ n <= o
        /\ tip \in Nat /\ EmitOK(W, n, emitted, tip)
    BY <1>1, <1>2, <1>4, <1>6
  <2>2. tip' \in {tip, tip + 1}
    OBVIOUS
  <2> QED
    BY ONLY <2>1, <2>2, EmitLess
<1> QED
  BY <1>7, <1>8, <1>9 DEF PayInv, V, o, c

\* ... or nothing is queued.
LEMMA QuietStep ==
    ASSUME AssemblyInv, IntakeInv, PayInv, AssemblyInv', IntakeInv',
           FormsOK(pool', tick'), Waiting(pool', tick') \subseteq Waiting(pool, tick),
           tick'.at = "idle" <=> tick.at = "idle",
           tick.at # "idle" => tick'.own = tick.own /\ tick'.todo = tick.todo /\ tick'.drained = tick.drained,
           nonces[Funder] <= nonces'[Funder], tip' \in {tip, tip + 1},
           UNCHANGED <<paid, forfeited, emitted, queue, accepted>>
    PROVE  PayInv'
<1> DEFINE x == [m \in Miners |-> 0]
<1>1. x \in [Miners -> Nat] /\ \A m \in Miners : x[m] = 0
  OBVIOUS
<1>2. queue \in [Miners -> Nat] /\ AcceptedBy(accepted) \in [Miners -> Nat]
  BY PayTypes
<1> HIDE DEF x
<1>3. \A m \in Miners : /\ queue'[m] = queue[m] + x[m]
                        /\ AcceptedBy(accepted')[m] = AcceptedBy(accepted)[m] + x[m]
  BY <1>1, <1>2
<1> QED
  BY <1>1, <1>3, LessStep

\* Before and after a step.
Around == AssemblyInv /\ IntakeInv /\ PayInv /\ AssemblyInv' /\ IntakeInv'

\* Requests: an accepted proof is counted and queued.
LEMMA PayIntake ==
    ASSUME Around, NEW s \in Submitters,
           \/ \E p \in Proofs : Submit(s, p)
           \/ CheckProof(s) \/ AcceptProof(s) \/ RejectProof(s)
    PROVE  PayInv'
<1>1. UNCHANGED <<pool, index, tip, tick, nonces, paid, forfeited, emitted>>
  BY DEF Submit, CheckProof, AcceptProof, RejectProof, mempool, ledger
<1>2. /\ FormsOK(pool', tick') /\ Waiting(pool', tick') \subseteq Waiting(pool, tick)
      /\ nonces[Funder] <= nonces'[Funder]
  BY <1>1, PayTypes DEF PayInv, Around
<1>3. CASE AcceptProof(s)
  <2> DEFINE p == sub[s].proof
             x == [m \in Miners |-> IF m = Miner[p] THEN 1 ELSE 0]
  <2>1. /\ queue' = [queue EXCEPT ![Miner[p]] = @ + 1] /\ sub[s].step = "work"
        /\ accepted' = [accepted EXCEPT ![p] = @ + 1]
    BY <1>3 DEF AcceptProof
  <2>2. p \in Proofs /\ Miner[p] \in Miners
    BY <2>1, RequestFacts, Constants DEF Around, IntakeInv, IntakeTypes
  <2>3. accepted \in [Proofs -> Nat] /\ accepted' \in [Proofs -> Nat] /\ queue \in [Miners -> Nat]
    BY PayTypes DEF Around, IntakeInv, IntakeTypes
  <2>4. x \in [Miners -> Nat] /\ \A m \in Miners : x[m] = IF m = Miner[p] THEN 1 ELSE 0
    OBVIOUS
  <2> HIDE DEF p, x
  <2>5. accepted'[p] = accepted[p] + 1 /\ \A q \in Proofs : q # p => accepted'[q] = accepted[q]
    BY <2>1, <2>2, <2>3
  <2>6. \A m \in Miners : AcceptedBy(accepted')[m] = AcceptedBy(accepted)[m] + x[m]
    BY <2>2, <2>3, <2>4, <2>5, AcceptedOneMore
  <2>7. \A m \in Miners : queue'[m] = queue[m] + x[m]
    BY <2>1, <2>2, <2>3, <2>4
  <2> QED
    BY <1>1, <1>2, <2>4, <2>6, <2>7, LessStep DEF Around
<1>4. CASE ~AcceptProof(s)
  <2>1. UNCHANGED <<queue, accepted>>
    BY <1>4 DEF Submit, CheckProof, RejectProof
  <2> QED
    BY <1>1, <1>2, <2>1, QuietStep DEF Around
<1> QED
  BY <1>3, <1>4

\* What Add leaves in the pool.
LEMMA AddedWithin ==
    ASSUME NEW t, NEW p, NEW ix, NEW o \in AddOutcomes(t, p, ix)
    PROVE  o.pool \subseteq p \cup {t}
<1>1. CASE Cardinality(p) < MaxSize
  <2>1. o = [pool |-> p \cup {t}, index |-> Tracked(t, ix)]
    BY <1>1 DEF AddOutcomes
  <2>2. o.pool = p \cup {t}
    BY <2>1
  <2> QED
    BY <2>2
<1>2. CASE ~(Cardinality(p) < MaxSize)
  <2>1. PICK low \in p : o = [pool |-> (p \ {low}) \cup {t}, index |-> Tracked(t, Untracked({low}, ix))]
    BY <1>2 DEF AddOutcomes, Cheapest
  <2>2. o.pool = (p \ {low}) \cup {t}
    BY <2>1
  <2> QED
    BY <2>2
<1> QED
  BY <1>1, <1>2

\* The pool changes by transactions that are no payouts, or shrinks.
LEMMA PoolChange ==
    ASSUME PayInv, tick' = tick, NEW X, pool' \subseteq pool \cup X,
           \A t \in X : Form(t) /\ TxShape(t) /\ t.kind # "reward"
    PROVE  FormsOK(pool', tick') /\ Waiting(pool', tick') \subseteq Waiting(pool, tick)
<1>1. FormsOK(pool, tick)
  BY DEF PayInv
<1>2. Pending(pool', tick') \subseteq Pending(pool, tick) \cup X
  BY DEF Pending
<1>3. FormsOK(pool', tick')
  BY <1>1, <1>2 DEF FormsOK
<1>4. AddedOf(tick') = AddedOf(tick)
  OBVIOUS
<1>5. Waiting(pool', tick') \subseteq Waiting(pool, tick)
  BY <1>2, <1>4 DEF Waiting
<1> QED
  BY <1>3, <1>5

LEMMA PoolShrinks ==
    ASSUME PayInv, tick' = tick, pool' \subseteq pool
    PROVE  FormsOK(pool', tick') /\ Waiting(pool', tick') \subseteq Waiting(pool, tick)
<1> DEFINE X == {}
<1>1. pool' \subseteq pool \cup X /\ \A t \in X : Form(t) /\ TxShape(t) /\ t.kind # "reward"
  OBVIOUS
<1> HIDE DEF X
<1> QED
  BY <1>1, PoolChange

\* Handlers and the sweeper.
LEMMA PayPool ==
    ASSUME Around, (\E t \in UserTxs : AddUser(t)) \/ EvictStale
    PROVE  PayInv'
<1>1. UNCHANGED <<queue, tick, tip, nonces, paid, forfeited, emitted, accepted>>
  BY DEF AddUser, EvictStale, ledger, intake
<1>3. FormsOK(pool', tick') /\ Waiting(pool', tick') \subseteq Waiting(pool, tick)
  <2>1. CASE EvictStale
    <3>1. pool' \subseteq pool
      BY <2>1 DEF EvictStale
    <3> QED
      BY <1>1, <3>1, PoolShrinks DEF Around
  <2>2. CASE \E t \in UserTxs : AddUser(t)
    <3>1. PICK t \in UserTxs : AddUser(t)
      BY <2>2
    <3> DEFINE X == {t}
    <3>2. pool' \subseteq pool \cup X
      BY <3>1, AddedWithin DEF AddUser, mempool
    <3>3. Form(t) /\ TxShape(t) /\ t.kind # "reward"
      BY UserForm, Constants, AssemblyAssumption DEF AssemblyAssumption
    <3>4. \A u \in X : Form(u) /\ TxShape(u) /\ u.kind # "reward"
      BY <3>3
    <3> HIDE DEF X
    <3> QED
      BY <1>1, <3>2, <3>4, PoolChange DEF Around
  <2> QED
    BY <2>1, <2>2
<1>4. nonces[Funder] <= nonces'[Funder]
  BY <1>1, PayTypes DEF Around
<1> QED
  BY <1>1, <1>3, <1>4, QuietStep DEF Around

\* A peer's block.
LEMMA PayExternal ==
    ASSUME Around, NEW incl, incl \subseteq pool, AppendExternal(incl)
    PROVE  PayInv'
<1>1. /\ UNCHANGED <<queue, tick, paid, forfeited, emitted, accepted>> /\ tip' = tip + 1
      /\ nonces' = [AfterBlock(incl) EXCEPT ![Funder] = @ + 1] /\ pool' \subseteq pool
  BY DEF AppendExternal, intake
<1>2. nonces \in [Senders -> Nat] /\ IsFiniteSet(incl)
  BY Parts, FS_Subset DEF PoolOK, Around
<1>3. AfterBlock(incl) \in [Senders -> Nat]
  BY <1>2, AfterFacts
<1>4. AfterBlock(incl)[Funder] \in Nat /\ nonces[Funder] <= AfterBlock(incl)[Funder] /\ nonces[Funder] \in Nat
  BY <1>2, NoncesGrow, Constants
<1>5. nonces'[Funder] = AfterBlock(incl)[Funder] + 1
  BY <1>1, <1>3, Constants
<1>6. nonces[Funder] <= nonces'[Funder]
  BY <1>4, <1>5
<1>8. FormsOK(pool', tick') /\ Waiting(pool', tick') \subseteq Waiting(pool, tick)
  BY <1>1, PoolShrinks DEF Around
<1> QED
  BY <1>1, <1>6, <1>8, QuietStep DEF Around

\* The batch leaves the pool, and goes back.
LEMMA PayBatch ==
    ASSUME Around, DrainPool \/ BatchFails \/ \E t \in tick.batch : RestoreOne(t)
    PROVE  PayInv'
<1>1. UNCHANGED <<queue, tip, nonces, paid, forfeited, emitted, accepted>>
  BY DEF DrainPool, BatchFails, RestoreOne, ledger, intake
<1>2. tick.at # "idle"
  BY DEF DrainPool, BatchFails, RestoreOne
<1>3. Busy(tick) /\ FormsOK(pool, tick)
  BY <1>2, PayTypes DEF Around, PayInv
<1>4. /\ tick'.at # "idle" /\ tick'.own = tick.own /\ tick'.todo = tick.todo /\ tick'.drained = tick.drained
      /\ (tick'.at # "add" => tick'.todo = {})
      /\ Pending(pool', tick') \subseteq Pending(pool, tick)
  <2>1. CASE DrainPool
    <3>1. PICK b \in Drainable(pool) : /\ pool' = pool \ b
              /\ tick' = [at |-> "apply", own |-> tick.own, todo |-> {}, drained |-> tick.drained, batch |-> b]
      BY <2>1 DEF DrainPool
    <3>2. tick.at = "add" /\ tick.todo = {} /\ b \subseteq pool
      BY <2>1 DEF DrainPool, Drainable
    <3>3. /\ tick'.at = "apply" /\ tick'.own = tick.own /\ tick'.todo = {} /\ tick'.drained = tick.drained
          /\ tick'.batch = b
      BY <3>1
    <3> QED
      BY <3>1, <3>2, <3>3 DEF Pending
  <2>2. CASE BatchFails
    <3>1. tick.at = "apply" /\ tick' = [tick EXCEPT !.at = "restore"] /\ pool' = pool
      BY <2>2 DEF BatchFails, mempool
    <3>2. DOMAIN tick = TickFields \cup {"batch"} /\ tick.todo = {}
      BY <1>3, <3>1 DEF Busy, FormsOK
    <3>3. /\ tick'.at = "restore" /\ tick'.own = tick.own /\ tick'.todo = tick.todo /\ tick'.drained = tick.drained
          /\ tick'.batch = tick.batch
      BY <3>1, <3>2 DEF TickFields
    <3> QED
      BY <3>1, <3>2, <3>3 DEF Pending
  <2>3. CASE \E t \in tick.batch : RestoreOne(t)
    <3>1. PICK t \in tick.batch : RestoreOne(t)
      BY <2>3
    <3> DEFINE at == IF tick.batch = {t} THEN "failed" ELSE tick.at
    <3>2. tick.at = "restore" /\ tick' = [tick EXCEPT !.batch = @ \ {t}, !.at = at]
      BY <3>1 DEF RestoreOne
    <3>3. at \in {"restore", "failed"}
      BY <3>2
    <3> HIDE DEF at
    <3>4. DOMAIN tick = TickFields \cup {"batch"} /\ tick.todo = {}
      BY <1>3, <3>2 DEF Busy, FormsOK
    <3>5. /\ tick'.at = at /\ tick'.own = tick.own /\ tick'.todo = tick.todo /\ tick'.drained = tick.drained
          /\ tick'.batch = tick.batch \ {t}
      BY <3>2, <3>4 DEF TickFields
    <3>6. pool' \subseteq pool \cup {t}
      <4>1. (\E o \in AddOutcomes(t, pool, index) : pool' = o.pool) \/ pool' = pool
        BY <3>1 DEF RestoreOne, mempool
      <4> QED
        BY <4>1, AddedWithin
    <3> QED
      BY <3>2, <3>3, <3>4, <3>5, <3>6 DEF Pending
  <2> QED
    BY <2>1, <2>2, <2>3
<1>5. FormsOK(pool', tick')
  BY <1>3, <1>4, <1>2 DEF FormsOK
<1>6. Waiting(pool', tick') \subseteq Waiting(pool, tick)
  BY <1>2, <1>4 DEF Waiting, AddedOf
<1>7. nonces[Funder] <= nonces'[Funder]
  BY <1>1, PayTypes DEF Around
<1> QED
  BY <1>1, <1>2, <1>4, <1>5, <1>6, <1>7, QuietStep DEF Around

\* The pool gets old between ticks.
LEMMA PayAge ==
    ASSUME Around, AgePool
    PROVE  PayInv'
<1>1. UNCHANGED <<queue, tick, tip, nonces, paid, forfeited, emitted, accepted>> /\ tick = Idle /\ pool' = Aged(pool)
  BY DEF AgePool, ledger, intake
<1>2. tick.at = "idle" /\ FormsOK(pool, tick)
  BY <1>1 DEF Idle, Around, PayInv
<1>3. Pending(pool, tick) = pool /\ Pending(pool', tick') = pool' /\ AddedOf(tick) = {}
  BY <1>1, <1>2 DEF Pending, AddedOf
<1> DEFINE f(t) == [t EXCEPT !.old = TRUE]
<1>4. ASSUME NEW t \in pool
      PROVE  /\ f(t).kind = t.kind /\ f(t).id = t.id /\ f(t).nonce = t.nonce /\ f(t).no = t.no /\ f(t).to = t.to
             /\ f(t).sender = t.sender /\ f(t).count = t.count /\ f(t).amount = t.amount /\ DOMAIN f(t) = DOMAIN t
             /\ Form(t) /\ TxShape(t)
  <2>1. Form(t) /\ TxShape(t)
    BY <1>2, <1>3 DEF FormsOK
  <2>2. DOMAIN t = TxFields
    BY <2>1 DEF TxShape
  <2> QED
    BY <2>1, <2>2 DEF TxFields
<1>5. pool' = {f(t) : t \in pool}
  BY <1>1 DEF Aged
<1> HIDE DEF f
<1>6. \A t \in pool : Form(f(t)) /\ TxShape(f(t))
  BY <1>4 DEF Form, TxShape
<1>7. FormsOK(pool', tick')
  BY <1>1, <1>2, <1>3, <1>5, <1>6 DEF FormsOK
<1>8. Ages(Waiting(pool', tick'), Waiting(pool, tick))
  <2> SUFFICES ASSUME NEW t \in Waiting(pool', tick')
               PROVE  \E u \in Waiting(pool, tick) : /\ t = f(u) /\ t.nonce = u.nonce /\ t.to = u.to
                                                      /\ t.count = u.count /\ t.amount = u.amount
    BY DEF Ages, f
  <2>1. t \in pool' /\ t.kind = "reward"
    BY <1>3 DEF Waiting
  <2>2. PICK u \in pool : t = f(u)
    BY <1>5, <2>1
  <2>3. u.kind = "reward" /\ t.nonce = u.nonce /\ t.to = u.to /\ t.count = u.count /\ t.amount = u.amount
    BY <1>4, <2>1, <2>2
  <2>4. u \in Waiting(pool, tick)
    BY <1>3, <2>3 DEF Waiting
  <2> QED
    BY <2>2, <2>3, <2>4
<1> DEFINE V == Waiting(pool', tick')
           W == Waiting(pool, tick)
<1>9. /\ NonceOK(W, tick, nonces[Funder], queue, tip, emitted)
      /\ AccountOK(W, tick, nonces[Funder], queue, paid, forfeited, AcceptedBy(accepted))
      /\ EmitOK(W, nonces[Funder], emitted, tip)
  BY DEF Around, PayInv
<1>10. Ages(V, W)
  BY <1>8
<1> HIDE DEF V, W
<1>11. /\ NonceOK(V, tick, nonces[Funder], queue, tip, emitted)
       /\ AccountOK(V, tick, nonces[Funder], queue, paid, forfeited, AcceptedBy(accepted))
       /\ EmitOK(V, nonces[Funder], emitted, tip)
  BY ONLY <1>2, <1>9, <1>10, Aging
<1> QED
  BY <1>1, <1>7, <1>11 DEF PayInv, V

\* The tick begins.
LEMMA PayStart ==
    ASSUME Around, StartTick
    PROVE  PayInv'
<1> DEFINE r == BlockRewardDust(tip + 1)
           n == nonces[Funder]
           S == {m \in Miners : queue[m] > 0 /\ r > 0}
           own == BuildTxs(queue, r, n)
           W == Waiting(pool, tick)
           a == AcceptedBy(accepted)
<1>1. /\ tick = Idle /\ tick.at = "idle"
      /\ tick' = [at |-> "add", own |-> own, todo |-> own, drained |-> queue]
      /\ queue' = [m \in Miners |-> 0]
      /\ UNCHANGED <<pool, index, tip, nonces, paid, forfeited, emitted, accepted>>
  BY DEF StartTick, mempool, ledger, intake, Idle
<1>2. /\ tip \in Nat /\ n \in Nat /\ queue \in [Miners -> Nat] /\ a \in [Miners -> Nat]
      /\ \A t \in W : TxShape(t) /\ t.to \in Miners /\ t.count \in Nat
  BY PayTypes DEF Around
<1>3. /\ FormsOK(pool, tick) /\ NonceOK(W, tick, n, queue, tip, emitted)
      /\ AccountOK(W, tick, n, queue, paid, forfeited, a) /\ EmitOK(W, n, emitted, tip)
  BY DEF Around, PayInv
<1>4. own = IF S = {} THEN {Heartbeat(n)} ELSE {RewardTx(queue, m, S, r, n) : m \in S}
  BY DEF BuildTxs
<1>5. Heartbeat(n).kind = "beat" /\ Heartbeat(n).to = Funder /\ Form(Heartbeat(n))
  BY <1>2, Parts, BeatFacts DEF PoolOK, Around
<1>6. r \in Nat /\ (S # {} => S = Paying(queue))
  <2>1. r \in Nat
    BY <1>2, EpochOf
  <2>2. r > 0 => S = Paying(queue)
    BY DEF Paying
  <2>3. ~(r > 0) => S = {}
    OBVIOUS
  <2> QED
    BY <2>1, <2>2, <2>3
<1> HIDE DEF r, n, own, W, a, S
<1>7. \A t \in own : Form(t)
  <2>1. CASE S = {}
    BY <1>4, <1>5, <2>1
  <2>2. CASE S # {}
    <3>1. \A m \in Paying(queue) : Form(RewardTx(queue, m, Paying(queue), r, n))
      BY <1>2, <1>6, RewardFacts
    <3> QED
      BY <1>4, <1>6, <2>2, <3>1
  <2> QED
    BY <2>1, <2>2
<1>8. tick'.at = "add" /\ tick'.own = own /\ tick'.todo = own /\ tick'.drained = queue
  BY <1>1
<1>9. Pending(pool', tick') = Pending(pool, tick) /\ AddedOf(tick') = {} /\ AddedOf(tick) = {}
  BY <1>1, <1>8 DEF Pending, AddedOf
<1>10. FormsOK(pool', tick')
  BY <1>3, <1>7, <1>8, <1>9 DEF FormsOK
<1>11. Waiting(pool', tick') = W
  BY <1>9 DEF Waiting, W
<1>12. queue' \in [Miners -> Nat] /\ \A m \in Miners : queue'[m] = 0
  BY <1>1
<1>13. S = {} => Beats(tick')
  BY <1>4, <1>5, <1>8 DEF Beats
<1>14. Builds(tick', queue, BlockRewardDust(tip + 1), n)
  BY <1>4, <1>8, <1>13 DEF Builds, S, r
<1>15. NonceOK(W, tick', n, queue', tip, emitted) /\ AccountOK(W, tick', n, queue', paid, forfeited, a)
  <2>1. /\ (\A t \in W : TxShape(t) /\ t.to \in Miners /\ t.count \in Nat) /\ tick.at = "idle"
        /\ n \in Nat /\ queue \in [Miners -> Nat] /\ tip \in Nat /\ a \in [Miners -> Nat]
        /\ NonceOK(W, tick, n, queue, tip, emitted) /\ AccountOK(W, tick, n, queue, paid, forfeited, a)
        /\ EmitOK(W, n, emitted, tip) /\ tick'.at = "add" /\ tick'.drained = queue /\ tick'.todo = tick'.own
    BY <1>1, <1>2, <1>3, <1>8
  <2> QED
    BY ONLY <2>1, <1>12, <1>14, Starting
<1> QED
  BY <1>1, <1>3, <1>10, <1>11, <1>15 DEF PayInv, n, a

\* The tick adds its next transaction: Add would have refused it had a payout
\* with its nonce been in the pool.
LEMMA PayAdd ==
    ASSUME Around, AddOwn
    PROVE  PayInv'
<1> DEFINE n == nonces[Funder]
           W == Waiting(pool, tick)
           V == Waiting(pool', tick')
           a == AcceptedBy(accepted)
           x == NextOwn
<1>1. /\ tick.at = "add" /\ tick.todo # {} /\ ~Refused(x, pool, index)
      /\ tick' = [tick EXCEPT !.todo = @ \ {x}]
      /\ UNCHANGED <<queue, tip, nonces, paid, forfeited, emitted, accepted>>
  BY DEF AddOwn, ledger, intake
<1>2. pool' \subseteq pool \cup {x}
  <2>1. \E o \in AddOutcomes(x, pool, index) : pool' = o.pool
    BY DEF AddOwn
  <2> QED
    BY <2>1, AddedWithin
<1>3. Busy(tick) /\ FormsOK(pool, tick) /\ PoolOK(pool, index)
  BY <1>1, PayTypes, Parts DEF Around, PayInv
<1>4. x \in tick.todo /\ TxShape(x) /\ x \in tick.own /\ Form(x)
  BY <1>1, <1>3, NextOwnFacts DEF Busy, FormsOK
<1>5. /\ tick'.at = "add" /\ tick'.own = tick.own /\ tick'.todo = tick.todo \ {x} /\ tick'.drained = tick.drained
  BY <1>1, <1>3 DEF Busy, TickFields
<1>6. /\ NonceOK(W, tick, n, queue, tip, emitted)
      /\ AccountOK(W, tick, n, queue, paid, forfeited, a) /\ EmitOK(W, n, emitted, tip)
  BY DEF Around, PayInv
<1>7. /\ tip \in Nat /\ n \in Nat /\ queue \in [Miners -> Nat] /\ forfeited \in [Miners -> Nat]
      /\ a \in [Miners -> Nat] /\ emitted \in Nat /\ tick.drained \in [Miners -> Nat]
      /\ \A t \in W : TxShape(t) /\ t.to \in Miners /\ t.count \in Nat
  BY <1>1, PayTypes DEF Around
<1> HIDE DEF x
<1>8. Pending(pool, tick) = pool /\ Pending(pool', tick') = pool' /\ AddedOf(tick') = AddedOf(tick) \cup {x}
  BY <1>1, <1>4, <1>5 DEF Pending, AddedOf
<1>9. V \subseteq W
  BY <1>2, <1>8 DEF Waiting
<1>10. FormsOK(pool', tick')
  BY <1>1, <1>2, <1>3, <1>4, <1>5, <1>8 DEF FormsOK
<1>11. V \subseteq pool
  BY <1>8, <1>9 DEF Waiting
<1>12. ASSUME NEW t \in V, x.kind = "reward" PROVE t.nonce # x.nonce
  <2>1. t \in pool /\ t.kind = "reward" /\ Form(t)
    BY <1>3, <1>8, <1>11 DEF Waiting, FormsOK
  <2>2. t.sender = Funder /\ x.sender = Funder /\ Tracks(t) /\ Tracks(x)
    BY <1>4, <1>12, <2>1 DEF Form, Tracks
  <2>3. Key(t) \in index
    BY <1>3, <2>1, <2>2 DEF PoolOK, TrackedOf
  <2>4. Key(x) \notin index
    BY <1>1, <2>2 DEF Refused
  <2> QED
    BY <2>2, <2>3, <2>4 DEF Key
<1> HIDE DEF n, W, V, a
<1>13. NonceOK(V, tick', n, queue, tip, emitted)
  <2>1. ASSUME BeatTick(W, tick, n, tip) PROVE NonceOK(V, tick', n, queue, tip, emitted)
    <3>1. BeatTick(V, tick', n, tip)
      BY <1>5, <1>9, <2>1 DEF BeatTick, Beats
    <3> QED
      BY <1>5, <3>1 DEF NonceOK
  <2>2. ASSUME NEW b \in 0 .. n, NEW r \in Nat \ {0}, PayTick(W, tick, b, r, tip, emitted)
        PROVE  NonceOK(V, tick', n, queue, tip, emitted)
    <3>1. b \in Nat /\ r \in Nat /\ Pays(tick, r, b)
      BY <1>7, <2>2 DEF PayTick
    <3>2. x.kind = "reward"
      BY <1>4, <1>7, <3>1, OwnFacts DEF Payroll
    <3>3. \A t \in V : t.nonce # x.nonce
      BY <1>12, <3>2
    <3>4. tick.at # "idle" /\ tick'.at # "idle"
      BY <1>1, <1>5
    <3> QED
      BY ONLY <1>5, <1>6, <1>9, <3>3, <3>4, Adding
  <2> QED
    BY <1>1, <1>6, <2>1, <2>2 DEF NonceOK
<1>14. AccountOK(V, tick', n, queue, paid, forfeited, a)
  <2> DEFINE z == [m \in Miners |-> 0]
  <2>1. z \in [Miners -> Nat] /\ \A m \in Miners : queue[m] = queue[m] + z[m] /\ a[m] = a[m] + z[m]
    BY <1>7
  <2>2. /\ n <= n /\ (tick'.at = "idle" <=> tick.at = "idle")
        /\ tick.at # "idle" => tick'.drained = tick.drained /\ tick.drained \in [Miners -> Nat]
    BY <1>1, <1>5, <1>7
  <2> HIDE DEF z
  <2> QED
    BY ONLY <1>6, <1>7, <1>9, <2>1, <2>2, AccountLess
<1>15. EmitOK(V, n, emitted, tip)
  <2>1. n <= n /\ tip \in {tip, tip + 1} /\ \A t \in W : TxShape(t)
    BY <1>7
  <2> QED
    BY ONLY <1>6, <1>7, <1>9, <2>1, EmitLess
<1> QED
  BY <1>1, <1>10, <1>13, <1>14, <1>15 DEF PayInv, V, n, a

\* The tick fails.
LEMMA PayFail ==
    ASSUME Around, tick.at # "idle", FailTick
    PROVE  PayInv'
<1> DEFINE n == nonces[Funder]
           W == Waiting(pool, tick)
           V == Waiting(pool', tick')
           a == AcceptedBy(accepted)
           own == {t \in pool : t.id \in IDs(tick.own \ tick.todo)}
<1>1. /\ pool' = WithoutOwn(pool, own) /\ queue' = Requeued(tick.drained) /\ tick' = Idle
      /\ UNCHANGED <<tip, nonces, paid, forfeited, emitted, accepted>>
  BY DEF FailTick, ledger, intake
<1>2. pool' \subseteq pool /\ \A t \in pool' : t \notin tick.own \ tick.todo
  BY <1>1 DEF WithoutOwn, IDs
<1> HIDE DEF own
<1>3. tick'.at = "idle" /\ Pending(pool', tick') = pool'
  BY <1>1 DEF Idle, Pending
<1>4. pool \subseteq Pending(pool, tick) /\ AddedOf(tick) = tick.own \ tick.todo
  BY DEF Pending, AddedOf
<1>5. FormsOK(pool', tick')
  BY <1>2, <1>3, <1>4 DEF FormsOK, Around, PayInv
<1>6. V \subseteq W
  BY <1>2, <1>3, <1>4 DEF Waiting
<1>7. /\ NonceOK(W, tick, n, queue, tip, emitted)
      /\ AccountOK(W, tick, n, queue, paid, forfeited, a) /\ EmitOK(W, n, emitted, tip)
  BY DEF Around, PayInv
<1>8. /\ tip \in Nat /\ n \in Nat /\ queue \in [Miners -> Nat] /\ forfeited \in [Miners -> Nat]
      /\ a \in [Miners -> Nat] /\ tick.drained \in [Miners -> Nat] /\ tick.todo \subseteq tick.own
      /\ \A t \in W : TxShape(t) /\ t.to \in Miners /\ t.count \in Nat
  BY PayTypes DEF Around
<1>9. \A m \in Miners : queue'[m] = queue[m] + tick.drained[m]
  BY <1>1 DEF Requeued
<1> HIDE DEF n, W, V, a
<1>10. NonceOK(V, tick', n, queue', tip, emitted) /\ AccountOK(V, tick', n, queue', paid, forfeited, a)
  <2>1. tick.at # "idle"
    OBVIOUS
  <2> QED
    BY ONLY <1>3, <1>6, <1>7, <1>8, <1>9, <2>1, Failing
<1>11. EmitOK(V, n, emitted, tip)
  <2>1. n <= n /\ tip \in {tip, tip + 1} /\ \A t \in W : TxShape(t)
    BY <1>8
  <2> QED
    BY ONLY <1>6, <1>7, <1>8, <2>1, EmitLess
<1> QED
  BY <1>1, <1>5, <1>10, <1>11 DEF PayInv, V, n, a

\* The block is sealed: what it includes is pending, and its nonces are spent.
LEMMA PaySeal ==
    ASSUME Around, SealBlock
    PROVE  PayInv'
<1> DEFINE n == nonces[Funder]
           o == nonces'[Funder]
           W == Waiting(pool, tick)
           V == Waiting(pool', tick')
           a == AcceptedBy(accepted)
           I == Included(tick.batch)
<1>1. /\ tick.at = "apply" /\ tip' = tip + 1 /\ nonces' = AfterBlock(I) /\ tick' = Idle
      /\ queue' = Requeued(Unpaid(I)) /\ forfeited' = [m \in Miners |-> forfeited[m] + Shareless[m]]
      /\ UNCHANGED <<pool, index, accepted>>
  BY DEF SealBlock, mempool, intake
<1>2. PaysOut(I, paid, emitted, paid', emitted')
  BY DEF SealBlock, PaysOut, CountPaid, AmountPaid
<1>3. Busy(tick) /\ FormsOK(pool, tick) /\ tick.todo = {}
  BY <1>1, PayTypes DEF Around, PayInv, FormsOK
<1>4. /\ NonceOK(W, tick, n, queue, tip, emitted)
      /\ AccountOK(W, tick, n, queue, paid, forfeited, a) /\ EmitOK(W, n, emitted, tip)
  BY DEF Around, PayInv
<1>5. /\ tip \in Nat /\ n \in Nat /\ queue \in [Miners -> Nat] /\ forfeited \in [Miners -> Nat]
      /\ a \in [Miners -> Nat] /\ emitted \in Nat /\ tick.drained \in [Miners -> Nat]
      /\ \A t \in W : RewardForm(t)
  BY <1>1, PayTypes DEF Around
<1>6. queue' \in [Miners -> Nat]
  BY DEF Around, AssemblyInv, TypeOK
<1>7. QueuedAgain(tick, I, queue, queue')
  <2>1. \A m \in Miners : queue'[m] = queue[m] + Unpaid(I)[m]
    BY <1>1 DEF Requeued
  <2> QED
    BY <2>1 DEF QueuedAgain, Unpaid
<1>8. Forfeits(tick, forfeited, forfeited')
  BY <1>1 DEF Forfeits, Shareless
<1>9. tick'.at = "idle" /\ Pending(pool', tick') = pool /\ AddedOf(tick') = {} /\ AddedOf(tick) = tick.own
  BY <1>1, <1>3 DEF Idle, Pending, AddedOf
<1>10. Pending(pool, tick) = pool \cup tick.batch
  BY <1>1 DEF Pending
<1>11. FormsOK(pool', tick')
  BY <1>3, <1>9, <1>10 DEF FormsOK
<1>12. V \subseteq W \cup tick.own /\ \A t \in V : t.kind = "reward"
  BY <1>9, <1>10 DEF Waiting
<1>13. IsFiniteSet(tick.batch) /\ nonces \in [Senders -> Nat] /\ Funder \in Senders
  BY <1>1, <1>3, Parts, Constants DEF Busy, Around
<1>14. \A t \in tick.batch : Form(t) /\ TxShape(t)
  BY <1>3, <1>10 DEF FormsOK
<1>15. \A t \in tick.batch : TxShape(t) /\ (t.kind = "beat" => t.no \in Nat)
  BY <1>14 DEF Form
<1>16. I \subseteq tick.batch /\ IsFiniteSet(I)
  BY <1>13, FS_Subset DEF Included
<1>17. ASSUME NEW t \in I, t.kind = "reward" PROVE t \in W \cup tick.own /\ n <= t.nonce /\ t.nonce < o
  <2>1. t \in tick.batch /\ Form(t)
    BY <1>14, <1>16
  <2>2. t.sender = Funder
    BY <1>17, <2>1 DEF Form
  <2>3. nonces[t.sender] <= t.nonce /\ t.nonce < AfterBlock(Included(tick.batch))[t.sender]
    <3>1. t \in Included(tick.batch) /\ t.sender \in Senders
      BY <1>13, <2>2
    <3> QED
      BY ONLY <1>13, <1>15, <3>1, SpentBelow
  <2>4. t \in W \cup tick.own
    BY <1>9, <1>10, <1>17, <2>1 DEF Waiting
  <2> QED
    BY <1>1, <2>2, <2>3, <2>4
<1>18. Spends(I, W \cup tick.own, n, o)
  BY <1>14, <1>16, <1>17 DEF Spends
<1>19. o \in Nat /\ n <= o
  BY <1>1, <1>13, <1>16, NoncesGrow
<1> HIDE DEF n, o, W, V, a, I
<1>20. /\ NonceOK(V, tick', o, queue', tip + 1, emitted') /\ AccountOK(V, tick', o, queue', paid', forfeited', a)
       /\ EmitOK(V, o, emitted', tip + 1)
  <2>0. tick.at # "idle"
    BY <1>1
  <2>1. ASSUME NEW b \in 0 .. n, NEW r \in Nat \ {0}, PayTick(W, tick, b, r, tip, emitted)
        PROVE  /\ NonceOK(V, tick', o, queue', tip + 1, emitted') /\ AccountOK(V, tick', o, queue', paid', forfeited', a)
               /\ EmitOK(V, o, emitted', tip + 1)
    <3>1. V \subseteq W \cup tick.own
      BY <1>12
    <3>2. b \in 0 .. n /\ r \in Nat \ {0} /\ PayTick(W, tick, b, r, tip, emitted)
      BY <2>1
    <3> QED
      BY ONLY <1>2, <1>3, <1>4, <1>5, <1>6, <1>7, <1>8, <1>9, <1>18, <1>19, <2>0, <3>1, <3>2, SealPay
  <2>2. ASSUME BeatTick(W, tick, n, tip)
        PROVE  /\ NonceOK(V, tick', o, queue', tip + 1, emitted') /\ AccountOK(V, tick', o, queue', paid', forfeited', a)
               /\ EmitOK(V, o, emitted', tip + 1)
    <3>1. \A t \in tick.own : t.kind = "beat" /\ t.to \notin Miners
      BY <2>2, MinerFacts DEF BeatTick, Beats
    <3>2. V \subseteq W /\ \A t \in I : t.kind = "reward" => t \in W /\ n <= t.nonce /\ t.nonce < o
      BY <1>12, <1>17, <3>1
    <3>6. Spends(I, W, n, o)
      BY <1>18, <3>2 DEF Spends
    <3>7. BeatTick(W, tick, n, tip) /\ V \subseteq W
      BY <2>2, <3>2
    <3> QED
      BY ONLY <1>2, <1>4, <1>5, <1>6, <1>7, <1>8, <1>9, <1>19, <2>0, <3>6, <3>7, SealBeat
  <2> QED
    BY <1>4, <2>0, <2>1, <2>2 DEF NonceOK
<1> QED
  BY <1>1, <1>11, <1>20 DEF PayInv, V, o, a

LEMMA PayNext == AssemblyInv /\ IntakeInv /\ PayInv /\ [Next]_vars => PayInv'
<1> SUFFICES ASSUME AssemblyInv, IntakeInv, PayInv, [Next]_vars PROVE PayInv'
  OBVIOUS
<1>0. Around
  BY AssemblyNext, IntakeNext DEF Around
<1>1. ASSUME NEW s \in Submitters, NEW p \in Proofs, Submit(s, p) PROVE PayInv'
  BY <1>0, <1>1, PayIntake
<1>2. ASSUME NEW s \in Submitters, CheckProof(s) \/ AcceptProof(s) \/ RejectProof(s) PROVE PayInv'
  BY <1>0, <1>2, PayIntake
<1>3. CASE (\E t \in UserTxs : AddUser(t)) \/ EvictStale
  BY <1>0, <1>3, PayPool
<1>4. CASE AgePool
  BY <1>0, <1>4, PayAge
<1>5. CASE AppendExternal({})
  BY <1>0, <1>5, PayExternal
<1>6. ASSUME NEW t \in pool, AppendExternal({t}) PROVE PayInv'
  BY <1>0, <1>6, PayExternal
<1>7. CASE StartTick
  BY <1>0, <1>7, PayStart
<1>8. CASE AddOwn
  BY <1>0, <1>8, PayAdd
<1>9. CASE AddOwnRefused \/ ProduceRefused \/ BlockFailed
  <2>1. tick.at # "idle" /\ FailTick
    BY <1>9 DEF AddOwnRefused, ProduceRefused, BlockFailed
  <2> QED
    BY <1>0, <2>1, PayFail
<1>10. CASE DrainPool \/ BatchFails \/ \E t \in tick.batch : RestoreOne(t)
  BY <1>0, <1>10, PayBatch
<1>11. CASE SealBlock
  BY <1>0, <1>11, PaySeal
<1>12. CASE UNCHANGED vars
  <2>1. UNCHANGED <<pool, tick, nonces, queue, tip, emitted, paid, forfeited, accepted>>
    BY <1>12 DEF vars
  <2> QED
    BY <2>1 DEF PayInv
<1> QED
  BY <1>1, <1>2, <1>3, <1>4, <1>5, <1>6, <1>7, <1>8, <1>9, <1>10, <1>11, <1>12
     DEF Next, DriverStep

\* The inductive invariant of the payouts.
THEOREM PayCorrect == Spec => []PayInv
  BY PayInit, PayNext, AssemblyCorrect, IntakeCorrect, PTL DEF Spec

\* No accepted proof is lost and none is paid twice, for all proofs, miners and
\* pool sizes, although a payout that its block left out stays in the pool
\* while its proofs are queued again.
THEOREM ProofsAccountedCorrect == Spec => []ProofsAccounted
<1>1. AssemblyInv /\ IntakeInv /\ PayInv => ProofsAccounted
  <2> SUFFICES ASSUME AssemblyInv, IntakeInv, PayInv, NEW m \in Miners
               PROVE  LET held == queue[m] + paid[m] + (IF tick = Idle THEN 0 ELSE tick.drained[m])
                      IN  /\ paid[m] \in Nat /\ held <= AcceptedOf(m)
                          /\ AcceptedOf(m) <= held + forfeited[m]
    BY DEF ProofsAccounted
  <2>1. AcceptedBy(accepted)[m] = AcceptedOf(m)
    BY DEF AcceptedBy, AcceptedOf, ProofsOf
  <2>2. Taken(tick, m) = IF tick = Idle THEN 0 ELSE tick.drained[m]
    BY PayTypes DEF Taken
  <2>3. /\ queue[m] + paid[m] + Taken(tick, m) <= AcceptedBy(accepted)[m]
        /\ AcceptedBy(accepted)[m] <= queue[m] + paid[m] + Taken(tick, m) + forfeited[m]
    BY DEF PayInv, AccountOK
  <2>4. paid[m] \in Nat
    BY PayTypes
  <2> QED
    BY <2>1, <2>2, <2>3, <2>4
<1> QED
  BY <1>1, PayCorrect, AssemblyCorrect, IntakeCorrect, PTL

\* What miners are paid never exceeds what the schedule has emitted up to the
\* tip, for every cap and length of an epoch; and the closed form of the
\* schedule is at every height the sum of its rewards and within the cap.
THEOREM EmissionCorrect == Spec => []EmissionFollowsSchedule
<1>1. AssemblyInv /\ IntakeInv /\ PayInv => EmissionFollowsSchedule
  <2> SUFFICES ASSUME AssemblyInv, IntakeInv, PayInv PROVE EmissionFollowsSchedule
    OBVIOUS
  <2>1. tip \in Nat /\ emitted \in Nat
    BY PayTypes
  <2>2. PICK w \in [Miners -> Nat] : emitted + SumFunctionOnSet(w, Miners) <= CumulativeEmittedDust(tip)
    BY DEF PayInv, EmitOK
  <2>3. SumFunctionOnSet(w, Miners) \in Nat
    BY MinerFacts, SumNat
  <2>4. CumulativeEmittedDust(tip) \in Nat /\ CumulativeEmittedDust(tip) <= MiningCap
    BY <2>1, CumulativeCap
  <2>5. emitted \in 0 .. CumulativeEmittedDust(tip)
    BY <2>1, <2>2, <2>3, <2>4
  <2>6. CumulativeEmittedDust(tip) = SumFunction([h \in 1 .. tip |-> BlockRewardDust(h)])
    BY DEF PayInv, EmitOK
  <2> QED
    BY <2>4, <2>5, <2>6 DEF EmissionFollowsSchedule
<1> QED
  BY <1>1, PayCorrect, AssemblyCorrect, IntakeCorrect, PTL
=============================================================================

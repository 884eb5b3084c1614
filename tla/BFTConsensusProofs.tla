------------------------- MODULE BFTConsensusProofs -------------------------
(***************************************************************************)
(* BFTConsensus with its executor implements Agreement, for all heights,   *)
(* values, validators, stakes and messages, and however the validator set  *)
(* moves: no quorum argument is needed, as one node's engine opens no      *)
(* round on a committed height and commits only through a round.           *)
(*                                                                         *)
(* After that come the sums of stake behind a quorum, the slashes counted  *)
(* against the evidence kept, and the locks and rounds of the node's own   *)
(* sealing goroutine.                                                      *)
(*                                                                         *)
(* The last part is about the sealed-block hook, which runs the round and  *)
(* hands its certificate to the POL follower: the delegated stake it       *)
(* matures adds up, and a conflict at the tip stops the chain for good.    *)
(***************************************************************************)
EXTENDS BFTConsensus, FiniteSetTheorems, TLAPS

\* What a round has of its record: a value.
Valued(r) == "hash" \in DOMAIN r /\ r.hash \in Hashes

\* A height has an open round or a commit, never both, and both have a value.
EngineOK ==
    /\ DOMAIN rounds = Heights /\ DOMAIN committed = Heights
    /\ \A h \in Heights : rounds[h] # NoRound => Valued(rounds[h]) /\ committed[h] = NoRound
    /\ \A h \in Heights : committed[h] # NoRound => committed[h].hash \in Hashes

\* The goroutines work on heights, the sealing one on a value.
GoroutinesOK ==
    /\ drv = Idle \/ /\ "h" \in DOMAIN drv /\ drv.h \in Heights
                     /\ drv.pc \in {"choose", "propose", "prevote", "precommit"} =>
                            "x" \in DOMAIN drv /\ drv.x \in Hashes
    /\ inb = Idle \/ inb.h \in Heights

EngineInv == EngineOK /\ GoroutinesOK

----------------------------------------------------------------------------
\* A commit is not the absence of one.
LEMMA CommitIsSome == ASSUME NEW x, NEW y, NEW z PROVE [hash |-> x, locked |-> y, moved |-> z] # NoRound
<1>1. "hash" \in DOMAIN [hash |-> x, locked |-> y, moved |-> z]
  OBVIOUS
<1>2. "hash" \notin DOMAIN NoRound
  BY DEF NoRound
<1> QED
  BY <1>1, <1>2

\* A value is not the absence of one.
LEMMA NoHashNotAHash == NoHash \notin Hashes
  BY BFTAssumption DEF BFTAssumption, NoHash

----------------------------------------------------------------------------
(* Each operation of the engine keeps EngineOK, and all but a precommit     *)
(* leave the decisions as they are.                                         *)

\* A move of the validator set only marks the rounds.
LEMMA MoveKeeps == ASSUME EngineOK, Move PROVE EngineOK' /\ committed' = committed
<1>1. committed' = committed
  BY DEF Move
<1>2. rounds' = [h \in Heights |-> IF rounds[h] = NoRound THEN NoRound
                                   ELSE [rounds[h] EXCEPT !.moved = TRUE]]
  BY DEF Move
<1>3. ASSUME NEW h \in Heights, rounds'[h] # NoRound PROVE Valued(rounds'[h]) /\ committed[h] = NoRound
  <2>1. rounds[h] # NoRound /\ rounds'[h] = [rounds[h] EXCEPT !.moved = TRUE]
    BY <1>2, <1>3
  <2>2. Valued(rounds[h]) /\ committed[h] = NoRound
    BY <2>1 DEF EngineOK
  <2> QED
    BY <2>1, <2>2 DEF Valued
<1> QED
  BY <1>1, <1>2, <1>3 DEF EngineOK, Valued

\* Evidence touches the engine at most by a move.
LEMMA ProcessKeeps ==
    ASSUME EngineOK, NEW v, NEW h, NEW r, NEW x, NEW y, Process(v, h, r, x, y)
    PROVE  EngineOK' /\ committed' = committed
<1>1. CASE UNCHANGED <<setVars, roundVars>>
  BY <1>1 DEF roundVars, EngineOK, Valued
<1>2. CASE Move
  BY <1>2, MoveKeeps
<1> QED
  BY <1>1, <1>2 DEF Process

\* Propose opens a round on a height without a commit.
LEMMA OpenKeeps ==
    ASSUME EngineOK, NEW h \in Heights, NEW r, NEW p, NEW x \in Hashes, NEW own,
           Proposable(h, r, p), rounds' = [rounds EXCEPT ![h] = Opened(h, r, p, x, own)],
           committed' = committed
    PROVE  EngineOK'
<1>1. Valued(Opened(h, r, p, x, own))
  BY DEF Valued, Opened
<1>2. committed[h] = NoRound
  BY DEF Proposable
<1> QED
  BY <1>1, <1>2 DEF EngineOK, Valued

\* A prevote may lock the round; its value stays.
LEMMA PreVoteKeeps ==
    ASSUME EngineOK, NEW h \in Heights, NEW v, NEW x, CanPreVote(h, v), PreVote(h, v, x)
    PROVE  EngineOK' /\ committed' = committed
<1>1. Valued(rounds[h]) /\ committed[h] = NoRound
  BY DEF EngineOK, CanPreVote
<1>2. committed' = committed
  BY DEF PreVote
<1>3. PICK r : rounds' = [rounds EXCEPT ![h] = r] /\ Valued(r)
  <2> DEFINE votes == [rounds[h].prevotes EXCEPT ![v] = x]
             cr == [rounds[h] EXCEPT !.prevotes = votes]
             locked == [cr EXCEPT !.polka = TRUE, !.locked = CHOOSE y \in Polka(votes) : TRUE]
  <2>1. Valued(cr)
    BY <1>1 DEF Valued
  <2>2. Valued(locked)
    <3> HIDE DEF cr
    <3> QED
      BY <2>1 DEF Valued
  <2>3. rounds' = [rounds EXCEPT ![h] = IF Polka(votes) = {} THEN cr ELSE locked]
    BY DEF PreVote
  <2> HIDE DEF cr, locked, votes
  <2> QED
    BY <2>1, <2>2, <2>3
<1> QED
  BY <1>1, <1>2, <1>3 DEF EngineOK, Valued

\* A failed round is gone; its height is undecided.
LEMMA FailKeeps ==
    ASSUME EngineOK, NEW h \in Heights, FailRound(h)
    PROVE  EngineOK' /\ committed' = committed
<1>1. CASE UNCHANGED roundVars
  BY <1>1 DEF roundVars, EngineOK, Valued
<1>2. CASE rounds' = [rounds EXCEPT ![h] = NoRound] /\ UNCHANGED committed
  BY <1>2 DEF EngineOK, Valued
<1> QED
  BY <1>1, <1>2 DEF FailRound

\* A precommit decides the height, which had no decision, or nothing.
LEMMA PreCommitKeeps ==
    ASSUME EngineOK, NEW h \in Heights, NEW v, NEW x, CanPreCommit(h, v, x), PreCommit(h, v, x)
    PROVE  /\ EngineOK'
           /\ \/ committed' = committed
              \/ Decided[h] = NoHash /\ \E d \in Hashes : Decided' = [Decided EXCEPT ![h] = d]
<1> DEFINE cr == [rounds[h] EXCEPT !.commits[v] = x]
           c == [hash |-> cr.hash, locked |-> cr.locked, moved |-> cr.moved]
<1>1. Valued(rounds[h]) /\ committed[h] = NoRound
  BY DEF EngineOK, CanPreCommit
<1>2. Valued(cr)
  BY <1>1 DEF Valued
<1>3. c.hash \in Hashes /\ c # NoRound
  BY <1>2, CommitIsSome DEF Valued
<1>4. CASE committed' = [committed EXCEPT ![h] = c] /\ rounds' = [rounds EXCEPT ![h] = NoRound]
  <2> HIDE DEF cr, c
  <2>1. EngineOK'
    BY <1>3, <1>4 DEF EngineOK, Valued
  <2>2. Decided[h] = NoHash
    BY <1>1 DEF Decided
  <2>3. Decided' = [Decided EXCEPT ![h] = c.hash]
    BY <1>3, <1>4 DEF EngineOK, Decided
  <2> QED
    BY <1>3, <2>1, <2>2, <2>3
<1>5. CASE rounds' = [rounds EXCEPT ![h] = cr] /\ UNCHANGED committed
  <2> HIDE DEF cr
  <2> QED
    BY <1>1, <1>2, <1>5 DEF EngineOK, Valued
<1> QED
  BY <1>4, <1>5 DEF PreCommit

\* Notify tells of a decision that nobody was told of, or nothing.
LEMMA NotifyTells ==
    ASSUME EngineOK, NEW h \in Heights, Notify(h), committed' = committed
    PROVE  UNCHANGED <<Decided, told>> \/ A!Next
<1>1. UNCHANGED Decided
  BY DEF Decided
<1>2. CASE UNCHANGED nodeVars
  BY <1>1, <1>2 DEF nodeVars
<1>3. CASE committed[h] # NoRound /\ told[h] = NoHash /\ told' = [told EXCEPT ![h] = committed[h].hash]
  <2>1. Decided[h] = committed[h].hash /\ Decided[h] # NoHash
    BY <1>3, NoHashNotAHash DEF Decided, EngineOK
  <2>2. A!Tell(h)
    BY <1>1, <1>3, <2>1 DEF A!Tell
  <2> QED
    BY <2>2 DEF A!Next
<1> QED
  BY <1>2, <1>3 DEF Notify

\* A precommit maps to a decision or to a stutter.
LEMMA PreCommitDecides ==
    ASSUME EngineOK, NEW h \in Heights, NEW v, NEW x, CanPreCommit(h, v, x), PreCommit(h, v, x),
           told' = told
    PROVE  EngineOK' /\ (UNCHANGED <<Decided, told>> \/ A!Next)
<1>1. CASE committed' = committed
  BY <1>1, PreCommitKeeps DEF Decided
<1>2. CASE Decided[h] = NoHash /\ \E d \in Hashes : Decided' = [Decided EXCEPT ![h] = d]
  <2>1. A!Decide(h)
    BY <1>2 DEF A!Decide
  <2> QED
    BY <2>1, PreCommitKeeps DEF A!Next
<1> QED
  BY <1>1, <1>2, PreCommitKeeps

----------------------------------------------------------------------------
\* The invariant at the start.
LEMMA InitEngine == Init => EngineInv
  BY DEF Init, EngineInv, EngineOK, GoroutinesOK, Valued

\* Nothing is decided or told at the start.
LEMMA InitAgrees == Init => A!Init
  BY DEF Init, A!Init, Decided

\* What a step keeps, and what it is to Agreement.
StepOK == EngineInv' /\ (UNCHANGED <<Decided, told>> \/ A!Next)

\* Steps that leave the decisions and the callback alone.
LEMMA QuietStep ==
    ASSUME EngineOK', GoroutinesOK', committed' = committed, told' = told
    PROVE  StepOK
  BY DEF StepOK, EngineInv, Decided

\* What the inbound goroutine does with a message.
LEMMA GossipStep == ASSUME EngineInv, Gossip PROVE StepOK
<1> USE DEF EngineInv
<1>1. PICK h \in Heights, v \in Validators :
        \/ \E r \in 0..MaxRound, x \in Hashes : ReceivePropose(h, r, v, x)
        \/ \E x \in Votes : ReceivePrevote(h, v, x) \/ ReceivePrecommit(h, v, x)
        \/ \E r \in 0..MaxRound, x, y \in Hashes : ReceiveEvidence(v, h, r, x, y)
  BY DEF Gossip
<1>2. ASSUME NEW r, NEW x \in Hashes, ReceivePropose(h, r, v, x) PROVE StepOK
  <2>1. told' = told /\ GoroutinesOK'
    BY <1>2 DEF ReceivePropose, GoroutinesOK
  <2>2. EngineOK' /\ committed' = committed
    <3>1. CASE /\ Proposable(h, r, v) /\ rounds' = [rounds EXCEPT ![h] = Opened(h, r, v, x, FALSE)]
               /\ committed' = committed
      BY <3>1, OpenKeeps
    <3>2. CASE UNCHANGED roundVars
      BY <3>2 DEF roundVars, EngineOK, Valued
    <3>3. CASE Process(v, h, r, rounds[h].hash, x)
      BY <3>3, ProcessKeeps
    <3> QED
      BY <1>2, <3>1, <3>2, <3>3 DEF ReceivePropose
  <2> QED
    BY <2>1, <2>2, QuietStep
<1>3. ASSUME NEW x, ReceivePrevote(h, v, x) PROVE StepOK
  <2>1. told' = told /\ GoroutinesOK' /\ CanPreVote(h, v) /\ PreVote(h, v, x)
    BY <1>3 DEF ReceivePrevote, GoroutinesOK, nodeVars
  <2> QED
    BY <2>1, PreVoteKeeps, QuietStep
<1>4. ASSUME NEW x, ReceivePrecommit(h, v, x) PROVE StepOK
  <2>1. told' = told /\ GoroutinesOK' /\ CanPreCommit(h, v, x) /\ PreCommit(h, v, x)
    BY <1>4 DEF ReceivePrecommit, GoroutinesOK, nodeVars
  <2> QED
    BY <2>1, PreCommitDecides DEF StepOK
<1>5. ASSUME NEW r, NEW x, NEW y, ReceiveEvidence(v, h, r, x, y) PROVE StepOK
  <2>1. told' = told /\ GoroutinesOK' /\ Process(v, h, r, x, y)
    BY <1>5 DEF ReceiveEvidence, GoroutinesOK, nodeVars
  <2> QED
    BY <2>1, ProcessKeeps, QuietStep
<1> QED
  BY <1>1, <1>2, <1>3, <1>4, <1>5

\* The check after a precommit of a peer.
LEMMA CheckStep == ASSUME EngineInv, CheckCommitted PROVE StepOK
<1>1. inb.h \in Heights /\ Notify(inb.h) /\ UNCHANGED roundVars
  BY DEF CheckCommitted, EngineInv, GoroutinesOK
<1>2. EngineOK' /\ committed' = committed
  BY <1>1 DEF roundVars, EngineInv, EngineOK, Valued
<1>3. GoroutinesOK'
  BY DEF CheckCommitted, EngineInv, GoroutinesOK
<1> QED
  BY <1>1, <1>2, <1>3, NotifyTells DEF StepOK, EngineInv

\* The height and the value the sealing goroutine works on.
LEMMA DrivesHeight ==
    ASSUME GoroutinesOK, drv.pc \in {"choose", "propose", "prevote", "precommit", "finish", "prune"}
    PROVE  /\ "h" \in DOMAIN drv /\ drv.h \in Heights
           /\ drv.pc \in {"choose", "propose", "prevote", "precommit"} =>
                  "x" \in DOMAIN drv /\ drv.x \in Hashes
  BY DEF GoroutinesOK, Idle

\* A loop of the hook begins.
LEMMA LoopKeeps ==
    ASSUME GoroutinesOK, drv.h \in Heights, drv.x \in Hashes, NEW pc, Loop(pc), inb' = inb
    PROVE  GoroutinesOK'
  BY DEF Loop, GoroutinesOK

\* The hook ends.
LEMMA DoneKeeps == ASSUME GoroutinesOK, Done, inb' = inb PROVE GoroutinesOK'
  BY DEF Done, GoroutinesOK

\* The steps of PublishPolAfterBlockSeal.
LEMMA DriveStep == ASSUME EngineInv, Drive PROVE StepOK
<1> USE DEF EngineInv
<1>0. UNCHANGED roundVars => EngineOK' /\ committed' = committed
  BY DEF roundVars, EngineOK, Valued
<1>1. CASE PublishNothing
  <2>1. /\ drv.h \in Heights /\ "h" \in DOMAIN drv /\ drv.x \in Hashes /\ "x" \in DOMAIN drv
        /\ inb' = inb /\ UNCHANGED roundVars
    BY <1>1, DrivesHeight DEF PublishNothing
  <2>2. GoroutinesOK'
    <3>1. CASE Done
      BY <2>1, <3>1, DoneKeeps
    <3>2. CASE drv' = [drv EXCEPT !.pc = "prune"]
      <4>1. "h" \in DOMAIN drv' /\ drv'.h = drv.h /\ "x" \in DOMAIN drv' /\ drv'.x = drv.x
        BY <2>1, <3>2
      <4> QED
        BY <2>1, <4>1 DEF GoroutinesOK
    <3> QED
      BY <1>1, <3>1, <3>2 DEF PublishNothing
  <2>3. CASE Notify(drv.h)
    BY <1>0, <2>1, <2>2, <2>3, NotifyTells DEF StepOK
  <2>4. CASE told' = told
    BY <1>0, <2>1, <2>2, <2>4, QuietStep
  <2> QED
    BY <1>1, <2>3, <2>4 DEF PublishNothing
<1>2. CASE Prune
  <2>1. UNCHANGED roundVars /\ told' = told /\ GoroutinesOK'
    BY <1>2, DoneKeeps DEF Prune
  <2> QED
    BY <1>0, <2>1, QuietStep
<1>3. CASE ChooseProposer
  <2>1. drv.h \in Heights /\ drv.x \in Hashes
    BY <1>3, DrivesHeight DEF ChooseProposer
  <2>2. UNCHANGED roundVars /\ told' = told /\ GoroutinesOK'
    BY <1>3, <2>1 DEF ChooseProposer, GoroutinesOK, nodeVars
  <2> QED
    BY <1>0, <2>2, QuietStep
<1>4. CASE DrivePropose
  <2>1. drv.h \in Heights /\ drv.x \in Hashes
    BY <1>4, DrivesHeight DEF DrivePropose
  <2>2. told' = told /\ committed' = committed
    BY <1>4 DEF DrivePropose
  <2>3. GoroutinesOK'
    <3>1. inb' = inb /\ (Loop("prevote") \/ Done)
      BY <1>4 DEF DrivePropose
    <3> QED
      BY <2>1, <3>1, LoopKeeps, DoneKeeps
  <2>4. EngineOK'
    <3>1. CASE /\ Proposable(drv.h, drv.r, drv.p)
               /\ rounds' = [rounds EXCEPT ![drv.h] = Opened(drv.h, drv.r, drv.p, drv.x, TRUE)]
      BY <2>1, <2>2, <3>1, OpenKeeps
    <3>2. CASE /\ SameProposal(drv.h, drv.r, drv.p, drv.x)
               /\ rounds' = [rounds EXCEPT ![drv.h].own = TRUE]
      <4>1. Valued(rounds[drv.h]) /\ committed[drv.h] = NoRound
        BY <2>1, <3>2 DEF EngineOK, SameProposal
      <4>2. Valued([rounds[drv.h] EXCEPT !.own = TRUE])
        BY <4>1 DEF Valued
      <4> QED
        BY <2>1, <2>2, <3>2, <4>1, <4>2 DEF EngineOK, Valued
    <3>3. CASE rounds' = rounds
      BY <2>2, <3>3 DEF EngineOK, Valued
    <3> QED
      BY <1>4, <3>1, <3>2, <3>3 DEF DrivePropose
  <2> QED
    BY <2>2, <2>3, <2>4, QuietStep
<1>5. CASE DrivePrevote
  <2>1. drv.h \in Heights /\ "h" \in DOMAIN drv /\ "x" \in DOMAIN drv /\ drv.x \in Hashes
    BY <1>5, DrivesHeight DEF DrivePrevote
  <2>2. PICK v \in drv.todo :
          /\ drv' = [drv EXCEPT !.todo = @ \ {v}]
          /\ IF CanPreVote(drv.h, v) THEN PreVote(drv.h, v, drv.x) ELSE UNCHANGED roundVars
    BY <1>5 DEF DrivePrevote
  <2>3. told' = told /\ GoroutinesOK'
    BY <1>5, <2>1, <2>2 DEF DrivePrevote, GoroutinesOK, nodeVars
  <2> QED
    BY <1>0, <2>1, <2>2, <2>3, PreVoteKeeps, QuietStep
<1>6. CASE BuildLockProof
  <2>1. drv.h \in Heights /\ drv.x \in Hashes
    BY <1>6, DrivesHeight DEF BuildLockProof
  <2>2. told' = told /\ GoroutinesOK'
    BY <1>6, <2>1, LoopKeeps, DoneKeeps DEF BuildLockProof
  <2> QED
    BY <1>0, <1>6, <2>1, <2>2, FailKeeps, QuietStep DEF BuildLockProof, GiveUpRound
<1>7. CASE DrivePrecommit
  <2>1. drv.h \in Heights /\ "h" \in DOMAIN drv /\ "x" \in DOMAIN drv /\ drv.x \in Hashes
    BY <1>7, DrivesHeight DEF DrivePrecommit
  <2>2. PICK v \in drv.todo :
          /\ drv' = [drv EXCEPT !.todo = @ \ {v}]
          /\ IF CanPreCommit(drv.h, v, drv.x) THEN PreCommit(drv.h, v, drv.x) ELSE UNCHANGED roundVars
    BY <1>7 DEF DrivePrecommit
  <2>3. told' = told /\ GoroutinesOK'
    BY <1>7, <2>1, <2>2 DEF DrivePrecommit, GoroutinesOK, nodeVars
  <2>4. CASE UNCHANGED roundVars
    BY <1>0, <2>3, <2>4, QuietStep
  <2>5. CASE CanPreCommit(drv.h, v, drv.x) /\ PreCommit(drv.h, v, drv.x)
    BY <2>1, <2>3, <2>5, PreCommitDecides DEF StepOK
  <2> QED
    BY <2>2, <2>4, <2>5
<1>8. CASE DriveNotify
  <2>1. drv.h \in Heights /\ Notify(drv.h) /\ UNCHANGED roundVars
    BY <1>8, DrivesHeight DEF DriveNotify, NotifyFromConsensus
  <2>2. GoroutinesOK'
    BY <1>8, <2>1 DEF DriveNotify, GoroutinesOK
  <2> QED
    BY <1>0, <2>1, <2>2, NotifyTells DEF StepOK
<1>9. CASE DriveFinish
  <2>1. drv.h \in Heights
    BY <1>9, DrivesHeight DEF DriveFinish
  <2>2. told' = told /\ GoroutinesOK'
    BY <1>9, DoneKeeps DEF DriveFinish
  <2> QED
    BY <1>0, <1>9, <2>1, <2>2, FailKeeps, QuietStep DEF DriveFinish
<1> QED
  BY <1>1, <1>2, <1>3, <1>4, <1>5, <1>6, <1>7, <1>8, <1>9 DEF Drive

\* The steps that seal a block or move the validator set.
LEMMA OtherStep ==
    ASSUME EngineInv,
           \/ \E h \in Heights, x \in Own : Seal(h, x)
           \/ \E v \in Validators : JailElapses(v)
           \/ SyncStakes
    PROVE  StepOK
<1> USE DEF EngineInv
<1>1. ASSUME NEW h \in Heights, NEW x \in Own, Seal(h, x) PROVE StepOK
  <2>1. x \in Hashes
    BY BFTAssumption DEF BFTAssumption
  <2>2. UNCHANGED roundVars /\ told' = told /\ GoroutinesOK'
    BY <1>1, <2>1 DEF Seal, GoroutinesOK
  <2>3. EngineOK' /\ committed' = committed
    BY <2>2 DEF roundVars, EngineOK, Valued
  <2> QED
    BY <2>2, <2>3, QuietStep
<1>2. CASE Move /\ UNCHANGED <<nodeVars, drv, inb>>
  <2>1. told' = told /\ GoroutinesOK'
    BY <1>2 DEF nodeVars, GoroutinesOK
  <2> QED
    BY <1>2, <2>1, MoveKeeps, QuietStep
<1> QED
  BY <1>1, <1>2 DEF JailElapses, SyncStakes

\* Every step keeps the invariant and is a step of Agreement or a stutter.
LEMMA EngineStep == ASSUME EngineInv, [Next]_vars PROVE StepOK
<1>1. CASE UNCHANGED vars
  <2>1. EngineOK' /\ GoroutinesOK' /\ committed' = committed /\ told' = told
    BY <1>1 DEF vars, EngineInv, EngineOK, GoroutinesOK, Valued
  <2> QED
    BY <2>1, QuietStep
<1> QED
  BY <1>1, GossipStep, CheckStep, DriveStep, OtherStep DEF Next

\* The engine with its executor implements Agreement: a height decides one
\* value, once, and the commit callback is told it once (Propose, PreCommit,
\* maybeNotifyCommit, NotifyFromConsensus).
THEOREM RefinesAgreement == Spec => ImplementsAgreement
<1>1. Init => EngineInv /\ A!Init
  BY InitEngine, InitAgrees
<1>2. EngineInv /\ [Next]_vars => EngineInv' /\ [A!Next]_<<Decided, told>>
  BY EngineStep DEF StepOK
<1> QED
  BY <1>1, <1>2, PTL DEF Spec, ImplementsAgreement, A!Spec

----------------------------------------------------------------------------
(* Sums over finite sets.  The induction is by least counterexample, which *)
(* needs no operator parameter.                                            *)

\* A set of subsets of a finite set has a least element.
LEMMA LeastSet ==
    ASSUME NEW S, IsFiniteSet(S), NEW F, F \subseteq SUBSET S, F # {}
    PROVE  \E T \in F : \A U \in F : U \subseteq T => U = T
<1>1. IsWellFoundedOn(StrictSubsetOrdering(S), FiniteSubsetsOf(S))
  BY FS_StrictSubsetOrderingWellFounded
<1>2. FiniteSubsetsOf(S) = SUBSET S
  BY FS_FiniteSubsetsOfFinite
<1>3. PICK T \in F : \A U \in F : ~(<<U, T>> \in StrictSubsetOrdering(S))
  BY <1>1, <1>2, WFMin
<1>4. ASSUME NEW U \in F, U \subseteq T, U # T PROVE FALSE
  <2>1. <<U, T>> \in StrictSubsetOrdering(S)
    BY <1>4 DEF StrictSubsetOrdering
  <2> QED
    BY <2>1, <1>3
<1> QED
  BY <1>4

\* The element that a fold takes first.
Pick(s) == CHOOSE x \in s : TRUE

\* g sums f over the subsets of S.
SumTable(g, f, S) == g = [s \in SUBSET S |-> IF s = {} THEN 0 ELSE f[Pick(s)] + g[s \ {Pick(s)}]]

\* A sum is the value of such a function.
LEMMA SumIs ==
    ASSUME NEW f, NEW S
    PROVE  SumFunctionOnSet(f, S) = (CHOOSE g : SumTable(g, f, S))[S]
  BY DEF SumFunctionOnSet, FoldFunctionOnSet, MapThenFoldSet, SumTable, Pick

\* One summand of such a function.
LEMMA TableAt ==
    ASSUME NEW f, NEW S, NEW g, SumTable(g, f, S), NEW s \in SUBSET S
    PROVE  /\ s = {} => g[s] = 0
           /\ s # {} => /\ Pick(s) \in s /\ s \ {Pick(s)} \in SUBSET S
                       /\ g[s] = f[Pick(s)] + g[s \ {Pick(s)}]
<1>1. s # {} => Pick(s) \in s
  BY DEF Pick
<1>2. g[s] = IF s = {} THEN 0 ELSE f[Pick(s)] + g[s \ {Pick(s)}]
  BY DEF SumTable
<1> QED
  BY <1>1, <1>2

\* Two such functions agree where both are defined.
LEMMA TableAgree ==
    ASSUME NEW f, NEW S, IsFiniteSet(S), NEW T, NEW g, SumTable(g, f, S), NEW h, SumTable(h, f, T),
           NEW u, u \subseteq S, u \subseteq T
    PROVE  g[u] = h[u]
<1> DEFINE F == {s \in SUBSET S : s \subseteq T /\ g[s] # h[s]}
<1>1. ASSUME F # {} PROVE FALSE
  <2>1. PICK s \in F : \A r \in F : r \subseteq s => r = s
    <3> HIDE DEF F
    <3>1. F \subseteq SUBSET S
      BY DEF F
    <3> QED
      BY <1>1, <3>1, LeastSet
  <2>2. s \in SUBSET S /\ s \in SUBSET T /\ g[s] # h[s]
    BY <2>1
  <2> DEFINE x == Pick(s)
  <2> HIDE DEF F, x
  <2>a. /\ s = {} => g[s] = 0
        /\ s # {} => x \in s /\ s \ {x} \in SUBSET S /\ g[s] = f[x] + g[s \ {x}]
    BY <2>2, TableAt DEF x
  <2>b. /\ s = {} => h[s] = 0
        /\ s # {} => s \ {x} \in SUBSET T /\ h[s] = f[x] + h[s \ {x}]
    BY <2>2, TableAt DEF x
  <2>3. s # {}
    BY <2>2, <2>a, <2>b
  <2>4. /\ x \in s /\ s \ {x} \in SUBSET S /\ s \ {x} \in SUBSET T
        /\ g[s] = f[x] + g[s \ {x}] /\ h[s] = f[x] + h[s \ {x}]
    BY <2>a, <2>b, <2>3
  <2>5. s \ {x} \notin F
    BY <2>1, <2>4
  <2> QED
    BY <2>2, <2>4, <2>5 DEF F
<1> QED
  BY <1>1

\* There is one for every finite set.
LEMMA TableExist ==
    ASSUME NEW f, NEW S, IsFiniteSet(S)
    PROVE  \E g : SumTable(g, f, S)
<1> DEFINE F == {U \in SUBSET S : ~\E g : SumTable(g, f, U)}
<1>1. ASSUME F # {} PROVE FALSE
  <2>1. PICK T \in F : \A r \in F : r \subseteq T => r = T
    <3> HIDE DEF F
    <3>1. F \subseteq SUBSET S
      BY DEF F
    <3> QED
      BY <1>1, <3>1, LeastSet
  <2>2. T \in SUBSET S /\ ~\E g : SumTable(g, f, T)
    BY <2>1
  <2> DEFINE G(U) == CHOOSE g : SumTable(g, f, U)
             h == [s \in SUBSET T |-> IF s = {} THEN 0
                     ELSE f[Pick(s)] + G(s \ {Pick(s)})[s \ {Pick(s)}]]
  <2>3. ASSUME NEW U \in SUBSET T, U # T PROVE IsFiniteSet(U) /\ SumTable(G(U), f, U)
    <3>1. U \in SUBSET S /\ U \notin F
      BY <2>1, <2>2, <2>3
    <3>2. \E g : SumTable(g, f, U)
      BY <3>1
    <3> QED
      BY <3>1, <3>2, FS_Subset
  <2>4. ASSUME NEW U \in SUBSET T, U # T PROVE h[U] = G(U)[U]
    <3>1. IsFiniteSet(U) /\ SumTable(G(U), f, U)
      BY <2>3, <2>4
    <3> DEFINE V == U \ {Pick(U)}
    <3>2. CASE U = {}
      <4>1. h[U] = 0
        BY <3>2
      <4>2. G(U)[U] = 0
        <5> HIDE DEF G
        <5>1. U \in SUBSET U
          OBVIOUS
        <5> QED
          BY <3>1, <3>2, <5>1, TableAt
      <4> QED BY <4>1, <4>2
    <3>3. CASE U # {}
      <4>1. h[U] = f[Pick(U)] + G(V)[V]
        BY <3>3
      <4> HIDE DEF G, h
      <4>2. Pick(U) \in U /\ V \in SUBSET U /\ G(U)[U] = f[Pick(U)] + G(U)[V]
        BY <3>1, <3>3, TableAt
      <4>3. V \in SUBSET T /\ V # T
        BY <4>2
      <4>4. SumTable(G(V), f, V)
        BY <2>3, <4>3
      <4>5. G(U)[V] = G(V)[V]
        BY <3>1, <4>2, <4>4, TableAgree
      <4> QED
        BY <4>1, <4>2, <4>5
    <3> QED
      BY <3>2, <3>3
  <2>5. ASSUME NEW s \in SUBSET T
        PROVE  h[s] = IF s = {} THEN 0 ELSE f[Pick(s)] + h[s \ {Pick(s)}]
    <3> DEFINE V == s \ {Pick(s)}
    <3>1. s # {} => h[s] = f[Pick(s)] + G(V)[V]
      OBVIOUS
    <3>2. s = {} => h[s] = 0
      OBVIOUS
    <3>3. s # {} => V \in SUBSET T /\ V # T
      BY DEF Pick
    <3> HIDE DEF G, h
    <3>4. s # {} => h[V] = G(V)[V]
      BY <3>3, <2>4
    <3> QED
      BY <3>1, <3>2, <3>4
  <2>6. h = [s \in SUBSET T |-> IF s = {} THEN 0 ELSE f[Pick(s)] + h[s \ {Pick(s)}]]
    <3>1. h = [s \in SUBSET T |-> h[s]]
      OBVIOUS
    <3> HIDE DEF h
    <3> QED
      BY <3>1, <2>5
  <2> QED
    BY <2>2, <2>6 DEF SumTable
<1> QED
  BY <1>1

\* The recursion that a sum follows.
LEMMA SumStep ==
    ASSUME NEW f, NEW S, IsFiniteSet(S)
    PROVE  /\ S = {} => SumFunctionOnSet(f, S) = 0
           /\ S # {} => /\ Pick(S) \in S /\ SumFunctionOnSet(f, S) = f[Pick(S)] + SumFunctionOnSet(f, S \ {Pick(S)})
<1> DEFINE G(U) == CHOOSE g : SumTable(g, f, U)
           V == S \ {Pick(S)}
<1>1. IsFiniteSet(V) /\ V \in SUBSET S
  BY FS_Subset
<1>2. SumTable(G(S), f, S) /\ SumTable(G(V), f, V)
  BY <1>1, TableExist
<1>3. SumFunctionOnSet(f, S) = G(S)[S] /\ SumFunctionOnSet(f, V) = G(V)[V]
  BY SumIs
<1> HIDE DEF G
<1>4. G(S)[V] = G(V)[V]
  BY <1>1, <1>2, TableAgree
<1>5. S \in SUBSET S
  OBVIOUS
<1>6. /\ S = {} => G(S)[S] = 0
      /\ S # {} => Pick(S) \in S /\ G(S)[S] = f[Pick(S)] + G(S)[V]
  BY <1>2, <1>5, TableAt
<1> QED
  BY <1>3, <1>4, <1>6

\* Sums of natural numbers are natural numbers.
LEMMA SumNat ==
    ASSUME NEW f, NEW S, IsFiniteSet(S), \A x \in S : f[x] \in Nat
    PROVE  SumFunctionOnSet(f, S) \in Nat
<1> DEFINE F == {s \in SUBSET S : SumFunctionOnSet(f, s) \notin Nat}
<1>1. ASSUME F # {} PROVE FALSE
  <2>1. PICK s \in F : \A r \in F : r \subseteq s => r = s
    <3> HIDE DEF F
    <3>1. F \subseteq SUBSET S
      BY DEF F
    <3> QED
      BY <1>1, <3>1, LeastSet
  <2>2. IsFiniteSet(s) /\ s \in SUBSET S
    BY FS_Subset
  <2>a. s = {} => SumFunctionOnSet(f, s) = 0
    BY <2>2, SumStep
  <2>b. SumFunctionOnSet(f, s) \notin Nat /\ 0 \in Nat
    BY <2>1
  <2>3. s # {}
    BY <2>a, <2>b
  <2>4. Pick(s) \in s /\ SumFunctionOnSet(f, s) = f[Pick(s)] + SumFunctionOnSet(f, s \ {Pick(s)})
    BY <2>2, <2>3, SumStep
  <2>5. s \ {Pick(s)} \notin F
    BY <2>1, <2>4
  <2>6. SumFunctionOnSet(f, s \ {Pick(s)}) \in Nat /\ f[Pick(s)] \in Nat
    BY <2>2, <2>4, <2>5
  <2> QED
    BY <2>1, <2>4, <2>6
<1> QED
  BY <1>1

\* Any element may be taken out first.
LEMMA SumRemove ==
    ASSUME NEW f, NEW S, IsFiniteSet(S), \A x \in S : f[x] \in Nat, NEW x \in S
    PROVE  SumFunctionOnSet(f, S) = f[x] + SumFunctionOnSet(f, S \ {x})
<1> DEFINE F == {s \in SUBSET S : \E y \in s : SumFunctionOnSet(f, s) # f[y] + SumFunctionOnSet(f, s \ {y})}
<1>1. ASSUME F # {} PROVE FALSE
  <2>1. PICK s \in F : \A r \in F : r \subseteq s => r = s
    <3> HIDE DEF F
    <3>1. F \subseteq SUBSET S
      BY DEF F
    <3> QED
      BY <1>1, <3>1, LeastSet
  <2>2. PICK y \in s : SumFunctionOnSet(f, s) # f[y] + SumFunctionOnSet(f, s \ {y})
    BY <2>1
  <2> DEFINE p == Pick(s)
             u == s \ {p}
             v == s \ {y}
             w == (s \ {p}) \ {y}
  <2>3. IsFiniteSet(s) /\ s \in SUBSET S /\ s # {}
    BY <2>1, <2>2, FS_Subset
  <2>4. p \in s /\ SumFunctionOnSet(f, s) = f[p] + SumFunctionOnSet(f, u)
    BY <2>3, SumStep
  <2>5. p # y
    BY <2>2, <2>4
  <2>6. u \notin F /\ v \notin F /\ u \in SUBSET S /\ v \in SUBSET S /\ y \in u /\ p \in v
    BY <2>1, <2>2, <2>3, <2>4, <2>5
  <2>7. SumFunctionOnSet(f, u) = f[y] + SumFunctionOnSet(f, w)
    BY <2>6
  <2>8. v \ {p} = w
    OBVIOUS
  <2>9. SumFunctionOnSet(f, v) = f[p] + SumFunctionOnSet(f, w)
    BY <2>6, <2>8
  <2>10. IsFiniteSet(w) /\ w \in SUBSET S
    BY <2>3, FS_Subset
  <2>11. SumFunctionOnSet(f, w) \in Nat /\ f[p] \in Nat /\ f[y] \in Nat
    BY <2>2, <2>3, <2>4, <2>10, SumNat
  <2> HIDE DEF p, u, v, w
  <2> QED
    BY <2>2, <2>4, <2>7, <2>9, <2>11 DEF v
<1> QED
  BY <1>1

\* Disjoint sets.
LEMMA SumDisjoint ==
    ASSUME NEW f, NEW S, IsFiniteSet(S), NEW T, IsFiniteSet(T), S \cap T = {},
           \A x \in S \cup T : f[x] \in Nat
    PROVE  SumFunctionOnSet(f, S \cup T) = SumFunctionOnSet(f, S) + SumFunctionOnSet(f, T)
<1> DEFINE F == {s \in SUBSET S : SumFunctionOnSet(f, s \cup T) # SumFunctionOnSet(f, s) + SumFunctionOnSet(f, T)}
<1>1. ASSUME F # {} PROVE FALSE
  <2>1. PICK s \in F : \A r \in F : r \subseteq s => r = s
    <3> HIDE DEF F
    <3>1. F \subseteq SUBSET S
      BY DEF F
    <3> QED
      BY <1>1, <3>1, LeastSet
  <2>2. /\ s \in SUBSET S /\ IsFiniteSet(s) /\ IsFiniteSet(s \cup T)
        /\ SumFunctionOnSet(f, s \cup T) # SumFunctionOnSet(f, s) + SumFunctionOnSet(f, T)
    BY <2>1, FS_Subset, FS_Union
  <2>3. SumFunctionOnSet(f, T) \in Nat
    BY SumNat
  <2>4. s # {}
    <3> SUFFICES ASSUME s = {} PROVE FALSE
      OBVIOUS
    <3>1. s \cup T = T /\ SumFunctionOnSet(f, s) = 0
      BY <2>2, SumStep
    <3>2. SumFunctionOnSet(f, T) # 0 + SumFunctionOnSet(f, T)
      BY <2>2, <3>1
    <3> QED
      BY <2>3, <3>2
  <2>5. PICK x \in s : TRUE
    BY <2>4
  <2> DEFINE u == s \ {x}
  <2>6. u \in SUBSET S /\ u \notin F /\ IsFiniteSet(u) /\ (s \cup T) \ {x} = u \cup T
    BY <2>1, <2>2, <2>5, FS_Subset
  <2>7. SumFunctionOnSet(f, u \cup T) = SumFunctionOnSet(f, u) + SumFunctionOnSet(f, T)
    BY <2>6
  <2>8. SumFunctionOnSet(f, s) = f[x] + SumFunctionOnSet(f, u)
    BY <2>2, <2>5, SumRemove
  <2>9. SumFunctionOnSet(f, s \cup T) = f[x] + SumFunctionOnSet(f, (s \cup T) \ {x})
    BY <2>2, <2>5, SumRemove
  <2>10. SumFunctionOnSet(f, u) \in Nat /\ f[x] \in Nat
    BY <2>2, <2>5, <2>6, SumNat
  <2> HIDE DEF u
  <2> QED
    BY <2>2, <2>3, <2>6, <2>7, <2>8, <2>9, <2>10
<1> QED
  BY <1>1

\* Functions that agree.
LEMMA SumSame ==
    ASSUME NEW f, NEW g, NEW S, IsFiniteSet(S), \A x \in S : f[x] = g[x]
    PROVE  SumFunctionOnSet(f, S) = SumFunctionOnSet(g, S)
<1> DEFINE F == {s \in SUBSET S : SumFunctionOnSet(f, s) # SumFunctionOnSet(g, s)}
<1>1. ASSUME F # {} PROVE FALSE
  <2>1. PICK s \in F : \A r \in F : r \subseteq s => r = s
    <3> HIDE DEF F
    <3>1. F \subseteq SUBSET S
      BY DEF F
    <3> QED
      BY <1>1, <3>1, LeastSet
  <2>2. IsFiniteSet(s) /\ s \in SUBSET S
    BY FS_Subset
  <2>3. s # {}
    BY <2>1, <2>2, SumStep
  <2>4. /\ Pick(s) \in s /\ SumFunctionOnSet(f, s) = f[Pick(s)] + SumFunctionOnSet(f, s \ {Pick(s)})
        /\ SumFunctionOnSet(g, s) = g[Pick(s)] + SumFunctionOnSet(g, s \ {Pick(s)})
    BY <2>2, <2>3, SumStep
  <2>5. s \ {Pick(s)} \notin F
    BY <2>1, <2>4
  <2>6. SumFunctionOnSet(f, s \ {Pick(s)}) = SumFunctionOnSet(g, s \ {Pick(s)}) /\ f[Pick(s)] = g[Pick(s)]
    BY <2>2, <2>4, <2>5
  <2> QED
    BY <2>1, <2>4, <2>6
<1> QED
  BY <1>1

\* Sums of functions that differ at one point.
LEMMA SumChange ==
    ASSUME NEW f, NEW g, NEW S, IsFiniteSet(S), NEW x \in S,
           \A y \in S : f[y] \in Nat /\ g[y] \in Nat, \A y \in S : y # x => f[y] = g[y]
    PROVE  SumFunctionOnSet(g, S) = SumFunctionOnSet(f, S) - f[x] + g[x]
<1> DEFINE R == S \ {x}
<1>1. IsFiniteSet(R) /\ R \subseteq S
  BY FS_Subset
<1>2. SumFunctionOnSet(f, R) = SumFunctionOnSet(g, R)
  BY <1>1, SumSame
<1>3. SumFunctionOnSet(f, S) = f[x] + SumFunctionOnSet(f, R) /\ SumFunctionOnSet(g, S) = g[x] + SumFunctionOnSet(g, R)
  BY SumRemove
<1>4. SumFunctionOnSet(f, R) \in Nat /\ f[x] \in Nat /\ g[x] \in Nat
  BY <1>1, SumNat
<1> HIDE DEF R
<1> QED
  BY <1>2, <1>3, <1>4

\* The sum of zeros.
LEMMA SumZero ==
    ASSUME NEW f, NEW S, IsFiniteSet(S), \A x \in S : f[x] = 0
    PROVE  SumFunctionOnSet(f, S) = 0
<1> DEFINE F == {s \in SUBSET S : SumFunctionOnSet(f, s) # 0}
<1>1. ASSUME F # {} PROVE FALSE
  <2>1. PICK s \in F : \A r \in F : r \subseteq s => r = s
    <3> HIDE DEF F
    <3>1. F \subseteq SUBSET S
      BY DEF F
    <3> QED
      BY <1>1, <3>1, LeastSet
  <2>2. IsFiniteSet(s) /\ s \in SUBSET S
    BY FS_Subset
  <2>3. s # {}
    BY <2>1, <2>2, SumStep
  <2>4. Pick(s) \in s /\ SumFunctionOnSet(f, s) = f[Pick(s)] + SumFunctionOnSet(f, s \ {Pick(s)})
    BY <2>2, <2>3, SumStep
  <2>5. s \ {Pick(s)} \notin F
    BY <2>1, <2>4
  <2>6. SumFunctionOnSet(f, s \ {Pick(s)}) = 0 /\ f[Pick(s)] = 0
    BY <2>2, <2>4, <2>5
  <2> QED
    BY <2>1, <2>4, <2>6
<1> QED
  BY <1>1

----------------------------------------------------------------------------
(* Stake and quorums.                                                      *)

\* Every validator has stake.
Staked == stake \in [Validators -> Nat \ {0}]

LEMMA TotalFacts ==
    ASSUME Staked, NEW S, S \subseteq Validators
    PROVE  /\ IsFiniteSet(S) /\ Total(S) \in Nat /\ (S # {} => Total(S) > 0)
           /\ S = {} => Total(S) = 0
<1>1. IsFiniteSet(S)
  BY BFTAssumption, FS_Subset DEF BFTAssumption
<1>2. \A x \in S : stake[x] \in Nat /\ stake[x] > 0
  BY DEF Staked
<1>3. Total(S) \in Nat
  BY <1>1, <1>2, SumNat DEF Total
<1>4. ASSUME NEW x \in S PROVE Total(S) > 0
  <2>1. Total(S) = stake[x] + Total(S \ {x})
    BY <1>1, <1>2, SumRemove DEF Total
  <2>2. IsFiniteSet(S \ {x})
    BY <1>1, FS_Subset
  <2>3. Total(S \ {x}) \in Nat
    BY <1>2, <2>2, SumNat DEF Total
  <2> QED
    BY <1>2, <2>1, <2>3
<1>5. S = {} => Total(S) = 0
  BY <1>1, SumStep DEF Total
<1> QED
  BY <1>1, <1>3, <1>4, <1>5

\* A larger set has no less stake.
LEMMA TotalGrows ==
    ASSUME Staked, NEW T, T \subseteq Validators, NEW S, S \subseteq T
    PROVE  Total(S) <= Total(T)
<1> DEFINE R == T \ S
<1>1. S \cup R = T /\ S \cap R = {} /\ S \subseteq Validators /\ R \subseteq Validators
  OBVIOUS
<1>2. IsFiniteSet(S) /\ IsFiniteSet(R) /\ Total(S) \in Nat /\ Total(R) \in Nat
  BY <1>1, TotalFacts
<1>3. \A x \in S \cup R : stake[x] \in Nat
  BY DEF Staked
<1> HIDE DEF R
<1>4. Total(S \cup R) = Total(S) + Total(R)
  BY <1>1, <1>2, <1>3, SumDisjoint DEF Total
<1>5. Total(T) = Total(S) + Total(R)
  BY <1>1, <1>4
<1> QED
  BY <1>2, <1>5

\* Two disjoint sets have no more stake than both within.
LEMMA TotalDisjoint ==
    ASSUME Staked, NEW U, U \subseteq Validators, NEW S, S \subseteq U, NEW T, T \subseteq U, S \cap T = {}
    PROVE  Total(S) + Total(T) <= Total(U)
<1>1. S \cup T \subseteq U /\ S \subseteq Validators /\ T \subseteq Validators
  OBVIOUS
<1>2. IsFiniteSet(S) /\ IsFiniteSet(T)
  BY <1>1, TotalFacts
<1>3. \A x \in S \cup T : stake[x] \in Nat
  BY <1>1 DEF Staked
<1>4. Total(S \cup T) = Total(S) + Total(T)
  BY <1>2, <1>3, SumDisjoint DEF Total
<1>5. Total(S \cup T) <= Total(U)
  BY <1>1, TotalGrows
<1> QED
  BY <1>4, <1>5

\* At most one value has the prevotes of two thirds.
LEMMA OnePolka ==
    ASSUME Staked, NEW votes, NEW x \in Polka(votes), NEW y \in Polka(votes)
    PROVE  x = y
<1> SUFFICES ASSUME x # y PROVE FALSE
  OBVIOUS
<1> DEFINE U == ActiveValidators
           S == {v \in Validators : votes[v] = x} \cap U
           T == {v \in Validators : votes[v] = y} \cap U
<1>1. U \subseteq Validators /\ S \subseteq U /\ T \subseteq U /\ S \cap T = {}
  BY DEF ActiveValidators
<1>2. Total(U) > 0 /\ 3 * Total(S) >= 2 * Total(U) /\ 3 * Total(T) >= 2 * Total(U)
  BY DEF Polka, Quorum
<1> HIDE DEF S, T, U
<1>3. S \subseteq Validators /\ T \subseteq Validators
  BY <1>1
<1>4. Total(S) \in Nat /\ Total(T) \in Nat /\ Total(U) \in Nat
  BY <1>1, <1>3, TotalFacts
<1>5. Total(S) + Total(T) <= Total(U)
  BY <1>1, TotalDisjoint
<1> QED
  BY <1>2, <1>4, <1>5

\* One more prevote takes nothing from a quorum.
LEMMA PolkaGrows ==
    ASSUME Staked, NEW votes \in [Validators -> Votes \cup {NoHash}], NEW v \in Validators,
           votes[v] = NoHash, NEW z, NEW x \in Polka(votes)
    PROVE  x \in Polka([votes EXCEPT ![v] = z])
<1> DEFINE new == [votes EXCEPT ![v] = z]
           U == ActiveValidators
           S == {w \in Validators : votes[w] = x} \cap U
           T == {w \in Validators : new[w] = x} \cap U
<1>1. x \in Votes /\ x # NoHash
  BY BFTAssumption DEF Polka, Votes, BFTAssumption, NoHash, Nil
<1>2. U \subseteq Validators /\ T \subseteq Validators /\ S \subseteq T
  BY <1>1 DEF ActiveValidators
<1>3. Total(U) > 0 /\ 3 * Total(S) >= 2 * Total(U)
  BY DEF Polka, Quorum
<1>4. (3 * Total(T) >= 2 * Total(U)) => x \in Polka(new)
  BY <1>1, <1>3 DEF Polka, Quorum
<1> HIDE DEF S, T, U, new
<1>5. Total(S) \in Nat /\ Total(T) \in Nat /\ Total(U) \in Nat
  BY <1>2, TotalFacts
<1>6. Total(S) <= Total(T)
  BY <1>2, TotalGrows
<1>7. 3 * Total(T) >= 2 * Total(U)
  BY <1>3, <1>5, <1>6
<1> QED
  BY <1>4, <1>7 DEF new

\* A quorum has a vote.
LEMMA QuorumVotes ==
    ASSUME Staked, NEW votes, NEW x, HasQuorum(votes, x)
    PROVE  \E v \in Validators : votes[v] = x
<1> SUFFICES ASSUME \A v \in Validators : votes[v] # x PROVE FALSE
  OBVIOUS
<1>1. {v \in Validators : votes[v] = x} \cap ActiveValidators = {}
  OBVIOUS
<1>2. ActiveValidators # {} /\ ActiveValidators \subseteq Validators
  BY DEF HasQuorum, ActiveValidators
<1>3. Total({}) = 0 /\ Total(ActiveValidators) > 0 /\ Total(ActiveValidators) \in Nat
  BY <1>2, TotalFacts
<1>4. 3 * Total({}) >= 2 * Total(ActiveValidators)
  BY <1>1 DEF HasQuorum, Quorum
<1> QED
  BY <1>3, <1>4

\* The proposer of a round is an active validator: the order is total, so the
\* ranks of n validators are 0 to n - 1.
LEMMA ProposerActive ==
    ASSUME Staked, ActiveValidators # {}, NEW r \in Nat
    PROVE  ProposerForRound(r) \in ActiveValidators
<1> DEFINE U == ActiveValidators
           n == Cardinality(U)
           B(v) == {w \in U : Before(w, v)}
           f == [v \in U |-> Cardinality(B(v))]
<1>1. U \subseteq Validators /\ IsFiniteSet(U) /\ n \in Nat /\ n > 0
  <2>1. U \subseteq Validators
    BY DEF ActiveValidators
  <2>2. IsFiniteSet(U)
    BY <2>1, TotalFacts
  <2>3. n \in Nat /\ n # 0
    BY <2>2, FS_CardinalityType, FS_EmptySet
  <2> QED
    BY <2>1, <2>2, <2>3
<1>2. \A v \in U : v \in Nat /\ stake[v] \in Nat
  BY <1>1, BFTAssumption DEF BFTAssumption, Staked
<1>3. /\ \A v \in U : ~Before(v, v)
      /\ \A v, w \in U : v # w => Before(v, w) \/ Before(w, v)
      /\ \A u, v, w \in U : Before(u, v) /\ Before(v, w) => Before(u, w)
  BY <1>2 DEF Before
<1>4. ASSUME NEW v \in U
      PROVE  IsFiniteSet(B(v)) /\ Cardinality(B(v)) \in Nat /\ Cardinality(B(v)) \in 0..n - 1
  <2>1. B(v) \subseteq U /\ B(v) # U
    BY <1>3
  <2>2. IsFiniteSet(B(v)) /\ Cardinality(B(v)) <= n /\ Cardinality(B(v)) # n /\ Cardinality(B(v)) \in Nat
    BY <1>1, <2>1, FS_Subset, FS_CardinalityType
  <2> QED
    BY <1>1, <2>2
<1>5. ASSUME NEW v \in U, NEW w \in U, Before(v, w) PROVE f[v] < f[w]
  <2>1. B(v) \subseteq B(w) /\ v \in B(w) /\ v \notin B(v)
    BY <1>3, <1>5
  <2>2. Cardinality(B(v)) <= Cardinality(B(w)) /\ Cardinality(B(v)) # Cardinality(B(w))
    BY <1>4, <2>1, FS_Subset
  <2>3. Cardinality(B(v)) \in Nat /\ Cardinality(B(w)) \in Nat
    BY <1>4
  <2> QED
    BY <2>2, <2>3
<1>6. f \in [U -> 0..n - 1] /\ \A v \in U : f[v] \in Nat
  BY <1>1, <1>4
<1>7. \A v, w \in U : f[v] = f[w] => v = w
  <2> HIDE DEF f
  <2> QED
    BY <1>3, <1>5, <1>6
<1> HIDE DEF f
<1>8. f \in Injection(U, 0..n - 1)
  BY <1>6, <1>7 DEF Injection, IsInjective
<1>9. IsFiniteSet(0..n - 1) /\ Cardinality(0..n - 1) = n
  BY <1>1, FS_Interval
<1>10. f \in Surjection(U, 0..n - 1)
  BY <1>8, <1>9, FS_Injection
<1>11. r % n \in 0..n - 1
  BY <1>1
<1>12. \E v \in U : f[v] = r % n
  BY <1>10, <1>11 DEF Surjection
<1>13. \E v \in U : Cardinality({w \in U : Before(w, v)}) = r % n
  BY <1>12 DEF f
<1> QED
  BY <1>13 DEF ProposerForRound

\* A slash leaves stake.
LEMMA SlashLeaves == \A s \in Nat \ {0} : Slashed(s) \in Nat \ {0}
<1> SUFFICES ASSUME NEW s \in Nat \ {0} PROVE Slashed(s) \in Nat \ {0}
  OBVIOUS
<1>1. SlashNum \in Nat /\ SlashDen \in Nat \ {0} /\ SlashNum < SlashDen
  BY BFTAssumption DEF BFTAssumption
<1> DEFINE n == s * SlashNum
           q == n \div SlashDen
<1>2. n \in Nat /\ n < s * SlashDen /\ s * SlashDen \in Nat
  BY <1>1
<1> HIDE DEF n
<1>3. q \in Nat /\ SlashDen * q <= n
  BY <1>1, <1>2
<1> HIDE DEF q
<1>4. q < s
  <2> SUFFICES ASSUME q >= s PROVE FALSE
    BY <1>3
  <2>1. SlashDen * q >= SlashDen * s
    BY <1>1, <1>3
  <2>2. SlashDen * s = s * SlashDen
    BY <1>1
  <2>3. SlashDen * q \in Nat /\ SlashDen * s \in Nat
    BY <1>1, <1>3
  <2> QED
    BY <1>2, <1>3, <2>1, <2>2, <2>3
<1>5. Slashed(s) = s - q
  BY DEF Slashed, q, n
<1> QED
  BY <1>3, <1>4, <1>5

----------------------------------------------------------------------------
(* Evidence.                                                               *)

\* Evidence names two values, the smaller first.
Sorted(e) ==
    \E v \in Validators, h \in Heights, r \in 0..MaxRound, x, y \in Hashes :
        x < y /\ e = [validator |-> v, height |-> h, round |-> r, hashes |-> <<x, y>>]

\* What SlashedOncePerPair counts.
PairOf(e) == <<e.height, e.round, Range(e.hashes)>>
PairsOf(v, R) == {PairOf(e) : e \in {f \in R : f.validator = v}}

EvidenceInv ==
    /\ IsFiniteSet(records) /\ (\A e \in records : Sorted(e))
    /\ slashes \in [Validators -> Nat]
    /\ \A v \in Validators : slashes[v] <= Cardinality(PairsOf(v, records))

\* The pair of values tells records of a validator apart.
LEMMA PairTells ==
    ASSUME NEW e, Sorted(e), NEW f, Sorted(f), e.validator = f.validator, PairOf(e) = PairOf(f)
    PROVE  e = f
<1>1. PICK v \in Validators, h \in Heights, r \in 0..MaxRound, x \in Hashes, y \in Hashes :
          x < y /\ e = [validator |-> v, height |-> h, round |-> r, hashes |-> <<x, y>>]
  BY DEF Sorted
<1>2. PICK w \in Validators, k \in Heights, q \in 0..MaxRound, a \in Hashes, b \in Hashes :
          a < b /\ f = [validator |-> w, height |-> k, round |-> q, hashes |-> <<a, b>>]
  BY DEF Sorted
<1>3. Range(<<x, y>>) = {x, y} /\ Range(<<a, b>>) = {a, b}
  BY DEF Range
<1>4. v = w /\ h = k /\ r = q /\ {x, y} = {a, b}
  BY <1>1, <1>2, <1>3 DEF PairOf
<1>5. x \in Nat /\ y \in Nat /\ a \in Nat /\ b \in Nat
  BY BFTAssumption DEF BFTAssumption
<1>6. x = a /\ y = b
  BY <1>1, <1>2, <1>4, <1>5
<1> QED
  BY <1>1, <1>2, <1>4, <1>6

\* The pairs of a finite set of records.
LEMMA PairsFinite ==
    ASSUME NEW v, NEW R, IsFiniteSet(R)
    PROVE  IsFiniteSet(PairsOf(v, R)) /\ Cardinality(PairsOf(v, R)) \in Nat
<1> DEFINE S == {e \in R : e.validator = v}
           f == [e \in S |-> PairOf(e)]
<1>1. IsFiniteSet(S)
  BY FS_Subset
<1>2. f \in [S -> PairsOf(v, R)] /\ \A p \in PairsOf(v, R) : \E e \in S : f[e] = p
  BY DEF PairsOf
<1> HIDE DEF f, S
<1>3. f \in Surjection(S, PairsOf(v, R))
  BY <1>2 DEF Surjection
<1>4. IsFiniteSet(PairsOf(v, R))
  BY <1>1, <1>3, FS_Surjection
<1> QED
  BY <1>4, FS_CardinalityType

\* Process: one record more, one slash more.
LEMMA ProcessCounts ==
    ASSUME EvidenceInv, NEW v \in Validators, NEW h \in Heights, NEW r \in 0..MaxRound,
           NEW x \in Hashes, NEW y \in Hashes, x # y, Process(v, h, r, x, y)
    PROVE  EvidenceInv'
<1> DEFINE e == EvidenceID(v, h, r, x, y)
<1>1. CASE e \in records
  BY <1>1 DEF Process, setVars, EvidenceInv
<1>2. CASE e \notin records
  <2>1. records' = records \cup {e} /\ slashes' = [slashes EXCEPT ![v] = @ + 1]
    BY <1>2 DEF Process, Slash
  <2>2. Sorted(e) /\ e.validator = v
    <3>1. x \in Nat /\ y \in Nat
      BY BFTAssumption DEF BFTAssumption
    <3>2. x < y \/ y < x
      BY <3>1
    <3>3. CASE x < y
      BY <3>3 DEF EvidenceID, Sorted
    <3>4. CASE y < x
      <4>1. e = [validator |-> v, height |-> h, round |-> r, hashes |-> <<y, x>>]
        BY <3>1, <3>4 DEF EvidenceID
      <4> QED
        BY <3>4, <4>1 DEF Sorted
    <3> QED
      BY <3>2, <3>3, <3>4
  <2> HIDE DEF e
  <2>3. IsFiniteSet(records) /\ IsFiniteSet(records')
    BY <2>1, FS_AddElement DEF EvidenceInv
  <2>4. ASSUME NEW w \in Validators, w # v PROVE PairsOf(w, records') = PairsOf(w, records)
    BY <2>1, <2>2, <2>4 DEF PairsOf
  <2>5. PairsOf(v, records') = PairsOf(v, records) \cup {PairOf(e)}
    BY <2>1, <2>2 DEF PairsOf
  <2>6. PairOf(e) \notin PairsOf(v, records)
    <3> SUFFICES ASSUME NEW f \in records, f.validator = v, PairOf(f) = PairOf(e) PROVE FALSE
      BY DEF PairsOf
    <3>1. Sorted(f)
      BY DEF EvidenceInv
    <3>2. f = e
      BY <2>2, <3>1, PairTells
    <3> QED
      BY <1>2, <3>2 DEF e
  <2>7. Cardinality(PairsOf(v, records')) = Cardinality(PairsOf(v, records)) + 1
    BY <2>3, <2>5, <2>6, PairsFinite, FS_AddElement
  <2>8. \A w \in Validators : Cardinality(PairsOf(w, records)) \in Nat
    BY <2>3, PairsFinite
  <2>9. /\ slashes' \in [Validators -> Nat] /\ slashes'[v] = slashes[v] + 1 /\ slashes[v] \in Nat
        /\ \A w \in Validators : w # v => slashes'[w] = slashes[w]
    BY <2>1 DEF EvidenceInv
  <2>10. \A w \in Validators : slashes'[w] <= Cardinality(PairsOf(w, records'))
    <3> SUFFICES ASSUME NEW w \in Validators PROVE slashes'[w] <= Cardinality(PairsOf(w, records'))
      OBVIOUS
    <3>1. slashes[w] <= Cardinality(PairsOf(w, records))
      BY DEF EvidenceInv
    <3>2. CASE w = v
      BY <2>7, <2>8, <2>9, <3>1, <3>2
    <3>3. CASE w # v
      BY <2>4, <2>9, <3>1, <3>3
    <3> QED
      BY <3>2, <3>3
  <2>11. \A f \in records' : Sorted(f)
    BY <2>1, <2>2 DEF EvidenceInv
  <2> QED
    BY <2>3, <2>9, <2>10, <2>11 DEF EvidenceInv
<1> QED
  BY <1>1, <1>2

LEMMA EvidenceInit == Init => EvidenceInv
<1> SUFFICES ASSUME Init PROVE EvidenceInv
  OBVIOUS
<1>1. records = {} /\ slashes = [v \in Validators |-> 0] /\ IsFiniteSet({})
  BY FS_EmptySet DEF Init
<1>2. \A v \in Validators : PairsOf(v, records) = {}
  BY <1>1 DEF PairsOf
<1>3. Cardinality({}) = 0
  BY FS_EmptySet
<1> QED
  BY <1>1, <1>2, <1>3 DEF EvidenceInv

LEMMA EvidenceNext == EvidenceInv /\ EngineInv /\ [Next]_vars => EvidenceInv'
<1> SUFFICES ASSUME EvidenceInv, EngineInv, [Next]_vars PROVE EvidenceInv'
  OBVIOUS
<1>1. UNCHANGED <<records, slashes>> => EvidenceInv'
  BY DEF EvidenceInv
<1>2. ASSUME NEW h \in Heights, NEW v \in Validators, NEW r \in 0..MaxRound, NEW x \in Hashes,
             ReceivePropose(h, r, v, x)
      PROVE  EvidenceInv'
  <2>1. CASE UNCHANGED setVars
    BY <1>1, <2>1 DEF setVars
  <2>2. CASE Equivocates(h, r, v, x) /\ Process(v, h, r, rounds[h].hash, x)
    <3>1. rounds[h].hash \in Hashes /\ rounds[h].hash # x
      BY <2>2 DEF EngineInv, EngineOK, Valued, Equivocates
    <3> QED
      BY <2>2, <3>1, ProcessCounts
  <2> QED
    BY <1>2, <2>1, <2>2 DEF ReceivePropose
<1>3. ASSUME NEW h \in Heights, NEW v \in Validators, NEW x \in Votes,
             ReceivePrevote(h, v, x) \/ ReceivePrecommit(h, v, x)
      PROVE  EvidenceInv'
  BY <1>1, <1>3 DEF ReceivePrevote, ReceivePrecommit, setVars
<1>4. ASSUME NEW h \in Heights, NEW v \in Validators, NEW r \in 0..MaxRound, NEW x \in Hashes, NEW y \in Hashes,
             ReceiveEvidence(v, h, r, x, y)
      PROVE  EvidenceInv'
  BY <1>4, ProcessCounts DEF ReceiveEvidence
<1>5. CASE Gossip
  BY <1>2, <1>3, <1>4, <1>5 DEF Gossip
<1>6. CASE CheckCommitted \/ Drive \/ (\E h \in Heights, x \in Own : Seal(h, x))
  BY <1>1, <1>6 DEF CheckCommitted, Seal, Drive, PublishNothing, Prune, ChooseProposer, DrivePropose,
     DrivePrevote, BuildLockProof, DrivePrecommit, DriveNotify, DriveFinish, setVars
<1>7. CASE (\E v \in Validators : JailElapses(v)) \/ SyncStakes
  BY <1>1, <1>7 DEF JailElapses, SyncStakes
<1>8. CASE UNCHANGED vars
  BY <1>1, <1>8 DEF vars
<1> QED
  BY <1>5, <1>6, <1>7, <1>8 DEF Next

\* The inductive invariant of the engine.
THEOREM EngineCorrect == Spec => []EngineInv
<1>1. EngineInv /\ [Next]_vars => EngineInv'
  BY EngineStep DEF StepOK
<1> QED
  BY <1>1, InitEngine, PTL DEF Spec

\* A pair of conflicting proposals costs its proposer one slash
\* (EvidenceManager.Process), for any number of validators, heights, rounds and
\* reports in any order.
THEOREM SlashCorrect == Spec => []SlashedOncePerPair
<1>1. EvidenceInv => SlashedOncePerPair
  BY DEF EvidenceInv, SlashedOncePerPair, PairsOf, PairOf
<1>2. Spec => []EvidenceInv
  BY EvidenceInit, EvidenceNext, EngineCorrect, PTL DEF Spec
<1> QED
  BY <1>1, <1>2, PTL

----------------------------------------------------------------------------
(* Rounds and locks.                                                       *)

\* Polka, for given stakes and states of the validators.
PolkaBy(sk, ss, votes) ==
    LET act == {v \in Validators : ss[v] \in {"active", "elapsed"}}
        total(S) == SumFunctionOnSet(sk, S)
    IN  {x \in Votes : /\ total(act) > 0
                       /\ 3 * total({v \in Validators : votes[v] = x} \cap act) >= 2 * total(act)}

LEMMA PolkaIs == \A votes : Polka(votes) = PolkaBy(stake, status, votes)
  BY DEF Polka, PolkaBy, Quorum, Total, ActiveValidators

\* While the validator set does not move, the lock of a round is its one value
\* with two thirds of the prevotes, and precommits are for it or for nil; there
\* are none before the lock.
LockOK(cr, sk, ss) ==
    /\ cr.polka /\ ~cr.moved =>
          /\ PolkaBy(sk, ss, cr.prevotes) = {cr.locked}
          /\ \A v \in Validators : cr.commits[v] \in {NoHash, Nil, cr.locked}
    /\ ~cr.polka => \A v \in Validators : cr.commits[v] = NoHash

RoundsOK ==
    /\ rounds \in [Heights -> Rounds \cup {NoRound}] /\ committed \in [Heights -> Commits \cup {NoRound}]
    /\ nextRound \in [Heights -> 0..MaxRound + 1] /\ carry \in [Heights -> Votes \cup {NoHash}]
    /\ \A h \in Heights : rounds[h] # NoRound => LockOK(rounds[h], stake, status)
    /\ CommittedIsLocked

SetOK ==
    /\ Staked /\ status \in [Validators -> Status]
    /\ slashes \in [Validators -> Nat] /\ moves \in 0..MaxMoves

\* The heights with a round that the node drives.
OwnOf(rs) == {h \in Heights : rs[h] # NoRound /\ rs[h].own}

\* The constants and values.
LEMMA Values ==
    /\ MaxRound \in Nat /\ MaxMoves \in Nat /\ Hashes \subseteq Votes /\ Nil \in Votes
    /\ NoHash \notin Votes /\ Nil \notin Hashes
    /\ \A r \in Rounds : r # NoRound
  BY BFTAssumption DEF BFTAssumption, Votes, NoHash, Nil, Rounds, NoRound

\* A round's fields.
LEMMA RoundFields ==
    ASSUME NEW r \in Rounds
    PROVE  /\ r.round \in 0..MaxRound /\ r.proposer \in Validators /\ r.hash \in Hashes
           /\ r.polka \in BOOLEAN /\ r.locked \in Votes \cup {NoHash}
           /\ r.prevotes \in [Validators -> Votes \cup {NoHash}]
           /\ r.commits \in [Validators -> Votes \cup {NoHash}]
           /\ r.own \in BOOLEAN /\ r.moved \in BOOLEAN
  BY DEF Rounds

\* One round is replaced while the validators stay.
LEMMA RoundChange ==
    ASSUME RoundsOK, NEW h \in Heights, NEW r \in Rounds \cup {NoRound}, UNCHANGED <<stake, status>>,
           rounds' = [rounds EXCEPT ![h] = r], r # NoRound => LockOK(r, stake, status),
           committed' \in [Heights -> Commits \cup {NoRound}],
           nextRound' \in [Heights -> 0..MaxRound + 1], carry' \in [Heights -> Votes \cup {NoHash}],
           CommittedIsLocked'
    PROVE  /\ RoundsOK' /\ rounds'[h] = r
           /\ \A k \in Heights : k # h => rounds'[k] = rounds[k]
<1>1. /\ rounds' \in [Heights -> Rounds \cup {NoRound}] /\ rounds'[h] = r
      /\ \A k \in Heights : k # h => rounds'[k] = rounds[k]
  BY DEF RoundsOK
<1>2. \A k \in Heights : rounds'[k] # NoRound => LockOK(rounds'[k], stake', status')
  BY <1>1 DEF RoundsOK
<1> QED
  BY <1>1, <1>2 DEF RoundsOK

\* The validator set moves: every open round is marked.
LEMMA MoveRounds ==
    ASSUME RoundsOK, Move
    PROVE  RoundsOK' /\ moves' = moves + 1 /\ moves < MaxMoves /\ OwnOf(rounds') = OwnOf(rounds)
<1>1. /\ UNCHANGED <<committed, nextRound, carry>> /\ moves' = moves + 1 /\ moves < MaxMoves
      /\ rounds' = [h \in Heights |-> IF rounds[h] = NoRound THEN NoRound
                                      ELSE [rounds[h] EXCEPT !.moved = TRUE]]
  BY DEF Move
<1>2. ASSUME NEW h \in Heights
      PROVE  /\ rounds[h] = NoRound => rounds'[h] = NoRound
             /\ rounds[h] # NoRound => /\ rounds'[h] \in Rounds /\ rounds'[h] # NoRound
                                       /\ rounds'[h].own = rounds[h].own /\ LockOK(rounds'[h], stake', status')
  <2>1. CASE rounds[h] = NoRound
    BY <1>1, <2>1
  <2>2. CASE rounds[h] # NoRound
    <3> DEFINE r == rounds[h]
               n == [r EXCEPT !.moved = TRUE]
    <3>1. r \in Rounds /\ LockOK(r, stake, status) /\ rounds'[h] = n
      BY <1>1, <2>2 DEF RoundsOK
    <3> HIDE DEF r
    <3>2. n \in Rounds /\ n.own = r.own /\ n.polka = r.polka /\ n.commits = r.commits /\ n.moved = TRUE
      BY <3>1 DEF Rounds
    <3> HIDE DEF n
    <3>3. LockOK(n, stake', status')
      BY <3>1, <3>2 DEF LockOK
    <3> QED
      BY <2>2, <3>1, <3>2, <3>3, Values DEF r
  <2> QED
    BY <2>1, <2>2
<1>3. rounds' \in [Heights -> Rounds \cup {NoRound}]
  BY <1>1, <1>2
<1>4. CommittedIsLocked'
  BY <1>1 DEF RoundsOK, CommittedIsLocked
<1>5. OwnOf(rounds') = OwnOf(rounds)
  BY <1>2 DEF OwnOf
<1> QED
  BY <1>1, <1>2, <1>3, <1>4, <1>5 DEF RoundsOK

\* A round is opened.
LEMMA OpenRounds ==
    ASSUME RoundsOK, SetOK, NEW h \in Heights, NEW r \in 0..MaxRound, NEW p, NEW x \in Hashes,
           NEW own \in BOOLEAN, Proposable(h, r, p), UNCHANGED <<stake, status, committed, nextRound, carry>>,
           rounds' = [rounds EXCEPT ![h] = Opened(h, r, p, x, own)]
    PROVE  /\ RoundsOK'
           /\ OwnOf(rounds') \subseteq OwnOf(rounds) \cup (IF own THEN {h} ELSE {})
<1> DEFINE o == Opened(h, r, p, x, own)
<1>1. p \in Validators
  <2>1. r \in Nat
    BY Values
  <2>2. p \in ActiveValidators
    BY <2>1, ProposerActive DEF Proposable, SetOK
  <2> QED
    BY <2>2 DEF ActiveValidators
<1>2. carry[h] \in Votes \cup {NoHash}
  BY DEF RoundsOK
<1>3. /\ o \in Rounds /\ ~o.polka /\ o.own = own
      /\ \A v \in Validators : o.commits[v] = NoHash
  BY <1>1, <1>2 DEF Opened, Rounds
<1> HIDE DEF o
<1>4. LockOK(o, stake, status)
  BY <1>3 DEF LockOK
<1>5. CommittedIsLocked'
  BY DEF RoundsOK, CommittedIsLocked
<1>6. /\ committed' \in [Heights -> Commits \cup {NoRound}]
      /\ nextRound' \in [Heights -> 0..MaxRound + 1] /\ carry' \in [Heights -> Votes \cup {NoHash}]
  BY DEF RoundsOK
<1>7. rounds' = [rounds EXCEPT ![h] = o]
  BY DEF o
<1>8. RoundsOK' /\ rounds'[h] = o /\ \A k \in Heights : k # h => rounds'[k] = rounds[k]
  BY <1>3, <1>4, <1>5, <1>6, <1>7, RoundChange
<1>9. OwnOf(rounds') \subseteq OwnOf(rounds) \cup (IF own THEN {h} ELSE {})
  BY <1>3, <1>8 DEF OwnOf
<1> QED
  BY <1>8, <1>9

\* A prevote: the first polka locks the round, later ones find the same value.
LEMMA PreVoteRounds ==
    ASSUME RoundsOK, SetOK, NEW h \in Heights, NEW v \in Validators, NEW x \in Votes,
           CanPreVote(h, v), PreVote(h, v, x), UNCHANGED <<stake, status>>
    PROVE  RoundsOK' /\ OwnOf(rounds') = OwnOf(rounds)
<1> DEFINE r == rounds[h]
           votes == [r.prevotes EXCEPT ![v] = x]
           polka == Polka(votes)
           cr == [r EXCEPT !.prevotes = votes]
           lk == CHOOSE y \in polka : TRUE
           n == IF polka = {} THEN cr ELSE [cr EXCEPT !.polka = TRUE, !.locked = lk]
<1>1. /\ rounds' = [rounds EXCEPT ![h] = n]
      /\ carry' = IF polka = {Nil} THEN [carry EXCEPT ![h] = NoHash] ELSE carry
      /\ UNCHANGED <<committed, nextRound>>
  BY DEF PreVote
<1>2. r \in Rounds /\ r.prevotes[v] = NoHash /\ LockOK(r, stake, status)
  BY DEF RoundsOK, CanPreVote
<1>3. r.prevotes \in [Validators -> Votes \cup {NoHash}] /\ votes \in [Validators -> Votes \cup {NoHash}]
  BY <1>2, RoundFields
<1>4. polka # {} => lk \in polka /\ lk \in Votes
  BY DEF Polka
<1>5. \A y, z \in polka : y = z
  BY OnePolka DEF SetOK
<1>6. polka = PolkaBy(stake, status, votes) /\ Polka(r.prevotes) = PolkaBy(stake, status, r.prevotes)
  BY PolkaIs
<1>7. \A y \in Polka(r.prevotes) : y \in polka
  BY <1>2, <1>3, PolkaGrows DEF SetOK
<1> HIDE DEF r, polka, votes, lk
<1>8. /\ cr \in Rounds /\ cr.own = r.own /\ cr.prevotes = votes /\ cr.polka = r.polka /\ cr.locked = r.locked
      /\ cr.commits = r.commits /\ cr.moved = r.moved
  BY <1>2, <1>3 DEF Rounds
<1>9. /\ n \in Rounds /\ n.own = r.own /\ n.prevotes = votes /\ n.commits = r.commits /\ n.moved = r.moved
      /\ IF polka = {} THEN n.polka = r.polka /\ n.locked = r.locked ELSE n.polka = TRUE /\ n.locked = lk
  <2>1. CASE polka = {}
    BY <1>8, <2>1
  <2>2. CASE polka # {}
    <3> HIDE DEF cr
    <3>1. n = [cr EXCEPT !.polka = TRUE, !.locked = lk]
      BY <2>2
    <3> HIDE DEF n
    <3> QED
      BY <1>4, <1>8, <2>2, <3>1 DEF Rounds
  <2> QED
    BY <2>1, <2>2
<1> HIDE DEF n, cr
<1>10. LockOK(n, stake, status)
  <2>1. CASE polka = {}
    <3>1. r.polka /\ ~r.moved => FALSE
      BY <1>2, <1>6, <1>7, <2>1 DEF LockOK
    <3> QED
      BY <1>2, <1>9, <2>1, <3>1 DEF LockOK
  <2>2. CASE polka # {}
    <3>1. polka = {lk}
      BY <1>4, <1>5, <2>2
    <3>2. r.polka /\ ~r.moved => r.locked = lk
      BY <1>2, <1>6, <1>7, <3>1 DEF LockOK
    <3>3. ~r.moved => \A w \in Validators : r.commits[w] \in {NoHash, Nil, lk}
      BY <1>2, <3>2, RoundFields DEF LockOK
    <3> QED
      BY <1>6, <1>9, <2>2, <3>1, <3>3 DEF LockOK
  <2> QED
    BY <2>1, <2>2
<1>11. CommittedIsLocked'
  BY <1>1 DEF RoundsOK, CommittedIsLocked
<1>12. /\ committed' \in [Heights -> Commits \cup {NoRound}]
       /\ nextRound' \in [Heights -> 0..MaxRound + 1] /\ carry' \in [Heights -> Votes \cup {NoHash}]
  BY <1>1 DEF RoundsOK
<1>13. RoundsOK' /\ rounds'[h] = n /\ \A k \in Heights : k # h => rounds'[k] = rounds[k]
  BY <1>1, <1>9, <1>10, <1>11, <1>12, RoundChange
<1>14. r # NoRound /\ n # NoRound
  BY <1>2, <1>9, Values
<1>15. OwnOf(rounds') = OwnOf(rounds)
  BY <1>9, <1>13, <1>14 DEF OwnOf, r
<1> QED
  BY <1>13, <1>15

\* A precommit, and the commit it may bring.
LEMMA PreCommitRounds ==
    ASSUME RoundsOK, SetOK, NEW h \in Heights, NEW v \in Validators, NEW x \in Votes,
           CanPreCommit(h, v, x), PreCommit(h, v, x), UNCHANGED <<stake, status>>
    PROVE  RoundsOK' /\ OwnOf(rounds') \subseteq OwnOf(rounds)
<1> DEFINE r == rounds[h]
           n == [r EXCEPT !.commits[v] = x]
           c == [hash |-> n.hash, locked |-> n.locked, moved |-> n.moved]
<1>1. r \in Rounds /\ r # NoRound /\ r.polka /\ LockOK(r, stake, status) /\ AgreesWithLock(r, x)
  BY DEF RoundsOK, CanPreCommit
<1>2. IF HasQuorum(n.commits, n.hash)
      THEN /\ committed' = [committed EXCEPT ![h] = c] /\ rounds' = [rounds EXCEPT ![h] = NoRound]
           /\ nextRound' = [nextRound EXCEPT ![h] = 0] /\ carry' = [carry EXCEPT ![h] = NoHash]
      ELSE rounds' = [rounds EXCEPT ![h] = n] /\ UNCHANGED <<committed, nextRound, carry>>
  BY DEF PreCommit
<1> HIDE DEF r
<1>3. /\ n \in Rounds /\ n.own = r.own /\ n.hash = r.hash /\ n.locked = r.locked /\ n.moved = r.moved
      /\ n.polka = r.polka /\ n.prevotes = r.prevotes /\ n.commits = [r.commits EXCEPT ![v] = x]
  BY <1>1 DEF Rounds
<1>4. r.commits \in [Validators -> Votes \cup {NoHash}] /\ r.hash \in Hashes /\ r.moved \in BOOLEAN
  BY <1>1, RoundFields
<1> HIDE DEF n
<1>5. ~r.moved => /\ r.locked \in Votes /\ r.locked # NoHash
                  /\ \A w \in Validators : n.commits[w] \in {NoHash, Nil, r.locked}
  <2> SUFFICES ASSUME ~r.moved
               PROVE  /\ r.locked \in Votes /\ r.locked # NoHash
                      /\ \A w \in Validators : n.commits[w] \in {NoHash, Nil, r.locked}
    OBVIOUS
  <2>1. PolkaBy(stake, status, r.prevotes) = {r.locked} /\ \A w \in Validators : r.commits[w] \in {NoHash, Nil, r.locked}
    BY <1>1 DEF LockOK
  <2>2. r.locked \in Votes
    BY <2>1 DEF PolkaBy
  <2>3. r.locked # NoHash
    BY <2>2, Values
  <2>4. x \in {Nil, r.locked}
    BY <1>1, <2>3 DEF AgreesWithLock
  <2> QED
    BY <1>3, <1>4, <2>1, <2>2, <2>3, <2>4
<1>6. LockOK(n, stake, status)
  BY <1>1, <1>3, <1>5 DEF LockOK
<1>7. CASE ~HasQuorum(n.commits, n.hash)
  <2>1. CommittedIsLocked'
    BY <1>2, <1>7 DEF RoundsOK, CommittedIsLocked
  <2>2. /\ committed' \in [Heights -> Commits \cup {NoRound}]
        /\ nextRound' \in [Heights -> 0..MaxRound + 1] /\ carry' \in [Heights -> Votes \cup {NoHash}]
    BY <1>2, <1>7 DEF RoundsOK
  <2>3. rounds' = [rounds EXCEPT ![h] = n]
    BY <1>2, <1>7
  <2>4. RoundsOK' /\ rounds'[h] = n /\ \A k \in Heights : k # h => rounds'[k] = rounds[k]
    BY <1>3, <1>6, <2>1, <2>2, <2>3, RoundChange
  <2>5. OwnOf(rounds') \subseteq OwnOf(rounds)
    BY <1>1, <1>3, <2>4 DEF OwnOf, r
  <2> QED
    BY <2>4, <2>5
<1>8. CASE HasQuorum(n.commits, n.hash)
  <2>1. c \in Commits /\ c.hash = r.hash /\ c.locked = r.locked /\ c.moved = r.moved
    BY <1>1, <1>3, <1>4, RoundFields DEF Commits
  <2> HIDE DEF c
  <2>2. ~r.moved => r.locked = r.hash
    <3> SUFFICES ASSUME ~r.moved PROVE r.locked = r.hash
      OBVIOUS
    <3>1. PICK w \in Validators : n.commits[w] = n.hash
      BY <1>8, QuorumVotes DEF SetOK
    <3>2. n.commits[w] \in {NoHash, Nil, r.locked}
      BY <1>5
    <3>3. r.hash # NoHash /\ r.hash # Nil
      BY <1>4, Values
    <3> QED
      BY <1>3, <3>1, <3>2, <3>3
  <2>3. /\ committed' \in [Heights -> Commits \cup {NoRound}] /\ committed'[h] = c
        /\ \A k \in Heights : k # h => committed'[k] = committed[k]
    BY <1>2, <1>8, <2>1 DEF RoundsOK
  <2>4. CommittedIsLocked'
    BY <2>1, <2>2, <2>3 DEF RoundsOK, CommittedIsLocked
  <2>5. nextRound' \in [Heights -> 0..MaxRound + 1] /\ carry' \in [Heights -> Votes \cup {NoHash}]
    BY <1>2, <1>8, Values DEF RoundsOK
  <2>6. rounds' = [rounds EXCEPT ![h] = NoRound]
    BY <1>2, <1>8
  <2>7. RoundsOK' /\ rounds'[h] = NoRound /\ \A k \in Heights : k # h => rounds'[k] = rounds[k]
    BY <2>3, <2>4, <2>5, <2>6, RoundChange
  <2>8. OwnOf(rounds') \subseteq OwnOf(rounds)
    BY <2>7 DEF OwnOf
  <2> QED
    BY <2>7, <2>8
<1> QED
  BY <1>7, <1>8

\* A round is given up.
LEMMA FailRounds ==
    ASSUME RoundsOK, NEW h \in Heights, FailRound(h), UNCHANGED <<stake, status>>
    PROVE  RoundsOK' /\ OwnOf(rounds') \subseteq OwnOf(rounds) \ {h}
<1>1. CASE rounds[h] = NoRound
  <2>1. UNCHANGED <<rounds, committed, nextRound, carry>>
    BY <1>1 DEF FailRound, roundVars
  <2>2. RoundsOK'
    BY <2>1 DEF RoundsOK, CommittedIsLocked
  <2> QED
    BY <1>1, <2>1, <2>2 DEF OwnOf
<1>2. CASE rounds[h] # NoRound
  <2>1. /\ rounds' = [rounds EXCEPT ![h] = NoRound] /\ committed' = committed
        /\ nextRound' = [nextRound EXCEPT ![h] = rounds[h].round + 1]
        /\ carry' = IF rounds[h].locked = NoHash THEN carry ELSE [carry EXCEPT ![h] = rounds[h].locked]
    BY <1>2 DEF FailRound
  <2>2. rounds[h].round \in 0..MaxRound /\ rounds[h].locked \in Votes \cup {NoHash}
    <3>1. rounds[h] \in Rounds
      BY <1>2 DEF RoundsOK
    <3> QED
      BY <3>1, RoundFields
  <2>3. rounds[h].round + 1 \in 0..MaxRound + 1
    BY <2>2, Values
  <2>4. nextRound' \in [Heights -> 0..MaxRound + 1] /\ carry' \in [Heights -> Votes \cup {NoHash}]
    BY <2>1, <2>2, <2>3 DEF RoundsOK
  <2>5. CommittedIsLocked' /\ committed' \in [Heights -> Commits \cup {NoRound}]
    BY <2>1 DEF RoundsOK, CommittedIsLocked
  <2>6. RoundsOK' /\ rounds'[h] = NoRound /\ \A k \in Heights : k # h => rounds'[k] = rounds[k]
    BY <2>1, <2>4, <2>5, RoundChange
  <2> QED
    BY <2>6 DEF OwnOf
<1> QED
  BY <1>1, <1>2

\* The node takes over a round that gossip opened.
LEMMA TakeRound ==
    ASSUME RoundsOK, NEW h \in Heights, rounds[h] # NoRound, rounds' = [rounds EXCEPT ![h].own = TRUE],
           UNCHANGED <<stake, status, committed, nextRound, carry>>
    PROVE  RoundsOK' /\ OwnOf(rounds') \subseteq OwnOf(rounds) \cup {h}
<1> DEFINE r == rounds[h]
           n == [r EXCEPT !.own = TRUE]
<1>1. r \in Rounds /\ LockOK(r, stake, status) /\ rounds' = [rounds EXCEPT ![h] = n]
  BY DEF RoundsOK
<1> HIDE DEF r
<1>2. /\ n \in Rounds /\ n.locked = r.locked /\ n.moved = r.moved
      /\ n.polka = r.polka /\ n.prevotes = r.prevotes /\ n.commits = r.commits
  BY <1>1 DEF Rounds
<1> HIDE DEF n
<1>3. LockOK(n, stake, status)
  BY <1>1, <1>2 DEF LockOK
<1>4. /\ CommittedIsLocked' /\ committed' \in [Heights -> Commits \cup {NoRound}]
      /\ nextRound' \in [Heights -> 0..MaxRound + 1] /\ carry' \in [Heights -> Votes \cup {NoHash}]
  BY DEF RoundsOK, CommittedIsLocked
<1>5. RoundsOK' /\ \A k \in Heights : k # h => rounds'[k] = rounds[k]
  BY <1>1, <1>2, <1>3, <1>4, RoundChange
<1> QED
  BY <1>5 DEF OwnOf

----------------------------------------------------------------------------
(* The node.                                                               *)

NodeOK ==
    /\ told \in [Heights -> Hashes \cup {NoHash}] /\ pending \subseteq Heights \X Hashes
    /\ sealed \in [Heights -> Hashes \cup {NoHash}]

\* What the sealing goroutine holds at each of its steps.
Driving ==
    [pc : {"choose", "prune"}, h : Heights, x : Hashes]
        \cup [pc : {"propose"}, h : Heights, x : Hashes, r : 0..MaxRound, p : Validators]
        \cup [pc : {"prevote", "precommit"}, h : Heights, x : Hashes, todo : SUBSET Validators]
        \cup [pc : {"finish"}, h : Heights]

\* A round that the node drives is that of the height it works on.
OwnRoundDriven ==
    \A h \in OwnOf(rounds) : drv.h = h /\ drv.pc \in {"prevote", "precommit", "finish"}

DriverOK == drv \in Driving \cup {Idle} /\ OwnRoundDriven

DriveInv == RoundsOK /\ SetOK /\ NodeOK /\ DriverOK

\* The steps, by the name of the step.
LEMMA DrivingFacts ==
    ASSUME drv \in Driving \cup {Idle}, drv.pc # "idle"
    PROVE  /\ drv \in Driving /\ drv.h \in Heights
           /\ drv.pc \in {"choose", "prune"} => drv \in [pc : {"choose", "prune"}, h : Heights, x : Hashes]
           /\ drv.pc = "propose" =>
                 drv \in [pc : {"propose"}, h : Heights, x : Hashes, r : 0..MaxRound, p : Validators]
           /\ drv.pc \in {"prevote", "precommit"} =>
                 drv \in [pc : {"prevote", "precommit"}, h : Heights, x : Hashes, todo : SUBSET Validators]
  BY DEF Driving, Idle

\* Between its loops the node has no round of its own.
LEMMA NoOwn ==
    ASSUME DriverOK, drv.pc \notin {"prevote", "precommit", "finish"}
    PROVE  OwnOf(rounds) = {}
  BY DEF DriverOK, OwnRoundDriven

\* The callback keeps the types.
LEMMA NotifyTypes ==
    ASSUME RoundsOK, NodeOK, NEW h \in Heights, Notify(h)
    PROVE  NodeOK'
<1>1. CASE UNCHANGED nodeVars
  BY <1>1 DEF nodeVars, NodeOK
<1>2. CASE ~(committed[h] = NoRound \/ told[h] # NoHash)
  <2> DEFINE x == committed[h].hash
  <2>1. x \in Hashes
    BY <1>2 DEF RoundsOK, Commits
  <2>2. /\ told' = [told EXCEPT ![h] = x]
        /\ sealed' = sealed \/ sealed' = [sealed EXCEPT ![h] = x]
        /\ pending' \subseteq pending
    BY <1>2 DEF Notify
  <2> HIDE DEF x
  <2> QED
    BY <2>1, <2>2 DEF NodeOK
<1> QED
  BY <1>1, <1>2 DEF Notify

\* Nothing of the engine changes.
LEMMA SameRounds ==
    ASSUME RoundsOK, SetOK, UNCHANGED <<roundVars, setVars>>
    PROVE  RoundsOK' /\ SetOK' /\ rounds' = rounds
<1>1. UNCHANGED <<rounds, committed, nextRound, carry, stake, status, slashes, moves>>
  BY DEF roundVars, setVars
<1>2. RoundsOK'
  BY <1>1 DEF RoundsOK, CommittedIsLocked
<1>3. SetOK'
  BY <1>1 DEF SetOK, Staked
<1> QED
  BY <1>1, <1>2, <1>3

LEMMA SameSet ==
    ASSUME SetOK, UNCHANGED setVars
    PROVE  SetOK' /\ UNCHANGED <<stake, status>>
  BY DEF setVars, SetOK, Staked

\* The driver stays, and the node gets no new round of its own.
LEMMA DriverSame ==
    ASSUME DriverOK, drv' = drv, OwnOf(rounds') \subseteq OwnOf(rounds)
    PROVE  DriverOK'
  BY DEF DriverOK, OwnRoundDriven

\* The driver is done or at a step between its loops.
LEMMA DriverDone ==
    ASSUME drv' \in Driving \cup {Idle}, OwnOf(rounds') = {}
    PROVE  DriverOK'
  BY DEF DriverOK, OwnRoundDriven

\* A slash.
LEMMA SlashSet ==
    ASSUME SetOK, RoundsOK, NEW v \in Validators, Slash(v), Move
    PROVE  SetOK' /\ RoundsOK' /\ OwnOf(rounds') = OwnOf(rounds)
<1>1. RoundsOK' /\ OwnOf(rounds') = OwnOf(rounds) /\ moves' = moves + 1 /\ moves < MaxMoves
  BY MoveRounds
<1>2. moves' \in 0..MaxMoves
  BY <1>1, Values DEF SetOK
<1>3. /\ stake' = [stake EXCEPT ![v] = Slashed(@)] /\ status' = [status EXCEPT ![v] = "jailed"]
      /\ slashes' = [slashes EXCEPT ![v] = @ + 1]
  BY DEF Slash
<1>4. Slashed(stake[v]) \in Nat \ {0}
  BY SlashLeaves DEF SetOK, Staked
<1>5. Staked'
  BY <1>3, <1>4 DEF SetOK, Staked
<1>6. status' \in [Validators -> Status] /\ slashes' \in [Validators -> Nat]
  BY <1>3 DEF SetOK, Status
<1> QED
  BY <1>1, <1>2, <1>5, <1>6 DEF SetOK

LEMMA ProcessSet ==
    ASSUME SetOK, RoundsOK, NEW v \in Validators, NEW h, NEW r, NEW x, NEW y, Process(v, h, r, x, y)
    PROVE  SetOK' /\ RoundsOK' /\ OwnOf(rounds') = OwnOf(rounds)
<1>1. CASE UNCHANGED <<setVars, roundVars>>
  BY <1>1, SameRounds
<1>2. CASE Slash(v) /\ Move
  BY <1>2, SlashSet
<1> QED
  BY <1>1, <1>2 DEF Process

\* The validator set moves without a slash.
LEMMA OtherMoves ==
    ASSUME SetOK, RoundsOK, (\E v \in Validators : JailElapses(v)) \/ SyncStakes
    PROVE  SetOK' /\ RoundsOK' /\ OwnOf(rounds') = OwnOf(rounds)
<1>1. Move /\ slashes' = slashes
  BY DEF JailElapses, SyncStakes
<1>2. RoundsOK' /\ OwnOf(rounds') = OwnOf(rounds) /\ moves' = moves + 1 /\ moves < MaxMoves
  BY <1>1, MoveRounds
<1>3. moves' \in 0..MaxMoves
  BY <1>2, Values DEF SetOK
<1>4. Staked' /\ status' \in [Validators -> Status]
  <2>1. CASE \E v \in Validators : JailElapses(v)
    BY <2>1 DEF JailElapses, SetOK, Staked, Status
  <2>2. CASE SyncStakes
    BY <2>2, BFTAssumption DEF SyncStakes, SetOK, Staked, BFTAssumption
  <2> QED
    BY <2>1, <2>2
<1> QED
  BY <1>1, <1>2, <1>3, <1>4 DEF SetOK

LEMMA DriveInit == Init => DriveInv
<1> SUFFICES ASSUME Init PROVE DriveInv
  OBVIOUS
<1>1. \A h \in Heights : rounds[h] = NoRound /\ committed[h] = NoRound
  BY DEF Init
<1>2. RoundsOK
  <2>1. /\ rounds \in [Heights -> Rounds \cup {NoRound}] /\ committed \in [Heights -> Commits \cup {NoRound}]
        /\ carry \in [Heights -> Votes \cup {NoHash}]
    BY DEF Init
  <2>2. nextRound \in [Heights -> 0..MaxRound + 1]
    BY Values DEF Init
  <2> QED
    BY <1>1, <2>1, <2>2 DEF RoundsOK, CommittedIsLocked
<1>3. SetOK
  BY Values, BFTAssumption DEF Init, SetOK, Staked, Status, BFTAssumption
<1>4. NodeOK
  BY DEF Init, NodeOK
<1>5. DriverOK
  BY <1>1 DEF Init, DriverOK, OwnRoundDriven, OwnOf
<1> QED
  BY <1>2, <1>3, <1>4, <1>5 DEF DriveInv

\* The inbound goroutine.
LEMMA GossipDrives ==
    ASSUME DriveInv, EngineInv, Gossip \/ CheckCommitted
    PROVE  DriveInv'
<1>0. RoundsOK /\ SetOK /\ NodeOK /\ DriverOK
  BY DEF DriveInv
<1>1. drv' = drv
  <2>1. ASSUME NEW h, NEW r, NEW v, NEW x, ReceivePropose(h, r, v, x) PROVE drv' = drv
    BY <2>1 DEF ReceivePropose
  <2>2. ASSUME NEW h, NEW v, NEW x, ReceivePrevote(h, v, x) \/ ReceivePrecommit(h, v, x) PROVE drv' = drv
    BY <2>2 DEF ReceivePrevote, ReceivePrecommit
  <2>3. ASSUME NEW v, NEW h, NEW r, NEW x, NEW y, ReceiveEvidence(v, h, r, x, y) PROVE drv' = drv
    BY <2>3 DEF ReceiveEvidence
  <2>4. CheckCommitted => drv' = drv
    BY DEF CheckCommitted
  <2> QED
    BY <2>1, <2>2, <2>3, <2>4 DEF Gossip
<1>2. ASSUME RoundsOK', SetOK', NodeOK', OwnOf(rounds') \subseteq OwnOf(rounds) PROVE DriveInv'
  BY <1>0, <1>1, <1>2, DriverSame DEF DriveInv
<1>3. ASSUME NEW h \in Heights, NEW v \in Validators, NEW r \in 0..MaxRound, NEW x \in Hashes,
             ReceivePropose(h, r, v, x)
      PROVE  DriveInv'
  <2>1. told' = told /\ sealed' = sealed /\ pending' \subseteq pending \cup {<<h, x>>}
    BY <1>3 DEF ReceivePropose
  <2>2. NodeOK'
    BY <1>0, <2>1 DEF NodeOK
  <2>3. CASE /\ Proposable(h, r, v) /\ rounds' = [rounds EXCEPT ![h] = Opened(h, r, v, x, FALSE)]
             /\ UNCHANGED <<committed, nextRound, carry, setVars>>
    <3>1. SetOK' /\ UNCHANGED <<stake, status>>
      BY <1>0, <2>3, SameSet
    <3>2. RoundsOK' /\ OwnOf(rounds') \subseteq OwnOf(rounds)
      BY <1>0, <2>3, <3>1, OpenRounds
    <3> QED
      BY <1>2, <2>2, <3>1, <3>2
  <2>4. CASE UNCHANGED <<roundVars, setVars>>
    BY <1>0, <1>2, <2>2, <2>4, SameRounds
  <2>5. CASE Process(v, h, r, rounds[h].hash, x)
    BY <1>0, <1>2, <2>2, <2>5, ProcessSet
  <2> QED
    BY <1>3, <2>3, <2>4, <2>5 DEF ReceivePropose
<1>4. ASSUME NEW h \in Heights, NEW v \in Validators, NEW x \in Votes, ReceivePrevote(h, v, x) PROVE DriveInv'
  <2>1. CanPreVote(h, v) /\ PreVote(h, v, x) /\ UNCHANGED <<setVars, nodeVars>>
    BY <1>4 DEF ReceivePrevote
  <2>2. SetOK' /\ UNCHANGED <<stake, status>> /\ NodeOK'
    BY <1>0, <2>1, SameSet DEF nodeVars, NodeOK
  <2> QED
    BY <1>0, <1>2, <2>1, <2>2, PreVoteRounds
<1>5. ASSUME NEW h \in Heights, NEW v \in Validators, NEW x \in Votes, ReceivePrecommit(h, v, x) PROVE DriveInv'
  <2>1. CanPreCommit(h, v, x) /\ PreCommit(h, v, x) /\ UNCHANGED <<setVars, nodeVars>>
    BY <1>5 DEF ReceivePrecommit
  <2>2. SetOK' /\ UNCHANGED <<stake, status>> /\ NodeOK'
    BY <1>0, <2>1, SameSet DEF nodeVars, NodeOK
  <2> QED
    BY <1>0, <1>2, <2>1, <2>2, PreCommitRounds
<1>6. ASSUME NEW h \in Heights, NEW v \in Validators, NEW r, NEW x, NEW y, ReceiveEvidence(v, h, r, x, y)
      PROVE  DriveInv'
  <2>1. Process(v, h, r, x, y) /\ NodeOK'
    BY <1>0, <1>6 DEF ReceiveEvidence, nodeVars, NodeOK
  <2> QED
    BY <1>0, <1>2, <2>1, ProcessSet
<1>7. CASE Gossip
  BY <1>3, <1>4, <1>5, <1>6, <1>7 DEF Gossip
<1>8. CASE CheckCommitted
  <2>1. inb.h \in Heights /\ Notify(inb.h) /\ UNCHANGED <<roundVars, setVars>>
    BY <1>8 DEF CheckCommitted, EngineInv, GoroutinesOK
  <2>2. RoundsOK' /\ SetOK' /\ rounds' = rounds
    BY <1>0, <2>1, SameRounds
  <2>3. NodeOK'
    BY <1>0, <2>1, NotifyTypes
  <2> QED
    BY <1>2, <2>2, <2>3
<1> QED
  BY <1>7, <1>8

\* Sealing, and moves of the validator set.
LEMMA OtherDrives ==
    ASSUME DriveInv,
           \/ \E h \in Heights, x \in Own : Seal(h, x)
           \/ \E v \in Validators : JailElapses(v)
           \/ SyncStakes
    PROVE  DriveInv'
<1>0. RoundsOK /\ SetOK /\ NodeOK /\ DriverOK
  BY DEF DriveInv
<1>1. CASE \E h \in Heights, x \in Own : Seal(h, x)
  <2>1. PICK h \in Heights, x \in Own : Seal(h, x)
    BY <1>1
  <2>2. x \in Hashes
    BY BFTAssumption DEF BFTAssumption
  <2>3. /\ drv = Idle /\ drv' = [pc |-> "choose", h |-> h, x |-> x] /\ UNCHANGED <<roundVars, setVars>>
        /\ sealed' = [sealed EXCEPT ![h] = x] /\ told' = told /\ pending' = pending
    BY <2>1 DEF Seal
  <2>4. RoundsOK' /\ SetOK' /\ rounds' = rounds
    BY <1>0, <2>3, SameRounds
  <2>5. NodeOK'
    BY <1>0, <2>2, <2>3 DEF NodeOK
  <2>6. OwnOf(rounds) = {}
    BY <1>0, <2>3, NoOwn DEF Idle
  <2>7. drv' \in Driving
    BY <2>2, <2>3 DEF Driving
  <2>8. OwnOf(rounds') = {}
    BY <2>4, <2>6
  <2> QED
    BY <2>4, <2>5, <2>7, <2>8, DriverDone DEF DriveInv
<1>2. CASE (\E v \in Validators : JailElapses(v)) \/ SyncStakes
  <2>1. SetOK' /\ RoundsOK' /\ OwnOf(rounds') = OwnOf(rounds)
    BY <1>0, <1>2, OtherMoves
  <2>2. NodeOK' /\ drv' = drv
    BY <1>0, <1>2 DEF JailElapses, SyncStakes, nodeVars, NodeOK
  <2> QED
    BY <1>0, <2>1, <2>2, DriverSame DEF DriveInv
<1> QED
  BY <1>1, <1>2

\* The hook is done with a height.
LEMMA DoneTypes ==
    ASSUME NodeOK, Done, told' = told, sealed' = sealed
    PROVE  NodeOK' /\ drv' = Idle
  BY DEF Done, NodeOK

\* A loop of the hook begins.
LEMMA LoopTypes ==
    ASSUME drv.h \in Heights, drv.x \in Hashes, NEW pc \in {"prevote", "precommit"}, Loop(pc)
    PROVE  drv' \in Driving /\ drv'.h = drv.h /\ drv'.pc = pc
<1>1. drv' = [pc |-> pc, h |-> drv.h, x |-> drv.x, todo |-> {v \in Validators : MayAct(v)}]
  BY DEF Loop
<1>2. {v \in Validators : MayAct(v)} \in SUBSET Validators
  OBVIOUS
<1> QED
  BY <1>1, <1>2 DEF Driving

\* The steps of the hook outside of its loops.
LEMMA DriveEnds ==
    ASSUME DriveInv, EngineInv,
           PublishNothing \/ Prune \/ ChooseProposer \/ DrivePropose
    PROVE  DriveInv'
<1>0. RoundsOK /\ SetOK /\ NodeOK /\ DriverOK /\ drv \in Driving \cup {Idle}
  BY DEF DriveInv, DriverOK
<1>1. drv.pc \in {"choose", "prune", "propose"}
  BY DEF PublishNothing, Prune, ChooseProposer, DrivePropose
<1>2. OwnOf(rounds) = {} /\ drv.h \in Heights /\ drv.x \in Hashes
  BY <1>0, <1>1, NoOwn, DrivingFacts
<1>3. CASE PublishNothing
  <2>1. UNCHANGED <<roundVars, setVars>> /\ drv.pc = "choose"
    BY <1>3 DEF PublishNothing
  <2>2. RoundsOK' /\ SetOK' /\ rounds' = rounds
    BY <1>0, <2>1, SameRounds
  <2>3. CASE Notify(drv.h) /\ drv' = [drv EXCEPT !.pc = "prune"]
    <3>1. NodeOK'
      BY <1>0, <1>2, <2>3, NotifyTypes
    <3>2. drv \in [pc : {"choose", "prune"}, h : Heights, x : Hashes]
      BY <1>0, <2>1, DrivingFacts
    <3>3. drv' \in Driving
      BY <2>3, <3>2 DEF Driving
    <3>4. OwnOf(rounds') = {}
      BY <1>2, <2>2
    <3> QED
      BY <2>2, <3>1, <3>3, <3>4, DriverDone DEF DriveInv
  <2>4. CASE Done /\ UNCHANGED <<told, sealed>>
    <3>1. OwnOf(rounds') = {}
      BY <1>2, <2>2
    <3> QED
      BY <1>0, <2>2, <2>4, <3>1, DoneTypes, DriverDone DEF DriveInv
  <2> QED
    BY <1>3, <2>3, <2>4 DEF PublishNothing
<1>4. CASE Prune
  <2>1. UNCHANGED <<roundVars, setVars, told, sealed>> /\ Done
    BY <1>4 DEF Prune
  <2>2. RoundsOK' /\ SetOK' /\ rounds' = rounds
    BY <1>0, <2>1, SameRounds
  <2>3. OwnOf(rounds') = {}
    BY <1>2, <2>2
  <2> QED
    BY <1>0, <2>1, <2>2, <2>3, DoneTypes, DriverDone DEF DriveInv
<1>5. CASE ChooseProposer
  <2>1. /\ UNCHANGED <<roundVars, setVars, nodeVars>> /\ ActiveValidators # {} /\ nextRound[drv.h] <= MaxRound
        /\ drv' = [pc |-> "propose", h |-> drv.h, x |-> drv.x, r |-> nextRound[drv.h],
                   p |-> ProposerForRound(nextRound[drv.h])]
    BY <1>5 DEF ChooseProposer
  <2>2. RoundsOK' /\ SetOK' /\ rounds' = rounds
    BY <1>0, <2>1, SameRounds
  <2>3. NodeOK'
    BY <1>0, <2>1 DEF nodeVars, NodeOK
  <2>4. nextRound[drv.h] \in 0..MaxRound /\ nextRound[drv.h] \in Nat
    BY <1>0, <1>2, <2>1, Values DEF RoundsOK
  <2>5. ProposerForRound(nextRound[drv.h]) \in Validators
    <3>1. ProposerForRound(nextRound[drv.h]) \in ActiveValidators
      BY <1>0, <2>1, <2>4, ProposerActive DEF SetOK
    <3> QED
      BY <3>1 DEF ActiveValidators
  <2>6. drv' \in Driving
    BY <1>2, <2>1, <2>4, <2>5 DEF Driving
  <2>7. OwnOf(rounds') = {}
    BY <1>2, <2>2
  <2> QED
    BY <2>2, <2>3, <2>6, <2>7, DriverDone DEF DriveInv
<1>6. CASE DrivePropose
  <2>1. /\ UNCHANGED <<committed, nextRound, carry, setVars, told, sealed>> /\ drv.pc = "propose"
    BY <1>6 DEF DrivePropose
  <2>2. drv \in [pc : {"propose"}, h : Heights, x : Hashes, r : 0..MaxRound, p : Validators]
    BY <1>0, <2>1, DrivingFacts
  <2>3. drv.r \in 0..MaxRound
    BY <2>2
  <2>4. SetOK' /\ UNCHANGED <<stake, status>>
    BY <1>0, <2>1, SameSet
  <2>5. ASSUME Loop("prevote"), pending' = pending, RoundsOK', OwnOf(rounds') \subseteq {drv.h} PROVE DriveInv'
    <3>1. drv' \in Driving /\ drv'.h = drv.h /\ drv'.pc = "prevote"
      BY <1>2, <2>5, LoopTypes
    <3>2. DriverOK'
      BY <2>5, <3>1 DEF DriverOK, OwnRoundDriven
    <3>3. NodeOK'
      BY <1>0, <2>1, <2>5 DEF NodeOK
    <3> QED
      BY <2>4, <2>5, <3>2, <3>3 DEF DriveInv
  <2>6. CASE /\ Proposable(drv.h, drv.r, drv.p)
             /\ rounds' = [rounds EXCEPT ![drv.h] = Opened(drv.h, drv.r, drv.p, drv.x, TRUE)]
             /\ Loop("prevote") /\ UNCHANGED pending
    <3>1. RoundsOK' /\ OwnOf(rounds') \subseteq OwnOf(rounds) \cup {drv.h}
      BY <1>0, <1>2, <2>1, <2>3, <2>4, <2>6, OpenRounds
    <3> QED
      BY <1>2, <2>5, <2>6, <3>1
  <2>7. CASE /\ SameProposal(drv.h, drv.r, drv.p, drv.x)
             /\ rounds' = [rounds EXCEPT ![drv.h].own = TRUE]
             /\ Loop("prevote") /\ UNCHANGED pending
    <3>1. rounds[drv.h] # NoRound
      BY <2>7 DEF SameProposal
    <3>2. RoundsOK' /\ OwnOf(rounds') \subseteq OwnOf(rounds) \cup {drv.h}
      BY <1>0, <1>2, <2>1, <2>4, <2>7, <3>1, TakeRound
    <3> QED
      BY <1>2, <2>5, <2>7, <3>2
  <2>8. CASE Done /\ UNCHANGED rounds
    <3>1. RoundsOK'
      BY <1>0, <2>1, <2>8, SameRounds DEF roundVars
    <3>2. OwnOf(rounds') = {}
      BY <1>2, <2>8
    <3> QED
      BY <1>0, <2>1, <2>4, <2>8, <3>1, <3>2, DoneTypes, DriverDone DEF DriveInv
  <2> QED
    BY <1>6, <2>6, <2>7, <2>8 DEF DrivePropose
<1> QED
  BY <1>3, <1>4, <1>5, <1>6

\* The loops of the hook and its end.
LEMMA DriveLoops ==
    ASSUME DriveInv, EngineInv,
           DrivePrevote \/ BuildLockProof \/ DrivePrecommit \/ DriveNotify \/ DriveFinish
    PROVE  DriveInv'
<1>0. RoundsOK /\ SetOK /\ NodeOK /\ DriverOK /\ drv \in Driving \cup {Idle}
  BY DEF DriveInv, DriverOK
<1>1. drv.pc \in {"prevote", "precommit", "finish"} /\ UNCHANGED setVars
  BY DEF DrivePrevote, BuildLockProof, DrivePrecommit, DriveNotify, DriveFinish
<1>2. drv.h \in Heights /\ OwnOf(rounds) \subseteq {drv.h}
  BY <1>0, <1>1, DrivingFacts DEF DriverOK, OwnRoundDriven
<1>3. SetOK' /\ UNCHANGED <<stake, status>>
  BY <1>0, <1>1, SameSet
<1>4. drv.pc \in {"prevote", "precommit"} =>
          drv \in [pc : {"prevote", "precommit"}, h : Heights, x : Hashes, todo : SUBSET Validators]
  BY <1>0, <1>1, DrivingFacts
<1>5. ASSUME drv' \in Driving, drv'.h = drv.h, drv'.pc \in {"prevote", "precommit", "finish"},
             OwnOf(rounds') \subseteq OwnOf(rounds), RoundsOK', NodeOK'
      PROVE  DriveInv'
  BY <1>2, <1>3, <1>5 DEF DriveInv, DriverOK, OwnRoundDriven
<1>6. ASSUME NEW v, drv.pc \in {"prevote", "precommit"}, drv' = [drv EXCEPT !.todo = @ \ {v}]
      PROVE  drv' \in Driving /\ drv'.h = drv.h /\ drv'.pc = drv.pc
  BY <1>4, <1>6 DEF Driving
<1>7. CASE DrivePrevote
  <2>1. drv.pc = "prevote" /\ NodeOK'
    BY <1>0, <1>7 DEF DrivePrevote, nodeVars, NodeOK
  <2>2. PICK v \in drv.todo :
          /\ drv' = [drv EXCEPT !.todo = @ \ {v}]
          /\ IF CanPreVote(drv.h, v) THEN PreVote(drv.h, v, drv.x) ELSE UNCHANGED roundVars
    BY <1>7 DEF DrivePrevote
  <2>3. v \in Validators /\ drv.x \in Votes
    BY <1>4, <2>1, Values
  <2>4. drv' \in Driving /\ drv'.h = drv.h /\ drv'.pc = "prevote"
    BY <1>6, <2>1, <2>2
  <2>5. RoundsOK' /\ OwnOf(rounds') = OwnOf(rounds)
    BY <1>0, <1>1, <1>2, <1>3, <2>2, <2>3, PreVoteRounds, SameRounds
  <2> QED
    BY <1>5, <2>1, <2>4, <2>5
<1>8. CASE DrivePrecommit
  <2>1. drv.pc = "precommit" /\ NodeOK'
    BY <1>0, <1>8 DEF DrivePrecommit, nodeVars, NodeOK
  <2>2. PICK v \in drv.todo :
          /\ drv' = [drv EXCEPT !.todo = @ \ {v}]
          /\ IF CanPreCommit(drv.h, v, drv.x) THEN PreCommit(drv.h, v, drv.x) ELSE UNCHANGED roundVars
    BY <1>8 DEF DrivePrecommit
  <2>3. v \in Validators /\ drv.x \in Votes
    BY <1>4, <2>1, Values
  <2>4. drv' \in Driving /\ drv'.h = drv.h /\ drv'.pc = "precommit"
    BY <1>6, <2>1, <2>2
  <2>5. RoundsOK' /\ OwnOf(rounds') \subseteq OwnOf(rounds)
    BY <1>0, <1>1, <1>2, <1>3, <2>2, <2>3, PreCommitRounds, SameRounds
  <2> QED
    BY <1>5, <2>1, <2>4, <2>5
<1>9. CASE BuildLockProof
  <2>1. drv.pc = "prevote" /\ UNCHANGED <<told, sealed>> /\ drv.x \in Hashes
    BY <1>4, <1>9 DEF BuildLockProof
  <2>2. CASE Loop("precommit") /\ UNCHANGED <<roundVars, pending>>
    <3>1. drv' \in Driving /\ drv'.h = drv.h /\ drv'.pc = "precommit"
      BY <1>2, <2>1, <2>2, LoopTypes
    <3>2. RoundsOK' /\ rounds' = rounds
      BY <1>0, <1>1, <2>2, SameRounds
    <3>3. NodeOK'
      BY <1>0, <2>1, <2>2 DEF NodeOK
    <3> QED
      BY <1>5, <3>1, <3>2, <3>3
  <2>3. CASE GiveUpRound(drv.h) /\ Done
    <3>1. RoundsOK' /\ OwnOf(rounds') \subseteq OwnOf(rounds) \ {drv.h}
      BY <1>0, <1>2, <1>3, <2>3, FailRounds DEF GiveUpRound
    <3>2. OwnOf(rounds') = {}
      BY <1>2, <3>1
    <3> QED
      BY <1>0, <1>3, <2>1, <2>3, <3>1, <3>2, DoneTypes, DriverDone DEF DriveInv
  <2> QED
    BY <1>9, <2>2, <2>3 DEF BuildLockProof
<1>10. CASE DriveNotify
  <2>1. UNCHANGED roundVars /\ Notify(drv.h) /\ drv' = [pc |-> "finish", h |-> drv.h]
    BY <1>10 DEF DriveNotify, NotifyFromConsensus
  <2>2. RoundsOK' /\ rounds' = rounds
    BY <1>0, <1>1, <2>1, SameRounds
  <2>3. NodeOK'
    BY <1>0, <1>2, <2>1, NotifyTypes
  <2>4. drv' \in Driving /\ drv'.h = drv.h /\ drv'.pc = "finish"
    BY <1>2, <2>1 DEF Driving
  <2> QED
    BY <1>5, <2>2, <2>3, <2>4
<1>11. CASE DriveFinish
  <2>1. UNCHANGED <<told, sealed>> /\ Done
    BY <1>11 DEF DriveFinish
  <2>2. RoundsOK' /\ OwnOf(rounds') = {}
    <3>1. CASE committed[drv.h] = NoRound
      <4>1. RoundsOK' /\ OwnOf(rounds') \subseteq OwnOf(rounds) \ {drv.h}
        BY <1>0, <1>2, <1>3, <1>11, <3>1, FailRounds DEF DriveFinish
      <4> QED
        BY <1>2, <4>1
    <3>2. CASE committed[drv.h] # NoRound
      <4>1. rounds[drv.h] = NoRound
        BY <1>2, <3>2 DEF EngineInv, EngineOK
      <4>2. RoundsOK' /\ rounds' = rounds
        BY <1>0, <1>1, <1>11, <3>2, SameRounds DEF DriveFinish
      <4>3. OwnOf(rounds) = {}
        BY <1>2, <4>1 DEF OwnOf
      <4> QED
        BY <4>2, <4>3
    <3> QED
      BY <3>1, <3>2
  <2> QED
    BY <1>0, <1>3, <2>1, <2>2, DoneTypes, DriverDone DEF DriveInv
<1> QED
  BY <1>7, <1>8, <1>9, <1>10, <1>11

LEMMA DriveNext == DriveInv /\ EngineInv /\ [Next]_vars => DriveInv'
<1> SUFFICES ASSUME DriveInv, EngineInv, [Next]_vars PROVE DriveInv'
  OBVIOUS
<1>1. CASE UNCHANGED vars
  <2>1. UNCHANGED <<roundVars, setVars, drv>> /\ NodeOK'
    BY <1>1 DEF vars, roundVars, setVars, DriveInv, NodeOK
  <2>2. RoundsOK' /\ SetOK' /\ rounds' = rounds
    BY <2>1, SameRounds DEF DriveInv
  <2> QED
    BY <2>1, <2>2, DriverSame DEF DriveInv
<1> QED
  BY <1>1, GossipDrives, OtherDrives, DriveEnds, DriveLoops DEF Next, Drive

\* The inductive invariant of rounds, locks and the sealing goroutine.
THEOREM DriveCorrect == Spec => []DriveInv
  BY DriveInit, DriveNext, EngineCorrect, PTL DEF Spec

\* A commit has the lock of two thirds of the stake behind it unless the
\* validator set moved in its round (validatePreCommitAgainstLock), and the hook
\* leaves no round of its own open (PublishPolAfterBlockSeal), for all heights,
\* values, validators and stakes and any messages.
THEOREM RoundCorrect == Spec => []RoundInv
<1>1. DriveInv => RoundInv
  <2> SUFFICES ASSUME DriveInv PROVE RoundInv
    OBVIOUS
  <2>1. TypeOK /\ CommittedIsLocked
    BY DEF DriveInv, RoundsOK, SetOK, Staked, NodeOK, TypeOK
  <2>2. OwnRoundClosed
    <3> SUFFICES ASSUME drv = Idle PROVE \A h \in Heights : rounds[h] = NoRound \/ ~rounds[h].own
      BY DEF OwnRoundClosed
    <3>1. OwnOf(rounds) = {}
      BY NoOwn DEF DriveInv, Idle
    <3> QED
      BY <3>1 DEF OwnOf
  <2> QED
    BY <2>1, <2>2 DEF RoundInv
<1> QED
  BY <1>1, DriveCorrect, PTL

----------------------------------------------------------------------------
(* The sealed-block hook: its parameters, its state, and sums and maxima   *)
(* as its module has them.                                                 *)

CONSTANTS
    Goroutines, ConfirmationDepth, FinalityDepth, Retention, Ahead, Funds, UnbondBlocks,
    HookNum, HookDen, MaxHeight, MaxSlashes
VARIABLES
    tip, pc, blk, local, published, cert, conflict, observed, rec, lastFinalized,
    bal, debited, bonded, unbond, lost, hookSlashes

\* The hook of a node, with parameters and state of its own.
Hook == INSTANCE SealedHook WITH SlashNum <- HookNum, SlashDen <- HookDen, slashes <- hookSlashes

\* Its sums are those of the lemmas above.
LEMMA HookSum ==
    ASSUME NEW f, NEW S
    PROVE  Hook!SumFunctionOnSet(f, S) = SumFunctionOnSet(f, S)
<1>1. Hook!SumFunctionOnSet(f, S) = (CHOOSE g : SumTable(g, f, S))[S]
  BY DEF Hook!SumFunctionOnSet, Hook!FoldFunctionOnSet, Hook!MapThenFoldSet, SumTable, Pick
<1> QED
  BY <1>1, SumIs

\* A finite set of numbers that is not empty has a maximum.
LEMMA HookMax ==
    ASSUME NEW S, IsFiniteSet(S), S # {}, S \subseteq Int
    PROVE  Hook!Max(S) \in S /\ \A y \in S : Hook!Max(S) >= y
<1> DEFINE Up(x) == {y \in S : y >= x}
           F == {Up(x) : x \in S}
<1>0. \A x, z \in S : x \in Int /\ (z \in Up(x) <=> z >= x)
  OBVIOUS
<1>a. \A x \in S : Up(x) \subseteq S /\ Up(x) \in F
  OBVIOUS
<1>b. \A T \in F : \E x \in S : T = Up(x)
  OBVIOUS
<1> HIDE DEF Up, F
<1>c. F \subseteq SUBSET S /\ F # {}
  BY <1>a, <1>b
<1>2. PICK T \in F : \A U \in F : U \subseteq T => U = T
  <2>1. IsFiniteSet(S)
    OBVIOUS
  <2> QED
    BY ONLY <2>1, <1>c, LeastSet
<1>3. PICK x \in S : T = Up(x)
  BY <1>b
<1>4. ASSUME NEW y \in S, y > x PROVE FALSE
  <2>1. Up(y) \in F
    BY <1>a
  <2>a. ASSUME NEW z \in Up(y) PROVE z \in Up(x)
    <3>1. z \in S
      BY <1>a
    <3> QED
      BY <3>1, <1>0, <1>4
  <2>2. Up(y) \subseteq Up(x) /\ x \in Up(x) /\ x \notin Up(y)
    BY <1>0, <1>4, <2>a
  <2> QED
    BY <1>2, <1>3, <2>1, <2>2
<1>5. \A y \in S : x >= y
  BY <1>0, <1>4
<1> QED
  BY <1>5 DEF Hook!Max

\* The maximum of two numbers is one of them.
LEMMA HookHigher ==
    ASSUME NEW a \in Int, NEW b \in Int
    PROVE  Hook!Max({a, b}) \in {a, b}
<1> DEFINE S == {a, b}
<1>1. S = {a} \cup {b} /\ S # {} /\ S \subseteq Int
  OBVIOUS
<1>2. IsFiniteSet({a}) /\ IsFiniteSet({b})
  BY FS_Singleton
<1>3. IsFiniteSet(S)
  BY <1>1, <1>2, FS_Union
<1> HIDE DEF S
<1>4. Hook!Max(S) \in S
  BY <1>1, <1>3, HookMax
<1> QED
  BY <1>4 DEF S

----------------------------------------------------------------------------
(* Its inductive invariant.                                                *)

Stages == {"idle", "append", "latest", "mature", "record", "mark", "track", "tip"}

\* A goroutine in the hook works on a block of the chain, and one past the gate
\* on the block it is about to append; certificates are at most Ahead above.
ChainOK ==
    /\ tip \in 0..MaxHeight /\ blk \in [Goroutines -> 0..MaxHeight] /\ pc \in [Goroutines -> Stages]
    /\ \A g \in Goroutines : pc[g] \notin {"idle", "latest"} => blk[g] > 0
    /\ \A g \in Goroutines : pc[g] \notin {"idle", "append"} => tip > 0
    /\ observed <= tip + Ahead

PolOK ==
    /\ local \subseteq Hook!Heights /\ published \subseteq Hook!Heights /\ conflict \subseteq Hook!Heights
    /\ cert \in [Hook!Heights -> Hook!Roots \cup {"none"}] /\ observed \in 0..MaxHeight

FinOK ==
    /\ rec \in [Hook!Heights -> [status : {"none", "pending", "confirmed", "finalized"}, conf : 0..MaxHeight]]
    /\ lastFinalized \in 0..MaxHeight

\* No part is negative and together they are the delegator's funds.
StakeOK ==
    /\ bal \in Nat /\ debited \in Nat /\ bonded \in Nat /\ lost \in Nat
    /\ unbond \in [Hook!MatureHeights -> Nat]
    /\ bal + debited + bonded + SumFunctionOnSet(unbond, Hook!MatureHeights) + lost = Funds

HookInv == ChainOK /\ PolOK /\ FinOK /\ StakeOK

LEMMA HookConstants ==
    ASSUME Hook!HookParameters
    PROVE  /\ Hook!Heights = 1..MaxHeight /\ Hook!MatureHeights = 1..(MaxHeight + UnbondBlocks)
           /\ IsFiniteSet(Hook!MatureHeights) /\ MaxHeight \in Nat /\ UnbondBlocks \in Nat \ {0}
           /\ Ahead \in Nat /\ Retention \in Nat /\ Funds \in Nat
<1>1. MaxHeight \in Nat /\ UnbondBlocks \in Nat \ {0} /\ Ahead \in Nat /\ Retention \in Nat /\ Funds \in Nat
  BY DEF Hook!HookParameters
<1>2. MaxHeight + UnbondBlocks \in Int /\ 1 \in Int
  BY <1>1
<1>3. IsFiniteSet(1..(MaxHeight + UnbondBlocks))
  BY <1>2, FS_Interval
<1> QED
  BY <1>1, <1>3 DEF Hook!Heights, Hook!MatureHeights

LEMMA HookInit ==
    ASSUME Hook!HookParameters, Hook!Init
    PROVE  HookInv
<1>1. ChainOK /\ PolOK
  BY HookConstants DEF Hook!Init, ChainOK, PolOK, Stages, Hook!Roots
<1>2. FinOK
  BY HookConstants DEF Hook!Init, FinOK, Hook!Untracked
<1>3. unbond \in [Hook!MatureHeights -> Nat] /\ \A k \in Hook!MatureHeights : unbond[k] = 0
  BY DEF Hook!Init
<1>4. SumFunctionOnSet(unbond, Hook!MatureHeights) = 0
  BY <1>3, HookConstants, SumZero
<1>5. StakeOK
  BY <1>3, <1>4, HookConstants DEF Hook!Init, StakeOK
<1> QED
  BY <1>1, <1>2, <1>5 DEF HookInv

\* A step that leaves the stake alone.
LEMMA StakeSame ==
    ASSUME StakeOK, UNCHANGED <<bal, debited, bonded, unbond, lost>>
    PROVE  StakeOK'
  BY DEF StakeOK

\* A step that leaves the follower alone and takes no height away.
LEMMA PolSame ==
    ASSUME PolOK, UNCHANGED <<local, published, cert, conflict, observed>>
    PROVE  PolOK'
  BY DEF PolOK

LEMMA FinSame ==
    ASSUME FinOK, UNCHANGED <<rec, lastFinalized>>
    PROVE  FinOK'
  BY DEF FinOK

LEMMA ChainSame ==
    ASSUME ChainOK, UNCHANGED <<tip, pc, blk, observed>>
    PROVE  ChainOK'
  BY DEF ChainOK

\* A goroutine inside its hook takes the next step of it.
LEMMA ChainGoes ==
    ASSUME ChainOK, NEW g \in Goroutines, pc[g] \in {"mature", "record", "mark", "track", "tip"},
           NEW s \in {"idle", "record", "mark", "track", "tip"}, pc' = [pc EXCEPT ![g] = s],
           UNCHANGED <<tip, blk, observed>>
    PROVE  ChainOK'
<1>1. pc' \in [Goroutines -> Stages] /\ \A k \in Goroutines : k # g => pc'[k] = pc[k]
  BY DEF ChainOK, Stages
<1>2. blk[g] > 0 /\ tip > 0
  BY DEF ChainOK
<1> QED
  BY <1>1, <1>2 DEF ChainOK

----------------------------------------------------------------------------
(* Its steps.                                                              *)

LEMMA SealSteps ==
    ASSUME Hook!HookParameters, HookInv, NEW g \in Goroutines,
           Hook!PassGate(g) \/ Hook!Append(g) \/ Hook!ReadLatest(g)
    PROVE  HookInv'
<1>0. MaxHeight \in Nat /\ Ahead \in Nat /\ observed \in 0..MaxHeight /\ ChainOK
  BY HookConstants DEF HookInv, PolOK
<1>1. UNCHANGED <<local, published, cert, conflict, observed>> /\ UNCHANGED <<rec, lastFinalized>>
      /\ UNCHANGED <<bal, debited, bonded, unbond, lost>>
  BY DEF Hook!PassGate, Hook!Append, Hook!ReadLatest, Hook!polVars, Hook!finVars, Hook!stakeVars
<1>2. PolOK' /\ FinOK' /\ StakeOK'
  BY <1>1, PolSame, FinSame, StakeSame DEF HookInv
<1>3. CASE Hook!PassGate(g)
  <2>1. /\ pc' = [pc EXCEPT ![g] = "append"] /\ blk' = [blk EXCEPT ![g] = tip + 1]
        /\ tip' = tip /\ tip + 1 \in 1..MaxHeight
    BY <1>0, <1>3 DEF Hook!PassGate, Hook!Goto, ChainOK
  <2>2. \A k \in Goroutines : k # g => pc'[k] = pc[k] /\ blk'[k] = blk[k]
    BY <1>0, <2>1 DEF ChainOK
  <2>3. pc' \in [Goroutines -> Stages] /\ blk' \in [Goroutines -> 0..MaxHeight] /\ pc'[g] = "append" /\ blk'[g] > 0
    BY <1>0, <2>1 DEF ChainOK, Stages
  <2> QED
    BY <1>0, <1>1, <1>2, <2>1, <2>2, <2>3 DEF ChainOK, HookInv
<1>4. CASE Hook!Append(g)
  <2>1. pc[g] = "append" /\ blk[g] \in 1..MaxHeight /\ blk' = blk
    BY <1>0, <1>4 DEF Hook!Append, ChainOK
  <2>2. CASE blk[g] = tip + 1
    <3>1. tip' = tip + 1 /\ pc' = [pc EXCEPT ![g] = "latest"]
      BY <1>4, <2>2 DEF Hook!Append, Hook!Goto
    <3>2. pc' \in [Goroutines -> Stages] /\ pc'[g] = "latest" /\ \A k \in Goroutines : k # g => pc'[k] = pc[k]
      BY <1>0, <3>1 DEF ChainOK, Stages
    <3>3. tip' \in 1..MaxHeight
      BY <1>0, <2>1, <2>2, <3>1
    <3> QED
      BY <1>0, <1>1, <1>2, <2>1, <3>1, <3>2, <3>3 DEF ChainOK, HookInv
  <2>3. CASE blk[g] # tip + 1
    <3>1. tip' = tip /\ pc' = [pc EXCEPT ![g] = "idle"]
      BY <1>4, <2>3 DEF Hook!Append, Hook!Goto
    <3>2. pc' \in [Goroutines -> Stages] /\ pc'[g] = "idle" /\ \A k \in Goroutines : k # g => pc'[k] = pc[k]
      BY <1>0, <3>1 DEF ChainOK, Stages
    <3> QED
      BY <1>0, <1>1, <1>2, <2>1, <3>1, <3>2 DEF ChainOK, HookInv
  <2> QED
    BY <2>2, <2>3
<1>5. CASE Hook!ReadLatest(g)
  <2>1. /\ pc' = [pc EXCEPT ![g] = "mature"] /\ blk' = [blk EXCEPT ![g] = tip] /\ tip' = tip
        /\ pc[g] = "latest" /\ tip > 0
    BY <1>0, <1>5 DEF Hook!ReadLatest, Hook!Goto, ChainOK
  <2>2. \A k \in Goroutines : k # g => pc'[k] = pc[k] /\ blk'[k] = blk[k]
    BY <1>0, <2>1 DEF ChainOK
  <2>3. pc' \in [Goroutines -> Stages] /\ blk' \in [Goroutines -> 0..MaxHeight] /\ blk'[g] > 0
    BY <1>0, <2>1 DEF ChainOK, Stages
  <2> QED
    BY <1>0, <1>1, <1>2, <2>1, <2>2, <2>3 DEF ChainOK, HookInv
<1> QED
  BY <1>3, <1>4, <1>5

\* What ProcessCommittedHeight credits is what it takes out of the entries.
LEMMA DueAndKept ==
    ASSUME Hook!HookParameters, StakeOK, NEW h \in Nat
    PROVE  /\ Hook!Kept(h) \in [Hook!MatureHeights -> Nat]
           /\ SumFunctionOnSet(unbond, Hook!Due(h)) \in Nat
           /\ SumFunctionOnSet(Hook!Kept(h), Hook!MatureHeights) \in Nat
           /\ SumFunctionOnSet(unbond, Hook!MatureHeights) =
                SumFunctionOnSet(unbond, Hook!Due(h)) + SumFunctionOnSet(Hook!Kept(h), Hook!MatureHeights)
<1> DEFINE M == Hook!MatureHeights
           D == Hook!Due(h)
           R == M \ D
           K == Hook!Kept(h)
<1>1. K \in [M -> Nat] /\ (\A k \in D : K[k] = 0) /\ (\A k \in R : K[k] = unbond[k])
  <2>1. M \subseteq Int /\ unbond \in [M -> Nat]
    BY HookConstants DEF StakeOK
  <2> HIDE DEF M
  <2> QED
    BY <2>1 DEF Hook!Kept, Hook!Due, M
<1>2. IsFiniteSet(M) /\ unbond \in [M -> Nat]
  BY HookConstants DEF StakeOK
<1>3. D \subseteq M
  BY DEF Hook!Due
<1> HIDE DEF M, D, K
<1>4. IsFiniteSet(D) /\ IsFiniteSet(R) /\ D \cap R = {} /\ D \cup R = M
  BY <1>2, <1>3, FS_Subset
<1>a. /\ \A k \in D \cup R : unbond[k] \in Nat /\ K[k] \in Nat
      /\ \A k \in R : unbond[k] \in Nat /\ K[k] \in Nat
      /\ \A k \in D : unbond[k] \in Nat
  BY <1>1, <1>2, <1>3
<1> HIDE DEF R
<1>5. SumFunctionOnSet(unbond, D \cup R) = SumFunctionOnSet(unbond, D) + SumFunctionOnSet(unbond, R)
  BY <1>4, <1>a, SumDisjoint
<1>6. SumFunctionOnSet(K, D \cup R) = SumFunctionOnSet(K, D) + SumFunctionOnSet(K, R)
  BY <1>4, <1>a, SumDisjoint
<1>7. SumFunctionOnSet(K, D) = 0
  BY <1>1, <1>4, SumZero
<1>8. SumFunctionOnSet(K, R) = SumFunctionOnSet(unbond, R)
  BY <1>1, <1>4, SumSame
<1>9. SumFunctionOnSet(unbond, D) \in Nat /\ SumFunctionOnSet(unbond, R) \in Nat
  BY <1>4, <1>a, SumNat
<1>10. /\ SumFunctionOnSet(K, M) \in Nat
       /\ SumFunctionOnSet(unbond, M) = SumFunctionOnSet(unbond, D) + SumFunctionOnSet(K, M)
  <2>1. SumFunctionOnSet(K, M) = 0 + SumFunctionOnSet(unbond, R)
    BY <1>4, <1>6, <1>7, <1>8
  <2>2. SumFunctionOnSet(K, M) = SumFunctionOnSet(unbond, R)
    BY <1>9, <2>1
  <2>3. SumFunctionOnSet(unbond, M) = SumFunctionOnSet(unbond, D) + SumFunctionOnSet(unbond, R)
    BY <1>4, <1>5
  <2> QED
    BY <1>9, <2>2, <2>3
<1> QED
  BY <1>1, <1>9, <1>10 DEF M, D, K

LEMMA MatureStep ==
    ASSUME Hook!HookParameters, HookInv, NEW g \in Goroutines, Hook!Mature(g)
    PROVE  HookInv'
<1> DEFINE M == Hook!MatureHeights
           h == blk[g]
           due == SumFunctionOnSet(unbond, Hook!Due(h))
           left == SumFunctionOnSet(Hook!Kept(h), M)
           all == SumFunctionOnSet(unbond, M)
<1>1. h \in Nat
  BY HookConstants DEF HookInv, ChainOK
<1>2. UNCHANGED <<local, published, cert, conflict, observed>> /\ UNCHANGED <<rec, lastFinalized>>
      /\ UNCHANGED <<tip, blk, observed>> /\ UNCHANGED <<debited, bonded, lost>>
      /\ pc[g] = "mature" /\ pc' = [pc EXCEPT ![g] = "record"]
  BY DEF Hook!Mature, Hook!Goto, Hook!polVars, Hook!finVars
<1>3. PolOK' /\ FinOK' /\ ChainOK'
  BY <1>2, PolSame, FinSame, ChainGoes DEF HookInv
<1>4. bal' = bal + due /\ unbond' = Hook!Kept(h)
  BY HookSum DEF Hook!Mature
<1>5. StakeOK
  BY DEF HookInv
<1>6. unbond' \in [M -> Nat] /\ due \in Nat /\ left \in Nat /\ all = due + left
  BY <1>1, <1>4, <1>5, DueAndKept
<1>7. SumFunctionOnSet(unbond', M) = left
  BY <1>4
<1>8. bal \in Nat /\ debited \in Nat /\ bonded \in Nat /\ lost \in Nat /\ bal + debited + bonded + all + lost = Funds
  BY <1>5 DEF StakeOK
<1> HIDE DEF due, left, all, h
<1>9. bal' \in Nat /\ bal' + debited + bonded + left + lost = Funds
  BY <1>4, <1>6, <1>8
<1>10. StakeOK'
  BY <1>2, <1>6, <1>7, <1>8, <1>9 DEF StakeOK, Hook!MatureHeights
<1> QED
  BY <1>3, <1>10 DEF HookInv

LEMMA PolSteps ==
    ASSUME Hook!HookParameters, HookInv, NEW g \in Goroutines, Hook!RecordLocal(g) \/ Hook!Mark(g)
    PROVE  HookInv'
<1>1. /\ UNCHANGED <<tip, blk, observed>> /\ UNCHANGED <<rec, lastFinalized>>
      /\ UNCHANGED <<bal, debited, bonded, unbond, lost>> /\ UNCHANGED <<cert, conflict, observed>>
      /\ pc[g] \in {"record", "mark"} /\ \E s \in {"mark", "track"} : pc' = [pc EXCEPT ![g] = s]
      /\ local' \subseteq local \cup {blk[g]} /\ published' \subseteq published \cup {blk[g]}
  BY DEF Hook!RecordLocal, Hook!Mark, Hook!MarkPublished, Hook!Goto, Hook!finVars, Hook!stakeVars
<1>2. ChainOK' /\ FinOK' /\ StakeOK'
  BY <1>1, ChainGoes, FinSame, StakeSame DEF HookInv
<1>3. blk[g] \in Hook!Heights
  BY <1>1, HookConstants DEF HookInv, ChainOK
<1>4. PolOK'
  BY <1>1, <1>3 DEF HookInv, PolOK
<1> QED
  BY <1>2, <1>4 DEF HookInv

LEMMA FinSteps ==
    ASSUME Hook!HookParameters, HookInv, NEW g \in Goroutines, Hook!Track(g) \/ Hook!UpdateTip(g)
    PROVE  HookInv'
<1> DEFINE T == {"none", "pending", "confirmed", "finalized"}
<1>1. /\ UNCHANGED <<tip, blk, observed>> /\ UNCHANGED <<bal, debited, bonded, unbond, lost>>
      /\ UNCHANGED <<local, published, cert, conflict, observed>>
      /\ pc[g] \in {"track", "tip"} /\ \E s \in {"tip", "idle"} : pc' = [pc EXCEPT ![g] = s]
  BY DEF Hook!Track, Hook!UpdateTip, Hook!Goto, Hook!polVars, Hook!stakeVars
<1>2. ChainOK' /\ PolOK' /\ StakeOK'
  BY <1>1, ChainGoes, PolSame, StakeSame DEF HookInv
<1>3. MaxHeight \in Nat /\ Hook!Heights = 1..MaxHeight /\ blk[g] \in Hook!Heights /\ FinOK
  BY <1>1, HookConstants DEF HookInv, ChainOK
<1>4. CASE Hook!Track(g)
  <2>1. rec' = [rec EXCEPT ![blk[g]] = [status |-> "pending", conf |-> 0]] /\ lastFinalized' = lastFinalized
    BY <1>4 DEF Hook!Track
  <2>2. [status |-> "pending", conf |-> 0] \in [status : T, conf : 0..MaxHeight]
    BY <1>3
  <2> HIDE DEF T
  <2>3. rec' \in [Hook!Heights -> [status : T, conf : 0..MaxHeight]]
    BY <1>3, <2>1, <2>2 DEF FinOK, T
  <2> QED
    BY <1>2, <1>3, <2>1, <2>3 DEF FinOK, HookInv, T
<1>5. CASE Hook!UpdateTip(g)
  <2>1. ASSUME NEW h \in Hook!Heights
        PROVE  Hook!Advanced(h, rec[h], blk[g]) \in [status : T, conf : 0..MaxHeight]
    <3>1. rec[h].status \in T /\ rec[h].conf \in 0..MaxHeight
      BY <1>3 DEF FinOK
    <3>2. h \in 1..MaxHeight /\ blk[g] \in 1..MaxHeight
      BY <1>3
    <3>3. (IF blk[g] >= h THEN blk[g] - h ELSE rec[h].conf) \in 0..MaxHeight
      BY <1>3, <3>1, <3>2
    <3> QED
      BY <3>1, <3>3 DEF Hook!Advanced
  <2>2. rec' \in [Hook!Heights -> [status : T, conf : 0..MaxHeight]]
    BY <1>3, <1>5, <2>1 DEF Hook!UpdateTip, FinOK
  <2> DEFINE S == {lastFinalized} \cup
                    {h \in Hook!Heights : rec'[h].status = "finalized" /\ rec[h].status # "finalized"}
  <2>3. S \subseteq 0..MaxHeight /\ S # {} /\ S \subseteq Int
    BY <1>3 DEF FinOK
  <2>4. IsFiniteSet(S)
    <3>1. IsFiniteSet(0..MaxHeight)
      BY <1>3, FS_Interval
    <3> HIDE DEF S
    <3> QED
      BY <2>3, <3>1, FS_Subset
  <2>5. lastFinalized' = Hook!Max(S)
    BY <1>5 DEF Hook!UpdateTip
  <2> HIDE DEF S, T
  <2>6. lastFinalized' \in 0..MaxHeight
    BY <2>3, <2>4, <2>5, HookMax
  <2>7. FinOK'
    BY <2>2, <2>6 DEF FinOK, T, Hook!Heights
  <2> QED
    BY <1>2, <2>7 DEF HookInv
<1> QED
  BY <1>4, <1>5

LEMMA IngestStep ==
    ASSUME Hook!HookParameters, HookInv, NEW h \in Hook!Heights, NEW root \in Hook!Roots,
           Hook!IngestRoundCertificate(h, root)
    PROVE  HookInv'
<1>1. /\ UNCHANGED <<tip, pc, blk>> /\ UNCHANGED <<rec, lastFinalized>>
      /\ UNCHANGED <<bal, debited, bonded, unbond, lost>> /\ h <= tip + Ahead
  BY DEF Hook!IngestRoundCertificate, Hook!chainVars, Hook!finVars, Hook!stakeVars
<1>2. FinOK' /\ StakeOK'
  BY <1>1, FinSame, StakeSame DEF HookInv
<1>3. MaxHeight \in Nat /\ Hook!Heights = 1..MaxHeight /\ PolOK /\ ChainOK
  BY HookConstants DEF HookInv
<1>4. CASE (h \in local /\ root # "own") \/ (cert[h] # "none" /\ cert[h] # root)
  <2>1. conflict' = conflict \cup {h} /\ UNCHANGED <<local, published, cert, observed>>
    BY <1>4 DEF Hook!IngestRoundCertificate
  <2>2. PolOK' /\ ChainOK'
    BY <1>1, <1>3, <2>1, ChainSame DEF PolOK
  <2> QED
    BY <1>2, <2>2 DEF HookInv
<1>5. CASE ~((h \in local /\ root # "own") \/ (cert[h] # "none" /\ cert[h] # root))
  <2> DEFINE o == Hook!Max({observed, h})
  <2>1. /\ observed' = o
        /\ cert' = [k \in Hook!Heights |-> IF k \in Hook!Pruned(o) THEN "none" ELSE IF k = h THEN root ELSE cert[k]]
        /\ local' \subseteq local /\ published' \subseteq published /\ conflict' \subseteq conflict
    BY <1>5 DEF Hook!IngestRoundCertificate
  <2>2. o \in {observed, h}
    <3>1. observed \in Int /\ h \in Int
      BY <1>3 DEF PolOK
    <3> QED
      BY <3>1, HookHigher
  <2> HIDE DEF o
  <2>3. observed' \in 0..MaxHeight /\ observed' <= tip + Ahead
    BY <1>1, <1>3, <2>1, <2>2 DEF PolOK, ChainOK
  <2>4. cert' \in [Hook!Heights -> Hook!Roots \cup {"none"}]
    BY <1>3, <2>1 DEF PolOK
  <2>5. PolOK' /\ ChainOK'
    BY <1>1, <1>3, <2>1, <2>3, <2>4 DEF PolOK, ChainOK
  <2> QED
    BY <1>2, <2>5 DEF HookInv
<1> QED
  BY <1>4, <1>5

\* A slash takes at most the bond.
LEMMA HookSlash ==
    ASSUME Hook!HookParameters, NEW s \in Nat
    PROVE  (s * HookNum) \div HookDen \in 0..s
<1>1. HookNum \in Nat /\ HookDen \in Nat \ {0} /\ HookNum <= HookDen
  BY DEF Hook!HookParameters
<1> DEFINE n == s * HookNum
           q == n \div HookDen
<1>2. n \in Nat /\ n <= s * HookDen /\ s * HookDen \in Nat
  BY <1>1
<1> HIDE DEF n
<1>3. q \in Nat /\ HookDen * q <= n
  BY <1>1, <1>2
<1> HIDE DEF q
<1>4. q <= s
  <2> SUFFICES ASSUME q >= s + 1 PROVE FALSE
    BY <1>3
  <2>1. HookDen * q >= HookDen * (s + 1)
    BY <1>1, <1>3
  <2>2. HookDen * (s + 1) = s * HookDen + HookDen
    BY <1>1
  <2>3. HookDen * q \in Nat
    BY <1>1, <1>3
  <2> QED
    BY <1>1, <1>2, <1>3, <2>1, <2>2, <2>3
<1> QED
  BY <1>3, <1>4 DEF q, n

LEMMA StakingSteps ==
    ASSUME Hook!HookParameters, HookInv,
           Hook!DelegateDebit \/ Hook!DelegateBond \/ Hook!BeginUnbond \/ Hook!SlashDelegated
    PROVE  HookInv'
<1> DEFINE M == Hook!MatureHeights
           all == SumFunctionOnSet(unbond, M)
<1>1. /\ UNCHANGED <<tip, pc, blk, observed>> /\ UNCHANGED <<rec, lastFinalized>>
      /\ UNCHANGED <<local, published, cert, conflict, observed>>
  BY DEF Hook!DelegateDebit, Hook!DelegateBond, Hook!BeginUnbond, Hook!SlashDelegated, Hook!chainVars,
         Hook!finVars, Hook!polVars
<1>2. ChainOK' /\ FinOK' /\ PolOK'
  BY <1>1, ChainSame, FinSame, PolSame DEF HookInv
<1>3. /\ bal \in Nat /\ debited \in Nat /\ bonded \in Nat /\ lost \in Nat /\ unbond \in [M -> Nat]
      /\ bal + debited + bonded + all + lost = Funds
  BY DEF HookInv, StakeOK
<1>4. IsFiniteSet(M) /\ all \in Nat
  <2>1. IsFiniteSet(M) /\ \A k \in M : unbond[k] \in Nat
    BY <1>3, HookConstants
  <2> HIDE DEF M
  <2> QED
    BY <2>1, SumNat
\* It suffices to say where the dust went.
<1>5. ASSUME bal' \in Nat, debited' \in Nat, bonded' \in Nat, lost' \in Nat, unbond' \in [M -> Nat],
             bal' + debited' + bonded' + SumFunctionOnSet(unbond', M) + lost' = bal + debited + bonded + all + lost
      PROVE  HookInv'
  <2>1. StakeOK'
    BY <1>3, <1>5 DEF StakeOK, Hook!MatureHeights
  <2> QED
    BY <1>2, <2>1 DEF HookInv
<1>6. CASE Hook!DelegateDebit
  <2>1. PICK a \in 1..bal : bal' = bal - a /\ debited' = a
    BY <1>6 DEF Hook!DelegateDebit
  <2>2. UNCHANGED <<bonded, unbond, lost>> /\ debited = 0
    BY <1>6 DEF Hook!DelegateDebit
  <2>3. SumFunctionOnSet(unbond', M) = all
    BY <2>2
  <2> HIDE DEF all, M
  <2> QED
    BY <1>3, <1>4, <1>5, <2>1, <2>2, <2>3
<1>7. CASE Hook!DelegateBond
  <2>1. debited' = 0 /\ bonded' = bonded + debited /\ UNCHANGED <<bal, unbond, lost>>
    BY <1>7 DEF Hook!DelegateBond
  <2>2. SumFunctionOnSet(unbond', M) = all
    BY <2>1
  <2> HIDE DEF all, M
  <2> QED
    BY <1>3, <1>4, <1>5, <2>1, <2>2
<1>8. CASE Hook!BeginUnbond
  <2> DEFINE t == tip + UnbondBlocks
  <2>1. PICK a \in 1..bonded : bonded' = bonded - a /\ unbond' = [unbond EXCEPT ![t] = @ + a]
    BY <1>8 DEF Hook!BeginUnbond
  <2>2. UNCHANGED <<bal, debited, lost>>
    BY <1>8 DEF Hook!BeginUnbond
  <2>3. t \in M
    BY HookConstants DEF HookInv, ChainOK
  <2>a. a \in Nat /\ a <= bonded
    BY <1>3, <2>1
  <2> HIDE DEF t, M
  <2>4. /\ unbond' \in [M -> Nat] /\ unbond'[t] = unbond[t] + a /\ unbond[t] \in Nat
        /\ \A y \in M : unbond[y] \in Nat /\ unbond'[y] \in Nat
        /\ \A y \in M : y # t => unbond[y] = unbond'[y]
    BY <1>3, <2>1, <2>3, <2>a
  <2>5. SumFunctionOnSet(unbond', M) = SumFunctionOnSet(unbond, M) - unbond[t] + unbond'[t]
    BY <1>4, <2>3, <2>4, SumChange
  <2>6. SumFunctionOnSet(unbond', M) = all + a
    <3>1. SumFunctionOnSet(unbond', M) = all - unbond[t] + unbond'[t]
      BY <2>5
    <3> HIDE DEF all
    <3> QED
      BY <1>4, <2>4, <2>a, <3>1
  <2> HIDE DEF all
  <2> QED
    BY <1>3, <1>4, <1>5, <2>1, <2>2, <2>4, <2>6, <2>a
<1>9. CASE Hook!SlashDelegated
  <2> DEFINE q == (bonded * HookNum) \div HookDen
  <2>1. bonded' = bonded - q /\ lost' = lost + (bonded - bonded') /\ UNCHANGED <<bal, debited, unbond>>
    BY <1>9 DEF Hook!SlashDelegated
  <2>2. q \in 0..bonded
    BY <1>3, HookSlash
  <2>3. SumFunctionOnSet(unbond', M) = all
    BY <2>1
  <2> HIDE DEF all, M, q
  <2> QED
    BY <1>3, <1>4, <1>5, <2>1, <2>2, <2>3
<1> QED
  BY <1>6, <1>7, <1>8, <1>9

LEMMA HookNext ==
    ASSUME Hook!HookParameters, HookInv, [Hook!Next]_(Hook!vars)
    PROVE  HookInv'
<1>1. CASE UNCHANGED Hook!vars
  <2>1. /\ UNCHANGED <<tip, pc, blk, observed>> /\ UNCHANGED <<rec, lastFinalized>>
        /\ UNCHANGED <<local, published, cert, conflict, observed>>
        /\ UNCHANGED <<bal, debited, bonded, unbond, lost>>
    BY <1>1 DEF Hook!vars
  <2> QED
    BY <2>1, ChainSame, FinSame, PolSame, StakeSame DEF HookInv
<1> QED
  BY <1>1, SealSteps, MatureStep, PolSteps, FinSteps, IngestStep, StakingSteps DEF Hook!Next, Hook!Hook

\* The inductive invariant of the hook.
THEOREM HookCorrect ==
    ASSUME Hook!HookParameters
    PROVE  Hook!Spec => []HookInv
<1>1. Hook!Init => HookInv
  BY HookInit
<1>2. HookInv /\ [Hook!Next]_(Hook!vars) => HookInv'
  BY HookNext
<1> QED
  BY <1>1, <1>2, PTL DEF Hook!Spec

\* Delegated stake is in the account, on its way, bonded, unbonding or slashed
\* (Delegate, BeginUnbond, SlashDelegated, ProcessCommittedHeight), for any funds,
\* unbonding window, slash fraction and number of goroutines that run the hook.
THEOREM StakeCorrect ==
    ASSUME Hook!HookParameters
    PROVE  Hook!Spec => []Hook!StakeInv
<1>1. HookInv => Hook!StakeInv
  <2> SUFFICES ASSUME HookInv PROVE Hook!StakeInv
    OBVIOUS
  <2> DEFINE M == Hook!MatureHeights
             all == SumFunctionOnSet(unbond, M)
  <2>1. /\ bal \in Nat /\ debited \in Nat /\ bonded \in Nat /\ lost \in Nat /\ unbond \in [M -> Nat]
        /\ bal + debited + bonded + all + lost = Funds /\ Funds \in Nat /\ IsFiniteSet(M)
    BY HookConstants DEF HookInv, StakeOK
  <2>2. Hook!StakeConserved
    <3>1. DOMAIN unbond = M
      BY <2>1
    <3>2. Hook!SumFunction(unbond) = all
      BY <3>1, HookSum DEF Hook!SumFunction
    <3> QED
      BY <2>1, <3>2 DEF Hook!StakeConserved
  <2> HIDE DEF M
  <2>3. all \in Nat
    BY <2>1, SumNat
  <2>4. ASSUME NEW k \in M PROVE unbond[k] \in 0..Funds
    <3> DEFINE rest == SumFunctionOnSet(unbond, M \ {k})
    <3>1. all = unbond[k] + rest
      BY <2>1, SumRemove
    <3>2. rest \in Nat
      <4>1. IsFiniteSet(M \ {k}) /\ \A x \in M \ {k} : unbond[x] \in Nat
        BY <2>1, FS_Subset
      <4> QED
        BY <4>1, SumNat
    <3>3. unbond[k] \in Nat
      BY <2>1
    <3> HIDE DEF rest, all
    <3> QED
      BY <2>1, <2>3, <3>1, <3>2, <3>3
  <2>5. unbond \in [M -> 0..Funds]
    BY <2>1, <2>4
  <2>6. bal \in 0..Funds /\ debited \in 0..Funds /\ bonded \in 0..Funds
    <3> HIDE DEF all
    <3> QED
      BY <2>1, <2>3
  <2>7. Hook!TypeOK
    BY <2>5, <2>6 DEF Hook!TypeOK, HookInv, ChainOK, PolOK, FinOK, M
  <2> QED
    BY <2>2, <2>7 DEF Hook!StakeInv
<1> QED
  BY <1>1, HookCorrect, PTL

\* The state in which a conflict stops the chain at height h.
Halted(h) == tip = h /\ h \in conflict /\ \A g \in Goroutines : pc[g] # "append"

\* Nothing leads out of it: the gate is closed, and pruning does not reach the
\* tip as no certificate is more than Retention heights above it.
LEMMA HaltedStays ==
    ASSUME Hook!HookParameters, Ahead <= Retention, HookInv, NEW h \in Hook!Heights, Halted(h),
           [Hook!Next]_(Hook!vars)
    PROVE  Halted(h)'
<1>0. /\ MaxHeight \in Nat /\ Hook!Heights = 1..MaxHeight /\ Ahead \in Nat /\ Retention \in Nat
      /\ PolOK /\ ChainOK /\ h \in 1..MaxHeight
  BY HookConstants DEF HookInv
<1>1. ASSUME NEW g \in Goroutines, Hook!PassGate(g) PROVE FALSE
  BY <1>0, <1>1 DEF Hook!PassGate, Hook!AllowFinalize, Halted
<1>2. ASSUME NEW g \in Goroutines, Hook!Append(g) PROVE FALSE
  BY <1>2 DEF Hook!Append, Halted
<1>3. ASSUME NEW g \in Goroutines, NEW s \in Stages \ {"append"}, pc' = [pc EXCEPT ![g] = s],
             UNCHANGED <<tip, conflict>>
      PROVE  Halted(h)'
  <2>1. \A k \in Goroutines : pc'[k] = IF k = g THEN s ELSE pc[k]
    BY <1>0, <1>3 DEF ChainOK
  <2> QED
    BY <1>3, <2>1 DEF Halted
<1>4. ASSUME NEW g \in Goroutines, Hook!Hook(g) PROVE Halted(h)'
  <2>1. \/ Hook!ReadLatest(g) \/ Hook!Mature(g) \/ Hook!RecordLocal(g) \/ Hook!Mark(g) \/ Hook!Track(g)
        \/ Hook!UpdateTip(g)
    BY <1>2, <1>4 DEF Hook!Hook
  <2>2. UNCHANGED <<tip, conflict>> /\ \E s \in Stages \ {"append"} : pc' = [pc EXCEPT ![g] = s]
    BY <2>1 DEF Hook!ReadLatest, Hook!Mature, Hook!RecordLocal, Hook!Mark, Hook!Track, Hook!UpdateTip,
                Hook!Goto, Hook!polVars, Stages
  <2> QED
    BY <1>3, <2>2
<1>5. ASSUME NEW k \in Hook!Heights, NEW root \in Hook!Roots, Hook!IngestRoundCertificate(k, root)
      PROVE  Halted(h)'
  <2>1. UNCHANGED <<tip, pc>> /\ k <= tip + Ahead
    BY <1>5 DEF Hook!IngestRoundCertificate, Hook!chainVars
  <2> DEFINE o == Hook!Max({observed, k})
  <2>2. conflict \subseteq conflict' \/ conflict' = conflict \ (local \cap Hook!Pruned(o))
    BY <1>5 DEF Hook!IngestRoundCertificate
  <2>3. o \in {observed, k}
    <3>1. observed \in Int /\ k \in Int
      BY <1>0 DEF PolOK
    <3> QED
      BY <3>1, HookHigher
  <2> HIDE DEF o
  <2>4. o <= h + Ahead /\ o \in Int
    BY <1>0, <2>1, <2>3 DEF PolOK, ChainOK, Halted
  <2>5. h \notin Hook!Pruned(o)
    BY <1>0, <2>4 DEF Hook!Pruned
  <2> QED
    BY <2>1, <2>2, <2>5 DEF Halted
<1>6. CASE Hook!DelegateDebit \/ Hook!DelegateBond \/ Hook!BeginUnbond \/ Hook!SlashDelegated
  BY <1>6 DEF Hook!DelegateDebit, Hook!DelegateBond, Hook!BeginUnbond, Hook!SlashDelegated, Hook!chainVars,
              Hook!polVars, Halted
<1>7. CASE UNCHANGED Hook!vars
  BY <1>7 DEF Hook!vars, Halted
<1> QED
  BY <1>1, <1>4, <1>5, <1>6, <1>7 DEF Hook!Next

\* A conflict at the tip stops the chain for good (allowFinalizeCoreLocked, the
\* POL gate), for any number of goroutines, heights and certificates, if these are
\* never more than Retention heights ahead.
THEOREM HaltCorrect ==
    ASSUME Hook!HookParameters, Ahead <= Retention
    PROVE  Hook!Spec => Hook!ConflictHalts
<1>1. ASSUME NEW h \in Hook!Heights
      PROVE  Hook!Spec => [](Halted(h) => [](tip = h))
  <2>1. HookInv /\ Halted(h) /\ [Hook!Next]_(Hook!vars) => Halted(h)'
    BY HaltedStays
  <2>2. Halted(h) => tip = h
    BY DEF Halted
  <2>3. Hook!Spec => []HookInv
    BY HookCorrect
  <2>4. Hook!Spec => [][Hook!Next]_(Hook!vars)
    BY PTL DEF Hook!Spec
  <2> QED
    BY <2>1, <2>2, <2>3, <2>4, PTL
<1>2. \A h \in Hook!Heights : Hook!Spec => [](Halted(h) => [](tip = h))
  BY <1>1
<1> QED
  BY <1>2 DEF Hook!ConflictHalts, Halted
=============================================================================

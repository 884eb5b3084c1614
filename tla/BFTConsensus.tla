---------------------------- MODULE BFTConsensus ----------------------------
(***************************************************************************)
(* The consensus engine of one node: pkg/chain/consensus.go, its gossip    *)
(* executor bft_executor.go, the evidence manager evidence.go, the         *)
(* validator set validator.go, and the round the node drives itself after  *)
(* it sealed a block (pkg/networking/pol_publish.go).                      *)
(*                                                                         *)
(* Every method holds bc.mu for its whole body, so a call is one step; the *)
(* inbound goroutine and the sealing goroutine interleave between calls.   *)
(* Peers may send any proposal and any vote, in any order, late and twice: *)
(* nothing in a message ties a vote to its round.                          *)
(* A vote value (the state root of a block) is a positive number.          *)
(***************************************************************************)
EXTENDS Integers, FiniteSets, FiniteSetsExt, Sequences, Functions

CONSTANTS
    Heights,
    Hashes,        \* vote values of all blocks
    Own,           \* vote values of the blocks this node seals
    Validators,    \* addresses, as numbers: they break ties of stake
    Stakes,        \* the stake each of them registers with
    Balances,      \* the stakes the accounts may stand for when a block is sealed
    SlashNum, SlashDen,  \* SlashFraction as a quotient
    Peers,         \* what gossip brings: kinds of "propose", "prevote", "precommit", "evidence"
    MaxRound,      \* bound: rounds per height
    MaxMoves       \* bound: changes of the validator set

Nil == 0           \* NilVoteHash
NoHash == -1
Votes == Hashes \cup {Nil}

ASSUME BFTAssumption ==
    /\ Hashes \subseteq Nat \ {0} /\ Own \subseteq Hashes /\ Validators \subseteq Nat /\ IsFiniteSet(Validators)
    /\ Stakes \in [Validators -> Nat \ {0}] /\ Balances \subseteq [Validators -> Nat \ {0}]
    /\ SlashNum \in Nat /\ SlashDen \in Nat \ {0} /\ SlashNum < SlashDen
    /\ MaxRound \in Nat /\ MaxMoves \in Nat

\* "elapsed" is a jailed validator whose JailedUntil has passed.
Status == {"active", "jailed", "elapsed"}

NoRound == [round |-> -1]
Rounds == [round : 0..MaxRound, proposer : Validators, hash : Hashes, polka : BOOLEAN,
           locked : Votes \cup {NoHash}, prevotes : [Validators -> Votes \cup {NoHash}],
           commits : [Validators -> Votes \cup {NoHash}], own : BOOLEAN, moved : BOOLEAN]
Commits == [hash : Hashes, locked : Votes \cup {NoHash}, moved : BOOLEAN]
Idle == [pc |-> "idle"]

VARIABLES
    rounds, committed, nextRound, carry,   \* BFTConsensus, by height
    stake, status,                         \* ValidatorSet
    records, slashes,                      \* EvidenceManager.records; SlashCount
    told,                                  \* BFTExecutor.commitNotified, with the value
    pending,                               \* BFTExecutor.pending: <<height, value>>
    sealed,                                \* BlockProducer.chain: the value of each height
    drv, inb,                              \* the sealing and the inbound goroutine
    moves                                  \* bound: changes of the validator set so far

roundVars == <<rounds, committed, nextRound, carry>>
setVars   == <<stake, status, records, slashes, moves>>
nodeVars  == <<told, pending, sealed>>
vars == <<rounds, committed, nextRound, carry, stake, status, records, slashes, told, pending,
          sealed, drv, inb, moves>>

Init ==
    /\ rounds = [h \in Heights |-> NoRound] /\ committed = [h \in Heights |-> NoRound]
    /\ nextRound = [h \in Heights |-> 0] /\ carry = [h \in Heights |-> NoHash]
    /\ stake = Stakes /\ status = [v \in Validators |-> "active"]
    /\ records = {} /\ slashes = [v \in Validators |-> 0]
    /\ told = [h \in Heights |-> NoHash] /\ pending = {} /\ sealed = [h \in Heights |-> NoHash]
    /\ drv = Idle /\ inb = Idle /\ moves = 0

----------------------------------------------------------------------------
(* The validator set                                                         *)

\* ActiveValidators: those out of jail although not unjailed count, too.
ActiveValidators == {v \in Validators : status[v] \in {"active", "elapsed"}}

\* The condition of Propose, PreVote and PreCommit.
MayAct(v) == status[v] = "active"

Total(S) == SumFunctionOnSet(stake, S)

\* At least two thirds of the stake of now.
Quorum(S) == 3 * Total(S \cap ActiveValidators) >= 2 * Total(ActiveValidators)

\* hasQuorum
HasQuorum(votes, x) == ActiveValidators # {} /\ Quorum({v \in Validators : votes[v] = x})

\* By stake, highest first, then by address.
Before(v, w) == stake[v] > stake[w] \/ (stake[v] = stake[w] /\ v < w)

ProposerForRound(r) ==
    CHOOSE v \in ActiveValidators :
        Cardinality({w \in ActiveValidators : Before(w, v)}) = r % Cardinality(ActiveValidators)

\* The validator set changes: open rounds see another quorum from now on.
Move ==
    /\ moves < MaxMoves /\ moves' = moves + 1
    /\ rounds' = [h \in Heights |-> IF rounds[h] = NoRound THEN NoRound
                                    ELSE [rounds[h] EXCEPT !.moved = TRUE]]
    /\ UNCHANGED <<committed, nextRound, carry>>

\* What is left of stake s after a slash.
Slashed(s) == s - (s * SlashNum) \div SlashDen

\* ValidatorSet.Slash
Slash(v) ==
    /\ stake' = [stake EXCEPT ![v] = Slashed(@)]
    /\ status' = [status EXCEPT ![v] = "jailed"]
    /\ slashes' = [slashes EXCEPT ![v] = @ + 1]

JailElapses(v) ==
    /\ status[v] = "jailed" /\ status' = [status EXCEPT ![v] = "elapsed"]
    /\ Move
    /\ UNCHANGED <<stake, records, slashes, nodeVars, drv, inb>>

\* SyncValidatorStakesFromCommittedTip, the last step of every OnSealed.
SyncStakes ==
    /\ stake' \in Balances \ {stake}
    /\ Move
    /\ UNCHANGED <<status, records, slashes, nodeVars, drv, inb>>

----------------------------------------------------------------------------
(* Evidence                                                                  *)

\* Mutant: the two values in the order in which they came.
UnsortedID(v, h, r, x, y) == [validator |-> v, height |-> h, round |-> r, hashes |-> <<x, y>>]

\* evidenceID sorts the values.
EvidenceID(v, h, r, x, y) ==
    [validator |-> v, height |-> h, round |-> r, hashes |-> IF x < y THEN <<x, y>> ELSE <<y, x>>]

\* EvidenceManager.Process of an equivocation: the record first, then the slash.
Process(v, h, r, x, y) ==
    IF EvidenceID(v, h, r, x, y) \in records
    THEN UNCHANGED <<setVars, roundVars>>
    ELSE records' = records \cup {EvidenceID(v, h, r, x, y)} /\ Slash(v) /\ Move

----------------------------------------------------------------------------
(* BFTConsensus                                                              *)

\* Mutant: a committed height may be proposed again.
ProposableAgain(h, r, p) ==
    rounds[h] = NoRound /\ ActiveValidators # {} /\ p = ProposerForRound(r) /\ MayAct(p)

\* The checks of Propose for a height that has no round.
Proposable(h, r, p) ==
    /\ committed[h] = NoRound /\ rounds[h] = NoRound
    /\ ActiveValidators # {} /\ p = ProposerForRound(r) /\ MayAct(p)

\* The round is there already, with this proposal.
SameProposal(h, r, p, x) ==
    rounds[h] # NoRound /\ rounds[h].round = r /\ rounds[h].proposer = p /\ rounds[h].hash = x

\* ProposerEquivocationError
Equivocates(h, r, p, x) ==
    /\ committed[h] = NoRound
    /\ rounds[h] # NoRound /\ rounds[h].round = r /\ rounds[h].proposer = p /\ rounds[h].hash # x

Opened(h, r, p, x, own) ==
    [round |-> r, proposer |-> p, hash |-> x, polka |-> FALSE,
     locked |-> IF r > 0 THEN carry[h] ELSE NoHash,
     prevotes |-> [v \in Validators |-> NoHash], commits |-> [v \in Validators |-> NoHash],
     own |-> own, moved |-> FALSE]

\* pickLockedPrevoteHash: at most one value has two thirds of a positive stake.
Polka(votes) ==
    {x \in Votes : Total(ActiveValidators) > 0 /\ Quorum({v \in Validators : votes[v] = x})}

CanPreVote(h, v) == rounds[h] # NoRound /\ MayAct(v) /\ rounds[h].prevotes[v] = NoHash

PreVote(h, v, x) ==
    LET votes == [rounds[h].prevotes EXCEPT ![v] = x]
        polka == Polka(votes)
        cr == [rounds[h] EXCEPT !.prevotes = votes] IN
    /\ rounds' = [rounds EXCEPT ![h] =
                   IF polka = {} THEN cr
                   ELSE [cr EXCEPT !.polka = TRUE, !.locked = CHOOSE y \in polka : TRUE]]
    /\ carry' = IF polka = {Nil} THEN [carry EXCEPT ![h] = NoHash] ELSE carry
    /\ UNCHANGED <<committed, nextRound>>

\* Mutant: a precommit need not be for the locked value.
AnyValue(cr, x) == TRUE

\* validatePreCommitAgainstLock
AgreesWithLock(cr, x) == cr.locked = NoHash \/ x = Nil \/ x = cr.locked

CanPreCommit(h, v, x) ==
    /\ rounds[h] # NoRound /\ rounds[h].polka
    /\ AgreesWithLock(rounds[h], x)
    /\ MayAct(v) /\ rounds[h].commits[v] = NoHash

PreCommit(h, v, x) ==
    LET cr == [rounds[h] EXCEPT !.commits[v] = x] IN
    IF HasQuorum(cr.commits, cr.hash)
    THEN /\ committed' = [committed EXCEPT ![h] =
                          [hash |-> cr.hash, locked |-> cr.locked, moved |-> cr.moved]]
         /\ rounds' = [rounds EXCEPT ![h] = NoRound]
         /\ nextRound' = [nextRound EXCEPT ![h] = 0]
         /\ carry' = [carry EXCEPT ![h] = NoHash]
    ELSE rounds' = [rounds EXCEPT ![h] = cr] /\ UNCHANGED <<committed, nextRound, carry>>

\* FailRound: the lock is carried into the next round.
FailRound(h) ==
    IF rounds[h] = NoRound THEN UNCHANGED roundVars
    ELSE /\ rounds' = [rounds EXCEPT ![h] = NoRound]
         /\ nextRound' = [nextRound EXCEPT ![h] = rounds[h].round + 1]
         /\ carry' = IF rounds[h].locked = NoHash THEN carry
                     ELSE [carry EXCEPT ![h] = rounds[h].locked]
         /\ UNCHANGED committed

----------------------------------------------------------------------------
(* The commit callback                                                       *)

\* checkCommitted, maybeNotifyCommit and the callback: a body that gossip
\* brought is appended if the height is free (the append may still fail).
Notify(h) ==
    IF committed[h] = NoRound \/ told[h] # NoHash THEN UNCHANGED nodeVars
    ELSE LET x == committed[h].hash IN
         /\ told' = [told EXCEPT ![h] = x]
         /\ \/ /\ <<h, x>> \in pending /\ sealed[h] \in {NoHash, x}
               /\ sealed' = [sealed EXCEPT ![h] = x]
               /\ pending' = {q \in pending : q[1] # h}
            \/ UNCHANGED <<sealed, pending>>

----------------------------------------------------------------------------
(* BFTExecutor.ApplyInbound                                                  *)

ReceivePropose(h, r, p, x) ==
    /\ "propose" \in Peers /\ inb = Idle
    /\ \/ /\ Proposable(h, r, p)
          /\ rounds' = [rounds EXCEPT ![h] = Opened(h, r, p, x, FALSE)]
          /\ pending' = pending \cup {<<h, x>>}
          /\ UNCHANGED <<committed, nextRound, carry, setVars>>
       \/ /\ committed[h] = NoRound /\ SameProposal(h, r, p, x) /\ <<h, x>> \notin pending
          /\ pending' = pending \cup {<<h, x>>}
          /\ UNCHANGED <<roundVars, setVars>>
       \/ /\ Equivocates(h, r, p, x)
          /\ Process(p, h, r, rounds[h].hash, x)
          /\ UNCHANGED pending
    /\ UNCHANGED <<told, sealed, drv, inb>>

ReceivePrevote(h, v, x) ==
    /\ "prevote" \in Peers /\ inb = Idle
    /\ CanPreVote(h, v) /\ PreVote(h, v, x)
    /\ UNCHANGED <<setVars, nodeVars, drv, inb>>

\* A precommit that was accepted is followed by checkCommitted.
ReceivePrecommit(h, v, x) ==
    /\ "precommit" \in Peers /\ inb = Idle
    /\ CanPreCommit(h, v, x) /\ PreCommit(h, v, x)
    /\ inb' = [pc |-> "check", h |-> h]
    /\ UNCHANGED <<setVars, nodeVars, drv>>

CheckCommitted ==
    /\ inb # Idle /\ inb' = Idle
    /\ Notify(inb.h)
    /\ UNCHANGED <<roundVars, setVars, drv>>

\* EvidenceGossipIngress: a peer passes evidence on.
ReceiveEvidence(v, h, r, x, y) ==
    /\ "evidence" \in Peers /\ x # y
    /\ EvidenceID(v, h, r, x, y) \notin records
    /\ Process(v, h, r, x, y)
    /\ UNCHANGED <<nodeVars, drv, inb>>

----------------------------------------------------------------------------
(* PublishPolAfterBlockSeal: the node votes for every active validator.      *)

\* The node seals a block (or appends one); its OnSealed begins.
Seal(h, x) ==
    /\ drv = Idle /\ sealed[h] = NoHash
    /\ \A k \in Heights : k < h => sealed[k] # NoHash
    /\ sealed' = [sealed EXCEPT ![h] = x]
    /\ drv' = [pc |-> "choose", h |-> h, x |-> x]
    /\ UNCHANGED <<roundVars, setVars, told, pending, inb>>

\* The hook is done with the height; OnSealed then drops its pending bodies.
Done == drv' = Idle /\ pending' = {q \in pending : q[1] # drv.h}

\* Already committed, or no proposer: nothing to drive.
PublishNothing ==
    /\ drv.pc = "choose" /\ (committed[drv.h] # NoRound \/ ActiveValidators = {})
    /\ IF committed[drv.h] # NoRound THEN Notify(drv.h) /\ drv' = [drv EXCEPT !.pc = "prune"]
                                     ELSE Done /\ UNCHANGED <<told, sealed>>
    /\ UNCHANGED <<roundVars, setVars, inb>>

Prune ==
    /\ drv.pc = "prune" /\ Done
    /\ UNCHANGED <<roundVars, setVars, told, sealed, inb>>

ChooseProposer ==
    /\ drv.pc = "choose" /\ committed[drv.h] = NoRound /\ ActiveValidators # {}
    /\ nextRound[drv.h] <= MaxRound
    /\ drv' = [pc |-> "propose", h |-> drv.h, x |-> drv.x, r |-> nextRound[drv.h],
               p |-> ProposerForRound(nextRound[drv.h])]
    /\ UNCHANGED <<roundVars, setVars, nodeVars, inb>>

\* The snapshot of the validators that a loop of the hook goes over.
Loop(pc) == drv' = [pc |-> pc, h |-> drv.h, x |-> drv.x, todo |-> {v \in Validators : MayAct(v)}]

DrivePropose ==
    /\ drv.pc = "propose"
    /\ \/ /\ Proposable(drv.h, drv.r, drv.p)
          /\ rounds' = [rounds EXCEPT ![drv.h] = Opened(drv.h, drv.r, drv.p, drv.x, TRUE)]
          /\ Loop("prevote") /\ UNCHANGED pending
       \/ /\ committed[drv.h] = NoRound /\ SameProposal(drv.h, drv.r, drv.p, drv.x)
          /\ rounds' = [rounds EXCEPT ![drv.h].own = TRUE]
          /\ Loop("prevote") /\ UNCHANGED pending
       \/ /\ ~Proposable(drv.h, drv.r, drv.p)
          /\ ~(committed[drv.h] = NoRound /\ SameProposal(drv.h, drv.r, drv.p, drv.x))
          /\ Done /\ UNCHANGED rounds
    /\ UNCHANGED <<committed, nextRound, carry, setVars, told, sealed, inb>>

\* One prevote of the loop; an error is only logged.
DrivePrevote ==
    /\ drv.pc = "prevote" /\ drv.todo # {}
    /\ \E v \in drv.todo :
        /\ drv' = [drv EXCEPT !.todo = @ \ {v}]
        /\ IF CanPreVote(drv.h, v) THEN PreVote(drv.h, v, drv.x) ELSE UNCHANGED roundVars
    /\ UNCHANGED <<setVars, nodeVars, inb>>

\* BuildPrevoteLockProof finds a lock.
HasLock(h) ==
    \/ rounds[h] # NoRound /\ rounds[h].locked # NoHash
    \/ rounds[h] = NoRound /\ committed[h] # NoRound /\ committed[h].locked # NoHash

\* The round has no lock: it is given up.
GiveUpRound(h) == FailRound(h)

BuildLockProof ==
    /\ drv.pc = "prevote" /\ drv.todo = {}
    /\ IF HasLock(drv.h)
       THEN Loop("precommit") /\ UNCHANGED <<roundVars, pending>>
       ELSE GiveUpRound(drv.h) /\ Done
    /\ UNCHANGED <<setVars, told, sealed, inb>>

DrivePrecommit ==
    /\ drv.pc = "precommit" /\ drv.todo # {}
    /\ \E v \in drv.todo :
        /\ drv' = [drv EXCEPT !.todo = @ \ {v}]
        /\ IF CanPreCommit(drv.h, v, drv.x) THEN PreCommit(drv.h, v, drv.x) ELSE UNCHANGED roundVars
    /\ UNCHANGED <<setVars, nodeVars, inb>>

\* Mutant: the hook leaves telling of the commit to the inbound goroutine.
NotifyNobody(h) == UNCHANGED nodeVars

\* NotifyFromConsensus
NotifyFromConsensus(h) == Notify(h)

DriveNotify ==
    /\ drv.pc = "precommit" /\ drv.todo = {}
    /\ NotifyFromConsensus(drv.h)
    /\ drv' = [pc |-> "finish", h |-> drv.h]
    /\ UNCHANGED <<roundVars, setVars, inb>>

\* The certificate is published; a round that did not commit is given up.
DriveFinish ==
    /\ drv.pc = "finish"
    /\ IF committed[drv.h] = NoRound THEN FailRound(drv.h) ELSE UNCHANGED roundVars
    /\ Done
    /\ UNCHANGED <<setVars, told, sealed, inb>>

----------------------------------------------------------------------------
Drive ==
    \/ PublishNothing \/ Prune \/ ChooseProposer \/ DrivePropose \/ DrivePrevote
    \/ BuildLockProof \/ DrivePrecommit \/ DriveNotify \/ DriveFinish

Gossip ==
    \E h \in Heights, v \in Validators :
        \/ \E r \in 0..MaxRound, x \in Hashes : ReceivePropose(h, r, v, x)
        \/ \E x \in Votes : ReceivePrevote(h, v, x) \/ ReceivePrecommit(h, v, x)
        \/ \E r \in 0..MaxRound, x, y \in Hashes : ReceiveEvidence(v, h, r, x, y)

Next ==
    \/ Gossip \/ CheckCommitted \/ Drive
    \/ \E h \in Heights, x \in Own : Seal(h, x)
    \/ \E v \in Validators : JailElapses(v)
    \/ SyncStakes

Spec == Init /\ [][Next]_vars

\* Both goroutines go on with what they have begun.
FairSpec == Spec /\ WF_vars(Drive) /\ WF_vars(CheckCommitted)

----------------------------------------------------------------------------
(* Properties *)

\* Every variable has the shape the code gives it; a slash leaves some stake,
\* without which pickLockedPrevoteHash would never lock anything.
TypeOK ==
    /\ rounds \in [Heights -> Rounds \cup {NoRound}] /\ committed \in [Heights -> Commits \cup {NoRound}]
    /\ nextRound \in [Heights -> 0..MaxRound + 1] /\ carry \in [Heights -> Votes \cup {NoHash}]
    /\ stake \in [Validators -> Nat \ {0}] /\ status \in [Validators -> Status]
    /\ slashes \in [Validators -> Nat] /\ told \in [Heights -> Hashes \cup {NoHash}]
    /\ pending \subseteq Heights \X Hashes /\ sealed \in [Heights -> Hashes \cup {NoHash}]
    /\ moves \in 0..MaxMoves

\* The decision of a height and what the callback heard, as Agreement sees them.
Decided == [h \in Heights |-> IF committed[h] = NoRound THEN NoHash ELSE committed[h].hash]

A == INSTANCE Agreement WITH decided <- Decided

\* One value per height, decided once and told once, whatever votes and
\* proposals arrive late, twice or for another round, and whichever goroutine
\* commits: BFTConsensus with its executor implements Agreement.
ImplementsAgreement == A!Spec

\* A committed value was the locked one: two thirds of the stake prevoted it.
\* Only when the validator set moves during the round can a round commit a
\* value after its lock went to another (the quorum is of the stake of now).
CommittedIsLocked ==
    \A h \in Heights : committed[h] # NoRound =>
        committed[h].moved \/ committed[h].locked = committed[h].hash

\* One pair of conflicting proposals costs its proposer one slash, however
\* often and in whichever order gossip reports the two.
SlashedOncePerPair ==
    \A v \in Validators :
        slashes[v] <= Cardinality({<<e.height, e.round, Range(e.hashes)>> :
                                     e \in {f \in records : f.validator = v}})

\* The hook never leaves the round it drove open: nothing else would close it
\* and every later proposal of the height would be refused.
OwnRoundClosed == drv = Idle => \A h \in Heights : rounds[h] = NoRound \/ ~rounds[h].own

\* What rounds and commits satisfy: their types, a lock behind every commit,
\* and no round of the node's own left open.
RoundInv == TypeOK /\ CommittedIsLocked /\ OwnRoundClosed

\* Every commit reaches the callback.
CommitTold == \A h \in Heights : committed[h] # NoRound ~> told[h] # NoHash
=============================================================================

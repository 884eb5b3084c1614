----------------------------- MODULE Governance -----------------------------
(***************************************************************************)
(* On-chain governance: pkg/chain/gov_apply.go over the stores of          *)
(* pkg/governance/chainparams.  Authorities stage parameter changes and    *)
(* vote, M of N, on adding or removing an authority; the sealed-block hook *)
(* of internal/v2wiring promotes what is due and saves a snapshot.         *)
(*                                                                         *)
(* Transactions are applied one at a time under bp.mu; hooks run outside   *)
(* it, so when Overlap > 0 a hook may run while a vote is between reading  *)
(* the authority list and being recorded, and two hooks may run at once.   *)
(* Every store has a lock of its own: a step of a hook is one call of a    *)
(* store.  A refused transaction changes no store and is no step; its fee  *)
(* is an account matter (MiningLedger).  Addresses are numbers, ordered as *)
(* their strings are.                                                      *)
(***************************************************************************)
EXTENDS Integers, FiniteSets

CONSTANTS
    Addresses,
    Configured,          \* Config.GovernanceAuthorities
    Params,
    Values,              \* staged values, within the bounds of the registry
    DefaultValue,
    MaxActivationDelay,
    Overlap,             \* how many other goroutines may be inside a hook
    MaxTxs,              \* bound: governance transactions
    TxHorizon,           \* bound: no transaction above this tip
    MaxHeight,           \* bound: last block, and no restart at the last two
    MaxStops,            \* bound: restarts and failed snapshots
    None

Heights == 1 .. MaxHeight
EffectiveHeights == 1 .. TxHorizon + MaxActivationDelay
Keys == [op : {"add", "remove"}, address : Addresses, height : EffectiveHeights]
Changes == [value : Values, height : EffectiveHeights]

ASSUME GovAssumption ==
    /\ Addresses \subseteq Nat /\ IsFiniteSet(Addresses)
    /\ Configured \subseteq Addresses /\ Configured # {}
    /\ None \notin Changes
    /\ MaxActivationDelay \in Nat /\ Overlap \in Nat /\ MaxTxs \in Nat
    /\ MaxHeight \in Nat /\ TxHorizon \in Nat /\ MaxStops \in Nat

VARIABLES
    authorities,  \* GovApplier.authoritySet
    votes,        \* votes[k]: who voted for proposal k; {} is no such proposal
    crossed,      \* proposals that reached their threshold
    active,       \* InMemoryParamStore.active
    pending,      \* InMemoryParamStore.pending, or None
    applying,     \* the vote between its checks and RecordVote, or None
    tip,
    hooks,        \* what the hook of every sealed block is doing
    disk,         \* the snapshot file
    sent,         \* transactions applied so far
    stops,        \* restarts and failed snapshots so far
    orderly       \* history: no vote raced a change of the list, no restart

lists == <<authorities, votes, crossed>>
params == <<active, pending>>
vars == <<lists, params, applying, tip, hooks, disk, sent, stops, orderly>>

Snapshot == [votes |-> votes, crossed |-> crossed, active |-> active, pending |-> pending]
Over == [at |-> "over"]

Init ==
    /\ authorities = Configured
    /\ votes = [k \in Keys |-> {}]
    /\ crossed = {}
    /\ active = [p \in Params |-> DefaultValue]
    /\ pending = [p \in Params |-> None]
    /\ applying = None
    /\ tip = 0
    /\ hooks = [h \in Heights |-> Over]
    /\ disk = Snapshot
    /\ sent = 0
    /\ stops = 0
    /\ orderly = TRUE

-----------------------------------------------------------------------------
(* The authority list and its votes.                                       *)

AuthorityThreshold(n) == IF n = 0 THEN 0 ELSE IF n = 1 THEN 1 ELSE n \div 2 + 1

\* authorityMu is held by the hook that is changing the list.
ListFree == \A h \in Heights : hooks[h].at # "list"

\* sortProposals
Before(j, k) ==
    \/ j.height < k.height
    \/ j.height = k.height /\ j.op = "add" /\ k.op = "remove"
    \/ j.height = k.height /\ j.op = k.op /\ j.address < k.address

IsFirst(k, S) == k \in S /\ \A j \in S \ {k} : Before(k, j)

Running == {h \in Heights : hooks[h] # Over}

\* bp.mu is free for the next transaction.
Ready(a) ==
    /\ applying = None /\ tip < TxHorizon /\ Cardinality(Running) <= Overlap
    /\ sent < MaxTxs /\ ListFree /\ a \in authorities

\* The transaction is applied at height tip + 1.
InWindow(height) == tip + 1 <= height /\ height <= tip + 1 + MaxActivationDelay

\* applyAuthoritySet up to RecordVote; n is the size of the list it read.
BeginVote(a, k) ==
    /\ Ready(a)
    /\ k.op = "add" <=> k.address \notin authorities
    /\ InWindow(k.height)
    /\ applying' = [voter |-> a, key |-> k, n |-> Cardinality(authorities), list |-> authorities]
    /\ UNCHANGED <<lists, params, tip, hooks, disk, sent, stops, orderly>>

\* RecordVote; a second vote of one authority is refused.
RecordVote ==
    LET k == applying.key
        voters == votes[k] \cup {applying.voter}
    IN  /\ applying # None
        /\ votes' = [votes EXCEPT ![k] = voters]
        /\ crossed' = IF /\ applying.voter \notin votes[k]
                         /\ Cardinality(voters) >= AuthorityThreshold(applying.n)
                      THEN crossed \cup {k} ELSE crossed
        /\ sent' = sent + 1
        /\ orderly' = (orderly /\ authorities = applying.list)
        /\ applying' = None
        /\ UNCHANGED <<authorities, params, tip, hooks, disk, stops>>

\* applyParamSet: one pending change per parameter, the last one stands.
StageParam(a, p, c) ==
    /\ Ready(a)
    /\ InWindow(c.height)
    /\ pending' = [pending EXCEPT ![p] = c]
    /\ sent' = sent + 1
    /\ UNCHANGED <<lists, active, applying, tip, hooks, disk, stops, orderly>>

\* The last block of the model waits for the hooks before it.
SealBlock ==
    /\ applying = None /\ tip < MaxHeight
    /\ Cardinality(Running) <= IF tip + 1 = MaxHeight THEN 0 ELSE Overlap
    /\ tip' = tip + 1
    /\ hooks' = [hooks EXCEPT ![tip + 1] = [at |-> "params"]]
    /\ UNCHANGED <<lists, params, applying, disk, sent, stops, orderly>>

-----------------------------------------------------------------------------
(* The hook of block h.                                                    *)

At(h, step) == hooks[h].at = step
Goes(h, to) == hooks' = [hooks EXCEPT ![h] = to]
Unmoved == UNCHANGED <<applying, tip, sent>>

\* Only what is due at this very block is promoted.
DueNow(height, h) == height = h

\* ParamStore.Promote and AuthorityVotes.Promote compare in the same way.
Due(height, h) == height <= h

PromoteParams(h) ==
    LET due == {p \in Params : pending[p] # None /\ Due(pending[p].height, h)}
    IN  /\ At(h, "params")
        /\ active' = [p \in Params |-> IF p \in due THEN pending[p].value ELSE active[p]]
        /\ pending' = [p \in Params |-> IF p \in due THEN None ELSE pending[p]]
        /\ Goes(h, [at |-> "votes"])
        /\ UNCHANGED <<lists, disk, stops, orderly>> /\ Unmoved

\* Takes the due proposals out of the store.
PromoteVotes(h) ==
    LET due == {k \in crossed : Due(k.height, h)}
    IN  /\ At(h, "votes")
        /\ votes' = [k \in Keys |-> IF k \in due THEN {} ELSE votes[k]]
        /\ crossed' = crossed \ due
        /\ Goes(h, IF due = {} THEN [at |-> "save"]
                   ELSE [at |-> "wait", due |-> due, removed |-> {}])
        /\ UNCHANGED <<authorities, params, disk, stops, orderly>> /\ Unmoved

LockList(h) ==
    /\ At(h, "wait") /\ ListFree
    /\ Goes(h, [hooks[h] EXCEPT !.at = "list"])
    /\ UNCHANGED <<lists, params, disk, stops, orderly>> /\ Unmoved

\* Any removal is carried out.
WouldEmptyNever(S) == FALSE

WouldEmpty(S) == Cardinality(S) <= 1

\* One due proposal after the other, in order; a removal that would leave
\* nobody is dropped.
ChangeList(h) ==
    /\ At(h, "list")
    /\ \E k \in hooks[h].due :
        LET refused == k.op = "remove" /\ WouldEmpty(authorities)
        IN  /\ IsFirst(k, hooks[h].due)
            /\ authorities' = IF k.op = "add" THEN authorities \cup {k.address}
                              ELSE IF refused THEN authorities
                              ELSE authorities \ {k.address}
            /\ Goes(h, [hooks[h] EXCEPT !.due = @ \ {k},
                            !.removed = IF k.op = "remove" /\ ~refused THEN @ \cup {k} ELSE @])
    /\ UNCHANGED <<votes, crossed, params, disk, stops, orderly>> /\ Unmoved

\* The list is done; its size is what RecomputeCrossed will go by.
UnlockList(h) ==
    /\ At(h, "list") /\ hooks[h].due = {}
    /\ Goes(h, IF hooks[h].removed = {} THEN [at |-> "save"]
               ELSE [at |-> "drop", removed |-> hooks[h].removed,
                     count |-> Cardinality(authorities)])
    /\ UNCHANGED <<lists, params, disk, stops, orderly>> /\ Unmoved

\* The votes of a removed authority stay.
Kept(voters, a) == voters

WithoutVoter(voters, a) == voters \ {a}

\* DropVotesByAuthority for the first removal left; crossed proposals keep
\* their voters.
DropVotes(h) ==
    /\ At(h, "drop")
    /\ \E k \in hooks[h].removed :
        /\ IsFirst(k, hooks[h].removed)
        /\ votes' = [j \in Keys |-> IF j \in crossed THEN votes[j]
                                    ELSE WithoutVoter(votes[j], k.address)]
        /\ Goes(h, [hooks[h] EXCEPT !.at = "recompute", !.removed = @ \ {k}])
    /\ UNCHANGED <<authorities, crossed, params, disk, stops, orderly>> /\ Unmoved

\* RecomputeCrossed, then the next removal.
Recompute(h) ==
    /\ At(h, "recompute")
    /\ crossed' = crossed \cup
         {k \in Keys : votes[k] # {} /\ Cardinality(votes[k]) >= AuthorityThreshold(hooks[h].count)}
    /\ Goes(h, IF hooks[h].removed = {} THEN [at |-> "save"]
               ELSE [hooks[h] EXCEPT !.at = "drop"])
    /\ UNCHANGED <<authorities, votes, params, disk, stops, orderly>> /\ Unmoved

Fails == stops < MaxStops /\ stops' = stops + 1

\* A failed save is logged, and the next block saves again.  Two hooks that
\* save at once may leave the older snapshot, as a failed save does.
SaveSnapshot(h) ==
    /\ At(h, "save")
    /\ \/ disk' = Snapshot /\ UNCHANGED stops
       \/ Fails /\ UNCHANGED disk
    /\ Goes(h, Over)
    /\ UNCHANGED <<lists, params, orderly>> /\ Unmoved

\* Wire after a stop: the stores come from the snapshot, the list from the
\* configuration.  The block whose hook was running may not be on disk.
Restart ==
    /\ Fails /\ tip < MaxHeight - 1
    /\ authorities' = Configured
    /\ votes' = disk.votes /\ crossed' = disk.crossed
    /\ active' = disk.active /\ pending' = disk.pending
    /\ applying' = None
    /\ tip' \in {tip} \cup {h - 1 : h \in Running \cap {tip}}
    /\ hooks' = [h \in Heights |-> Over]
    /\ orderly' = FALSE
    /\ UNCHANGED <<disk, sent>>

Hook(h) ==
    \/ PromoteParams(h) \/ PromoteVotes(h) \/ LockList(h) \/ ChangeList(h)
    \/ UnlockList(h) \/ DropVotes(h) \/ Recompute(h)
    \/ SaveSnapshot(h)

Next ==
    \/ \E a \in Addresses, k \in Keys : BeginVote(a, k)
    \/ \E a \in Addresses, p \in Params, c \in Changes : StageParam(a, p, c)
    \/ RecordVote \/ SealBlock
    \/ \E h \in Heights : Hook(h)
    \/ Restart

Spec == Init /\ [][Next]_vars

\* The driver keeps sealing blocks, whatever is staged or voted meanwhile, a
\* transaction comes to its end, and so does the hook of every block.
Fairness == WF_vars(RecordVote) /\ SF_vars(SealBlock) /\ WF_vars(\E h \in Heights : Hook(h))
FairSpec == Spec /\ Fairness

-----------------------------------------------------------------------------
(* Properties.                                                             *)

SnapshotOK(s) ==
    /\ s.votes \in [Keys -> SUBSET Addresses] /\ s.crossed \subseteq Keys
    /\ s.active \in [Params -> Values \cup {DefaultValue}] /\ s.pending \in [Params -> Changes \cup {None}]

HookOK(x) ==
    \/ x \in [at : {"over", "params", "votes", "save"}]
    \/ x \in [at : {"wait", "list"}, due : SUBSET Keys, removed : SUBSET Keys]
    \/ x \in [at : {"drop", "recompute"}, removed : SUBSET Keys, count : Nat]

\* Type invariant; a crossed proposal has voters, so it is in the store.
TypeOK ==
    /\ authorities \subseteq Addresses
    /\ SnapshotOK(Snapshot) /\ SnapshotOK(disk)
    /\ \A k \in crossed : votes[k] # {}
    /\ applying = None \/ applying \in [voter : Addresses, key : Keys, n : Nat, list : SUBSET Addresses]
    /\ tip \in 0 .. MaxHeight
    /\ \A h \in Heights : HookOK(hooks[h])
    /\ sent \in 0 .. MaxTxs /\ stops \in 0 .. MaxStops

\* The list never becomes empty, which would end governance for good: not by
\* several removals due at one height, nor by two hooks at once
\* (promoteAuthorityPending).
NeverEmpty == authorities # {}

\* The stores have their types, also on disk, and the list is never empty.
ListInv == TypeOK /\ NeverEmpty

\* Removed authorities whose votes a running hook has yet to drop.
Dropping ==
    UNION {{k.address : k \in hooks[h].removed} :
             h \in {x \in Heights : hooks[x].at \in {"list", "drop", "recompute"}}}

\* The votes of an open proposal are those of present authorities, but for
\* the ones a running hook is about to drop (DropVotesByAuthority).  A vote
\* that raced a change of the list is not caught, nor is a list that a
\* restart took back to the configured one.
OpenVotesLive ==
    orderly => \A k \in Keys \ crossed : votes[k] \subseteq authorities \cup Dropping

\* Everything that crossed its threshold, and every staged parameter, is acted
\* upon within the blocks of the model: a proposal that crosses only when the
\* list shrinks, after its height, too, and over overlapping hooks, failed
\* saves and restarts (PromotePending).
Settled == crossed = {} /\ \A p \in Params : pending[p] = None
EventuallySettled == ~Settled ~> Settled

\* A proposal crosses with the votes of a majority of the authorities there
\* are; the votes of one that was removed do not count (RecomputeCrossed).
RemovedVotesDontCount ==
    [][\A k \in crossed' \ crossed :
         Cardinality(votes'[k] \cap authorities') >= AuthorityThreshold(Cardinality(authorities'))]_vars
=============================================================================

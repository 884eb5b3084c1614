-------------------------- MODULE GovernanceProofs --------------------------
(***************************************************************************)
(* Proofs about Governance, for all sets of addresses and parameters, any  *)
(* number of overlapping hooks, failed saves and restarts.                 *)
(***************************************************************************)
EXTENDS Governance, FiniteSetTheorems, TLAPS

\* A snapshot never holds a crossed proposal without voters.
DiskOK == \A k \in disk.crossed : disk.votes[k] # {}

\* A vote in progress fits under the bound, and its voter was in the list.
VoteOK == applying # None => sent < MaxTxs /\ applying.voter \in applying.list

\* Blocks that are not sealed yet have no hook.
HooksOK == DOMAIN hooks = Heights /\ \A h \in Heights : h > tip => hooks[h] = Over

GovInv == ListInv /\ OpenVotesLive /\ DiskOK /\ VoteOK /\ HooksOK

ListRecords == [at : {"wait", "list"}, due : SUBSET Keys, removed : SUBSET Keys]
DropRecords == [at : {"drop", "recompute"}, removed : SUBSET Keys, count : Nat]

\* An address is being dropped when a hook has yet to drop its votes.
DroppedBy(x, a) == x.at \in {"list", "drop", "recompute"} /\ \E k \in x.removed : a = k.address

----------------------------------------------------------------------------
(* Facts that every step uses.                                             *)

\* The authority list is finite.
LEMMA ListFinite ==
    ASSUME NEW S, S \subseteq Addresses
    PROVE  IsFiniteSet(S) /\ Cardinality(S) \in Nat
  BY GovAssumption, FS_Subset, FS_CardinalityType DEF GovAssumption

\* Dropping, before and after a step.
LEMMA DroppingIs ==
    /\ \A a : a \in Dropping <=> \E h \in Heights : DroppedBy(hooks[h], a)
    /\ \A a : a \in Dropping' <=> \E h \in Heights : DroppedBy(hooks'[h], a)
  BY DEF Dropping, DroppedBy

\* A hook that is under way belongs to a sealed block.
LEMMA HookSealed ==
    ASSUME GovInv, NEW h \in Heights, hooks[h].at # "over"
    PROVE  h <= tip
<1>1. hooks[h] # Over
  BY DEF Over
<1>2. tip \in Int /\ h \in Int
  BY GovAssumption DEF GovInv, ListInv, TypeOK, GovAssumption, Heights
<1> QED
  BY <1>1, <1>2 DEF GovInv, HooksOK

\* What the record of a hook holds while it changes the list ...
LEMMA ListRecord ==
    ASSUME GovInv, NEW h \in Heights, hooks[h].at \in {"wait", "list"}
    PROVE  hooks[h] \in ListRecords
<1>1. HookOK(hooks[h])
  BY DEF GovInv, ListInv, TypeOK
<1> QED
  BY <1>1 DEF HookOK, ListRecords

\* ... and while it drops votes.
LEMMA DropRecord ==
    ASSUME GovInv, NEW h \in Heights, hooks[h].at \in {"drop", "recompute"}
    PROVE  hooks[h] \in DropRecords
<1>1. HookOK(hooks[h])
  BY DEF GovInv, ListInv, TypeOK
<1> QED
  BY <1>1 DEF HookOK, DropRecords

\* The part of the invariant that a move of one hook can disturb.
LEMMA HookMoves ==
    ASSUME GovInv, NEW h \in Heights, hooks[h].at # "over", NEW x, Goes(h, x), HookOK(x), Unmoved
    PROVE  /\ HooksOK' /\ VoteOK' /\ \A g \in Heights : HookOK(hooks'[g])
           /\ applying' = applying /\ tip' = tip /\ sent' = sent
           /\ hooks'[h] = x /\ \A g \in Heights : g # h => hooks'[g] = hooks[g]
<1>1. /\ applying' = applying /\ tip' = tip /\ sent' = sent /\ DOMAIN hooks = Heights
      /\ hooks' = [hooks EXCEPT ![h] = x]
  BY DEF Unmoved, Goes, GovInv, HooksOK
<1>2. hooks'[h] = x /\ \A g \in Heights : g # h => hooks'[g] = hooks[g]
  BY <1>1
<1>3. h <= tip /\ tip \in Int /\ h \in Int
  BY HookSealed, GovAssumption DEF GovInv, ListInv, TypeOK, GovAssumption, Heights
<1>4. HooksOK'
  <2> SUFFICES ASSUME NEW g \in Heights, g > tip PROVE hooks'[g] = Over
    BY <1>1 DEF HooksOK
  <2>1. g # h
    BY <1>3
  <2> QED
    BY <1>2, <2>1 DEF GovInv, HooksOK
<1>5. VoteOK'
  BY <1>1 DEF GovInv, VoteOK
<1>6. \A g \in Heights : HookOK(hooks'[g])
  BY <1>2 DEF GovInv, ListInv, TypeOK
<1> QED
  BY <1>1, <1>2, <1>4, <1>5, <1>6

\* The invariant, put together again.
LEMMA GovParts ==
    ASSUME authorities' \subseteq Addresses, authorities' # {},
           SnapshotOK(Snapshot)', SnapshotOK(disk'), \A k \in crossed' : votes'[k] # {},
           applying' = None \/ applying' \in [voter : Addresses, key : Keys, n : Nat, list : SUBSET Addresses],
           tip' \in 0 .. MaxHeight, \A g \in Heights : HookOK(hooks'[g]),
           sent' \in 0 .. MaxTxs, stops' \in 0 .. MaxStops,
           OpenVotesLive', DiskOK', VoteOK', HooksOK'
    PROVE  GovInv'
  BY DEF GovInv, ListInv, TypeOK, NeverEmpty

----------------------------------------------------------------------------
(* Transactions and blocks.                                                *)

\* A vote starts with an authority of the list it reads.
LEMMA BeginVoteStep ==
    ASSUME GovInv, NEW a \in Addresses, NEW k \in Keys, BeginVote(a, k) PROVE GovInv'
<1>1. /\ sent < MaxTxs /\ a \in authorities
      /\ applying' = [voter |-> a, key |-> k, n |-> Cardinality(authorities), list |-> authorities]
      /\ UNCHANGED <<lists, params, tip, hooks, disk, sent, stops, orderly>>
  BY DEF BeginVote, Ready
<1>2. Cardinality(authorities) \in Nat /\ authorities \subseteq Addresses
  BY ListFinite DEF GovInv, ListInv, TypeOK
<1>3. applying' \in [voter : Addresses, key : Keys, n : Nat, list : SUBSET Addresses]
  BY <1>1, <1>2
<1>4. VoteOK'
  BY <1>1 DEF VoteOK
<1>5. /\ Snapshot' = Snapshot /\ Dropping' = Dropping /\ HooksOK' /\ DiskOK' /\ OpenVotesLive'
  BY <1>1 DEF Snapshot, Dropping, lists, params, HooksOK, DiskOK, OpenVotesLive, GovInv
<1> QED
  BY <1>1, <1>3, <1>4, <1>5, GovParts DEF GovInv, ListInv, TypeOK, NeverEmpty, lists

\* RecordVote adds the voter; the list is still the one it was read from, or
\* the behaviour is not orderly any more.
LEMMA RecordVoteStep == ASSUME GovInv, RecordVote PROVE GovInv'
<1> DEFINE k == applying.key
           voters == votes[k] \cup {applying.voter}
<1>1. /\ applying # None /\ applying' = None /\ votes' = [votes EXCEPT ![k] = voters]
      /\ crossed' \in {crossed, crossed \cup {k}} /\ sent' = sent + 1
      /\ orderly' = (orderly /\ authorities = applying.list)
      /\ UNCHANGED <<authorities, params, tip, hooks, disk, stops>>
  BY DEF RecordVote
<1>2. /\ k \in Keys /\ applying.voter \in Addresses /\ sent < MaxTxs /\ applying.voter \in applying.list
  BY <1>1 DEF GovInv, ListInv, TypeOK, VoteOK
<1>3. votes \in [Keys -> SUBSET Addresses] /\ crossed \subseteq Keys
  BY DEF GovInv, ListInv, TypeOK, SnapshotOK, Snapshot
<1>4. /\ votes' \in [Keys -> SUBSET Addresses] /\ crossed' \subseteq Keys /\ votes'[k] = voters
      /\ \A j \in Keys : j # k => votes'[j] = votes[j]
  BY <1>1, <1>2, <1>3
<1>5. \A j \in crossed' : votes'[j] # {}
  BY <1>1, <1>2, <1>3, <1>4 DEF GovInv, ListInv, TypeOK
<1>6. SnapshotOK(Snapshot)'
  BY <1>1, <1>4 DEF GovInv, ListInv, TypeOK, SnapshotOK, Snapshot, params
<1>7. Dropping' = Dropping /\ HooksOK' /\ DiskOK'
  BY <1>1 DEF Dropping, HooksOK, DiskOK, GovInv
<1>8. OpenVotesLive'
  <2> SUFFICES ASSUME orderly', NEW j \in Keys, j \notin crossed'
               PROVE  votes'[j] \subseteq authorities \cup Dropping
    BY <1>1, <1>7 DEF OpenVotesLive
  <2>1. orderly /\ authorities = applying.list /\ j \notin crossed
    BY <1>1
  <2>2. votes[j] \subseteq authorities \cup Dropping
    BY <2>1 DEF GovInv, OpenVotesLive
  <2> QED
    BY <1>2, <1>4, <2>1, <2>2
<1>9. sent' \in 0 .. MaxTxs /\ VoteOK'
  BY <1>1, <1>2, GovAssumption DEF VoteOK, GovInv, ListInv, TypeOK, GovAssumption
<1> QED
  BY <1>1, <1>5, <1>6, <1>7, <1>8, <1>9, GovParts DEF GovInv, ListInv, TypeOK, NeverEmpty

\* A parameter is staged.
LEMMA StageParamStep ==
    ASSUME GovInv, NEW a \in Addresses, NEW p \in Params, NEW c \in Changes, StageParam(a, p, c)
    PROVE  GovInv'
<1>1. /\ sent < MaxTxs /\ applying = None /\ pending' = [pending EXCEPT ![p] = c] /\ sent' = sent + 1
      /\ UNCHANGED <<lists, active, applying, tip, hooks, disk, stops, orderly>>
  BY DEF StageParam, Ready
<1>2. SnapshotOK(Snapshot)'
  BY <1>1 DEF GovInv, ListInv, TypeOK, SnapshotOK, Snapshot, lists
<1>3. sent' \in 0 .. MaxTxs /\ VoteOK'
  BY <1>1, GovAssumption DEF VoteOK, GovInv, ListInv, TypeOK, GovAssumption
<1>4. Dropping' = Dropping /\ HooksOK' /\ DiskOK' /\ OpenVotesLive'
  BY <1>1 DEF Dropping, lists, HooksOK, DiskOK, OpenVotesLive, GovInv
<1> QED
  BY <1>1, <1>2, <1>3, <1>4, GovParts DEF GovInv, ListInv, TypeOK, NeverEmpty, lists

\* A block is sealed: its height had no hook.
LEMMA SealStep == ASSUME GovInv, SealBlock PROVE GovInv'
<1>1. /\ applying = None /\ tip < MaxHeight /\ tip' = tip + 1
      /\ hooks' = [hooks EXCEPT ![tip + 1] = [at |-> "params"]]
      /\ UNCHANGED <<lists, params, applying, disk, sent, stops, orderly>>
  BY DEF SealBlock
<1>2. tip \in Nat /\ MaxHeight \in Nat /\ tip + 1 \in Heights /\ tip' \in 0 .. MaxHeight
  BY <1>1, GovAssumption DEF GovInv, ListInv, TypeOK, GovAssumption, Heights
<1>3. /\ hooks[tip + 1] = Over /\ hooks'[tip + 1] = [at |-> "params"] /\ DOMAIN hooks' = Heights
      /\ \A h \in Heights : h # tip + 1 => hooks'[h] = hooks[h]
  BY <1>1, <1>2 DEF GovInv, HooksOK
<1>4. HooksOK' /\ \A h \in Heights : HookOK(hooks'[h])
  <2>1. HookOK([at |-> "params"])
    BY DEF HookOK
  <2>2. ASSUME NEW h \in Heights, h > tip' PROVE hooks'[h] = Over
    <3>1. h # tip + 1 /\ h > tip
      BY <1>1, <1>2, <2>2 DEF Heights
    <3> QED
      BY <1>3, <3>1 DEF GovInv, HooksOK
  <2> QED
    BY <1>3, <2>1, <2>2 DEF GovInv, ListInv, TypeOK, HooksOK
<1>5. \A a : a \in Dropping => a \in Dropping'
  <2> SUFFICES ASSUME NEW a, NEW h \in Heights, DroppedBy(hooks[h], a) PROVE DroppedBy(hooks'[h], a)
    BY DroppingIs
  <2>1. h # tip + 1
    BY <1>3 DEF DroppedBy, Over
  <2> QED
    BY <1>3, <2>1
<1>6. OpenVotesLive' /\ VoteOK' /\ DiskOK' /\ Snapshot' = Snapshot
  BY <1>1, <1>5 DEF GovInv, OpenVotesLive, VoteOK, DiskOK, lists, params, Snapshot
<1> QED
  BY <1>1, <1>2, <1>4, <1>6, GovParts DEF GovInv, ListInv, TypeOK, NeverEmpty, lists

----------------------------------------------------------------------------
(* The steps of a hook.                                                    *)

\* Due parameters become active.
LEMMA PromoteParamsStep == ASSUME GovInv, NEW h \in Heights, PromoteParams(h) PROVE GovInv'
<1> DEFINE due == {p \in Params : pending[p] # None /\ Due(pending[p].height, h)}
<1>1. /\ hooks[h].at = "params" /\ Goes(h, [at |-> "votes"]) /\ Unmoved
      /\ active' = [p \in Params |-> IF p \in due THEN pending[p].value ELSE active[p]]
      /\ pending' = [p \in Params |-> IF p \in due THEN None ELSE pending[p]]
      /\ UNCHANGED <<lists, disk, stops, orderly>>
  BY DEF PromoteParams, At
<1>2. HookOK([at |-> "votes"])
  BY DEF HookOK
<1>3. /\ HooksOK' /\ VoteOK' /\ \A g \in Heights : HookOK(hooks'[g])
      /\ applying' = applying /\ tip' = tip /\ sent' = sent
      /\ \A g \in Heights : g # h => hooks'[g] = hooks[g]
  BY <1>1, <1>2, HookMoves
<1>4. SnapshotOK(Snapshot)'
  <2>1. active \in [Params -> Values \cup {DefaultValue}] /\ pending \in [Params -> Changes \cup {None}]
    BY DEF GovInv, ListInv, TypeOK, SnapshotOK, Snapshot
  <2>2. active' \in [Params -> Values \cup {DefaultValue}] /\ pending' \in [Params -> Changes \cup {None}]
    <3>1. \A p \in due : pending[p].value \in Values
      BY <2>1 DEF Changes
    <3> HIDE DEF due
    <3> QED BY <1>1, <2>1, <3>1
  <2> QED
    BY <1>1, <2>2 DEF GovInv, ListInv, TypeOK, SnapshotOK, Snapshot, lists
<1>5. \A a : a \in Dropping => a \in Dropping'
  <2> SUFFICES ASSUME NEW a, NEW g \in Heights, DroppedBy(hooks[g], a) PROVE DroppedBy(hooks'[g], a)
    BY DroppingIs
  <2>1. g # h
    BY <1>1 DEF DroppedBy
  <2> QED
    BY <1>3, <2>1
<1>6. OpenVotesLive' /\ DiskOK'
  BY <1>1, <1>5 DEF GovInv, OpenVotesLive, DiskOK, lists
<1> QED
  BY <1>1, <1>3, <1>4, <1>6, GovParts DEF GovInv, ListInv, TypeOK, NeverEmpty, lists

\* Due proposals leave the store with their voters.
LEMMA PromoteVotesStep == ASSUME GovInv, NEW h \in Heights, PromoteVotes(h) PROVE GovInv'
<1> DEFINE due == {k \in crossed : Due(k.height, h)}
           x == IF due = {} THEN [at |-> "save"] ELSE [at |-> "wait", due |-> due, removed |-> {}]
<1>1. /\ hooks[h].at = "votes" /\ Goes(h, x) /\ Unmoved
      /\ votes' = [k \in Keys |-> IF k \in due THEN {} ELSE votes[k]]
      /\ crossed' = crossed \ due
      /\ UNCHANGED <<authorities, params, disk, stops, orderly>>
  BY DEF PromoteVotes, At
<1>0. votes \in [Keys -> SUBSET Addresses] /\ crossed \subseteq Keys
  BY DEF GovInv, ListInv, TypeOK, SnapshotOK, Snapshot
<1>2. HookOK(x)
  BY <1>0 DEF HookOK
<1>3. /\ HooksOK' /\ VoteOK' /\ \A g \in Heights : HookOK(hooks'[g])
      /\ applying' = applying /\ tip' = tip /\ sent' = sent
      /\ \A g \in Heights : g # h => hooks'[g] = hooks[g]
  BY <1>1, <1>2, HookMoves
<1>4. SnapshotOK(Snapshot)' /\ \A k \in crossed' : votes'[k] # {}
  <2>1. votes' \in [Keys -> SUBSET Addresses] /\ crossed' \subseteq Keys
    BY <1>0, <1>1
  <2>2. \A k \in crossed' : votes'[k] # {}
    BY <1>0, <1>1 DEF GovInv, ListInv, TypeOK
  <2> QED
    BY <1>1, <2>1, <2>2 DEF GovInv, ListInv, TypeOK, SnapshotOK, Snapshot, params
<1>5. \A a : a \in Dropping => a \in Dropping'
  <2> SUFFICES ASSUME NEW a, NEW g \in Heights, DroppedBy(hooks[g], a) PROVE DroppedBy(hooks'[g], a)
    BY DroppingIs
  <2>1. g # h
    BY <1>1 DEF DroppedBy
  <2> QED
    BY <1>3, <2>1
<1>6. OpenVotesLive' /\ DiskOK'
  <2>1. DiskOK'
    BY <1>1 DEF GovInv, DiskOK
  <2>2. ASSUME orderly', NEW k \in Keys, k \notin crossed' PROVE votes'[k] \subseteq authorities' \cup Dropping'
    <3>1. CASE k \in due
      BY <1>1, <3>1
    <3>2. CASE k \notin due
      <4>1. k \notin crossed /\ votes'[k] = votes[k] /\ orderly
        BY <1>1, <2>2, <3>2
      <4>2. votes[k] \subseteq authorities \cup Dropping
        BY <4>1 DEF GovInv, OpenVotesLive
      <4> QED
        BY <1>1, <1>5, <4>1, <4>2
    <3> QED
      BY <3>1, <3>2
  <2> QED
    BY <2>1, <2>2 DEF OpenVotesLive
<1> QED
  BY <1>1, <1>3, <1>4, <1>6, GovParts DEF GovInv, ListInv, TypeOK, NeverEmpty

\* The hook gets the lock of the list.
LEMMA LockListStep == ASSUME GovInv, NEW h \in Heights, LockList(h) PROVE GovInv'
<1> DEFINE x == [hooks[h] EXCEPT !.at = "list"]
<1>1. /\ hooks[h].at = "wait" /\ Goes(h, x) /\ Unmoved
      /\ UNCHANGED <<lists, params, disk, stops, orderly>>
  BY DEF LockList, At
<1>2. HookOK(x)
  BY <1>1, ListRecord DEF HookOK, ListRecords
<1>3. /\ HooksOK' /\ VoteOK' /\ \A g \in Heights : HookOK(hooks'[g])
      /\ applying' = applying /\ tip' = tip /\ sent' = sent
      /\ \A g \in Heights : g # h => hooks'[g] = hooks[g]
  BY <1>1, <1>2, HookMoves
<1>5. \A a : a \in Dropping => a \in Dropping'
  <2> SUFFICES ASSUME NEW a, NEW g \in Heights, DroppedBy(hooks[g], a) PROVE DroppedBy(hooks'[g], a)
    BY DroppingIs
  <2>1. g # h
    BY <1>1 DEF DroppedBy
  <2> QED
    BY <1>3, <2>1
<1>6. OpenVotesLive' /\ DiskOK' /\ Snapshot' = Snapshot
  BY <1>1, <1>5 DEF GovInv, OpenVotesLive, DiskOK, lists, params, Snapshot
<1> QED
  BY <1>1, <1>3, <1>6, GovParts DEF GovInv, ListInv, TypeOK, NeverEmpty, lists

\* A due proposal changes the list; a removal never empties it, and its
\* address is on record for the votes to be dropped.
LEMMA ChangeListStep == ASSUME GovInv, NEW h \in Heights, ChangeList(h) PROVE GovInv'
<1>1. hooks[h].at = "list" /\ Unmoved /\ UNCHANGED <<votes, crossed, params, disk, stops, orderly>>
  BY DEF ChangeList, At
<1>2. PICK k \in hooks[h].due :
        LET refused == k.op = "remove" /\ WouldEmpty(authorities) IN
        /\ authorities' = IF k.op = "add" THEN authorities \cup {k.address}
                          ELSE IF refused THEN authorities ELSE authorities \ {k.address}
        /\ Goes(h, [hooks[h] EXCEPT !.due = @ \ {k},
                        !.removed = IF k.op = "remove" /\ ~refused THEN @ \cup {k} ELSE @])
  BY DEF ChangeList
<1> DEFINE refused == k.op = "remove" /\ WouldEmpty(authorities)
           x == [hooks[h] EXCEPT !.due = @ \ {k},
                        !.removed = IF k.op = "remove" /\ ~refused THEN @ \cup {k} ELSE @]
<1>3. hooks[h] \in ListRecords
  BY <1>1, ListRecord
<1>4. k \in Keys /\ k.address \in Addresses /\ k.op \in {"add", "remove"}
  BY <1>3 DEF ListRecords, Keys
<1>5. /\ x \in ListRecords /\ x.at = "list" /\ hooks[h].removed \subseteq x.removed
      /\ k.op = "remove" /\ ~refused => k \in x.removed
  BY <1>1, <1>3, <1>4 DEF ListRecords
<1> HIDE DEF x
<1>6. HookOK(x) /\ Goes(h, x)
  <2>1. HookOK(x)
    BY <1>5 DEF HookOK, ListRecords
  <2> QED
    BY <1>2, <2>1 DEF x
<1>7. /\ HooksOK' /\ VoteOK' /\ \A g \in Heights : HookOK(hooks'[g])
      /\ applying' = applying /\ tip' = tip /\ sent' = sent
      /\ hooks'[h] = x /\ \A g \in Heights : g # h => hooks'[g] = hooks[g]
  BY <1>1, <1>6, HookMoves
<1>8. authorities' \subseteq Addresses /\ authorities' # {}
  <2>1. authorities \subseteq Addresses /\ authorities # {}
    BY DEF GovInv, ListInv, TypeOK, NeverEmpty
  <2>2. ASSUME authorities \ {k.address} = {} PROVE WouldEmpty(authorities)
    <3>1. authorities \subseteq {k.address}
      BY <2>2
    <3>2. IsFiniteSet({k.address}) /\ Cardinality({k.address}) = 1
      BY FS_Singleton
    <3>3. Cardinality(authorities) <= 1
      BY <3>1, <3>2, FS_Subset
    <3> QED
      BY <3>3 DEF WouldEmpty
  <2> QED
    BY <1>2, <1>4, <2>1, <2>2
<1>9. \A a : a \in authorities \cup Dropping => a \in authorities' \cup Dropping'
  <2>1. \A a : a \in Dropping => a \in Dropping'
    <3> SUFFICES ASSUME NEW a, NEW g \in Heights, DroppedBy(hooks[g], a) PROVE DroppedBy(hooks'[g], a)
      BY DroppingIs
    <3>1. CASE g = h
      BY <1>5, <1>7, <3>1 DEF DroppedBy
    <3>2. CASE g # h
      BY <1>7, <3>2
    <3> QED
      BY <3>1, <3>2
  <2>2. k.op = "remove" /\ ~refused => k.address \in Dropping'
    <3>1. k.op = "remove" /\ ~refused => DroppedBy(hooks'[h], k.address)
      BY <1>5, <1>7 DEF DroppedBy
    <3> QED
      BY <3>1, DroppingIs
  <2> QED
    BY <1>2, <1>4, <2>1, <2>2
<1>10. OpenVotesLive' /\ DiskOK' /\ Snapshot' = Snapshot
  BY <1>1, <1>9 DEF GovInv, OpenVotesLive, DiskOK, params, Snapshot
<1> QED
  BY <1>1, <1>7, <1>8, <1>10, GovParts DEF GovInv, ListInv, TypeOK

\* The hook lets go of the list and goes on to the votes of the removed.
LEMMA UnlockListStep == ASSUME GovInv, NEW h \in Heights, UnlockList(h) PROVE GovInv'
<1> DEFINE x == IF hooks[h].removed = {} THEN [at |-> "save"]
                ELSE [at |-> "drop", removed |-> hooks[h].removed, count |-> Cardinality(authorities)]
<1>1. /\ hooks[h].at = "list" /\ Goes(h, x) /\ Unmoved
      /\ UNCHANGED <<lists, params, disk, stops, orderly>>
  BY DEF UnlockList, At
<1>0. Cardinality(authorities) \in Nat
  BY ListFinite DEF GovInv, ListInv, TypeOK
<1>2. HookOK(x)
  BY <1>0, <1>1, ListRecord DEF HookOK, ListRecords
<1>3. /\ HooksOK' /\ VoteOK' /\ \A g \in Heights : HookOK(hooks'[g])
      /\ applying' = applying /\ tip' = tip /\ sent' = sent
      /\ hooks'[h] = x /\ \A g \in Heights : g # h => hooks'[g] = hooks[g]
  BY <1>1, <1>2, HookMoves
<1>5. \A a : a \in Dropping => a \in Dropping'
  <2> SUFFICES ASSUME NEW a, NEW g \in Heights, DroppedBy(hooks[g], a) PROVE DroppedBy(hooks'[g], a)
    BY DroppingIs
  <2>1. CASE g = h
    BY <1>3, <2>1 DEF DroppedBy
  <2>2. CASE g # h
    BY <1>3, <2>2
  <2> QED
    BY <2>1, <2>2
<1>6. OpenVotesLive' /\ DiskOK' /\ Snapshot' = Snapshot
  BY <1>1, <1>5 DEF GovInv, OpenVotesLive, DiskOK, lists, params, Snapshot
<1> QED
  BY <1>1, <1>3, <1>6, GovParts DEF GovInv, ListInv, TypeOK, NeverEmpty, lists

\* The votes of one removed authority leave the open proposals.
LEMMA DropVotesStep == ASSUME GovInv, NEW h \in Heights, DropVotes(h) PROVE GovInv'
<1>1. hooks[h].at = "drop" /\ Unmoved /\ UNCHANGED <<authorities, crossed, params, disk, stops, orderly>>
  BY DEF DropVotes, At
<1>2. PICK k \in hooks[h].removed :
        /\ votes' = [j \in Keys |-> IF j \in crossed THEN votes[j] ELSE WithoutVoter(votes[j], k.address)]
        /\ Goes(h, [hooks[h] EXCEPT !.at = "recompute", !.removed = @ \ {k}])
  BY DEF DropVotes
<1> DEFINE x == [hooks[h] EXCEPT !.at = "recompute", !.removed = @ \ {k}]
<1>3. hooks[h] \in DropRecords
  BY <1>1, DropRecord
<1>4. x \in DropRecords /\ x.at = "recompute" /\ x.removed = hooks[h].removed \ {k}
  BY <1>3 DEF DropRecords
<1> HIDE DEF x
<1>5. HookOK(x) /\ Goes(h, x)
  <2>1. HookOK(x)
    BY <1>4 DEF HookOK, DropRecords
  <2> QED
    BY <1>2, <2>1 DEF x
<1>6. /\ HooksOK' /\ VoteOK' /\ \A g \in Heights : HookOK(hooks'[g])
      /\ applying' = applying /\ tip' = tip /\ sent' = sent
      /\ hooks'[h] = x /\ \A g \in Heights : g # h => hooks'[g] = hooks[g]
  BY <1>1, <1>5, HookMoves
<1>7. votes \in [Keys -> SUBSET Addresses] /\ crossed \subseteq Keys
  BY DEF GovInv, ListInv, TypeOK, SnapshotOK, Snapshot
<1>8. SnapshotOK(Snapshot)' /\ \A j \in crossed' : votes'[j] # {}
  <2>1. votes' \in [Keys -> SUBSET Addresses]
    BY <1>2, <1>7 DEF WithoutVoter
  <2>2. \A j \in crossed' : votes'[j] # {}
    BY <1>1, <1>2, <1>7 DEF GovInv, ListInv, TypeOK
  <2> QED
    BY <1>1, <2>1, <2>2 DEF GovInv, ListInv, TypeOK, SnapshotOK, Snapshot, params
<1>9. \A a : a \in Dropping /\ a # k.address => a \in Dropping'
  <2> SUFFICES ASSUME NEW a, a # k.address, NEW g \in Heights, DroppedBy(hooks[g], a)
               PROVE  DroppedBy(hooks'[g], a)
    BY DroppingIs
  <2>1. CASE g = h
    BY <1>4, <1>6, <2>1 DEF DroppedBy
  <2>2. CASE g # h
    BY <1>6, <2>2
  <2> QED
    BY <2>1, <2>2
<1>10. OpenVotesLive' /\ DiskOK'
  <2>1. DiskOK'
    BY <1>1 DEF GovInv, DiskOK
  <2>2. ASSUME orderly', NEW j \in Keys, j \notin crossed' PROVE votes'[j] \subseteq authorities' \cup Dropping'
    <3>1. votes'[j] = votes[j] \ {k.address} /\ orderly /\ j \notin crossed
      BY <1>1, <1>2, <2>2 DEF WithoutVoter
    <3>2. votes[j] \subseteq authorities \cup Dropping
      BY <3>1 DEF GovInv, OpenVotesLive
    <3> QED
      BY <1>1, <1>9, <3>1, <3>2
  <2> QED
    BY <2>1, <2>2 DEF OpenVotesLive
<1> QED
  BY <1>1, <1>6, <1>8, <1>10, GovParts DEF GovInv, ListInv, TypeOK, NeverEmpty

\* Proposals may cross when the list has shrunk.
LEMMA RecomputeStep == ASSUME GovInv, NEW h \in Heights, Recompute(h) PROVE GovInv'
<1> DEFINE x == IF hooks[h].removed = {} THEN [at |-> "save"] ELSE [hooks[h] EXCEPT !.at = "drop"]
           crossing == {k \in Keys : votes[k] # {} /\ Cardinality(votes[k]) >= AuthorityThreshold(hooks[h].count)}
<1>1. /\ hooks[h].at = "recompute" /\ Goes(h, x) /\ Unmoved /\ crossed' = crossed \cup crossing
      /\ UNCHANGED <<authorities, votes, params, disk, stops, orderly>>
  BY DEF Recompute, At
<1>2. hooks[h] \in DropRecords
  BY <1>1, DropRecord
<1>3. HookOK(x)
  BY <1>2 DEF HookOK, DropRecords
<1>4. /\ HooksOK' /\ VoteOK' /\ \A g \in Heights : HookOK(hooks'[g])
      /\ applying' = applying /\ tip' = tip /\ sent' = sent
      /\ hooks'[h] = x /\ \A g \in Heights : g # h => hooks'[g] = hooks[g]
  BY <1>1, <1>3, HookMoves
<1>5. \A a : a \in Dropping => a \in Dropping'
  <2> SUFFICES ASSUME NEW a, NEW g \in Heights, DroppedBy(hooks[g], a) PROVE DroppedBy(hooks'[g], a)
    BY DroppingIs
  <2>1. CASE g = h
    <3>1. hooks[h].removed # {}
      BY <2>1 DEF DroppedBy
    <3>2. x.at = "drop" /\ x.removed = hooks[h].removed
      BY <1>2, <3>1 DEF DropRecords
    <3> QED
      BY <1>4, <2>1, <3>2 DEF DroppedBy
  <2>2. CASE g # h
    BY <1>4, <2>2
  <2> QED
    BY <2>1, <2>2
<1>6. SnapshotOK(Snapshot)' /\ \A j \in crossed' : votes'[j] # {}
  <2>1. crossed' \subseteq Keys
    BY <1>1 DEF GovInv, ListInv, TypeOK, SnapshotOK, Snapshot
  <2>2. \A j \in crossed' : votes'[j] # {}
    BY <1>1 DEF GovInv, ListInv, TypeOK
  <2> QED
    BY <1>1, <2>1, <2>2 DEF GovInv, ListInv, TypeOK, SnapshotOK, Snapshot, params
<1>7. OpenVotesLive' /\ DiskOK'
  BY <1>1, <1>5 DEF GovInv, OpenVotesLive, DiskOK
<1> QED
  BY <1>1, <1>4, <1>6, <1>7, GovParts DEF GovInv, ListInv, TypeOK, NeverEmpty

\* The snapshot is saved, or the save fails.
LEMMA SaveSnapshotStep == ASSUME GovInv, NEW h \in Heights, SaveSnapshot(h) PROVE GovInv'
<1>1. /\ hooks[h].at = "save" /\ Goes(h, Over) /\ Unmoved /\ UNCHANGED <<lists, params, orderly>>
      /\ \/ disk' = Snapshot /\ stops' = stops
         \/ stops < MaxStops /\ stops' = stops + 1 /\ disk' = disk
  BY DEF SaveSnapshot, At, Fails
<1>2. HookOK(Over)
  BY DEF HookOK, Over
<1>3. /\ HooksOK' /\ VoteOK' /\ \A g \in Heights : HookOK(hooks'[g])
      /\ applying' = applying /\ tip' = tip /\ sent' = sent
      /\ hooks'[h] = Over /\ \A g \in Heights : g # h => hooks'[g] = hooks[g]
  BY <1>1, <1>2, HookMoves
<1>4. SnapshotOK(disk') /\ DiskOK' /\ stops' \in 0 .. MaxStops
  <2>1. SnapshotOK(disk')
    BY <1>1 DEF GovInv, ListInv, TypeOK
  <2>2. DiskOK'
    BY <1>1 DEF GovInv, ListInv, TypeOK, DiskOK, Snapshot
  <2> QED
    BY <1>1, <2>1, <2>2, GovAssumption DEF GovInv, ListInv, TypeOK, GovAssumption
<1>5. \A a : a \in Dropping => a \in Dropping'
  <2> SUFFICES ASSUME NEW a, NEW g \in Heights, DroppedBy(hooks[g], a) PROVE DroppedBy(hooks'[g], a)
    BY DroppingIs
  <2>1. g # h
    BY <1>1 DEF DroppedBy
  <2> QED
    BY <1>3, <2>1
<1>6. OpenVotesLive' /\ Snapshot' = Snapshot
  BY <1>1, <1>5 DEF GovInv, OpenVotesLive, lists, params, Snapshot
<1> QED
  BY <1>1, <1>3, <1>4, <1>6, GovParts DEF GovInv, ListInv, TypeOK, NeverEmpty, lists

\* A node that starts again has the snapshot and the configured list.
LEMMA RestartStep == ASSUME GovInv, Restart PROVE GovInv'
<1>1. /\ stops < MaxStops /\ stops' = stops + 1
      /\ authorities' = Configured /\ votes' = disk.votes /\ crossed' = disk.crossed
      /\ active' = disk.active /\ pending' = disk.pending /\ applying' = None
      /\ tip' \in {tip} \cup {h - 1 : h \in Running \cap {tip}}
      /\ hooks' = [h \in Heights |-> Over] /\ orderly' = FALSE /\ UNCHANGED <<disk, sent>>
  BY DEF Restart, Fails
<1>2. tip' \in 0 .. MaxHeight
  <2>1. tip \in 0 .. MaxHeight
    BY DEF GovInv, ListInv, TypeOK
  <2>2. CASE tip' = tip
    BY <2>1, <2>2
  <2>3. CASE tip' # tip
    <3>1. PICK h \in Heights : tip' = h - 1 /\ h = tip
      BY <1>1, <2>3 DEF Running
    <3> QED
      BY <2>1, <3>1, GovAssumption DEF Heights, GovAssumption
  <2> QED
    BY <2>2, <2>3
<1>3. stops' \in 0 .. MaxStops /\ authorities' \subseteq Addresses /\ authorities' # {}
  BY <1>1, GovAssumption DEF GovInv, ListInv, TypeOK, GovAssumption
<1>4. SnapshotOK(Snapshot)' /\ (\A k \in crossed' : votes'[k] # {}) /\ DiskOK'
  <2>1. SnapshotOK(Snapshot)'
    BY <1>1 DEF GovInv, ListInv, TypeOK, SnapshotOK, Snapshot
  <2> QED
    BY <1>1, <2>1 DEF GovInv, DiskOK
<1>5. (\A h \in Heights : HookOK(hooks'[h])) /\ HooksOK'
  BY <1>1 DEF HookOK, HooksOK, Over
<1>6. OpenVotesLive' /\ VoteOK'
  BY <1>1 DEF OpenVotesLive, VoteOK
<1> QED
  BY <1>1, <1>2, <1>3, <1>4, <1>5, <1>6, GovParts DEF GovInv, ListInv, TypeOK

----------------------------------------------------------------------------
(* The theorems.                                                           *)

\* A node with the configured list and no snapshot.
LEMMA InitGov == Init => GovInv
<1> SUFFICES ASSUME Init PROVE GovInv
  OBVIOUS
<1>1. /\ authorities = Configured /\ votes = [k \in Keys |-> {}] /\ crossed = {}
      /\ active = [p \in Params |-> DefaultValue] /\ pending = [p \in Params |-> None]
      /\ applying = None /\ tip = 0 /\ hooks = [h \in Heights |-> Over] /\ disk = Snapshot
      /\ sent = 0 /\ stops = 0
  BY DEF Init
<1>2. SnapshotOK(Snapshot)
  BY <1>1 DEF SnapshotOK, Snapshot
<1>3. TypeOK /\ NeverEmpty
  <2>1. \A h \in Heights : HookOK(hooks[h])
    BY <1>1 DEF HookOK, Over
  <2> QED
    BY <1>1, <1>2, <2>1, GovAssumption DEF TypeOK, NeverEmpty, GovAssumption
<1>4. OpenVotesLive /\ VoteOK /\ HooksOK /\ DiskOK
  BY <1>1 DEF OpenVotesLive, VoteOK, HooksOK, DiskOK, Snapshot
<1> QED
  BY <1>3, <1>4 DEF GovInv, ListInv

\* Every step keeps the invariant.
LEMMA GovStep == ASSUME GovInv, [Next]_vars PROVE GovInv'
<1>1. CASE UNCHANGED vars
  <2>1. /\ UNCHANGED <<authorities, votes, crossed, active, pending, applying, tip, hooks, disk, sent, stops, orderly>>
    BY <1>1 DEF vars, lists, params
  <2>2. Snapshot' = Snapshot /\ Dropping' = Dropping
    BY <2>1 DEF Snapshot, Dropping
  <2>3. OpenVotesLive' /\ DiskOK' /\ VoteOK' /\ HooksOK'
    BY <2>1, <2>2 DEF GovInv, OpenVotesLive, DiskOK, VoteOK, HooksOK
  <2> QED
    BY <2>1, <2>2, <2>3, GovParts DEF GovInv, ListInv, TypeOK, NeverEmpty
<1>2. CASE \E h \in Heights : Hook(h)
  BY <1>2, PromoteParamsStep, PromoteVotesStep, LockListStep, ChangeListStep, UnlockListStep,
     DropVotesStep, RecomputeStep, SaveSnapshotStep DEF Hook
<1> QED
  BY <1>1, <1>2, BeginVoteStep, RecordVoteStep, StageParamStep, SealStep, RestartStep DEF Next

\* GovInv is an invariant.
THEOREM GovCorrect == Spec => []GovInv
<1>1. Init => GovInv
  BY InitGov
<1>2. GovInv /\ [Next]_vars => GovInv'
  BY GovStep
<1> QED
  BY <1>1, <1>2, PTL DEF Spec

\* The authority list is never empty and the stores keep their types, for any
\* number of hooks that promote at once (promoteAuthorityPending).
THEOREM ListCorrect == Spec => []ListInv
<1>1. GovInv => ListInv
  BY DEF GovInv
<1> QED
  BY <1>1, GovCorrect, PTL

\* The votes of an open proposal are those of authorities or about to be
\* dropped (DropVotesByAuthority).
THEOREM VotesCorrect == Spec => []OpenVotesLive
<1>1. GovInv => OpenVotesLive
  BY DEF GovInv
<1> QED
  BY <1>1, GovCorrect, PTL
=============================================================================

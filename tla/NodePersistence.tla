-------------------------- MODULE NodePersistence --------------------------
(***************************************************************************)
(* What a QSD validator keeps on disk and what it makes of it after a      *)
(* stop: cmd/qsdm/main.go (the OnSealedBlock hook, the boot sequence,      *)
(* reconcilePersistedStateTail), pkg/chain/persist.go (ChainJournal,       *)
(* LoadChainNDJSON, ReplaceChainFile) and the Save and Load of             *)
(* AccountStore, InMemoryState and ReceiptStore.                           *)
(*                                                                         *)
(* A block is appended to the chain in memory first; its hook then sweeps  *)
(* matured bonds, appends the block to the journal, replaces the accounts  *)
(* file, replaces the enrollment file, appends the receipts and broadcasts *)
(* the block.  The process may stop, or a write may fail, at every stage.  *)
(*                                                                         *)
(* The ledger is MiningLedger's, reduced to one wallet and one node_id:    *)
(* enough to tell apart accounts and registry of different blocks.         *)
(***************************************************************************)
EXTENDS Integers, Sequences, SequencesExt, FiniteSets

CONSTANTS
    Goroutines,   \* callers of ProduceBlock and TryAppendExternalBlock
    Stake,        \* mining.MinEnrollStakeDust
    UnbondWindow,
    NoFile, NoBlock,
    MaxBlocks,    \* bound: blocks ever sealed, the discarded ones too
    MaxStops      \* bound: stops of the process

\* What StateRoot tells apart: the account table.
Accounts == [bal : Nat, nonce : Nat]
\* The registry entry of the node_id; no bond is no record, maturesAt 0 is active.
Record == [bond : {0, Stake}, maturesAt : Nat]
\* id stands for the hash, prev for PrevHash.
Block == [id : Nat, prev : Nat, height : Nat, root : Accounts]
\* The chain log: lines of blocks, and whether the last line is ended.
Journal == [lines : Seq(Seq(Block)), eol : BOOLEAN]

Stages == {"idle", "sweep", "append", "accounts", "snapshot", "enrollment", "receipts", "broadcast"}
BetweenSaves == {"snapshot", "enrollment"}

ASSUME PersistenceAssumption ==
    /\ IsFiniteSet(Goroutines)
    /\ Stake \in Nat \ {0} /\ UnbondWindow \in Nat
    /\ MaxBlocks \in Nat /\ MaxStops \in Nat
    /\ NoBlock \notin Block /\ NoFile \notin Accounts \cup Record \cup Journal

FreshAccounts == [bal |-> Stake, nonce |-> 0]
NoRecord == [bond |-> 0, maturesAt |-> 0]

VARIABLES
    mode,      \* "up", "down", "replacing" (in ReplaceChainFile), "refused" (log.Fatalf)
    chain,     \* BlockProducer.chain
    acct, rec, \* AccountStore and InMemoryState
    jtip,      \* ChainJournal.lastHeight and lastHash: a block, or NoBlock
    failed,    \* persistenceErr # nil
    stage, blk,\* of each goroutine: the hook's next step and its block
    snap,      \* of each goroutine: the registry that EnrollmentState.Save copied
    journal,   \* NoFile, or the lines of the chain log, and whether the last one is ended
    accountsFile, enrollmentFile, receiptsFile,
    sent,      \* history: blocks broadcast
    sealed,    \* history: how many blocks were sealed
    stops,     \* history: the number of stops
    orderly    \* history: hooks ran one at a time, and no fault fell between the
               \* two saves or between the two renames

memory == <<chain, acct, rec, jtip, failed>>
hooks  == <<stage, blk, snap>>
disk   == <<journal, accountsFile, enrollmentFile, receiptsFile>>
history == <<sent, sealed, stops, orderly>>
vars == <<mode, chain, acct, rec, jtip, failed, stage, blk, snap, journal,
          accountsFile, enrollmentFile, receiptsFile, sent, sealed, stops, orderly>>

----------------------------------------------------------------------------
(* The journal.  A line is the sequence of blocks whose JSON it holds in     *)
(* full: one block for a good line, none for a torn one, two when a block    *)
(* was appended to a line whose end of line was never written.               *)

NoLines == [lines |-> <<>>, eol |-> TRUE]
Lines(j) == IF j = NoFile THEN <<>> ELSE j.lines
\* json.Unmarshal of every line succeeds.
Readable(j) == \A i \in DOMAIN Lines(j) : Len(Lines(j)[i]) = 1
\* LoadChainNDJSON of a readable journal.
Blocks(j) == [i \in DOMAIN Lines(j) |-> Lines(j)[i][1]]
Written(j) == UNION {ToSet(Lines(j)[i]) : i \in DOMAIN Lines(j)}

\* The file after a write of the complete line of b, or of all but its end
\* of line, or of less than that.
WithLine(j, line, eol) ==
    IF j # NoFile /\ ~j.eol
    THEN [lines |-> Front(j.lines) \o <<Last(j.lines) \o line>>, eol |-> eol]
    ELSE [lines |-> Append(Lines(j), line), eol |-> eol]
Partial(j, b) == {j, WithLine(j, <<b>>, TRUE), WithLine(j, <<b>>, FALSE), WithLine(j, <<>>, FALSE)}

\* Mutant: only the height is compared.
ExtendsHeight(b, t) == IF t = NoBlock THEN b.height = 0 ELSE b.height > t.height

\* ChainJournal.Append's continuity check.
ExtendsTip(b, t) == IF t = NoBlock THEN b.height = 0 ELSE b.height = t.height + 1 /\ b.prev = t.id

----------------------------------------------------------------------------
\* A host with no state files; the genesis block is the first one sealed.
Init ==
    /\ mode = "up"
    /\ chain = <<>> /\ acct = FreshAccounts /\ rec = NoRecord
    /\ jtip = NoBlock /\ failed = FALSE
    /\ stage = [g \in Goroutines |-> "idle"]
    /\ blk = [g \in Goroutines |-> NoBlock]
    /\ snap = [g \in Goroutines |-> NoRecord]
    /\ journal = NoLines
    /\ accountsFile = NoFile /\ enrollmentFile = NoFile /\ receiptsFile = {}
    /\ sent = {} /\ sealed = 0 /\ stops = 0 /\ orderly = TRUE

----------------------------------------------------------------------------
(* ProduceBlock and TryAppendExternalBlock, one transaction a block.         *)

\* Mutant: a failed hook does not stop production.
OpenGuard == TRUE

\* The seal guard of main.go; a low disk only delays the block.
SealGuard == ~failed

\* The accounts and the registry after one transaction, which every kind of
\* transaction records in a nonce.
Charged(amount) == [bal |-> acct.bal - amount, nonce |-> acct.nonce + 1]
Plain == [acct |-> Charged(0), rec |-> rec]
Enroll == [acct |-> Charged(Stake), rec |-> [bond |-> Stake, maturesAt |-> 0]]
Unenroll(h) == [acct |-> Charged(0), rec |-> [rec EXCEPT !.maturesAt = h + UnbondWindow]]

\* ValidateEnrollAgainstState
MayEnroll == rec = NoRecord /\ acct.bal >= Stake

\* The genesis block is a transfer.
Effects(h) ==
    {Plain}
    \cup {e \in {Enroll} : h > 0 /\ MayEnroll}
    \cup {e \in {Unenroll(h)} : rec.bond = Stake /\ rec.maturesAt = 0}

SealBlock(g) ==
    /\ mode = "up" /\ stage[g] = "idle" /\ sealed < MaxBlocks
    /\ SealGuard
    /\ \E e \in Effects(Len(chain)) :
        LET b == [id |-> sealed + 1, prev |-> IF chain = <<>> THEN 0 ELSE Last(chain).id,
                  height |-> Len(chain), root |-> e.acct]
        IN  /\ acct' = e.acct /\ rec' = e.rec
            /\ chain' = Append(chain, b)
            /\ blk' = [blk EXCEPT ![g] = b]
    /\ stage' = [stage EXCEPT ![g] = "sweep"]
    /\ sealed' = sealed + 1
    /\ orderly' = (orderly /\ \A h \in Goroutines : stage[h] = "idle")
    /\ UNCHANGED <<mode, jtip, failed, snap, disk, sent, stops>>

----------------------------------------------------------------------------
(* The OnSealedBlock hook, a step for each file it touches.                  *)

InHook(g, s) == mode = "up" /\ stage[g] = s
Goto(g, s) == stage' = [stage EXCEPT ![g] = s]

\* Mutant: the hook goes on after markPersistenceFailed.
FailAndGoOn(g) == failed' = TRUE /\ Goto(g, "broadcast")

\* markPersistenceFailed, and return from the hook.
Fail(g) == failed' = TRUE /\ Goto(g, "idle")

\* The v2wiring hook: the bond of a matured record goes back to its owner.
Sweep(g) ==
    /\ InHook(g, "sweep") /\ Goto(g, "append")
    /\ IF rec.maturesAt # 0 /\ blk[g].height >= rec.maturesAt
       THEN acct' = [acct EXCEPT !.bal = @ + rec.bond] /\ rec' = NoRecord
       ELSE UNCHANGED <<acct, rec>>
    /\ UNCHANGED <<mode, chain, jtip, failed, blk, snap, disk, history>>

AppendJournal(g) ==
    /\ InHook(g, "append")
    /\ IF ExtendsTip(blk[g], jtip)
       THEN /\ \/ /\ journal' = WithLine(journal, <<blk[g]>>, TRUE)
                  /\ jtip' = blk[g] /\ Goto(g, "accounts") /\ UNCHANGED failed
               \/ /\ journal' \in Partial(journal, blk[g])
                  /\ Fail(g) /\ UNCHANGED jtip
       ELSE Fail(g) /\ UNCHANGED <<journal, jtip>>
    /\ UNCHANGED <<mode, chain, acct, rec, blk, snap, accountsFile, enrollmentFile, receiptsFile, history>>

\* Mutant: the snapshot of the sealed block's root, not of the live accounts.
SavedAtSeal(g) == blk[g].root

\* AccountStore.Save writes the live accounts.
Saved(g) == acct

SaveAccounts(g) ==
    /\ InHook(g, "accounts") /\ Goto(g, "snapshot")
    /\ accountsFile' = Saved(g)
    /\ UNCHANGED <<mode, memory, blk, snap, journal, enrollmentFile, receiptsFile, history>>

\* EnrollmentState.Save copies the records under s.mu and writes them after it.
SnapshotEnrollment(g) ==
    /\ InHook(g, "snapshot") /\ Goto(g, "enrollment")
    /\ snap' = [snap EXCEPT ![g] = rec]
    /\ UNCHANGED <<mode, memory, blk, disk, history>>

SaveEnrollment(g) ==
    /\ InHook(g, "enrollment") /\ Goto(g, "receipts")
    /\ enrollmentFile' = snap[g]
    /\ UNCHANGED <<mode, memory, blk, snap, journal, accountsFile, receiptsFile, history>>

AppendReceipts(g) ==
    /\ InHook(g, "receipts") /\ Goto(g, "broadcast")
    /\ receiptsFile' = receiptsFile \cup {blk[g].id}
    /\ UNCHANGED <<mode, memory, blk, snap, journal, accountsFile, enrollmentFile, history>>

Broadcast(g) ==
    /\ InHook(g, "broadcast") /\ Goto(g, "idle")
    /\ sent' = sent \cup {blk[g]}
    /\ UNCHANGED <<mode, memory, blk, snap, disk, sealed, stops, orderly>>

\* A Save fails; the old file stays.
SaveFails(g) ==
    /\ mode = "up" /\ stage[g] \in {"accounts", "enrollment", "receipts"}
    /\ Fail(g)
    /\ orderly' = (orderly /\ stage[g] \notin BetweenSaves)
    /\ UNCHANGED <<mode, chain, acct, rec, jtip, blk, snap, disk, sent, sealed, stops>>

----------------------------------------------------------------------------
(* Stop and boot.                                                            *)

\* The process ends: by a signal or a crash, in the middle of a write perhaps.
Stop ==
    /\ mode = "up" /\ stops < MaxStops
    /\ mode' = "down"
    /\ \/ UNCHANGED journal
       \/ \E g \in Goroutines : /\ stage[g] = "append" /\ ExtendsTip(blk[g], jtip)
                                /\ journal' \in Partial(journal, blk[g])
    /\ stops' = stops + 1
    /\ orderly' = (orderly /\ \A g \in Goroutines : stage[g] \notin BetweenSaves)
    /\ stage' = [g \in Goroutines |-> "idle"]
    /\ UNCHANGED <<memory, blk, snap, accountsFile, enrollmentFile, receiptsFile, sent, sealed>>

\* Mutant: the tail is dropped without a look at the predecessor's root.
MatchesAnyPrior(bs) == Len(bs) >= 2

\* evaluatePersistedState of the journal without its last block.
MatchesPrior(bs) == Len(bs) >= 2 /\ accountsFile = bs[Len(bs) - 1].root

MatchesTip(bs) == accountsFile = Last(bs).root

\* EnrollmentState.Load: a missing file is an empty registry.
LoadEnrollment == IF enrollmentFile = NoFile THEN NoRecord ELSE enrollmentFile

\* RestoreChain, AccountStore.Load, EnrollmentState.Load and OpenChainJournal,
\* on the branch bs.
Hydrate(bs) ==
    /\ mode' = "up" /\ failed' = FALSE
    /\ chain' = bs /\ jtip' = Last(bs)
    /\ acct' = accountsFile
    /\ rec' = LoadEnrollment
    /\ blk' = [g \in Goroutines |-> NoBlock]
    /\ snap' = [g \in Goroutines |-> NoRecord]

\* No journal: a fresh chain; neither accounts nor enrollments are loaded.
BootFresh ==
    /\ mode = "down" /\ Lines(journal) = <<>>
    /\ mode' = "up" /\ failed' = FALSE
    /\ chain' = <<>> /\ jtip' = NoBlock /\ acct' = FreshAccounts /\ rec' = NoRecord
    /\ journal' = NoLines
    /\ blk' = [g \in Goroutines |-> NoBlock] /\ snap' = [g \in Goroutines |-> NoRecord]
    /\ UNCHANGED <<stage, accountsFile, enrollmentFile, receiptsFile, history>>

BootAtTip ==
    /\ mode = "down" /\ Lines(journal) # <<>> /\ Readable(journal)
    /\ accountsFile # NoFile /\ MatchesTip(Blocks(journal))
    /\ Hydrate(Blocks(journal))
    /\ UNCHANGED <<stage, disk, history>>

\* ReplaceChainFile renames the journal away, then the new one into its place.
BeginReplace ==
    /\ mode = "down" /\ Lines(journal) # <<>> /\ Readable(journal)
    /\ accountsFile # NoFile
    /\ ~MatchesTip(Blocks(journal)) /\ MatchesPrior(Blocks(journal))
    /\ mode' = "replacing"
    /\ chain' = Blocks(journal)
    /\ journal' = NoFile
    /\ UNCHANGED <<acct, rec, jtip, failed, hooks, accountsFile, enrollmentFile, receiptsFile, history>>

BootWithoutTail ==
    /\ mode = "replacing"
    /\ journal' = [lines |-> [i \in 1..(Len(chain) - 1) |-> <<chain[i]>>], eol |-> TRUE]
    /\ Hydrate(Front(chain))
    /\ UNCHANGED <<stage, accountsFile, enrollmentFile, receiptsFile, history>>

StopInReplace ==
    /\ mode = "replacing" /\ stops < MaxStops
    /\ mode' = "down" /\ stops' = stops + 1 /\ orderly' = FALSE
    /\ UNCHANGED <<memory, hooks, disk, sent, sealed>>

\* log.Fatalf
Refuse ==
    /\ mode = "down" /\ Lines(journal) # <<>>
    /\ Readable(journal) /\ accountsFile # NoFile =>
          ~MatchesTip(Blocks(journal)) /\ ~MatchesPrior(Blocks(journal))
    /\ mode' = "refused"
    /\ UNCHANGED <<memory, hooks, disk, history>>

\* The operator deletes the incomplete trailing line LoadChainNDJSON complains of.
TrimBadLine ==
    /\ mode = "refused" /\ Last(journal.lines) = <<>>
    /\ mode' = "down"
    /\ journal' = [lines |-> Front(journal.lines), eol |-> TRUE]
    /\ UNCHANGED <<memory, hooks, accountsFile, enrollmentFile, receiptsFile, history>>

Hook(g) ==
    \/ Sweep(g) \/ AppendJournal(g) \/ SaveAccounts(g) \/ SnapshotEnrollment(g)
    \/ SaveEnrollment(g) \/ AppendReceipts(g) \/ Broadcast(g) \/ SaveFails(g)

Next ==
    \/ \E g \in Goroutines : SealBlock(g) \/ Hook(g)
    \/ Stop \/ BootFresh \/ BootAtTip \/ BeginReplace \/ BootWithoutTail
    \/ StopInReplace \/ Refuse \/ TrimBadLine

Spec == Init /\ [][Next]_vars

----------------------------------------------------------------------------
(* Properties *)

\* Every variable has the shape the code gives it.
TypeOK ==
    /\ mode \in {"up", "down", "replacing", "refused"}
    /\ chain \in Seq(Block) /\ acct \in Accounts /\ rec \in Record
    /\ jtip \in Block \cup {NoBlock} /\ failed \in BOOLEAN
    /\ stage \in [Goroutines -> Stages]
    /\ blk \in [Goroutines -> Block \cup {NoBlock}] /\ snap \in [Goroutines -> Record]
    /\ journal \in Journal \cup {NoFile}
    /\ accountsFile \in Accounts \cup {NoFile} /\ enrollmentFile \in Record \cup {NoFile}
    /\ receiptsFile \subseteq Nat /\ sent \subseteq Block
    /\ sealed \in Nat /\ stops \in Nat /\ orderly \in BOOLEAN

Follows(b, p) == IF p = NoBlock THEN b.height = 0 ELSE b.height = p.height + 1 /\ b.prev = p.id

\* The block that was written before the k-th one of line i.
Preceding(ls, i, k) ==
    IF k > 1 THEN ls[i][k - 1] ELSE IF i > 1 THEN Last(ls[i - 1]) ELSE NoBlock

\* Only the last line may be torn, and each block follows the one before it.
Linked(ls) ==
    \A i \in DOMAIN ls :
        /\ i < Len(ls) => ls[i] # <<>>
        /\ \A k \in DOMAIN ls[i] : Follows(ls[i][k], Preceding(ls, i, k))

\* The blocks in the journal are one hash-linked chain from genesis, whatever
\* the order in which the hooks of different goroutines reach it and wherever
\* writes failed: ChainJournal.Append's continuity check is the only thing
\* between OnSealedBlock, which is not serialised, and the file.
JournalLinked == Linked(Lines(journal))

\* The node's state and files have their types and the journal is one chain.
JournalInv == TypeOK /\ JournalLinked

\* While hooks run one at a time, a block that was broadcast is in the journal
\* from then on: neither a failed write nor the removal of an uncommitted tail
\* on boot takes it away.
SentSurvives == orderly /\ mode \in {"up", "refused"} => sent \subseteq Written(journal)

\* A running node's balance and bond add up to what the wallet was given,
\* after any restart, unless hooks overlapped or a fault fell between the saves
\* of the accounts and of the registry.
Conserved == orderly /\ mode = "up" => acct.bal + rec.bond = Stake

\* A boot loses at most the block that was being persisted when the process
\* stopped: a node with a failed hook seals nothing more.
AtMostOneBlockLost ==
    [][(orderly /\ mode # "up" /\ mode' = "up") => sealed - Len(chain') <= stops]_vars

\* The receipts on disk are those of blocks of the journal; a discarded tail
\* has left none behind.
ReceiptsOfChain ==
    orderly /\ mode \in {"up", "refused"} => receiptsFile \subseteq {b.id : b \in Written(journal)}
=============================================================================

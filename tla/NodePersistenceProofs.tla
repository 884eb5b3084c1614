------------------------ MODULE NodePersistenceProofs ------------------------
(***************************************************************************)
(* Proofs about NodePersistence, for any number of goroutines, blocks and  *)
(* stops: the journal is one chain whatever the hooks' order, and while    *)
(* the history is orderly a stop loses at most one block, none that was    *)
(* broadcast, and no money.                                                *)
(***************************************************************************)
EXTENDS NodePersistence, SequenceTheorems, TLAPS

----------------------------------------------------------------------------
(* The journal, in every history.                                          *)

InFlight(g) == stage[g] \in {"sweep", "append"}

TipHeight == IF jtip = NoBlock THEN -1 ELSE jtip.height

\* The last block of the lines, which are ended by no torn one.
EndsWith(ls, t) ==
    IF ls = <<>> THEN t = NoBlock ELSE Last(ls) # <<>> /\ t = Last(Last(ls))

\* A write failed and left more in the file than the journal's tip says; no
\* block in flight follows that tip, so nothing is written any more.
Ahead == failed /\ \A g \in Goroutines : InFlight(g) => blk[g].height # TipHeight + 1

\* A running node: blocks in flight are of different heights below the
\* chain's length, and the tip is the last block of the file.
RunningOK ==
    /\ journal # NoFile
    /\ \A g \in Goroutines : InFlight(g) => blk[g].height < Len(chain)
    /\ \A g, h \in Goroutines :
            InFlight(g) /\ InFlight(h) /\ g # h => blk[g].height # blk[h].height
    /\ EndsWith(Lines(journal), jtip) \/ Ahead

\* The chain that a replacement will write.
ReplacingOK ==
    /\ journal = NoFile /\ accountsFile # NoFile /\ Len(chain) >= 2
    /\ \A i \in DOMAIN chain : Follows(chain[i], IF i > 1 THEN chain[i - 1] ELSE NoBlock)

JournalOK ==
    /\ TypeOK /\ JournalLinked
    /\ journal # NoFile => (~journal.eol => journal.lines # <<>>)
    /\ \A g \in Goroutines : stage[g] # "idle" => mode = "up" /\ blk[g] # NoBlock
    /\ mode = "up" => RunningOK
    /\ mode = "replacing" => ReplacingOK
    /\ mode = "refused" => Lines(journal) # <<>>

----------------------------------------------------------------------------
(* Orderly histories.                                                      *)

SavedNonce == IF accountsFile = NoFile THEN 0 ELSE accountsFile.nonce
TipNonce == IF jtip = NoBlock THEN 0 ELSE jtip.root.nonce

\* The account nonce of a block's root is its number; a line of two blocks,
\* which no boot reads, ends the count.
Numbered(ls) ==
    (\A i \in DOMAIN ls : Len(ls[i]) <= 1)
        => \A i \in DOMAIN ls : ls[i] # <<>> => ls[i][1].root.nonce = i

\* The accounts file was saved for some block of the journal.
HasBlock(ls) == accountsFile # NoFile => ls # <<>> /\ ls[1] # <<>>

\* Blocks (those broadcast) and ids (those with receipts) are of what is
\* written, up to the number n for which accounts are saved.
Kept(blocks, ids, n, written) ==
    /\ \A b \in blocks : b \in written /\ b.root.nonce \in 0 .. n
    /\ \A r \in ids : \E b \in written : b.id = r /\ b.root.nonce \in 0 .. n

\* The files of accounts and of enrollments are of one moment.
FilesAgree == accountsFile # NoFile => accountsFile.bal + LoadEnrollment.bond = Stake

\* How far the only running hook has come.
HookOK(g) ==
    /\ ~failed /\ blk[g].root.nonce = acct.nonce
    /\ InFlight(g) => TipNonce + 1 = acct.nonce
    /\ ~InFlight(g) => TipNonce = acct.nonce /\ blk[g] \in Written(journal)
    /\ stage[g] \in {"snapshot", "enrollment", "receipts", "broadcast"} => accountsFile = acct
    /\ stage[g] = "enrollment" => snap[g] = rec

\* A running node is at most one block ahead of its files.
UpOrder ==
    /\ acct.bal + rec.bond = Stake /\ acct.nonce = Len(chain)
    /\ sealed <= acct.nonce + stops
    /\ acct.nonce <= SavedNonce + 1 /\ SavedNonce <= acct.nonce
    /\ \A g \in Goroutines : stage[g] # "idle" => HookOK(g)
    /\ ~failed /\ (\A g \in Goroutines : stage[g] = "idle")
            => SavedNonce = acct.nonce /\ TipNonce = acct.nonce

\* A stopped node has counted its stop.
DownOrder == FilesAgree /\ sealed <= SavedNonce + stops

\* A replacement drops the block whose accounts were not saved.
ReplaceOrder ==
    /\ accountsFile = chain[Len(chain) - 1].root
    /\ \A i \in DOMAIN chain : chain[i].root.nonce = i
    /\ Kept(sent, receiptsFile, SavedNonce, {chain[i] : i \in 1 .. Len(chain) - 1})

Order ==
    /\ \A g, h \in Goroutines : stage[g] # "idle" /\ stage[h] # "idle" => g = h
    /\ (\A g \in Goroutines : stage[g] \notin BetweenSaves) => FilesAgree
    /\ mode = "up" => UpOrder
    /\ mode # "up" => DownOrder
    /\ mode = "replacing" => ReplaceOrder
    /\ mode # "replacing" => /\ Numbered(Lines(journal)) /\ HasBlock(Lines(journal))
                             /\ Kept(sent, receiptsFile, SavedNonce, Written(journal))

OrderOK == orderly => Order

NodeInv == JournalOK /\ OrderOK

----------------------------------------------------------------------------
(* What a write does to the journal.                                       *)

\* A line is added to a journal whose last line is ended ...
LEMMA LineAppended ==
    ASSUME NEW j \in Journal, j.eol, NEW line \in Seq(Block), NEW e \in BOOLEAN
    PROVE  LET n == WithLine(j, line, e) IN
           n \in Journal /\ n.eol = e /\ n.lines = Append(j.lines, line) /\ n # NoFile
<1>1. j # NoFile /\ j.lines \in Seq(Seq(Block))
  BY PersistenceAssumption DEF Journal
<1>2. WithLine(j, line, e) = [lines |-> Append(j.lines, line), eol |-> e]
  BY <1>1 DEF WithLine, Lines
<1>3. Append(j.lines, line) \in Seq(Seq(Block))
  BY <1>1
<1>4. WithLine(j, line, e) \in Journal
  BY <1>2, <1>3 DEF Journal
<1>5. WithLine(j, line, e) # NoFile
  BY <1>4, PersistenceAssumption
<1> QED
  BY <1>2, <1>4, <1>5

\* ... and glued to the last line of one whose end was not written.
LEMMA LineGlued ==
    ASSUME NEW j \in Journal, ~j.eol, j.lines # <<>>, NEW line \in Seq(Block), NEW e \in BOOLEAN
    PROVE  LET n == WithLine(j, line, e) IN
           /\ n \in Journal /\ n.eol = e /\ n # NoFile
           /\ Len(n.lines) = Len(j.lines)
           /\ n.lines[Len(j.lines)] = j.lines[Len(j.lines)] \o line
           /\ \A i \in 1 .. Len(j.lines) - 1 : n.lines[i] = j.lines[i]
<1> DEFINE ls == j.lines
           m == Len(ls)
           last == ls[m] \o line
<1>1. j # NoFile /\ ls \in Seq(Seq(Block)) /\ m \in Nat \ {0} /\ ls[m] \in Seq(Block)
  BY PersistenceAssumption DEF Journal
<1>2. WithLine(j, line, e) = [lines |-> SubSeq(ls, 1, m - 1) \o <<last>>, eol |-> e]
  BY <1>1 DEF WithLine, Front, Last
<1>3. last \in Seq(Block)
  BY <1>1
<1> HIDE DEF last, ls
<1> DEFINE front == SubSeq(ls, 1, m - 1)
<1>4. front \in Seq(Seq(Block)) /\ Len(front) = m - 1 /\ \A i \in 1 .. m - 1 : front[i] = ls[i]
  <2>1. \A i \in 1 .. m - 1 : ls[i] \in Seq(Block)
    BY <1>1, LenProperties
  <2> HIDE DEF m
  <2> QED
    BY <1>1, <2>1, SubSeqProperties
<1> HIDE DEF front
<1> DEFINE new == front \o <<last>>
<1>5. /\ new \in Seq(Seq(Block)) /\ Len(new) = m /\ new[m] = last
      /\ \A i \in 1 .. m - 1 : new[i] = ls[i]
  <2>1. <<last>> \in Seq(Seq(Block)) /\ Len(<<last>>) = 1 /\ <<last>>[1] = last
    BY <1>3
  <2> HIDE DEF m
  <2>2. /\ front \o <<last>> \in Seq(Seq(Block)) /\ Len(front \o <<last>>) = (m - 1) + 1
        /\ \A i \in 1 .. (m - 1) + 1 : (front \o <<last>>)[i] =
                IF i <= m - 1 THEN front[i] ELSE <<last>>[i - (m - 1)]
    <3> DEFINE one == <<last>>
    <3> HIDE DEF one
    <3>1. one \in Seq(Seq(Block)) /\ Len(one) = 1
      BY <2>1 DEF one
    <3>2. /\ front \o one \in Seq(Seq(Block)) /\ Len(front \o one) = Len(front) + Len(one)
          /\ \A i \in 1 .. Len(front) + Len(one) : (front \o one)[i] =
                IF i <= Len(front) THEN front[i] ELSE one[i - Len(front)]
      BY <1>4, <3>1, ConcatProperties
    <3>3. Len(front) = m - 1
      BY <1>4
    <3> QED
      BY <3>1, <3>2, <3>3 DEF one
  <2>3. new[m] = <<last>>[1]
    BY <1>1, <2>2
  <2>4. \A i \in 1 .. m - 1 : new[i] = front[i]
    BY <1>1, <2>2
  <2> QED
    BY <1>1, <1>4, <2>1, <2>2, <2>3, <2>4
<1>6. WithLine(j, line, e) = [lines |-> new, eol |-> e]
  BY <1>2 DEF front
<1> HIDE DEF new
<1>7. WithLine(j, line, e) \in Journal
  BY <1>5, <1>6 DEF Journal
<1> QED
  BY <1>5, <1>6, <1>7, PersistenceAssumption DEF ls, last

WellFormed(j) == j \in Journal /\ (~j.eol => j.lines # <<>>)

\* What the proofs use of m lines being sequences of blocks.
Shape(ls, m) ==
    /\ m \in Nat /\ Len(ls) = m /\ DOMAIN ls = 1 .. m /\ (ls = <<>> <=> m = 0)
    /\ \A i \in 1 .. m : /\ Len(ls[i]) \in Nat /\ DOMAIN ls[i] = 1 .. Len(ls[i])
                         /\ ls[i] = <<>> <=> Len(ls[i]) = 0

LEMMA ShapeOf ==
    ASSUME NEW ls \in Seq(Seq(Block))
    PROVE  Shape(ls, Len(ls)) /\ \A i \in 1 .. Len(ls) : ls[i] \in Seq(Block)
<1>1. DOMAIN ls = 1 .. Len(ls) /\ Len(ls) \in Nat /\ \A i \in 1 .. Len(ls) : ls[i] \in Seq(Block)
  BY LenProperties
<1>2. ASSUME NEW q \in Seq(Block)
      PROVE  Len(q) \in Nat /\ DOMAIN q = 1 .. Len(q) /\ (q = <<>> <=> Len(q) = 0)
  BY <1>2
<1>3. ls = <<>> <=> Len(ls) = 0
  BY EmptySeq
<1> QED
  BY <1>1, <1>2, <1>3 DEF Shape

\* The number of the last block that was written.
NonceOf(t) == IF t = NoBlock THEN 0 ELSE t.root.nonce

\* Lines that end with a block t have no torn line.
LEMMA NoTornLine ==
    ASSUME NEW ls, NEW m, Shape(ls, m), Linked(ls), NEW t, EndsWith(ls, t)
    PROVE  /\ \A i \in 1 .. m : /\ ls[i] # <<>>
                                /\ \A k \in 1 .. Len(ls[i]) : Follows(ls[i][k], Preceding(ls, i, k))
           /\ m > 0 => t = ls[m][Len(ls[m])]
           /\ m = 0 => t = NoBlock
<1>1. m \in Nat /\ (m > 0 => ls # <<>>)
  BY DEF Shape
<1>2. m > 0 => ls[m] # <<>> /\ t = ls[m][Len(ls[m])]
  BY <1>1 DEF Shape, EndsWith, Last
<1>3. m = 0 => t = NoBlock
  BY DEF Shape, EndsWith
<1>4. ASSUME NEW i \in 1 .. m
      PROVE  ls[i] # <<>> /\ \A k \in 1 .. Len(ls[i]) : Follows(ls[i][k], Preceding(ls, i, k))
  <2>1. i \in DOMAIN ls /\ DOMAIN ls[i] = 1 .. Len(ls[i]) /\ Len(ls) = m
    BY DEF Shape
  <2>2. (i < m => ls[i] # <<>>) /\ \A k \in 1 .. Len(ls[i]) : Follows(ls[i][k], Preceding(ls, i, k))
    BY <2>1 DEF Linked
  <2>3. i < m \/ i = m
    BY <1>1
  <2> QED
    BY <1>1, <1>2, <2>2, <2>3
<1> QED
  BY <1>2, <1>3, <1>4

\* A line with one block more.
LEMMA LinkedAppended ==
    ASSUME NEW ls, NEW m, Shape(ls, m), Linked(ls), NEW t, EndsWith(ls, t),
           NEW new, Shape(new, m + 1), \A i \in 1 .. m : new[i] = ls[i],
           Follows(new[m + 1][1], t), Len(new[m + 1]) = 1
    PROVE  Linked(new) /\ EndsWith(new, new[m + 1][1])
<1> DEFINE b == new[m + 1][1]
<1>0. m \in Nat /\ new # <<>> /\ new[m + 1] # <<>> /\ Len(new) = m + 1
  BY DEF Shape
<1>1. EndsWith(new, b)
  BY <1>0 DEF EndsWith, Last
<1>2. ASSUME NEW i \in 1 .. m + 1
      PROVE  /\ new[i] # <<>>
             /\ \A k \in 1 .. Len(new[i]) : Follows(new[i][k], Preceding(new, i, k))
  <2>1. CASE i \in 1 .. m
    <3>1. new[i] = ls[i] /\ (i > 1 => new[i - 1] = ls[i - 1])
      BY <1>0, <2>1
    <3>2. \A k \in 1 .. Len(ls[i]) : Preceding(new, i, k) = Preceding(ls, i, k)
      BY <3>1 DEF Preceding
    <3> QED
      BY <2>1, <3>1, <3>2, NoTornLine
  <2>2. CASE i = m + 1
    <3>1. m > 0 => new[i - 1] = ls[m] /\ Last(ls[m]) = t
      BY <1>0, <2>2, NoTornLine DEF Last
    <3>2. Preceding(new, i, 1) = t
      BY <1>0, <2>2, <3>1, NoTornLine DEF Preceding
    <3>3. \A k \in 1 .. Len(new[i]) : k = 1
      <4>1. Len(new[i]) = 1
        BY <2>2
      <4>2. \A k \in 1 .. 1 : k = 1
        OBVIOUS
      <4> QED
        BY <4>1, <4>2
    <3> QED
      BY <1>0, <2>2, <3>2, <3>3
  <2> QED
    BY <1>0, <2>1, <2>2
<1>3. DOMAIN new = 1 .. m + 1 /\ \A i \in 1 .. m + 1 : DOMAIN new[i] = 1 .. Len(new[i])
  BY DEF Shape
<1> QED
  BY <1>1, <1>2, <1>3 DEF Linked

\* The last line has one block more.
LEMMA LinkedGlued ==
    ASSUME NEW ls, NEW m, Shape(ls, m), Linked(ls), NEW t, EndsWith(ls, t), m > 0,
           NEW new, Shape(new, m), \A i \in 1 .. m - 1 : new[i] = ls[i],
           NEW b, Follows(b, t), Len(new[m]) = Len(ls[m]) + 1,
           \A k \in 1 .. Len(ls[m]) : new[m][k] = ls[m][k], new[m][Len(ls[m]) + 1] = b
    PROVE  Linked(new) /\ EndsWith(new, b) /\ Numbered(new)
<1> DEFINE p == Len(ls[m])
<1>0. m \in Nat /\ m \in 1 .. m /\ new # <<>> /\ Len(new) = m /\ p \in Nat /\ p > 0
  <2>1. m \in Nat /\ m \in 1 .. m /\ new # <<>> /\ Len(new) = m
    BY DEF Shape
  <2>2. p \in Nat /\ (ls[m] = <<>> <=> p = 0)
    BY <2>1 DEF Shape
  <2>3. ls[m] # <<>>
    BY <2>1, NoTornLine
  <2> QED
    BY <2>1, <2>2, <2>3
<1> HIDE DEF p
<1>1. new[m] # <<>> /\ Len(new[m]) = p + 1 /\ new[m][p + 1] = b /\ \A k \in 1 .. p : new[m][k] = ls[m][k]
  BY <1>0 DEF Shape, p
<1>2. EndsWith(new, b)
  BY <1>0, <1>1 DEF EndsWith, Last
<1>3. ASSUME NEW i \in 1 .. m
      PROVE  /\ new[i] # <<>>
             /\ \A k \in 1 .. Len(new[i]) : Follows(new[i][k], Preceding(new, i, k))
  <2>1. i > 1 => new[i - 1] = ls[i - 1]
    BY <1>0
  <2>2. CASE i \in 1 .. m - 1
    <3>1. new[i] = ls[i]
      BY <2>2
    <3>2. \A k \in 1 .. Len(ls[i]) : Preceding(new, i, k) = Preceding(ls, i, k)
      BY <2>1, <3>1 DEF Preceding
    <3> QED
      BY <3>1, <3>2, NoTornLine
  <2>3. CASE i = m
    <3> SUFFICES ASSUME NEW k \in 1 .. p + 1
                 PROVE  Follows(new[m][k], Preceding(new, m, k))
      BY <1>1, <2>3
    <3>1. CASE k \in 1 .. p
      <4>1. new[m][k] = ls[m][k] /\ (k > 1 => new[m][k - 1] = ls[m][k - 1])
        BY <1>0, <1>1, <3>1
      <4>2. Preceding(new, m, k) = Preceding(ls, m, k)
        BY <2>1, <2>3, <4>1 DEF Preceding
      <4> QED
        BY <1>0, <3>1, <4>1, <4>2, NoTornLine DEF p
    <3>2. CASE k = p + 1
      <4>1. (p + 1) - 1 = p /\ p + 1 > 1 /\ p \in 1 .. p
        BY <1>0
      <4>2. new[m][p] = t
        BY <1>0, <1>1, <4>1, NoTornLine DEF p
      <4>3. Preceding(new, m, k) = t
        BY <3>2, <4>1, <4>2 DEF Preceding
      <4> QED
        BY <1>1, <3>2, <4>3
    <3> QED
      BY <1>0, <3>1, <3>2
  <2> QED
    BY <1>0, <2>2, <2>3
<1>4. DOMAIN new = 1 .. m /\ \A i \in 1 .. m : DOMAIN new[i] = 1 .. Len(new[i])
  BY DEF Shape
<1>5. Numbered(new)
  <2>1. ~(Len(new[m]) <= 1)
    BY <1>0, <1>1
  <2> QED
    BY <1>0, <1>4, <2>1 DEF Numbered
<1> QED
  BY <1>2, <1>3, <1>4, <1>5 DEF Linked

\* The new line of a numbered journal has the next number.
LEMMA NumberedAppended ==
    ASSUME NEW ls, NEW m, Shape(ls, m), Linked(ls), NEW t, EndsWith(ls, t), m > 0 => t # NoBlock,
           NEW new, Shape(new, m + 1), \A i \in 1 .. m : new[i] = ls[i], Numbered(ls),
           new[m + 1] # <<>> => new[m + 1][1].root.nonce = NonceOf(t) + 1
    PROVE  Numbered(new)
<1>0. m \in Nat /\ DOMAIN ls = 1 .. m /\ DOMAIN new = 1 .. m + 1
  BY DEF Shape
<1> SUFFICES ASSUME \A i \in 1 .. m + 1 : Len(new[i]) <= 1,
                    NEW i \in 1 .. m + 1, new[i] # <<>>
             PROVE  new[i][1].root.nonce = i
  BY <1>0 DEF Numbered
<1>1. \A x \in 1 .. m : x \in 1 .. m + 1 /\ Len(ls[x]) <= 1
  BY <1>0
<1>2. \A x \in 1 .. m : ls[x] # <<>> => ls[x][1].root.nonce = x
  BY <1>0, <1>1 DEF Numbered
<1>3. CASE i \in 1 .. m
  BY <1>2, <1>3
<1>4. CASE i = m + 1
  <2>1. CASE m = 0
    BY <1>4, <2>1, NoTornLine DEF NonceOf
  <2>2. CASE m > 0
    <3>1. m \in 1 .. m /\ ls[m] # <<>> /\ t = ls[m][Len(ls[m])]
      BY <1>0, <2>2, NoTornLine
    <3>2. Len(ls[m]) = 1
      <4>1. Len(ls[m]) \in Nat /\ Len(ls[m]) # 0
        BY <3>1 DEF Shape
      <4>2. Len(ls[m]) <= 1
        BY <1>1, <3>1
      <4>3. \A x \in Nat : x # 0 /\ x <= 1 => x = 1
        OBVIOUS
      <4> QED
        BY <4>1, <4>2, <4>3
    <3>3. t.root.nonce = m
      BY <1>2, <3>1, <3>2
    <3> QED
      BY <1>4, <2>2, <3>3 DEF NonceOf
  <2> QED
    BY <1>0, <2>1, <2>2
<1> QED
  BY <1>0, <1>3, <1>4

\* A whole block is written after the last one of the journal.
LEMMA BlockWritten ==
    ASSUME NEW j, WellFormed(j), Linked(j.lines), NEW t \in Block \cup {NoBlock},
           EndsWith(j.lines, t), NEW b \in Block, Follows(b, t), NEW e \in BOOLEAN
    PROVE  LET n == WithLine(j, <<b>>, e) IN
           /\ WellFormed(n) /\ n # NoFile /\ Linked(n.lines) /\ EndsWith(n.lines, b)
           /\ n.lines # <<>> /\ n.lines[1] # <<>>
           /\ Numbered(j.lines) /\ b.root.nonce = NonceOf(t) + 1 => Numbered(n.lines)
<1> DEFINE n == WithLine(j, <<b>>, e)
           ls == j.lines
           m == Len(ls)
<1>0. ls \in Seq(Seq(Block)) /\ <<b>> \in Seq(Block) /\ Len(<<b>>) = 1 /\ <<b>>[1] = b
  BY DEF WellFormed, Journal
<1>1. Shape(ls, m) /\ \A i \in 1 .. m : ls[i] \in Seq(Block)
  BY <1>0, ShapeOf
<1>2. m \in Nat /\ (m > 0 => m \in 1 .. m) /\ (m = 0 <=> ls = <<>>)
  BY <1>1 DEF Shape
<1>3. m > 0 => t # NoBlock
  <2>1. m > 0 => ls[m] \in Seq(Block) /\ ls[m] # <<>> /\ t = ls[m][Len(ls[m])]
    BY <1>1, <1>2, NoTornLine
  <2>2. m > 0 => t \in Block
    BY <2>1
  <2> QED
    BY <2>2, PersistenceAssumption
<1> HIDE DEF m, n
<1>4. CASE j.eol
  <2>1. n \in Journal /\ n.lines = Append(ls, <<b>>) /\ n # NoFile /\ n.eol = e
    BY <1>0, <1>4, LineAppended DEF WellFormed, n
  <2> DEFINE new == n.lines
  <2>2. /\ new \in Seq(Seq(Block)) /\ Len(new) = m + 1 /\ new[m + 1] = <<b>>
        /\ \A i \in 1 .. m : new[i] = ls[i]
    BY <1>0, <2>1, AppendProperties DEF m
  <2>3. Shape(new, m + 1)
    BY <2>2, ShapeOf
  <2>4. Len(new[m + 1]) = 1 /\ new[m + 1][1] = b
    BY <1>0, <2>2
  <2> HIDE DEF new, ls
  <2>5. Linked(ls) /\ EndsWith(ls, t)
    BY DEF ls
  <2>6. Linked(new) /\ EndsWith(new, b)
    <3>1. /\ Follows(new[m + 1][1], t) /\ Len(new[m + 1]) = 1
          /\ Shape(ls, m) /\ \A i \in 1 .. m : new[i] = ls[i]
      BY <1>1, <2>2, <2>4
    <3>2. Linked(new) /\ EndsWith(new, new[m + 1][1])
      BY <2>3, <2>5, <3>1, LinkedAppended
    <3> QED
      BY <2>4, <3>2
  <2>7. new # <<>> /\ 1 \in 1 .. m + 1
    BY <1>2, <2>3 DEF Shape
  <2>8. new[1] # <<>>
    BY <2>3, <2>6, <2>7, NoTornLine
  <2>9. Numbered(ls) /\ b.root.nonce = NonceOf(t) + 1 => Numbered(new)
    BY <1>1, <1>3, <2>2, <2>3, <2>4, <2>5, NumberedAppended
  <2>10. WellFormed(n)
    BY <2>1, <2>7 DEF WellFormed, new
  <2> QED
    BY <2>1, <2>6, <2>7, <2>8, <2>9, <2>10 DEF new, ls, n
<1>5. CASE ~j.eol
  <2>0. m > 0
    BY <1>2, <1>5 DEF WellFormed
  <2>1. /\ n \in Journal /\ n # NoFile /\ Len(n.lines) = m
        /\ n.lines[m] = ls[m] \o <<b>>
        /\ \A i \in 1 .. m - 1 : n.lines[i] = ls[i]
    BY <1>0, <1>5, LineGlued DEF WellFormed, n, m
  <2> DEFINE new == n.lines
             p == Len(ls[m])
  <2>2. new \in Seq(Seq(Block))
    BY <2>1 DEF Journal
  <2>3. Shape(new, m) /\ \A i \in 1 .. m - 1 : new[i] = ls[i]
    BY <2>1, <2>2, ShapeOf
  <2>4. ls[m] \in Seq(Block) /\ new[m] = ls[m] \o <<b>>
    BY <1>1, <1>2, <2>0, <2>1
  <2>5. Len(new[m]) = p + 1 /\ new[m][p + 1] = b /\ \A k \in 1 .. p : new[m][k] = ls[m][k]
    BY <1>0, <2>4
  <2> HIDE DEF new
  <2>6. Linked(new) /\ EndsWith(new, b) /\ Numbered(new)
    BY <1>1, <2>0, <2>3, <2>5, LinkedGlued
  <2>7. new # <<>> /\ 1 \in 1 .. m
    BY <1>2, <2>0, <2>3 DEF Shape
  <2>8. new[1] # <<>>
    BY <2>3, <2>6, <2>7, NoTornLine
  <2>9. WellFormed(n)
    BY <2>1, <2>7 DEF WellFormed, new
  <2> QED
    BY <2>1, <2>6, <2>7, <2>8, <2>9 DEF new, n
<1> QED
  BY <1>4, <1>5

\* Part of a block is written: the last line is torn or as it was.
LEMMA TornWritten ==
    ASSUME NEW j, WellFormed(j), Linked(j.lines), NEW t \in Block \cup {NoBlock},
           EndsWith(j.lines, t)
    PROVE  LET n == WithLine(j, <<>>, FALSE) IN
           /\ WellFormed(n) /\ n # NoFile /\ Linked(n.lines)
           /\ j.lines # <<>> => n.lines[1] # <<>>
           /\ Numbered(j.lines) => Numbered(n.lines)
<1> DEFINE n == WithLine(j, <<>>, FALSE)
           ls == j.lines
           m == Len(ls)
<1>0. ls \in Seq(Seq(Block)) /\ <<>> \in Seq(Block) /\ Len(<<>>) = 0
  BY DEF WellFormed, Journal
<1>1. Shape(ls, m) /\ \A i \in 1 .. m : ls[i] \in Seq(Block)
  BY <1>0, ShapeOf
<1>2. m \in Nat /\ (m > 0 => m \in 1 .. m) /\ (m = 0 <=> ls = <<>>)
  BY <1>1 DEF Shape
<1>3. \A i \in 1 .. m : /\ ls[i] # <<>>
                        /\ \A k \in 1 .. Len(ls[i]) : Follows(ls[i][k], Preceding(ls, i, k))
  BY <1>1, NoTornLine
<1> HIDE DEF m, n
<1>4. CASE j.eol
  <2>1. n \in Journal /\ n.lines = Append(ls, <<>>) /\ n # NoFile
    BY <1>0, <1>4, LineAppended DEF WellFormed, n
  <2> DEFINE new == n.lines
  <2>2. /\ new \in Seq(Seq(Block)) /\ Len(new) = m + 1 /\ new[m + 1] = <<>>
        /\ \A i \in 1 .. m : new[i] = ls[i]
    BY <1>0, <2>1, AppendProperties DEF m
  <2>3. Shape(new, m + 1)
    BY <2>2, ShapeOf
  <2> HIDE DEF new, ls
  <2>4. DOMAIN new = 1 .. m + 1 /\ DOMAIN ls = 1 .. m /\ new # <<>>
    BY <1>1, <1>2, <2>3 DEF Shape
  <2>5. ASSUME NEW i \in 1 .. m + 1
        PROVE  /\ i < m + 1 => new[i] # <<>>
               /\ \A k \in DOMAIN new[i] : Follows(new[i][k], Preceding(new, i, k))
    <3>1. CASE i \in 1 .. m
      <4>1. new[i] = ls[i] /\ (i > 1 => new[i - 1] = ls[i - 1]) /\ DOMAIN ls[i] = 1 .. Len(ls[i])
        BY <1>1, <1>2, <2>2, <3>1 DEF Shape
      <4>2. \A k \in 1 .. Len(ls[i]) : Preceding(new, i, k) = Preceding(ls, i, k)
        BY <4>1 DEF Preceding
      <4> QED
        BY <1>3, <3>1, <4>1, <4>2
    <3>2. CASE i = m + 1
      <4>1. DOMAIN new[i] = 1 .. 0
        BY <2>2, <3>2
      <4>2. ~(i < m + 1) /\ 1 .. 0 = {}
        BY <1>2, <3>2
      <4> QED
        BY <4>1, <4>2
    <3> QED
      BY <1>2, <3>1, <3>2
  <2>6. Linked(new)
    BY <2>2, <2>4, <2>5 DEF Linked
  <2>7. ls # <<>> => new[1] # <<>>
    BY <1>2, <1>3, <2>2 DEF ls
  <2>8. Numbered(ls) => Numbered(new)
    <3> SUFFICES ASSUME Numbered(ls), \A i \in 1 .. m + 1 : Len(new[i]) <= 1,
                        NEW i \in 1 .. m + 1, new[i] # <<>>
                 PROVE  new[i][1].root.nonce = i
      BY <2>4 DEF Numbered
    <3>1. i \in 1 .. m
      BY <1>2, <2>2
    <3>2. \A x \in 1 .. m : x \in 1 .. m + 1 /\ Len(ls[x]) <= 1
      BY <1>2, <2>2
    <3> QED
      BY <2>2, <2>4, <3>1, <3>2 DEF Numbered
  <2>9. WellFormed(n)
    BY <2>1, <2>4 DEF WellFormed, new
  <2> QED
    BY <2>1, <2>6, <2>7, <2>8, <2>9 DEF new, ls, n
<1>5. CASE ~j.eol
  <2>0. m > 0
    BY <1>2, <1>5 DEF WellFormed
  <2>1. /\ n \in Journal /\ n # NoFile /\ Len(n.lines) = m
        /\ n.lines[m] = ls[m] \o <<>>
        /\ \A i \in 1 .. m - 1 : n.lines[i] = ls[i]
    BY <1>0, <1>5, LineGlued DEF WellFormed, n, m
  <2>2. ls[m] \in Seq(Block)
    BY <1>1, <1>2, <2>0
  <2>3. n.lines[m] = ls[m]
    BY <2>1, <2>2, ConcatEmptySeq
  <2>4. n.lines \in Seq(Seq(Block)) /\ Len(n.lines) = Len(ls)
    BY <2>1 DEF Journal, m
  <2>5. \A i \in 1 .. m : n.lines[i] = ls[i]
    BY <1>2, <2>1, <2>3
  <2>6. n.lines = ls
    <3> DEFINE new == n.lines
    <3> HIDE DEF new, ls
    <3> QED
      BY <1>0, <2>4, <2>5, SeqEqual DEF m, new
  <2>7. ls # <<>> /\ ls[1] # <<>>
    BY <1>2, <1>3, <2>0
  <2> QED
    BY <2>1, <2>6, <2>7 DEF WellFormed, n
<1> QED
  BY <1>4, <1>5

\* A block is written when some line holds it.
LEMMA WrittenIn ==
    ASSUME NEW j, NEW b
    PROVE  b \in Written(j) <=>
           \E i \in DOMAIN Lines(j) : \E k \in DOMAIN Lines(j)[i] : b = Lines(j)[i][k]
  BY DEF Written, ToSet

\* Writing takes nothing away.
LEMMA WrittenGrows ==
    ASSUME NEW j, WellFormed(j), NEW line \in Seq(Block), NEW e \in BOOLEAN
    PROVE  /\ Written(j) \subseteq Written(WithLine(j, line, e))
           /\ \A k \in DOMAIN line : line[k] \in Written(WithLine(j, line, e))
<1> DEFINE n == WithLine(j, line, e)
           ls == j.lines
           m == Len(ls)
           new == n.lines
<1>0. ls \in Seq(Seq(Block)) /\ Lines(j) = ls
  BY PersistenceAssumption DEF WellFormed, Journal, Lines
<1>1. Shape(ls, m) /\ \A i \in 1 .. m : ls[i] \in Seq(Block)
  BY <1>0, ShapeOf
<1>2. m \in Nat /\ (m > 0 => m \in 1 .. m) /\ (m = 0 <=> ls = <<>>) /\ DOMAIN ls = 1 .. m
  BY <1>1 DEF Shape
<1> HIDE DEF n
<1>3. \E last \in DOMAIN new :
         /\ \A i \in DOMAIN ls : i \in DOMAIN new /\ \A k \in DOMAIN ls[i] : k \in DOMAIN new[i] /\ new[i][k] = ls[i][k]
         /\ \A k \in DOMAIN line : \E x \in DOMAIN new[last] : new[last][x] = line[k]
      /\ n # NoFile
  <2>1. CASE j.eol
    <3>1. n \in Journal /\ new = Append(ls, line) /\ n # NoFile
      BY <2>1, LineAppended DEF WellFormed, n
    <3>2. /\ new \in Seq(Seq(Block)) /\ Len(new) = m + 1 /\ new[m + 1] = line
          /\ \A i \in 1 .. m : new[i] = ls[i]
      BY <1>0, <3>1, AppendProperties
    <3>3. Shape(new, m + 1)
      BY <3>2, ShapeOf
    <3>4. DOMAIN new = 1 .. m + 1 /\ m + 1 \in DOMAIN new
      BY <1>2, <3>3 DEF Shape
    <3> HIDE DEF m, new, ls
    <3>5. \A i \in DOMAIN ls : i \in DOMAIN new /\ new[i] = ls[i]
      BY <1>2, <3>2, <3>4
    <3> QED
      BY <3>1, <3>2, <3>4, <3>5
  <2>2. CASE ~j.eol
    <3>0. ls # <<>> /\ m > 0
      BY <1>2, <2>2 DEF WellFormed
    <3>1. /\ n \in Journal /\ n # NoFile /\ Len(new) = m /\ new[m] = ls[m] \o line
          /\ \A i \in 1 .. m - 1 : new[i] = ls[i]
      BY <2>2, <3>0, LineGlued DEF WellFormed, n
    <3>2. new \in Seq(Seq(Block))
      BY <3>1 DEF Journal
    <3>3. Shape(new, m)
      BY <3>1, <3>2, ShapeOf
    <3>4. DOMAIN new = 1 .. m /\ m \in DOMAIN new /\ ls[m] \in Seq(Block)
      BY <1>1, <1>2, <3>0, <3>3 DEF Shape
    <3> DEFINE old == ls[m]
               glued == old \o line
    <3>5. /\ glued \in Seq(Block) /\ Len(glued) = Len(old) + Len(line)
          /\ \A k \in DOMAIN old : k \in DOMAIN glued /\ glued[k] = old[k]
          /\ \A k \in DOMAIN line : Len(old) + k \in DOMAIN glued /\ glued[Len(old) + k] = line[k]
      <4> HIDE DEF old
      <4> QED
        BY <3>4 DEF old
    <3>6. new[m] = glued
      BY <3>1
    <3> HIDE DEF m, new, ls, old, glued
    <3>7. \A i \in DOMAIN ls : i \in DOMAIN new /\ (i # m => new[i] = ls[i])
      BY <1>2, <3>1, <3>4
    <3>8. \A k \in DOMAIN line : \E x \in DOMAIN new[m] : new[m][x] = line[k]
      BY <3>5, <3>6
    <3>9. \A i \in DOMAIN ls : \A k \in DOMAIN ls[i] : k \in DOMAIN new[i] /\ new[i][k] = ls[i][k]
      BY <3>5, <3>6, <3>7 DEF old
    <3> QED
      BY <3>1, <3>4, <3>7, <3>8, <3>9
  <2> QED
    BY <2>1, <2>2
<1>4. Lines(n) = new
  BY <1>3 DEF Lines
<1> HIDE DEF new, ls
<1>5. ASSUME NEW b \in Written(j)
      PROVE  b \in Written(n)
  <2>1. PICK i \in DOMAIN ls : \E k \in DOMAIN ls[i] : b = ls[i][k]
    BY <1>0, WrittenIn
  <2>2. PICK k \in DOMAIN ls[i] : b = ls[i][k]
    BY <2>1
  <2>3. i \in DOMAIN new /\ k \in DOMAIN new[i] /\ new[i][k] = b
    BY <1>3, <2>2
  <2> QED
    BY <1>4, <2>3, WrittenIn
<1>6. ASSUME NEW k \in DOMAIN line
      PROVE  line[k] \in Written(n)
  <2>1. PICK last \in DOMAIN new : \A x \in DOMAIN line : \E y \in DOMAIN new[last] : new[last][y] = line[x]
    BY <1>3
  <2>2. PICK y \in DOMAIN new[last] : new[last][y] = line[k]
    BY <2>1
  <2> QED
    BY <1>4, <2>2, WrittenIn
<1> QED
  BY <1>5, <1>6 DEF n

----------------------------------------------------------------------------
(* A write of the hook.                                                    *)

\* What any outcome of writing b leaves in the file.
Wrote(n, b) ==
    /\ WellFormed(n) /\ n # NoFile /\ Linked(n.lines) /\ Written(journal) \subseteq Written(n)
    /\ n.lines # <<>> \/ n = journal
    /\ Lines(journal) # <<>> => n.lines[1] # <<>>
    /\ Numbered(Lines(journal)) /\ b.root.nonce = TipNonce + 1 => Numbered(n.lines)

\* While the tip is the last block of the file, a block that extends it is
\* written whole, or in part, or not at all.
LEMMA WriteOutcomes ==
    ASSUME JournalOK, mode = "up", EndsWith(Lines(journal), jtip),
           NEW b \in Block, ExtendsTip(b, jtip)
    PROVE  /\ LET n == WithLine(journal, <<b>>, TRUE)
              IN  Wrote(n, b) /\ EndsWith(n.lines, b) /\ b \in Written(n)
           /\ \A n \in Partial(journal, b) : Wrote(n, b)
<1>1. journal \in Journal /\ journal # NoFile /\ Lines(journal) = journal.lines
  BY DEF JournalOK, TypeOK, RunningOK, Lines
<1>2. WellFormed(journal) /\ Linked(journal.lines) /\ EndsWith(journal.lines, jtip)
  BY <1>1 DEF JournalOK, JournalLinked, WellFormed
<1>3. jtip \in Block \cup {NoBlock} /\ Follows(b, jtip) /\ TipNonce = NonceOf(jtip)
  BY DEF JournalOK, TypeOK, ExtendsTip, Follows, TipNonce, NonceOf
<1>4. <<b>> \in Seq(Block) /\ <<>> \in Seq(Block) /\ 1 \in DOMAIN <<b>> /\ <<b>>[1] = b
  OBVIOUS
<1>5. ASSUME NEW e \in BOOLEAN
      PROVE  LET n == WithLine(journal, <<b>>, e)
             IN  Wrote(n, b) /\ EndsWith(n.lines, b) /\ b \in Written(n)
  <2> DEFINE n == WithLine(journal, <<b>>, e)
             line == <<b>>
  <2>1. /\ WellFormed(n) /\ n # NoFile /\ Linked(n.lines) /\ EndsWith(n.lines, b)
        /\ n.lines # <<>> /\ n.lines[1] # <<>>
        /\ Numbered(journal.lines) /\ b.root.nonce = NonceOf(jtip) + 1 => Numbered(n.lines)
    BY <1>2, <1>3, BlockWritten
  <2> HIDE DEF line
  <2>2. Written(journal) \subseteq Written(n) /\ \A k \in DOMAIN line : line[k] \in Written(n)
    <3>1. line \in Seq(Block)
      BY <1>4 DEF line
    <3>2. /\ Written(journal) \subseteq Written(WithLine(journal, line, e))
          /\ \A k \in DOMAIN line : line[k] \in Written(WithLine(journal, line, e))
      BY <1>2, <3>1, WrittenGrows
    <3> QED
      BY <3>2 DEF line
  <2>3. b \in Written(n)
    BY <1>4, <2>2 DEF line
  <2> QED
    BY <1>1, <1>3, <2>1, <2>2, <2>3 DEF Wrote
<1>6. Wrote(WithLine(journal, <<>>, FALSE), b)
  <2> DEFINE n == WithLine(journal, <<>>, FALSE)
  <2>1. /\ WellFormed(n) /\ n # NoFile /\ Linked(n.lines)
        /\ journal.lines # <<>> => n.lines[1] # <<>>
        /\ Numbered(journal.lines) => Numbered(n.lines)
    BY <1>2, <1>3, TornWritten
  <2>2. Written(journal) \subseteq Written(n)
    BY <1>2, <1>4, WrittenGrows
  <2>3. n.eol = FALSE
    BY <1>2, <1>4, LineAppended, LineGlued DEF WellFormed
  <2>4. n.lines # <<>>
    BY <2>1, <2>3 DEF WellFormed
  <2> QED
    BY <1>1, <2>1, <2>2, <2>4 DEF Wrote
<1>7. Wrote(journal, b)
  <2>1. journal.lines # <<>> => journal.lines[1] # <<>>
    <3>1. journal.lines \in Seq(Seq(Block))
      BY <1>1 DEF Journal
    <3>2. Shape(journal.lines, Len(journal.lines))
      BY <3>1, ShapeOf
    <3>3. journal.lines # <<>> => 1 \in 1 .. Len(journal.lines)
      BY <3>2 DEF Shape
    <3> QED
      BY <1>2, <3>2, <3>3, NoTornLine
  <2> QED
    BY <1>1, <1>2, <2>1 DEF Wrote
<1> QED
  BY <1>5, <1>6, <1>7 DEF Partial

----------------------------------------------------------------------------
(* The journal invariant is inductive.                                     *)

\* A step that leaves the journal, its tip and the mode alone, and moves the
\* hooks on, keeps it.
LEMMA HookMoves ==
    ASSUME JournalOK, TypeOK', mode = "up", mode' = "up", UNCHANGED <<journal, jtip, chain, blk>>,
           failed => failed',
           \A h \in Goroutines : /\ InFlight(h)' => InFlight(h)
                                 /\ stage'[h] # "idle" => stage[h] # "idle"
    PROVE  JournalOK'
<1>1. RunningOK'
  <2>1. Ahead => Ahead'
    BY DEF Ahead, TipHeight
  <2> QED
    BY <2>1 DEF JournalOK, RunningOK
<1> QED
  BY <1>1 DEF JournalOK, JournalLinked

LEMMA SealKeepsJournal ==
    ASSUME JournalOK, NEW g \in Goroutines, SealBlock(g)
    PROVE  JournalOK'
<1>1. PICK e \in Effects(Len(chain)) :
        LET b == [id |-> sealed + 1, prev |-> IF chain = <<>> THEN 0 ELSE Last(chain).id,
                  height |-> Len(chain), root |-> e.acct]
        IN  /\ acct' = e.acct /\ rec' = e.rec
            /\ chain' = Append(chain, b)
            /\ blk' = [blk EXCEPT ![g] = b]
  BY DEF SealBlock
<1> DEFINE b == [id |-> sealed + 1, prev |-> IF chain = <<>> THEN 0 ELSE Last(chain).id,
                 height |-> Len(chain), root |-> e.acct]
<1>2. /\ chain \in Seq(Block) /\ Len(chain) \in Nat /\ sealed \in Nat
      /\ blk \in [Goroutines -> Block \cup {NoBlock}] /\ stage \in [Goroutines -> Stages]
  BY DEF JournalOK, TypeOK
<1>3. e.acct \in Accounts /\ e.rec \in Record
  BY <1>2, PersistenceAssumption
     DEF Effects, Plain, Enroll, Unenroll, Charged, MayEnroll, JournalOK, TypeOK, Accounts, Record, NoRecord
<1>4. chain # <<>> => Last(chain).id \in Nat
  <2>1. chain # <<>> => Last(chain) \in Block
    BY <1>2 DEF Last
  <2> QED
    BY <2>1 DEF Block
<1>5. b \in Block
  BY <1>2, <1>3, <1>4 DEF Block
<1>6. b.height = Len(chain) /\ b # NoBlock
  BY <1>5, PersistenceAssumption
<1>7. chain' = Append(chain, b) /\ blk' = [blk EXCEPT ![g] = b] /\ acct' = e.acct /\ rec' = e.rec
  BY <1>1
<1> HIDE DEF b
<1>8. chain' \in Seq(Block) /\ Len(chain') = Len(chain) + 1
  BY <1>2, <1>5, <1>7
<1>9. /\ blk' \in [Goroutines -> Block \cup {NoBlock}] /\ blk'[g] = b
      /\ \A h \in Goroutines : h # g => blk'[h] = blk[h]
      /\ stage' \in [Goroutines -> Stages] /\ stage'[g] = "sweep"
      /\ \A h \in Goroutines : h # g => stage'[h] = stage[h]
  BY <1>2, <1>5, <1>7 DEF SealBlock, Stages
<1>10. sealed' \in Nat /\ orderly' \in BOOLEAN
  BY <1>2 DEF SealBlock, JournalOK, TypeOK
<1>11. TypeOK'
  BY <1>3, <1>7, <1>8, <1>9, <1>10 DEF JournalOK, TypeOK, SealBlock, disk
<1>12. RunningOK'
  <2>1. /\ RunningOK /\ UNCHANGED <<journal, jtip, failed>> /\ ~failed
    BY DEF SealBlock, JournalOK, disk, SealGuard
  <2>2. ASSUME NEW h \in Goroutines, InFlight(h)'
        PROVE  blk'[h].height < Len(chain') /\ (h # g => blk'[h].height < Len(chain) /\ blk'[h].height \in Nat)
    <3>1. CASE h = g
      BY <1>2, <1>6, <1>8, <1>9, <3>1
    <3>2. CASE h # g
      <4>1. InFlight(h) /\ blk'[h] = blk[h]
        BY <1>9, <2>2, <3>2 DEF InFlight
      <4>2. blk[h].height < Len(chain)
        BY <2>1, <4>1 DEF RunningOK
      <4>3. blk[h] \in Block
        BY <1>2, <4>1 DEF JournalOK, InFlight
      <4>4. blk[h].height \in Nat
        BY <4>3 DEF Block
      <4> QED
        BY <1>2, <1>8, <4>1, <4>2, <4>4
    <3> QED
      BY <3>1, <3>2
  <2>3. ASSUME NEW h \in Goroutines, NEW x \in Goroutines, InFlight(h)', InFlight(x)', h # x
        PROVE  blk'[h].height # blk'[x].height
    <3>1. CASE h = g
      BY <1>2, <1>6, <1>9, <2>2, <2>3, <3>1
    <3>2. CASE x = g
      BY <1>2, <1>6, <1>9, <2>2, <2>3, <3>2
    <3>3. CASE h # g /\ x # g
      BY <1>9, <2>1, <2>3, <3>3 DEF InFlight, RunningOK
    <3> QED
      BY <3>1, <3>2, <3>3
  <2>4. EndsWith(Lines(journal'), jtip')
    BY <2>1 DEF RunningOK, Ahead
  <2> QED
    BY <2>1, <2>2, <2>3, <2>4 DEF RunningOK
<1> QED
  BY <1>6, <1>9, <1>11, <1>12 DEF JournalOK, SealBlock, disk, JournalLinked

LEMMA AppendKeepsJournal ==
    ASSUME JournalOK, NEW g \in Goroutines, AppendJournal(g)
    PROVE  JournalOK'
<1>0. /\ mode = "up" /\ mode' = "up" /\ stage[g] = "append" /\ InFlight(g) /\ RunningOK
      /\ UNCHANGED <<chain, acct, rec, blk, snap, accountsFile, enrollmentFile, receiptsFile,
                     sent, sealed, stops, orderly>>
  BY DEF AppendJournal, InHook, InFlight, JournalOK, history
<1>1. blk[g] \in Block /\ stage \in [Goroutines -> Stages] /\ jtip \in Block \cup {NoBlock}
  BY <1>0 DEF JournalOK, TypeOK
<1>2. CASE ~ExtendsTip(blk[g], jtip)
  <2>1. failed' = TRUE /\ stage' = [stage EXCEPT ![g] = "idle"] /\ UNCHANGED <<journal, jtip>>
    BY <1>2 DEF AppendJournal, Fail, Goto
  <2>2. TypeOK'
    BY <1>0, <1>1, <2>1 DEF JournalOK, TypeOK, Stages
  <2>3. \A h \in Goroutines : stage'[h] = IF h = g THEN "idle" ELSE stage[h]
    BY <1>1, <2>1
  <2>4. \A h \in Goroutines : InFlight(h)' => InFlight(h)
    BY <2>3 DEF InFlight
  <2> QED
    BY <1>0, <2>1, <2>2, <2>3, <2>4, HookMoves
<1>3. CASE ExtendsTip(blk[g], jtip)
  <2>1. blk[g].height = TipHeight + 1 /\ blk[g].height \in Nat
    BY <1>1, <1>3 DEF ExtendsTip, TipHeight, Block
  <2>2. EndsWith(Lines(journal), jtip)
    BY <1>0, <2>1 DEF RunningOK, Ahead
  <2>3. /\ LET n == WithLine(journal, <<blk[g]>>, TRUE)
           IN  Wrote(n, blk[g]) /\ EndsWith(n.lines, blk[g]) /\ blk[g] \in Written(n)
        /\ \A n \in Partial(journal, blk[g]) : Wrote(n, blk[g])
    BY <1>0, <1>1, <1>3, <2>2, WriteOutcomes
  <2>4. Wrote(journal', blk[g])
    BY <1>3, <2>3 DEF AppendJournal
  <2>5. journal' \in Journal /\ journal' # NoFile /\ Lines(journal') = journal'.lines
        /\ Linked(journal'.lines) /\ (~journal'.eol => journal'.lines # <<>>)
    BY <2>4 DEF Wrote, WellFormed, Lines
  <2>6. \A h \in Goroutines : h # g => blk[h].height # TipHeight + 1 \/ ~InFlight(h)
    BY <1>0, <2>1 DEF RunningOK
  <2>7. CASE /\ journal' = WithLine(journal, <<blk[g]>>, TRUE)
             /\ jtip' = blk[g] /\ stage' = [stage EXCEPT ![g] = "accounts"] /\ UNCHANGED failed
    <3>1. TypeOK'
      BY <1>0, <1>1, <2>5, <2>7 DEF JournalOK, TypeOK, Stages
    <3>2. EndsWith(Lines(journal'), jtip')
      BY <2>3, <2>5, <2>7
    <3>3. \A h \in Goroutines : stage'[h] = IF h = g THEN "accounts" ELSE stage[h]
      BY <1>1, <2>7
    <3>4. \A h \in Goroutines : InFlight(h)' => InFlight(h)
      BY <3>3 DEF InFlight
    <3>5. RunningOK'
      BY <1>0, <2>5, <3>2, <3>4 DEF RunningOK
    <3>6. \A h \in Goroutines : stage'[h] # "idle" => mode' = "up" /\ blk'[h] # NoBlock
      BY <1>0, <3>3 DEF JournalOK
    <3> QED
      BY <1>0, <2>5, <3>1, <3>5, <3>6 DEF JournalOK, JournalLinked
  <2>8. CASE failed' = TRUE /\ stage' = [stage EXCEPT ![g] = "idle"] /\ UNCHANGED jtip
    <3>1. TypeOK'
      BY <1>0, <1>1, <2>5, <2>8 DEF JournalOK, TypeOK, Stages
    <3>3. \A h \in Goroutines : stage'[h] = IF h = g THEN "idle" ELSE stage[h]
      BY <1>1, <2>8
    <3>4. \A h \in Goroutines : InFlight(h)' => InFlight(h) /\ h # g
      BY <3>3 DEF InFlight
    <3>5. TipHeight' = TipHeight
      BY <2>8 DEF TipHeight
    <3>6. Ahead'
      BY <1>0, <2>6, <2>8, <3>4, <3>5 DEF Ahead
    <3>7. RunningOK'
      BY <1>0, <2>5, <3>4, <3>6 DEF RunningOK
    <3>8. \A h \in Goroutines : stage'[h] # "idle" => mode' = "up" /\ blk'[h] # NoBlock
      BY <1>0, <3>3 DEF JournalOK
    <3> QED
      BY <1>0, <2>5, <3>1, <3>7, <3>8 DEF JournalOK, JournalLinked
  <2> QED
    BY <1>3, <2>7, <2>8 DEF AppendJournal, Fail, Goto
<1> QED
  BY <1>2, <1>3

\* The other steps of a hook write no block.
LEMMA HookKeepsJournal ==
    ASSUME JournalOK, NEW g \in Goroutines, Hook(g)
    PROVE  JournalOK'
<1>0. stage \in [Goroutines -> Stages] /\ acct \in Accounts /\ rec \in Record /\ TypeOK
  BY DEF JournalOK, TypeOK
<1>1. ASSUME NEW s \in Stages, mode = "up", stage[g] # "idle",
             s = "append" => stage[g] = "sweep", s # "sweep", stage' = [stage EXCEPT ![g] = s],
             UNCHANGED <<mode, journal, jtip, chain, blk>>, failed => failed', TypeOK'
      PROVE  JournalOK'
  <2>1. \A h \in Goroutines : stage'[h] = IF h = g THEN s ELSE stage[h]
    BY <1>0, <1>1
  <2>2. \A h \in Goroutines : /\ InFlight(h)' => InFlight(h)
                              /\ stage'[h] # "idle" => stage[h] # "idle"
    BY <1>1, <2>1 DEF InFlight
  <2> QED
    BY <1>1, <2>2, HookMoves
<1>2. CASE Sweep(g)
  <2>1. acct' \in Accounts /\ rec' \in Record
    BY <1>0, <1>2, PersistenceAssumption DEF Sweep, Accounts, Record, NoRecord
  <2>2. TypeOK'
    BY <1>0, <1>2, <2>1 DEF Sweep, TypeOK, Goto, Stages, disk, history
  <2> QED
    BY <1>1, <1>2, <2>2 DEF Sweep, InHook, Goto, Stages, disk
<1>3. CASE AppendJournal(g)
  BY <1>3, AppendKeepsJournal
<1>4. CASE SaveAccounts(g)
  <2>1. TypeOK'
    BY <1>0, <1>4 DEF SaveAccounts, Saved, TypeOK, Goto, Stages, memory, history
  <2> QED
    BY <1>1, <1>4, <2>1 DEF SaveAccounts, InHook, Goto, Stages, memory
<1>5. CASE SnapshotEnrollment(g)
  <2>1. TypeOK'
    BY <1>0, <1>5 DEF SnapshotEnrollment, TypeOK, Goto, Stages, memory, disk, history
  <2> QED
    BY <1>1, <1>5, <2>1 DEF SnapshotEnrollment, InHook, Goto, Stages, memory, disk
<1>6. CASE SaveEnrollment(g)
  <2>1. TypeOK'
    BY <1>0, <1>6 DEF SaveEnrollment, TypeOK, Goto, Stages, memory, history
  <2> QED
    BY <1>1, <1>6, <2>1 DEF SaveEnrollment, InHook, Goto, Stages, memory
<1>7. CASE AppendReceipts(g)
  <2>1. blk[g] \in Block
    BY <1>0, <1>7 DEF AppendReceipts, InHook, JournalOK, TypeOK
  <2>2. receiptsFile' \subseteq Nat
    BY <1>0, <1>7, <2>1 DEF AppendReceipts, TypeOK, Block
  <2>3. TypeOK'
    BY <1>0, <1>7, <2>2 DEF AppendReceipts, TypeOK, Goto, Stages, memory, history
  <2> QED
    BY <1>1, <1>7, <2>3 DEF AppendReceipts, InHook, Goto, Stages, memory
<1>8. CASE Broadcast(g)
  <2>1. blk[g] \in Block
    BY <1>0, <1>8 DEF Broadcast, InHook, JournalOK, TypeOK
  <2>2. TypeOK'
    BY <1>0, <1>8, <2>1 DEF Broadcast, TypeOK, Goto, Stages, memory, disk
  <2> QED
    BY <1>1, <1>8, <2>2 DEF Broadcast, InHook, Goto, Stages, memory, disk
<1>9. CASE SaveFails(g)
  <2>1. TypeOK'
    BY <1>0, <1>9 DEF SaveFails, Fail, TypeOK, Goto, Stages, disk
  <2> QED
    BY <1>1, <1>9, <2>1 DEF SaveFails, Fail, Goto, Stages, disk
<1> QED
  BY <1>2, <1>3, <1>4, <1>5, <1>6, <1>7, <1>8, <1>9 DEF Hook

\* What a boot reads from a journal that parses.
LEMMA ReadBlocks ==
    ASSUME JournalOK, Lines(journal) # <<>>, Readable(journal)
    PROVE  LET bs == Blocks(journal)
               ls == Lines(journal)
           IN  /\ bs \in Seq(Block) /\ Len(bs) = Len(ls) /\ Len(bs) \in Nat \ {0}
               /\ DOMAIN bs = 1 .. Len(bs) /\ DOMAIN ls = 1 .. Len(bs)
               /\ \A i \in 1 .. Len(bs) : /\ Len(ls[i]) = 1 /\ bs[i] = ls[i][1]
                                          /\ Follows(bs[i], IF i > 1 THEN bs[i - 1] ELSE NoBlock)
               /\ EndsWith(ls, Last(bs)) /\ Last(bs) \in Block
               /\ journal # NoFile
<1> DEFINE bs == Blocks(journal)
           ls == Lines(journal)
           m == Len(ls)
<1>1. journal # NoFile /\ ls \in Seq(Seq(Block))
  BY DEF JournalOK, TypeOK, Lines, Journal
<1>2. Shape(ls, m) /\ \A i \in 1 .. m : ls[i] \in Seq(Block)
  BY <1>1, ShapeOf
<1>3. DOMAIN ls = 1 .. m /\ m \in Nat \ {0}
  BY <1>2 DEF Shape
<1>4. \A i \in 1 .. m : Len(ls[i]) = 1
  BY <1>3 DEF Readable
<1>5. \A i \in 1 .. m : ls[i][1] \in Block /\ ls[i] # <<>>
  BY <1>2, <1>4
<1>6. bs = [i \in 1 .. m |-> ls[i][1]]
  BY <1>3 DEF Blocks
<1> HIDE DEF ls, m, bs
<1>7. bs \in [1 .. m -> Block]
  BY <1>5, <1>6
<1>8. bs \in Seq(Block) /\ Len(bs) = m /\ DOMAIN bs = 1 .. m
  BY <1>3, <1>7
<1>9. \A i \in 1 .. m : bs[i] = ls[i][1]
  BY <1>6
<1>10. Last(bs) = ls[m][1] /\ Last(bs) \in Block
  BY <1>3, <1>5, <1>8, <1>9 DEF Last
<1>11. EndsWith(ls, Last(bs))
  <2>1. m \in 1 .. m
    BY <1>3
  <2>2. Last(ls) = ls[m] /\ Last(ls[m]) = ls[m][1]
    BY <1>4, <2>1 DEF Last, m
  <2> QED
    BY <1>5, <1>10, <2>1, <2>2 DEF EndsWith, ls
<1>12. ASSUME NEW i \in 1 .. m
       PROVE  Follows(bs[i], IF i > 1 THEN bs[i - 1] ELSE NoBlock)
  <2>1. Linked(ls)
    BY DEF JournalOK, JournalLinked, ls
  <2>2. Follows(ls[i][1], Preceding(ls, i, 1))
    <3>1. 1 \in 1 .. Len(ls[i])
      BY <1>4
    <3> QED
      BY <1>2, <1>11, <2>1, <3>1, NoTornLine
  <2>3. i > 1 => i - 1 \in 1 .. m
    BY <1>3
  <2>4. i > 1 => Last(ls[i - 1]) = bs[i - 1]
    BY <1>4, <1>9, <2>3 DEF Last
  <2> QED
    BY <1>9, <2>2, <2>4 DEF Preceding
<1> QED
  BY <1>1, <1>3, <1>4, <1>8, <1>9, <1>10, <1>11, <1>12 DEF bs, ls, m

\* A node that loads a journal ending with its tip is in order.
LEMMA HydrateKeepsJournal ==
    ASSUME JournalOK, NEW bs \in Seq(Block), Len(bs) \in Nat \ {0}, Hydrate(bs), mode # "up", UNCHANGED <<stage, history>>,
           UNCHANGED <<accountsFile, enrollmentFile, receiptsFile>>, accountsFile # NoFile,
           WellFormed(journal'), Linked(journal'.lines), EndsWith(journal'.lines, Last(bs))
    PROVE  JournalOK'
<1>1. journal' # NoFile /\ journal' \in Journal /\ Lines(journal') = journal'.lines
  BY PersistenceAssumption DEF WellFormed, Lines
<1>2. Last(bs) \in Block
  BY DEF Last
<1>3. \A g \in Goroutines : stage[g] = "idle"
  BY DEF JournalOK, TypeOK
<1>4. LoadEnrollment \in Record
  BY PersistenceAssumption DEF LoadEnrollment, JournalOK, TypeOK, NoRecord, Record
<1>5. acct' \in Accounts /\ rec' \in Record /\ snap' \in [Goroutines -> Record]
  BY <1>4 DEF Hydrate, JournalOK, TypeOK, NoRecord, Record
<1>6. blk' \in [Goroutines -> Block \cup {NoBlock}] /\ jtip' = Last(bs) /\ chain' = bs /\ mode' = "up" /\ failed' = FALSE
  BY DEF Hydrate
<1>7. TypeOK'
  BY <1>1, <1>2, <1>5, <1>6 DEF JournalOK, TypeOK, history
<1>8. RunningOK'
  BY <1>1, <1>3, <1>6 DEF RunningOK, InFlight
<1> QED
  BY <1>1, <1>3, <1>6, <1>7, <1>8 DEF JournalOK, JournalLinked, WellFormed

LEMMA StopKeepsJournal ==
    ASSUME JournalOK, Stop
    PROVE  JournalOK'
<1>1. journal' \in Journal /\ Linked(Lines(journal')) /\ (~journal'.eol => journal'.lines # <<>>)
  <2>0. mode = "up" /\ RunningOK
    BY DEF Stop, JournalOK
  <2>1. CASE UNCHANGED journal
    BY <2>0, <2>1 DEF JournalOK, TypeOK, JournalLinked, RunningOK
  <2>2. CASE \E g \in Goroutines : /\ stage[g] = "append" /\ ExtendsTip(blk[g], jtip)
                                   /\ journal' \in Partial(journal, blk[g])
    <3>1. PICK g \in Goroutines : /\ stage[g] = "append" /\ ExtendsTip(blk[g], jtip)
                                  /\ journal' \in Partial(journal, blk[g])
      BY <2>2
    <3>2. blk[g] \in Block
      BY <3>1 DEF JournalOK, TypeOK
    <3>3. blk[g].height = TipHeight + 1
      BY <3>1, <3>2 DEF ExtendsTip, TipHeight, Block
    <3>4. EndsWith(Lines(journal), jtip)
      BY <2>0, <3>1, <3>3 DEF RunningOK, Ahead, InFlight
    <3>5. Wrote(journal', blk[g])
      BY <2>0, <3>1, <3>2, <3>4, WriteOutcomes
    <3> QED
      BY <3>5 DEF Wrote, WellFormed, Lines
  <2> QED
    BY <2>1, <2>2 DEF Stop
<1>2. stops' \in Nat /\ orderly' \in BOOLEAN /\ stage' = [g \in Goroutines |-> "idle"] /\ mode' = "down"
  BY DEF Stop, JournalOK, TypeOK
<1>3. TypeOK'
  BY <1>1, <1>2 DEF Stop, JournalOK, TypeOK, memory, Stages
<1> QED
  BY <1>1, <1>2, <1>3 DEF JournalOK, JournalLinked

LEMMA BootKeepsJournal ==
    ASSUME JournalOK, BootFresh \/ BootAtTip \/ BeginReplace \/ BootWithoutTail
    PROVE  JournalOK'
<1>1. CASE BootFresh
  <2>1. \A g \in Goroutines : stage'[g] = "idle"
    BY <1>1 DEF BootFresh, JournalOK
  <2>2. /\ <<>> \in Seq(Block) /\ <<>> \in Seq(Seq(Block)) /\ NoRecord \in Record
        /\ FreshAccounts \in Accounts
    BY PersistenceAssumption DEF NoRecord, Record, FreshAccounts, Accounts
  <2>3. journal' = NoLines /\ NoLines \in Journal /\ NoLines # NoFile /\ NoLines.lines = <<>> /\ NoLines.eol
    <3>1. journal' = NoLines /\ NoLines \in Journal /\ NoLines.lines = <<>> /\ NoLines.eol
      BY <1>1, <2>2 DEF BootFresh, NoLines, Journal
    <3>2. NoLines # NoFile
      BY <3>1, PersistenceAssumption
    <3> QED
      BY <3>1, <3>2
  <2>4. Lines(journal') = <<>>
    BY <2>3 DEF Lines
  <2>5. TypeOK'
    BY <1>1, <2>2, <2>3 DEF BootFresh, JournalOK, TypeOK, history
  <2>6. Linked(Lines(journal')) /\ EndsWith(Lines(journal'), jtip')
    BY <1>1, <2>4 DEF BootFresh, Linked, EndsWith
  <2>7. RunningOK'
    BY <2>1, <2>3, <2>6 DEF RunningOK, InFlight
  <2> QED
    BY <1>1, <2>1, <2>3, <2>5, <2>6, <2>7 DEF JournalOK, JournalLinked, BootFresh
<1>2. CASE BootAtTip
  <2> DEFINE bs == Blocks(journal)
  <2>1. /\ bs \in Seq(Block) /\ Len(bs) \in Nat \ {0}
        /\ EndsWith(Lines(journal), Last(bs)) /\ journal # NoFile
    BY <1>2, ReadBlocks DEF BootAtTip
  <2>2. WellFormed(journal) /\ Linked(journal.lines) /\ Lines(journal) = journal.lines
    BY <2>1 DEF WellFormed, JournalOK, TypeOK, JournalLinked, Lines
  <2>3. /\ Hydrate(bs) /\ mode # "up" /\ UNCHANGED <<stage, history>> /\ journal' = journal
        /\ UNCHANGED <<accountsFile, enrollmentFile, receiptsFile>> /\ accountsFile # NoFile
    BY <1>2 DEF BootAtTip, disk
  <2> HIDE DEF bs
  <2> QED
    BY <2>1, <2>2, <2>3, HydrateKeepsJournal
<1>3. CASE BeginReplace
  <2> DEFINE bs == Blocks(journal)
  <2>1. /\ bs \in Seq(Block) /\ Len(bs) \in Nat \ {0} /\ DOMAIN bs = 1 .. Len(bs)
        /\ \A i \in 1 .. Len(bs) : Follows(bs[i], IF i > 1 THEN bs[i - 1] ELSE NoBlock)
    BY <1>3, ReadBlocks DEF BeginReplace
  <2>2. Len(bs) >= 2 /\ chain' = bs /\ journal' = NoFile /\ mode' = "replacing" /\ mode = "down"
    BY <1>3 DEF BeginReplace, MatchesPrior
  <2> HIDE DEF bs
  <2>3. TypeOK'
    BY <1>3, <2>1, <2>2 DEF BeginReplace, JournalOK, TypeOK, hooks, history
  <2>4. ReplacingOK'
    BY <1>3, <2>1, <2>2 DEF ReplacingOK, BeginReplace
  <2>5. Lines(journal') = <<>>
    BY <2>2 DEF Lines
  <2>6. Linked(Lines(journal'))
    BY <2>5 DEF Linked
  <2>7. \A g \in Goroutines : stage'[g] = "idle"
    BY <1>3, <2>2 DEF BeginReplace, JournalOK, hooks
  <2> QED
    BY <2>2, <2>3, <2>4, <2>6, <2>7 DEF JournalOK, JournalLinked
<1>4. CASE BootWithoutTail
  <2> DEFINE m == Len(chain) - 1
             bs == Front(chain)
             ls == [i \in 1 .. m |-> <<chain[i]>>]
  <2>1. chain \in Seq(Block) /\ Len(chain) \in Nat /\ Len(chain) >= 2 /\ m \in Nat \ {0}
    BY <1>4 DEF BootWithoutTail, JournalOK, TypeOK, ReplacingOK
  <2>2. \A i \in 1 .. m : chain[i] \in Block
    BY <2>1
  <2>3. bs \in Seq(Block) /\ Len(bs) = m /\ \A i \in 1 .. m : bs[i] = chain[i]
    BY <2>1, <2>2, SubSeqProperties DEF Front
  <2>4. ls \in [1 .. m -> Seq(Block)] /\ \A i \in 1 .. m : Len(ls[i]) = 1 /\ ls[i][1] = chain[i] /\ ls[i] # <<>>
    BY <2>2
  <2> HIDE DEF ls
  <2>5. ls \in Seq(Seq(Block)) /\ Len(ls) = m /\ DOMAIN ls = 1 .. m
    BY <2>1, <2>4
  <2>6. /\ journal' = [lines |-> ls, eol |-> TRUE] /\ Hydrate(bs) /\ accountsFile # NoFile
        /\ \A i \in 1 .. m : Follows(chain[i], IF i > 1 THEN chain[i - 1] ELSE NoBlock)
    <3>1. journal' = [lines |-> ls, eol |-> TRUE] /\ Hydrate(bs) /\ mode = "replacing"
      BY <1>4 DEF BootWithoutTail, ls
    <3>2. ReplacingOK /\ \A i \in 1 .. m : i \in DOMAIN chain
      BY <2>1, <3>1 DEF JournalOK
    <3> QED
      BY <3>1, <3>2 DEF ReplacingOK
  <2>7. WellFormed(journal') /\ journal'.lines = ls
    BY <2>5, <2>6 DEF WellFormed, Journal
  <2>8. Linked(ls)
    <3> SUFFICES ASSUME NEW i \in 1 .. m
                 PROVE  ls[i] # <<>> /\ \A k \in DOMAIN ls[i] : Follows(ls[i][k], Preceding(ls, i, k))
      BY <2>5 DEF Linked
    <3>1. ls[i] \in Seq(Block) /\ Len(ls[i]) = 1 /\ ls[i][1] = chain[i] /\ ls[i] # <<>>
      BY <2>4
    <3>2. \A k \in DOMAIN ls[i] : k = 1
      BY <3>1
    <3>3. i > 1 => i - 1 \in 1 .. m
      BY <2>1
    <3>4. i > 1 => Last(ls[i - 1]) = chain[i - 1]
      BY <2>4, <3>3 DEF Last
    <3>5. Preceding(ls, i, 1) = IF i > 1 THEN chain[i - 1] ELSE NoBlock
      BY <3>4 DEF Preceding
    <3> QED
      BY <2>6, <3>1, <3>2, <3>5
  <2>9. EndsWith(ls, Last(bs))
    <3>1. m \in 1 .. m /\ ls # <<>>
      BY <2>1, <2>5
    <3>2. Last(bs) = chain[m] /\ Last(ls) = ls[m] /\ Last(ls[m]) = chain[m]
      BY <2>3, <2>4, <2>5, <3>1 DEF Last
    <3> QED
      BY <2>4, <3>1, <3>2 DEF EndsWith
  <2>10. /\ mode # "up" /\ UNCHANGED <<stage, history>>
         /\ UNCHANGED <<accountsFile, enrollmentFile, receiptsFile>>
    BY <1>4 DEF BootWithoutTail
  <2> HIDE DEF bs, m
  <2>11. Len(bs) \in Nat \ {0}
    BY <2>1, <2>3
  <2> QED
    BY <2>3, <2>6, <2>7, <2>8, <2>9, <2>10, <2>11, HydrateKeepsJournal
<1> QED
  BY <1>1, <1>2, <1>3, <1>4

\* The operator's cut of a torn line.
LEMMA TrimmedLines ==
    ASSUME JournalOK, mode = "refused", Last(journal.lines) = <<>>
    PROVE  LET ls == Front(journal.lines)
               m == Len(journal.lines)
           IN  /\ ls \in Seq(Seq(Block)) /\ Len(ls) = m - 1 /\ m \in Nat \ {0} /\ journal # NoFile
               /\ \A i \in 1 .. m - 1 : ls[i] = journal.lines[i] /\ ls[i] # <<>>
               /\ Linked(ls)
<1> DEFINE old == journal.lines
           m == Len(old)
           ls == Front(old)
<1>1. journal # NoFile /\ old \in Seq(Seq(Block)) /\ old # <<>> /\ Lines(journal) = old
  BY DEF JournalOK, TypeOK, Journal, Lines
<1>2. Shape(old, m) /\ \A i \in 1 .. m : old[i] \in Seq(Block)
  BY <1>1, ShapeOf
<1>3. m \in Nat \ {0} /\ DOMAIN old = 1 .. m
  BY <1>1, <1>2 DEF Shape
<1>4. ls \in Seq(Seq(Block)) /\ Len(ls) = m - 1 /\ \A i \in 1 .. m - 1 : ls[i] = old[i]
  <2>1. \A i \in 1 .. m - 1 : old[i] \in Seq(Block)
    BY <1>2, <1>3
  <2> HIDE DEF m, old
  <2> QED
    BY <1>3, <2>1, SubSeqProperties DEF Front, m
<1>5. Linked(old)
  BY <1>1 DEF JournalOK, JournalLinked
<1> HIDE DEF old, m, ls
<1>6. \A i \in 1 .. m - 1 : ls[i] # <<>>
  <2>1. \A i \in 1 .. m - 1 : i \in DOMAIN old /\ i < m
    BY <1>3
  <2>2. \A i \in 1 .. m - 1 : old[i] # <<>>
    BY <1>5, <2>1 DEF Linked, m
  <2> QED
    BY <1>4, <2>2
<1>7. DOMAIN ls = 1 .. m - 1
  BY <1>4
<1>8. ASSUME NEW i \in 1 .. m - 1
      PROVE  \A k \in DOMAIN ls[i] : Follows(ls[i][k], Preceding(ls, i, k))
  <2>1. ls[i] = old[i] /\ (i > 1 => ls[i - 1] = old[i - 1]) /\ i \in DOMAIN old
    BY <1>3, <1>4
  <2>2. \A k \in DOMAIN ls[i] : Preceding(ls, i, k) = Preceding(old, i, k)
    BY <2>1 DEF Preceding
  <2> QED
    BY <1>5, <2>1, <2>2 DEF Linked
<1>9. Linked(ls)
  BY <1>6, <1>7, <1>8 DEF Linked
<1> QED
  BY <1>1, <1>3, <1>4, <1>6, <1>9 DEF old, m, ls

LEMMA StoppedKeepsJournal ==
    ASSUME JournalOK, StopInReplace \/ Refuse \/ TrimBadLine
    PROVE  JournalOK'
<1>1. CASE StopInReplace
  <2>1. mode' = "down" /\ stops' \in Nat /\ orderly' = FALSE /\ UNCHANGED <<memory, hooks, disk, sent, sealed>>
    BY <1>1 DEF StopInReplace, JournalOK, TypeOK
  <2>2. TypeOK'
    BY <2>1 DEF JournalOK, TypeOK, memory, hooks, disk
  <2>3. \A g \in Goroutines : stage'[g] = "idle"
    BY <1>1, <2>1 DEF StopInReplace, JournalOK, hooks
  <2> QED
    BY <2>1, <2>2, <2>3 DEF JournalOK, JournalLinked, disk
<1>2. CASE Refuse
  BY <1>2 DEF Refuse, JournalOK, TypeOK, JournalLinked, memory, hooks, disk, history
<1>3. CASE TrimBadLine
  <2> DEFINE ls == Front(journal.lines)
  <2>1. ls \in Seq(Seq(Block)) /\ Linked(ls)
    BY <1>3, TrimmedLines DEF TrimBadLine
  <2>2. journal' = [lines |-> ls, eol |-> TRUE]
    BY <1>3 DEF TrimBadLine
  <2> HIDE DEF ls
  <2>3. journal' \in Journal /\ journal'.lines = ls /\ journal'.eol
    BY <2>1, <2>2 DEF Journal
  <2>4. journal' # NoFile
    BY <2>3, PersistenceAssumption
  <2>5. Linked(Lines(journal'))
    BY <2>1, <2>3, <2>4 DEF Lines
  <2>6. TypeOK'
    BY <1>3, <2>3 DEF TrimBadLine, JournalOK, TypeOK, memory, hooks, history
  <2> QED
    BY <1>3, <2>3, <2>5, <2>6 DEF TrimBadLine, JournalOK, JournalLinked, hooks
<1> QED
  BY <1>1, <1>2, <1>3

LEMMA JournalInit == Init => JournalOK
<1> SUFFICES ASSUME Init
             PROVE  JournalOK
  OBVIOUS
<1>1. /\ <<>> \in Seq(Block) /\ <<>> \in Seq(Seq(Block)) /\ NoRecord \in Record
      /\ FreshAccounts \in Accounts
  BY PersistenceAssumption DEF NoRecord, Record, FreshAccounts, Accounts
<1>2. journal = NoLines /\ NoLines \in Journal /\ NoLines.lines = <<>> /\ NoLines.eol
  BY <1>1 DEF Init, NoLines, Journal
<1>3. NoLines # NoFile
  BY <1>2, PersistenceAssumption
<1>4. Lines(journal) = <<>>
  BY <1>2, <1>3 DEF Lines
<1>5. TypeOK
  BY <1>1, <1>2 DEF Init, TypeOK, Stages
<1>6. Linked(Lines(journal)) /\ EndsWith(Lines(journal), jtip)
  BY <1>4 DEF Init, Linked, EndsWith
<1>7. RunningOK
  BY <1>2, <1>3, <1>6 DEF Init, RunningOK, InFlight
<1> QED
  BY <1>2, <1>5, <1>6, <1>7 DEF Init, JournalOK, JournalLinked

LEMMA JournalNext == JournalOK /\ [Next]_vars => JournalOK'
<1> SUFFICES ASSUME JournalOK, [Next]_vars
             PROVE  JournalOK'
  OBVIOUS
<1>1. CASE UNCHANGED vars
  BY <1>1 DEF vars, JournalOK, TypeOK, JournalLinked, RunningOK, ReplacingOK, Ahead, InFlight, TipHeight
<1>2. ASSUME NEW g \in Goroutines, SealBlock(g) \/ Hook(g)
      PROVE  JournalOK'
  BY <1>2, SealKeepsJournal, HookKeepsJournal
<1>3. CASE Stop \/ BootFresh \/ BootAtTip \/ BeginReplace \/ BootWithoutTail
           \/ StopInReplace \/ Refuse \/ TrimBadLine
  BY <1>3, StopKeepsJournal, BootKeepsJournal, StoppedKeepsJournal
<1> QED
  BY <1>1, <1>2, <1>3 DEF Next

\* The journal is one hash-linked chain, in every history: with hooks of any
\* number of goroutines in any order, failed and torn writes, stops and boots.
THEOREM JournalCorrect == Spec => []JournalInv
<1>1. JournalOK => JournalInv
  BY DEF JournalOK, JournalInv
<1> QED
  BY <1>1, JournalInit, JournalNext, PTL DEF Spec

----------------------------------------------------------------------------
(* Orderly histories: the hook.                                            *)

\* More may be written and later accounts saved.
LEMMA KeptGrows ==
    ASSUME NEW blocks, NEW ids, NEW n \in Nat, NEW n2 \in Nat, n <= n2, NEW w, NEW w2,
           w \subseteq w2, Kept(blocks, ids, n, w)
    PROVE  Kept(blocks, ids, n2, w2)
<1>1. 0 .. n \subseteq 0 .. n2
  OBVIOUS
<1> QED
  BY <1>1 DEF Kept

LEMMA Types ==
    ASSUME TypeOK
    PROVE  /\ SavedNonce \in Nat /\ TipNonce \in Nat /\ acct.nonce \in Nat /\ acct.bal \in Nat
           /\ rec.bond \in Nat /\ sealed \in Nat /\ stops \in Nat /\ Len(chain) \in Nat
           /\ stage \in [Goroutines -> Stages]
           /\ \A g \in Goroutines : blk[g] # NoBlock => blk[g] \in Block /\ blk[g].root.nonce \in Nat
<1>1. ASSUME NEW b \in Block
      PROVE  b.root \in Accounts /\ b.root.nonce \in Nat
  BY DEF Block, Accounts
<1>2. TipNonce \in Nat
  BY <1>1 DEF TypeOK, TipNonce
<1>3. SavedNonce \in Nat /\ acct.nonce \in Nat /\ acct.bal \in Nat /\ rec.bond \in Nat
  BY PersistenceAssumption DEF TypeOK, SavedNonce, Accounts, Record
<1>4. \A g \in Goroutines : blk[g] # NoBlock => blk[g] \in Block /\ blk[g].root.nonce \in Nat
  BY <1>1 DEF TypeOK
<1> QED
  BY <1>2, <1>3, <1>4 DEF TypeOK

\* One transaction takes the next nonce and moves money between the account
\* and the bond.
LEMMA EffectMoves ==
    ASSUME TypeOK, NEW h, NEW e \in Effects(h)
    PROVE  e.acct.nonce = acct.nonce + 1 /\ e.acct.bal + e.rec.bond = acct.bal + rec.bond
<1>1. acct.nonce \in Nat /\ acct.bal \in Nat /\ rec.bond \in Nat /\ Stake \in Nat /\ rec \in Record
  BY Types, PersistenceAssumption DEF TypeOK
<1>2. CASE e = Plain
  BY <1>1, <1>2 DEF Plain, Charged
<1>3. CASE e = Enroll /\ MayEnroll
  <2>1. rec.bond = 0
    BY <1>3 DEF MayEnroll, NoRecord
  <2> QED
    BY <1>1, <1>3, <2>1 DEF Enroll, Charged
<1>4. CASE e = Unenroll(h)
  BY <1>1, <1>4 DEF Unenroll, Charged, Record
<1> QED
  BY <1>2, <1>3, <1>4 DEF Effects

LEMMA SealKeepsOrder ==
    ASSUME JournalOK, JournalOK', OrderOK, NEW g \in Goroutines, SealBlock(g)
    PROVE  OrderOK'
<1> SUFFICES ASSUME orderly'
             PROVE  Order'
  BY DEF OrderOK
<1>0. Order /\ UpOrder /\ ~failed /\ ~failed' /\ mode = "up" /\ mode' = "up"
      /\ (\A h \in Goroutines : stage[h] = "idle")
  BY DEF SealBlock, SealGuard, OrderOK, Order
<1>1. PICK e \in Effects(Len(chain)) :
        LET b == [id |-> sealed + 1, prev |-> IF chain = <<>> THEN 0 ELSE Last(chain).id,
                  height |-> Len(chain), root |-> e.acct]
        IN  /\ acct' = e.acct /\ rec' = e.rec
            /\ chain' = Append(chain, b)
            /\ blk' = [blk EXCEPT ![g] = b]
  BY DEF SealBlock
<1>2. acct' = e.acct /\ rec' = e.rec /\ blk'[g].root = e.acct
  <2>1. blk \in [Goroutines -> Block \cup {NoBlock}]
    BY DEF JournalOK, TypeOK
  <2> QED
    BY <1>1, <2>1
<1>3. Len(chain') = Len(chain) + 1
  <2>1. chain \in Seq(Block)
    BY DEF JournalOK, TypeOK
  <2> DEFINE b == [id |-> sealed + 1, prev |-> IF chain = <<>> THEN 0 ELSE Last(chain).id,
                   height |-> Len(chain), root |-> e.acct]
  <2> HIDE DEF b
  <2>2. chain' = Append(chain, b)
    BY <1>1 DEF b
  <2> QED
    BY <2>1, <2>2
<1>4. acct'.nonce = acct.nonce + 1 /\ acct'.bal + rec'.bond = acct.bal + rec.bond
  BY <1>2, EffectMoves DEF JournalOK
<1>5. /\ SavedNonce \in Nat /\ TipNonce \in Nat /\ acct.nonce \in Nat
      /\ sealed \in Nat /\ stops \in Nat /\ Len(chain) \in Nat /\ stage \in [Goroutines -> Stages]
  BY Types DEF JournalOK
<1>6. /\ UNCHANGED <<jtip, snap, journal, accountsFile, enrollmentFile, receiptsFile, sent, stops>>
      /\ sealed' = sealed + 1
      /\ \A h \in Goroutines : stage'[h] = IF h = g THEN "sweep" ELSE "idle"
  BY <1>0, <1>5 DEF SealBlock, disk
<1>7. SavedNonce' = SavedNonce /\ TipNonce' = TipNonce /\ FilesAgree' = FilesAgree
  BY <1>6 DEF SavedNonce, TipNonce, FilesAgree, LoadEnrollment
<1>8. SavedNonce = acct.nonce /\ TipNonce = acct.nonce /\ acct.nonce = Len(chain)
      /\ acct.bal + rec.bond = Stake /\ sealed <= acct.nonce + stops
  BY <1>0 DEF UpOrder
<1>9. HookOK(g)'
  BY <1>0, <1>2, <1>4, <1>6, <1>7, <1>8 DEF HookOK, InFlight
<1>10. UpOrder'
  BY <1>3, <1>4, <1>5, <1>6, <1>7, <1>8, <1>9 DEF UpOrder
<1>11. FilesAgree
  BY <1>0 DEF Order, BetweenSaves
<1>12. HasBlock(Lines(journal))' = HasBlock(Lines(journal))
  BY <1>6 DEF HasBlock
<1> QED
  BY <1>0, <1>6, <1>7, <1>10, <1>11, <1>12 DEF Order

\* Steps of the one running hook: everybody else is idle.
LEMMA Alone ==
    ASSUME JournalOK, Order, NEW g \in Goroutines, stage[g] # "idle", NEW s \in Stages,
           stage' = [stage EXCEPT ![g] = s]
    PROVE  /\ stage'[g] = s /\ \A h \in Goroutines : h # g => stage[h] = "idle" /\ stage'[h] = "idle"
           /\ mode = "up" /\ UpOrder /\ HookOK(g)
           /\ Numbered(Lines(journal)) /\ HasBlock(Lines(journal))
           /\ Kept(sent, receiptsFile, SavedNonce, Written(journal))
           /\ stage[g] \notin BetweenSaves => FilesAgree
<1>1. stage \in [Goroutines -> Stages] /\ mode = "up"
  BY DEF JournalOK, TypeOK
<1>2. \A h \in Goroutines : h # g => stage[h] = "idle"
  BY DEF Order
<1>3. stage'[g] = s /\ \A h \in Goroutines : h # g => stage'[h] = "idle"
  BY <1>1, <1>2
<1>4. UpOrder /\ HookOK(g)
  BY <1>1 DEF Order, UpOrder
<1>5. stage[g] \notin BetweenSaves => FilesAgree
  BY <1>2 DEF Order, BetweenSaves
<1> QED
  BY <1>1, <1>2, <1>3, <1>4, <1>5 DEF Order

LEMMA SweepKeepsOrder ==
    ASSUME JournalOK, JournalOK', OrderOK, NEW g \in Goroutines, Sweep(g)
    PROVE  OrderOK'
<1> SUFFICES ASSUME orderly'
             PROVE  Order'
  BY DEF OrderOK
<1>0. /\ Order /\ stage[g] = "sweep" /\ mode' = "up" /\ stage' = [stage EXCEPT ![g] = "append"]
      /\ UNCHANGED <<chain, jtip, failed, blk, snap, journal, accountsFile, enrollmentFile, receiptsFile,
                     sent, sealed, stops>>
  BY DEF Sweep, InHook, Goto, disk, history, OrderOK
<1>1. /\ stage'[g] = "append" /\ \A h \in Goroutines : h # g => stage'[h] = "idle"
      /\ UpOrder /\ HookOK(g)
      /\ Numbered(Lines(journal)) /\ HasBlock(Lines(journal))
      /\ Kept(sent, receiptsFile, SavedNonce, Written(journal))
      /\ FilesAgree
  BY <1>0, Alone DEF Stages, BetweenSaves
<1>2. acct'.nonce = acct.nonce /\ acct'.bal + rec'.bond = acct.bal + rec.bond
  <2>1. acct \in Accounts /\ rec \in Record /\ Stake \in Nat
    BY PersistenceAssumption DEF JournalOK, TypeOK
  <2> QED
    BY <2>1 DEF Sweep, Accounts, Record, NoRecord
<1>3. SavedNonce' = SavedNonce /\ TipNonce' = TipNonce /\ FilesAgree' = FilesAgree
      /\ HasBlock(Lines(journal))' = HasBlock(Lines(journal))
  BY <1>0 DEF SavedNonce, TipNonce, FilesAgree, LoadEnrollment, HasBlock
<1>4. HookOK(g)'
  BY <1>0, <1>1, <1>2, <1>3 DEF HookOK, InFlight
<1>5. UpOrder'
  BY <1>0, <1>1, <1>2, <1>3, <1>4 DEF UpOrder
<1> QED
  BY <1>0, <1>1, <1>3, <1>5 DEF Order

LEMMA AppendKeepsOrder ==
    ASSUME JournalOK, JournalOK', OrderOK, NEW g \in Goroutines, AppendJournal(g)
    PROVE  OrderOK'
<1> SUFFICES ASSUME orderly'
             PROVE  Order'
  BY DEF OrderOK
<1> DEFINE s == stage'[g]
<1>0. /\ Order /\ stage[g] = "append" /\ mode = "up" /\ mode' = "up"
      /\ UNCHANGED <<chain, acct, rec, blk, snap, accountsFile, enrollmentFile, receiptsFile,
                     sent, sealed, stops>>
  BY DEF AppendJournal, InHook, history, OrderOK
<1>1. stage \in [Goroutines -> Stages]
  BY DEF JournalOK, TypeOK
<1>2. s \in {"accounts", "idle"} /\ stage' = [stage EXCEPT ![g] = s]
  BY <1>1 DEF AppendJournal, Goto, Fail
<1>3. /\ \A h \in Goroutines : h # g => stage'[h] = "idle"
      /\ UpOrder /\ HookOK(g)
      /\ Numbered(Lines(journal)) /\ HasBlock(Lines(journal))
      /\ Kept(sent, receiptsFile, SavedNonce, Written(journal))
      /\ FilesAgree
  <2> HIDE DEF s
  <2>1. s \in Stages /\ stage[g] # "idle" /\ stage[g] \notin BetweenSaves
    BY <1>0, <1>2 DEF Stages, BetweenSaves
  <2> QED
    BY <1>0, <1>2, <2>1, Alone
<1>4. SavedNonce' = SavedNonce /\ FilesAgree' = FilesAgree /\ SavedNonce \in Nat
  BY <1>0, Types DEF SavedNonce, FilesAgree, LoadEnrollment, JournalOK
<1>5. blk[g] \in Block /\ TipNonce + 1 = blk[g].root.nonce /\ blk[g].root.nonce = acct.nonce
  BY <1>0, <1>3 DEF JournalOK, TypeOK, HookOK, InFlight
<1>6. /\ Numbered(Lines(journal')) /\ HasBlock(Lines(journal))'
      /\ Kept(sent', receiptsFile', SavedNonce', Written(journal'))
  <2>1. CASE UNCHANGED journal
    BY <1>0, <1>3, <1>4, <2>1 DEF HasBlock
  <2>2. CASE journal' # journal
    <3>1. ExtendsTip(blk[g], jtip)
      BY <2>2 DEF AppendJournal
    <3>2. EndsWith(Lines(journal), jtip)
      BY <1>0, <1>3 DEF JournalOK, RunningOK, Ahead, HookOK
    <3>3. Wrote(journal', blk[g])
      BY <1>0, <1>5, <3>1, <3>2, WriteOutcomes DEF AppendJournal
    <3>4. Lines(journal') = journal'.lines /\ Lines(journal') # <<>>
      BY <2>2, <3>3 DEF Wrote, Lines
    <3>5. Numbered(Lines(journal')) /\ HasBlock(Lines(journal))'
      BY <1>0, <1>3, <1>5, <3>3, <3>4 DEF Wrote, HasBlock
    <3>6. Written(journal) \subseteq Written(journal')
      BY <3>3 DEF Wrote
    <3> QED
      BY <1>0, <1>3, <1>4, <3>5, <3>6, KeptGrows
  <2> QED
    BY <2>1, <2>2
<1>7. UpOrder'
  <2>1. CASE failed' = TRUE /\ s = "idle"
    <3>1. \A h \in Goroutines : stage'[h] = "idle"
      BY <1>3, <2>1
    <3> QED
      BY <1>0, <1>3, <1>4, <2>1, <3>1 DEF UpOrder
  <2>2. CASE /\ journal' = WithLine(journal, <<blk[g]>>, TRUE) /\ ExtendsTip(blk[g], jtip)
             /\ jtip' = blk[g] /\ s = "accounts" /\ UNCHANGED failed
    <3>1. EndsWith(Lines(journal), jtip)
      BY <1>0, <1>3 DEF JournalOK, RunningOK, Ahead, HookOK
    <3>2. blk[g] \in Written(journal')
      BY <1>0, <1>5, <2>2, <3>1, WriteOutcomes
    <3>3. TipNonce' = acct.nonce
      BY <1>5, <2>2, PersistenceAssumption DEF TipNonce
    <3>4. HookOK(g)'
      BY <1>0, <1>3, <1>5, <2>2, <3>2, <3>3 DEF HookOK, InFlight
    <3> QED
      BY <1>0, <1>3, <1>4, <2>2, <3>4 DEF UpOrder
  <2> QED
    BY <1>1, <2>1, <2>2 DEF AppendJournal, Goto, Fail
<1> QED
  BY <1>0, <1>2, <1>3, <1>4, <1>6, <1>7 DEF Order

\* A journal that holds a block has a first block.
LEMMA FirstBlock ==
    ASSUME JournalOK, Written(journal) # {}
    PROVE  Lines(journal) # <<>> /\ Lines(journal)[1] # <<>>
<1> DEFINE ls == Lines(journal)
           m == Len(ls)
<1>1. ls \in Seq(Seq(Block))
  BY DEF JournalOK, TypeOK, Lines, Journal
<1>2. Shape(ls, m)
  BY <1>1, ShapeOf
<1>3. PICK i \in DOMAIN ls : \E k \in DOMAIN ls[i] : TRUE
  BY WrittenIn
<1>4. PICK k \in DOMAIN ls[i] : TRUE
  BY <1>3
<1>5. Linked(ls)
  BY DEF JournalOK, JournalLinked
<1> HIDE DEF ls
<1>6. m \in Nat /\ i \in 1 .. m /\ DOMAIN ls = 1 .. m /\ ls # <<>>
      /\ Len(ls[i]) \in Nat /\ DOMAIN ls[i] = 1 .. Len(ls[i]) /\ (ls[i] = <<>> <=> Len(ls[i]) = 0)
  BY <1>2 DEF Shape
<1>7. ls[i] # <<>>
  <2>1. 1 .. 0 = {}
    OBVIOUS
  <2> QED
    BY <1>4, <1>6, <2>1
<1>8. i # 1 => 1 \in DOMAIN ls /\ 1 < m
  BY <1>6
<1> QED
  BY <1>5, <1>6, <1>7, <1>8 DEF Linked, ls

LEMMA SavesKeepOrder ==
    ASSUME JournalOK, JournalOK', OrderOK, NEW g \in Goroutines,
           SaveAccounts(g) \/ SnapshotEnrollment(g) \/ SaveEnrollment(g)
    PROVE  OrderOK'
<1> SUFFICES ASSUME orderly'
             PROVE  Order'
  BY DEF OrderOK
<1>0. /\ Order /\ mode' = "up"
      /\ UNCHANGED <<chain, acct, rec, jtip, failed, blk, journal, receiptsFile, sent, sealed, stops>>
  BY DEF SaveAccounts, SnapshotEnrollment, SaveEnrollment, InHook, memory, disk, history, OrderOK
<1>t. /\ SavedNonce \in Nat /\ acct.nonce \in Nat /\ TipNonce' = TipNonce
      /\ acct \in Accounts /\ rec \in Record /\ acct # NoFile /\ rec # NoFile /\ snap \in [Goroutines -> Record]
  BY <1>0, Types, PersistenceAssumption DEF JournalOK, TypeOK, TipNonce
<1>1. CASE SaveAccounts(g)
  <2>1. /\ stage[g] = "accounts" /\ stage' = [stage EXCEPT ![g] = "snapshot"]
        /\ accountsFile' = acct /\ UNCHANGED <<snap, enrollmentFile>>
    BY <1>1 DEF SaveAccounts, InHook, Goto, Saved
  <2>2. /\ stage'[g] = "snapshot" /\ \A h \in Goroutines : h # g => stage'[h] = "idle"
        /\ UpOrder /\ HookOK(g) /\ Numbered(Lines(journal))
        /\ Kept(sent, receiptsFile, SavedNonce, Written(journal))
    BY <1>0, <2>1, Alone DEF Stages
  <2>3. SavedNonce' = acct.nonce /\ SavedNonce <= acct.nonce
    BY <1>t, <2>1, <2>2 DEF SavedNonce, UpOrder
  <2>4. Kept(sent', receiptsFile', SavedNonce', Written(journal'))
    BY <1>0, <1>t, <2>2, <2>3, KeptGrows
  <2>5. blk[g] \in Written(journal)
    BY <2>1, <2>2 DEF HookOK, InFlight
  <2>6. HasBlock(Lines(journal))'
    BY <1>0, <2>5, FirstBlock DEF HasBlock
  <2>7. HookOK(g)'
    BY <1>0, <1>t, <2>1, <2>2 DEF HookOK, InFlight
  <2>8. UpOrder'
    BY <1>0, <1>t, <2>2, <2>3, <2>7 DEF UpOrder
  <2> QED
    BY <1>0, <2>2, <2>4, <2>6, <2>8 DEF Order, BetweenSaves
<1>2. CASE SnapshotEnrollment(g)
  <2>1. /\ stage[g] = "snapshot" /\ stage' = [stage EXCEPT ![g] = "enrollment"]
        /\ snap' = [snap EXCEPT ![g] = rec] /\ UNCHANGED <<accountsFile, enrollmentFile>>
    BY <1>2 DEF SnapshotEnrollment, InHook, Goto, disk
  <2>2. /\ stage'[g] = "enrollment" /\ \A h \in Goroutines : h # g => stage'[h] = "idle"
        /\ UpOrder /\ HookOK(g) /\ Numbered(Lines(journal)) /\ HasBlock(Lines(journal))
        /\ Kept(sent, receiptsFile, SavedNonce, Written(journal))
    BY <1>0, <2>1, Alone DEF Stages
  <2>3. SavedNonce' = SavedNonce /\ HasBlock(Lines(journal))' = HasBlock(Lines(journal))
    BY <1>0, <2>1 DEF SavedNonce, HasBlock
  <2>4. snap'[g] = rec
    BY <1>t, <2>1
  <2>5. HookOK(g)'
    BY <1>0, <1>t, <2>1, <2>2, <2>4 DEF HookOK, InFlight
  <2>6. UpOrder'
    BY <1>0, <1>t, <2>2, <2>3, <2>5 DEF UpOrder
  <2> QED
    BY <1>0, <2>2, <2>3, <2>6 DEF Order, BetweenSaves
<1>3. CASE SaveEnrollment(g)
  <2>1. /\ stage[g] = "enrollment" /\ stage' = [stage EXCEPT ![g] = "receipts"]
        /\ enrollmentFile' = snap[g] /\ UNCHANGED <<accountsFile, snap>>
    BY <1>3 DEF SaveEnrollment, InHook, Goto
  <2>2. /\ stage'[g] = "receipts" /\ \A h \in Goroutines : h # g => stage'[h] = "idle"
        /\ UpOrder /\ HookOK(g) /\ Numbered(Lines(journal)) /\ HasBlock(Lines(journal))
        /\ Kept(sent, receiptsFile, SavedNonce, Written(journal))
    BY <1>0, <2>1, Alone DEF Stages
  <2>3. SavedNonce' = SavedNonce /\ HasBlock(Lines(journal))' = HasBlock(Lines(journal))
    BY <1>0, <2>1 DEF SavedNonce, HasBlock
  <2>4. snap[g] = rec /\ accountsFile = acct
    BY <2>1, <2>2 DEF HookOK
  <2>5. FilesAgree'
    BY <1>0, <1>t, <2>1, <2>2, <2>4 DEF FilesAgree, LoadEnrollment, UpOrder
  <2>6. HookOK(g)'
    BY <1>0, <1>t, <2>1, <2>2, <2>4 DEF HookOK, InFlight
  <2>7. UpOrder'
    BY <1>0, <1>t, <2>2, <2>3, <2>6 DEF UpOrder
  <2> QED
    BY <1>0, <2>2, <2>3, <2>5, <2>7 DEF Order
<1> QED
  BY <1>1, <1>2, <1>3

LEMMA LastStepsKeepOrder ==
    ASSUME JournalOK, JournalOK', OrderOK, NEW g \in Goroutines,
           AppendReceipts(g) \/ Broadcast(g) \/ SaveFails(g)
    PROVE  OrderOK'
<1> SUFFICES ASSUME orderly'
             PROVE  Order'
  BY DEF OrderOK
<1>0. /\ Order /\ mode' = "up"
      /\ UNCHANGED <<chain, acct, rec, jtip, blk, snap, journal, accountsFile, enrollmentFile, sealed, stops>>
  BY DEF AppendReceipts, Broadcast, SaveFails, InHook, memory, disk, history, OrderOK
<1>t. /\ SavedNonce \in Nat /\ acct.nonce \in Nat /\ acct # NoFile /\ acct \in Accounts
      /\ SavedNonce' = SavedNonce /\ TipNonce' = TipNonce
      /\ FilesAgree' = FilesAgree /\ HasBlock(Lines(journal))' = HasBlock(Lines(journal))
  BY <1>0, Types, PersistenceAssumption
     DEF JournalOK, TypeOK, TipNonce, SavedNonce, FilesAgree, LoadEnrollment, HasBlock
<1>1. CASE AppendReceipts(g)
  <2>1. /\ stage[g] = "receipts" /\ stage' = [stage EXCEPT ![g] = "broadcast"]
        /\ receiptsFile' = receiptsFile \cup {blk[g].id} /\ UNCHANGED <<sent, failed>>
    BY <1>1 DEF AppendReceipts, InHook, Goto, memory, history
  <2>2. /\ stage'[g] = "broadcast" /\ \A h \in Goroutines : h # g => stage'[h] = "idle"
        /\ UpOrder /\ HookOK(g) /\ Numbered(Lines(journal)) /\ HasBlock(Lines(journal))
        /\ Kept(sent, receiptsFile, SavedNonce, Written(journal)) /\ FilesAgree
    BY <1>0, <2>1, Alone DEF Stages, BetweenSaves
  <2>3. blk[g] \in Written(journal) /\ blk[g].root.nonce = acct.nonce /\ accountsFile = acct
    BY <2>1, <2>2 DEF HookOK, InFlight
  <2>4. blk[g].root.nonce \in 0 .. SavedNonce
    BY <1>t, <2>3 DEF SavedNonce
  <2>5. Kept(sent', receiptsFile', SavedNonce', Written(journal'))
    BY <1>0, <1>t, <2>1, <2>2, <2>3, <2>4 DEF Kept
  <2>6. HookOK(g)'
    BY <1>0, <1>t, <2>1, <2>2 DEF HookOK, InFlight
  <2>7. UpOrder'
    BY <1>0, <1>t, <2>1, <2>2, <2>6 DEF UpOrder
  <2> QED
    BY <1>0, <1>t, <2>2, <2>5, <2>7 DEF Order
<1>2. CASE Broadcast(g)
  <2>1. /\ stage[g] = "broadcast" /\ stage' = [stage EXCEPT ![g] = "idle"]
        /\ sent' = sent \cup {blk[g]} /\ UNCHANGED <<receiptsFile, failed>>
    BY <1>2 DEF Broadcast, InHook, Goto, memory, disk
  <2>2. /\ stage'[g] = "idle" /\ \A h \in Goroutines : h # g => stage'[h] = "idle"
        /\ UpOrder /\ HookOK(g) /\ Numbered(Lines(journal)) /\ HasBlock(Lines(journal))
        /\ Kept(sent, receiptsFile, SavedNonce, Written(journal)) /\ FilesAgree
    BY <1>0, <2>1, Alone DEF Stages, BetweenSaves
  <2>3. blk[g] \in Written(journal) /\ blk[g].root.nonce = acct.nonce /\ accountsFile = acct
        /\ TipNonce = acct.nonce
    BY <2>1, <2>2 DEF HookOK, InFlight
  <2>4. blk[g].root.nonce \in 0 .. SavedNonce /\ SavedNonce = acct.nonce
    BY <1>t, <2>3 DEF SavedNonce
  <2>5. Kept(sent', receiptsFile', SavedNonce', Written(journal'))
    BY <1>0, <1>t, <2>1, <2>2, <2>3, <2>4 DEF Kept
  <2>6. \A h \in Goroutines : stage'[h] = "idle"
    BY <2>2
  <2>7. UpOrder'
    BY <1>0, <1>t, <2>1, <2>2, <2>3, <2>4, <2>6 DEF UpOrder
  <2> QED
    BY <1>0, <1>t, <2>2, <2>5, <2>6, <2>7 DEF Order
<1>3. CASE SaveFails(g)
  <2>1. /\ stage[g] # "idle" /\ stage[g] \notin BetweenSaves /\ stage' = [stage EXCEPT ![g] = "idle"]
        /\ failed' = TRUE /\ UNCHANGED <<sent, receiptsFile>>
    BY <1>3 DEF SaveFails, Fail, Goto, disk
  <2>2. /\ stage'[g] = "idle" /\ \A h \in Goroutines : h # g => stage'[h] = "idle"
        /\ UpOrder /\ Numbered(Lines(journal)) /\ HasBlock(Lines(journal))
        /\ Kept(sent, receiptsFile, SavedNonce, Written(journal)) /\ FilesAgree
    BY <1>0, <2>1, Alone DEF Stages
  <2>3. \A h \in Goroutines : stage'[h] = "idle"
    BY <2>2
  <2>4. UpOrder'
    BY <1>0, <1>t, <2>1, <2>2, <2>3 DEF UpOrder
  <2> QED
    BY <1>0, <1>t, <2>1, <2>2, <2>3, <2>4 DEF Order
<1> QED
  BY <1>1, <1>2, <1>3

----------------------------------------------------------------------------
(* Orderly histories: stop and boot.                                       *)

LEMMA StopKeepsOrder ==
    ASSUME JournalOK, JournalOK', OrderOK, Stop
    PROVE  OrderOK'
<1> SUFFICES ASSUME orderly'
             PROVE  Order'
  BY DEF OrderOK
<1>0. /\ Order /\ mode = "up" /\ mode' = "down" /\ stops' = stops + 1
      /\ \A g \in Goroutines : stage[g] \notin BetweenSaves /\ stage'[g] = "idle"
      /\ UNCHANGED <<accountsFile, enrollmentFile, receiptsFile, sent, sealed, jtip>>
  BY DEF Stop, OrderOK, memory
<1>1. /\ SavedNonce \in Nat /\ acct.nonce \in Nat /\ sealed \in Nat /\ stops \in Nat
      /\ SavedNonce' = SavedNonce /\ FilesAgree' = FilesAgree
  BY <1>0, Types DEF JournalOK, SavedNonce, FilesAgree, LoadEnrollment
<1>2. FilesAgree /\ UpOrder
  BY <1>0 DEF Order
<1>3. DownOrder'
  BY <1>0, <1>1, <1>2 DEF DownOrder, UpOrder
<1>4. /\ Numbered(Lines(journal')) /\ HasBlock(Lines(journal))'
      /\ Kept(sent', receiptsFile', SavedNonce', Written(journal'))
  <2>1. CASE UNCHANGED journal
    BY <1>0, <1>1, <2>1 DEF HasBlock, Order
  <2>2. CASE journal' # journal
    <3>1. PICK g \in Goroutines : /\ stage[g] = "append" /\ ExtendsTip(blk[g], jtip)
                                  /\ journal' \in Partial(journal, blk[g])
      BY <2>2 DEF Stop
    <3>2. HookOK(g) /\ blk[g] \in Block
      BY <1>2, <3>1 DEF UpOrder, JournalOK, TypeOK
    <3>3. EndsWith(Lines(journal), jtip) /\ blk[g].root.nonce = TipNonce + 1
      BY <1>0, <3>1, <3>2 DEF JournalOK, RunningOK, Ahead, HookOK, InFlight
    <3>4. Wrote(journal', blk[g])
      BY <1>0, <3>1, <3>2, <3>3, WriteOutcomes
    <3>5. Lines(journal') = journal'.lines /\ Lines(journal') # <<>>
      BY <2>2, <3>4 DEF Wrote, Lines
    <3>6. /\ Numbered(Lines(journal)) /\ HasBlock(Lines(journal))
          /\ Kept(sent, receiptsFile, SavedNonce, Written(journal))
      BY <1>0 DEF Order
    <3>7. Numbered(Lines(journal')) /\ HasBlock(Lines(journal))'
      BY <1>0, <3>3, <3>4, <3>5, <3>6 DEF Wrote, HasBlock
    <3>8. Written(journal) \subseteq Written(journal')
      BY <3>4 DEF Wrote
    <3> QED
      BY <1>0, <1>1, <3>6, <3>7, <3>8, KeptGrows
  <2> QED
    BY <2>1, <2>2
<1> QED
  BY <1>0, <1>1, <1>2, <1>3, <1>4 DEF Order

\* The node that has loaded bs runs in order when its files do.
LEMMA HydrateKeepsOrder ==
    ASSUME JournalOK, JournalOK', NEW bs \in Seq(Block), Len(bs) \in Nat \ {0}, Hydrate(bs), mode # "up",
           UNCHANGED <<stage, history, accountsFile, enrollmentFile, receiptsFile>>,
           accountsFile # NoFile, accountsFile = bs[Len(bs)].root, bs[Len(bs)].root.nonce = Len(bs),
           DownOrder, Numbered(Lines(journal')), HasBlock(Lines(journal))',
           Kept(sent, receiptsFile, SavedNonce, Written(journal'))
    PROVE  Order'
<1>1. \A g \in Goroutines : stage'[g] = "idle"
  BY DEF JournalOK, TypeOK
<1>2. /\ mode' = "up" /\ chain' = bs /\ jtip' = bs[Len(bs)] /\ acct' = accountsFile
      /\ rec' = LoadEnrollment /\ failed' = FALSE
  BY DEF Hydrate, Last
<1>3. SavedNonce' = SavedNonce /\ FilesAgree' = FilesAgree /\ SavedNonce = Len(bs)
  BY DEF SavedNonce, FilesAgree, LoadEnrollment
<1>4. bs[Len(bs)] \in Block
  OBVIOUS
<1>5. TipNonce' = Len(bs)
  BY <1>2, <1>4, PersistenceAssumption DEF TipNonce
<1>6. UpOrder'
  <2>1. acct'.nonce = Len(bs) /\ acct'.bal + rec'.bond = Stake
    BY <1>2 DEF DownOrder, FilesAgree
  <2>2. sealed' <= acct'.nonce + stops'
    BY <1>3, <2>1 DEF DownOrder, history
  <2>3. acct'.nonce <= SavedNonce' + 1 /\ SavedNonce' <= acct'.nonce /\ SavedNonce' = acct'.nonce
    BY <1>3, <2>1
  <2> QED
    BY <1>1, <1>2, <1>5, <2>1, <2>2, <2>3 DEF UpOrder
<1> QED
  BY <1>1, <1>2, <1>3, <1>6 DEF Order, DownOrder, history

LEMMA FreshKeepsOrder ==
    ASSUME JournalOK, JournalOK', OrderOK, BootFresh
    PROVE  OrderOK'
<1> SUFFICES ASSUME orderly'
             PROVE  Order'
  BY DEF OrderOK
<1>0. /\ Order /\ mode = "down" /\ mode' = "up" /\ Lines(journal) = <<>> /\ journal' = NoLines
      /\ failed' = FALSE /\ chain' = <<>> /\ jtip' = NoBlock /\ acct' = FreshAccounts /\ rec' = NoRecord
      /\ UNCHANGED <<stage, accountsFile, enrollmentFile, receiptsFile, sent, sealed, stops>>
  BY DEF BootFresh, history, OrderOK
<1>1. \A g \in Goroutines : stage'[g] = "idle"
  BY <1>0 DEF JournalOK, TypeOK
<1>2. accountsFile = NoFile /\ SavedNonce = 0 /\ SavedNonce' = 0
  BY <1>0 DEF Order, HasBlock, SavedNonce
<1>3. Lines(journal') = <<>>
  BY <1>0, PersistenceAssumption DEF NoLines, Lines
<1>4. /\ Written(journal) = {} /\ Written(journal') = {}
      /\ Numbered(Lines(journal')) /\ HasBlock(Lines(journal))'
  BY <1>0, <1>2, <1>3 DEF Written, Numbered, HasBlock
<1>5. Kept(sent', receiptsFile', SavedNonce', Written(journal'))
  BY <1>0, <1>2, <1>4 DEF Order
<1>6. UpOrder'
  <2>1. acct'.nonce = 0 /\ acct'.bal + rec'.bond = Stake /\ TipNonce' = 0 /\ Len(chain') = 0
    BY <1>0, PersistenceAssumption DEF FreshAccounts, NoRecord, TipNonce
  <2>2. sealed' <= acct'.nonce + stops'
    BY <1>0, <1>2, <2>1 DEF Order, DownOrder
  <2> QED
    BY <1>0, <1>1, <1>2, <2>1, <2>2 DEF UpOrder
<1>7. FilesAgree'
  BY <1>0, <1>2 DEF FilesAgree
<1> QED
  BY <1>0, <1>1, <1>4, <1>5, <1>6, <1>7 DEF Order

\* The blocks that a boot reads in an orderly history are numbered.
LEMMA ReadNumbers ==
    ASSUME JournalOK, Lines(journal) # <<>>, Readable(journal), Numbered(Lines(journal))
    PROVE  /\ \A i \in 1 .. Len(Blocks(journal)) : Blocks(journal)[i].root.nonce = i
           /\ \A b \in Written(journal) : \E i \in 1 .. Len(Blocks(journal)) : b = Blocks(journal)[i]
<1> DEFINE bs == Blocks(journal)
           ls == Lines(journal)
<1>1. /\ DOMAIN ls = 1 .. Len(bs)
      /\ \A i \in 1 .. Len(bs) : Len(ls[i]) = 1 /\ bs[i] = ls[i][1]
  BY ReadBlocks
<1>2. ls \in Seq(Seq(Block))
  BY DEF JournalOK, TypeOK, Lines, Journal
<1>3. \A i \in 1 .. Len(bs) : ls[i] # <<>> /\ DOMAIN ls[i] = 1 .. 1
  BY <1>1, <1>2, ShapeOf DEF Shape
<1> HIDE DEF bs
<1>4. \A i \in 1 .. Len(bs) : bs[i].root.nonce = i
  <2>0. \A i \in DOMAIN ls : Len(ls[i]) = 1
    BY <1>1
  <2>1. \A i \in DOMAIN ls : Len(ls[i]) <= 1
    <3>1. \A x : x = 1 => x <= 1
      OBVIOUS
    <3> QED
      BY <2>0, <3>1, Zenon
  <2>2. \A i \in DOMAIN ls : ls[i] # <<>> => ls[i][1].root.nonce = i
    BY <2>1 DEF Numbered
  <2> QED
    BY <1>1, <1>3, <2>2
<1>5. ASSUME NEW b \in Written(journal)
      PROVE  \E i \in 1 .. Len(bs) : b = bs[i]
  <2>1. PICK i \in DOMAIN ls : \E k \in DOMAIN ls[i] : b = ls[i][k]
    BY WrittenIn
  <2>2. PICK k \in DOMAIN ls[i] : b = ls[i][k]
    BY <2>1
  <2>3. k = 1
    BY <1>1, <1>3, <2>2
  <2> QED
    BY <1>1, <2>2, <2>3
<1> QED
  BY <1>4, <1>5 DEF bs

LEMMA AtTipKeepsOrder ==
    ASSUME JournalOK, JournalOK', OrderOK, BootAtTip
    PROVE  OrderOK'
<1> SUFFICES ASSUME orderly'
             PROVE  Order'
  BY DEF OrderOK
<1> DEFINE bs == Blocks(journal)
<1>0. /\ Order /\ mode = "down" /\ Hydrate(bs) /\ accountsFile # NoFile /\ accountsFile = bs[Len(bs)].root
      /\ UNCHANGED <<stage, history, accountsFile, enrollmentFile, receiptsFile>> /\ journal' = journal
      /\ Lines(journal) # <<>> /\ Readable(journal)
  BY DEF BootAtTip, disk, history, OrderOK, MatchesTip, Last
<1>1. bs \in Seq(Block) /\ Len(bs) \in Nat \ {0}
  BY <1>0, ReadBlocks
<1>2. /\ DownOrder /\ Numbered(Lines(journal)) /\ HasBlock(Lines(journal))
      /\ Kept(sent, receiptsFile, SavedNonce, Written(journal))
  BY <1>0 DEF Order
<1>3. bs[Len(bs)].root.nonce = Len(bs)
  <2>1. \A i \in 1 .. Len(bs) : bs[i].root.nonce = i
    BY <1>0, <1>2, ReadNumbers
  <2>2. Len(bs) \in 1 .. Len(bs)
    BY <1>1
  <2> QED
    BY <2>1, <2>2
<1>4. HasBlock(Lines(journal))' /\ Numbered(Lines(journal')) /\ Kept(sent, receiptsFile, SavedNonce, Written(journal'))
  BY <1>0, <1>2 DEF HasBlock
<1> HIDE DEF bs
<1> QED
  BY <1>0, <1>1, <1>2, <1>3, <1>4, HydrateKeepsOrder

LEMMA BeginReplaceKeepsOrder ==
    ASSUME JournalOK, JournalOK', OrderOK, BeginReplace
    PROVE  OrderOK'
<1> SUFFICES ASSUME orderly'
             PROVE  Order'
  BY DEF OrderOK
<1> DEFINE bs == Blocks(journal)
           m == Len(bs)
<1>0. /\ Order /\ mode = "down" /\ mode' = "replacing" /\ chain' = bs
      /\ m >= 2 /\ accountsFile # NoFile /\ accountsFile = bs[m - 1].root
      /\ UNCHANGED <<stage, accountsFile, enrollmentFile, receiptsFile, sent, sealed, stops>>
      /\ Lines(journal) # <<>> /\ Readable(journal)
  BY DEF BeginReplace, hooks, history, OrderOK, MatchesPrior
<1>1. bs \in Seq(Block) /\ m \in Nat \ {0} /\ DOMAIN bs = 1 .. m
  BY <1>0, ReadBlocks
<1>2. /\ DownOrder /\ Numbered(Lines(journal))
      /\ Kept(sent, receiptsFile, SavedNonce, Written(journal))
  BY <1>0 DEF Order
<1>3. /\ \A i \in 1 .. m : bs[i].root.nonce = i
      /\ \A b \in Written(journal) : \E i \in 1 .. m : b = bs[i]
  BY <1>0, <1>2, ReadNumbers
<1> HIDE DEF bs, m
<1>4. SavedNonce = m - 1 /\ SavedNonce' = SavedNonce /\ FilesAgree' = FilesAgree
  <2>1. m - 1 \in 1 .. m
    BY <1>0, <1>1
  <2> QED
    BY <1>0, <1>3, <2>1 DEF SavedNonce, FilesAgree, LoadEnrollment
<1> DEFINE w == {bs[i] : i \in 1 .. m - 1}
<1>5. ASSUME NEW b \in Written(journal), b.root.nonce \in 0 .. m - 1
      PROVE  b \in w
  <2>1. PICK i \in 1 .. m : b = bs[i]
    BY <1>3
  <2>2. i \in 1 .. m - 1
    BY <1>1, <1>3, <1>5, <2>1
  <2> QED
    BY <2>1, <2>2
<1>6. Kept(sent, receiptsFile, SavedNonce, w)
  BY <1>2, <1>4, <1>5 DEF Kept
<1>7. ReplaceOrder'
  <2>1. Len(chain') = m /\ DOMAIN chain' = 1 .. m
    BY <1>0, <1>1 DEF m
  <2>2. w = {chain'[i] : i \in 1 .. Len(chain') - 1}
    BY <1>0, <2>1
  <2>3. Kept(sent', receiptsFile', SavedNonce', {chain'[i] : i \in 1 .. Len(chain') - 1})
    BY <1>0, <1>4, <1>6, <2>2
  <2> QED
    BY <1>0, <1>3, <2>1, <2>3 DEF ReplaceOrder
<1>8. DownOrder'
  BY <1>0, <1>2, <1>4 DEF DownOrder
<1>9. \A g \in Goroutines : stage'[g] = "idle"
  BY <1>0 DEF JournalOK, TypeOK
<1> QED
  BY <1>0, <1>7, <1>8, <1>9 DEF Order, DownOrder

LEMMA WithoutTailKeepsOrder ==
    ASSUME JournalOK, JournalOK', OrderOK, BootWithoutTail
    PROVE  OrderOK'
<1> SUFFICES ASSUME orderly'
             PROVE  Order'
  BY DEF OrderOK
<1> DEFINE m == Len(chain) - 1
           bs == Front(chain)
           ls == [i \in 1 .. m |-> <<chain[i]>>]
<1>0. /\ Order /\ mode = "replacing" /\ Hydrate(bs)
      /\ journal' = [lines |-> ls, eol |-> TRUE]
      /\ UNCHANGED <<stage, history, accountsFile, enrollmentFile, receiptsFile>>
  BY DEF BootWithoutTail, history, OrderOK
<1>1. chain \in Seq(Block) /\ Len(chain) \in Nat /\ Len(chain) >= 2 /\ m \in Nat \ {0} /\ accountsFile # NoFile
  BY <1>0 DEF JournalOK, TypeOK, ReplacingOK
<1>2. \A i \in 1 .. m : chain[i] \in Block
  BY <1>1
<1>3. bs \in Seq(Block) /\ Len(bs) = m /\ \A i \in 1 .. m : bs[i] = chain[i]
  BY <1>1, <1>2, SubSeqProperties DEF Front
<1>4. DownOrder /\ ReplaceOrder
  BY <1>0 DEF Order
<1>5. /\ accountsFile = chain[m].root /\ \A i \in 1 .. m : chain[i].root.nonce = i
      /\ Kept(sent, receiptsFile, SavedNonce, {chain[i] : i \in 1 .. m})
  <2>1. \A i \in 1 .. m : i \in DOMAIN chain
    BY <1>1
  <2> QED
    BY <1>4, <2>1 DEF ReplaceOrder
<1>6. journal' # NoFile
  BY <1>0 DEF JournalOK, RunningOK, Hydrate
<1>7. Lines(journal') = ls
  BY <1>0, <1>6 DEF Lines
<1>8. DOMAIN ls = 1 .. m /\ \A i \in 1 .. m : ls[i] = <<chain[i]>>
  OBVIOUS
<1> HIDE DEF ls, m, bs
<1>9. m \in 1 .. m /\ 1 \in 1 .. m
  BY <1>1
<1>10. Numbered(ls)
  BY <1>5, <1>8 DEF Numbered
<1>11. HasBlock(Lines(journal))'
  <2>1. ls # <<>> /\ ls[1] # <<>>
    BY <1>8, <1>9
  <2> QED
    BY <1>7, <2>1 DEF HasBlock
<1>12. {chain[i] : i \in 1 .. m} \subseteq Written(journal')
  <2> SUFFICES ASSUME NEW i \in 1 .. m
               PROVE  chain[i] \in Written(journal')
    OBVIOUS
  <2>1. i \in DOMAIN ls /\ 1 \in DOMAIN ls[i] /\ chain[i] = ls[i][1]
    BY <1>8
  <2> QED
    BY <1>7, <2>1, WrittenIn
<1>13. SavedNonce \in Nat
  BY Types DEF JournalOK
<1>14. Kept(sent, receiptsFile, SavedNonce, Written(journal'))
  BY <1>5, <1>12, <1>13, KeptGrows
<1>15. Len(bs) \in Nat \ {0} /\ accountsFile = bs[Len(bs)].root /\ bs[Len(bs)].root.nonce = Len(bs)
  BY <1>1, <1>3, <1>5, <1>9
<1> QED
  BY <1>0, <1>1, <1>3, <1>4, <1>7, <1>10, <1>11, <1>14, <1>15, HydrateKeepsOrder

LEMMA StoppedKeepsOrder ==
    ASSUME JournalOK, JournalOK', OrderOK, StopInReplace \/ Refuse \/ TrimBadLine
    PROVE  OrderOK'
<1>1. CASE StopInReplace
  BY <1>1 DEF StopInReplace, OrderOK
<1>2. CASE Refuse
  BY <1>2 DEF Refuse, OrderOK, Order, memory, hooks, disk, history, DownOrder, FilesAgree, LoadEnrollment,
              SavedNonce, HasBlock
<1>3. CASE TrimBadLine
  <2> SUFFICES ASSUME orderly'
               PROVE  Order'
    BY DEF OrderOK
  <2> DEFINE old == journal.lines
             ls == Front(old)
             m == Len(old)
  <2>0. /\ Order /\ mode = "refused" /\ mode' = "down" /\ journal' = [lines |-> ls, eol |-> TRUE]
        /\ Last(old) = <<>>
        /\ UNCHANGED <<stage, accountsFile, enrollmentFile, receiptsFile, sent, sealed, stops>>
    BY <1>3 DEF TrimBadLine, hooks, history, OrderOK
  <2>1. /\ ls \in Seq(Seq(Block)) /\ Len(ls) = m - 1 /\ m \in Nat \ {0} /\ journal # NoFile
        /\ \A i \in 1 .. m - 1 : ls[i] = old[i] /\ ls[i] # <<>>
    BY <2>0, TrimmedLines
  <2>2. Lines(journal) = old /\ old \in Seq(Seq(Block))
    BY <2>1 DEF Lines, JournalOK, TypeOK, Journal
  <2>3. old[m] = <<>>
    BY <2>0 DEF Last
  <2> HIDE DEF ls
  <2>4. journal' \in Journal /\ journal'.lines = ls
    BY <2>0, <2>1 DEF Journal
  <2>5. Lines(journal') = ls
    BY <2>4, PersistenceAssumption DEF Lines
  <2>6. Shape(old, m) /\ Shape(ls, m - 1)
    BY <2>1, <2>2, ShapeOf
  <2> HIDE DEF old, m
  <2>7. DOMAIN old = 1 .. m /\ DOMAIN ls = 1 .. m - 1 /\ (ls = <<>> <=> m - 1 = 0)
    BY <2>6 DEF Shape
  <2>8. /\ DownOrder /\ Numbered(old) /\ HasBlock(old)
        /\ Kept(sent, receiptsFile, SavedNonce, Written(journal))
    BY <2>0, <2>2 DEF Order
  <2>9. SavedNonce' = SavedNonce /\ FilesAgree' = FilesAgree /\ DownOrder'
    BY <2>0, <2>8 DEF SavedNonce, FilesAgree, LoadEnrollment, DownOrder
  <2>10. Numbered(ls)
    <3> SUFFICES ASSUME \A i \in 1 .. m - 1 : Len(ls[i]) <= 1, NEW i \in 1 .. m - 1, ls[i] # <<>>
                 PROVE  ls[i][1].root.nonce = i
      BY <2>7 DEF Numbered
    <3>1. Len(old[m]) = 0
      BY <2>3
    <3>2. \A x \in 1 .. m : Len(old[x]) <= 1
      BY <2>1, <3>1
    <3>3. i \in DOMAIN old /\ old[i] # <<>>
      BY <2>1, <2>7
    <3> QED
      BY <2>1, <2>7, <2>8, <3>2, <3>3 DEF Numbered
  <2>11. HasBlock(Lines(journal))'
    <3> SUFFICES ASSUME accountsFile # NoFile
                 PROVE  ls # <<>> /\ ls[1] # <<>>
      BY <2>0, <2>5 DEF HasBlock
    <3>1. old[1] # <<>>
      BY <2>8 DEF HasBlock
    <3>2. m # 1
      BY <2>3, <3>1
    <3>3. 1 \in 1 .. m - 1 /\ m - 1 # 0
      BY <2>1, <3>2
    <3> QED
      BY <2>1, <2>7, <3>3
  <2>12. Written(journal) \subseteq Written(journal')
    <3> SUFFICES ASSUME NEW b \in Written(journal)
                 PROVE  b \in Written(journal')
      OBVIOUS
    <3>1. PICK i \in DOMAIN old : \E k \in DOMAIN old[i] : b = old[i][k]
      BY <2>2, WrittenIn
    <3>2. PICK k \in DOMAIN old[i] : b = old[i][k]
      BY <3>1
    <3>3. i # m
      <4>1. DOMAIN <<>> = {}
        OBVIOUS
      <4> QED
        BY <2>3, <3>2, <4>1
    <3>4. i \in DOMAIN ls /\ ls[i] = old[i]
      BY <2>1, <2>7, <3>3
    <3> QED
      BY <2>5, <3>2, <3>4, WrittenIn
  <2>13. SavedNonce \in Nat
    BY Types DEF JournalOK
  <2>14. Kept(sent', receiptsFile', SavedNonce', Written(journal'))
    <3>1. SavedNonce <= SavedNonce
      BY <2>13
    <3>2. Kept(sent, receiptsFile, SavedNonce, Written(journal'))
      BY <2>8, <2>12, <2>13, <3>1, KeptGrows
    <3> QED
      BY <2>0, <2>9, <3>2
  <2>15. \A g \in Goroutines : stage'[g] = "idle"
    BY <2>0 DEF JournalOK, TypeOK
  <2> QED
    BY <2>0, <2>5, <2>9, <2>10, <2>11, <2>14, <2>15 DEF Order, DownOrder
<1> QED
  BY <1>1, <1>2, <1>3

LEMMA OrderInit == Init => OrderOK
<1> SUFFICES ASSUME Init
             PROVE  Order
  BY DEF OrderOK
<1>1. Lines(journal) = <<>>
  BY PersistenceAssumption DEF Init, NoLines, Lines
<1>2. Written(journal) = {} /\ Numbered(Lines(journal)) /\ SavedNonce = 0 /\ TipNonce = 0
  BY <1>1 DEF Init, Written, Numbered, SavedNonce, TipNonce
<1>3. UpOrder
  BY <1>2, PersistenceAssumption DEF Init, UpOrder, FreshAccounts, NoRecord
<1> QED
  BY <1>1, <1>2, <1>3 DEF Init, Order, Kept, HasBlock, FilesAgree

LEMMA NodeNext == NodeInv /\ [Next]_vars => NodeInv'
<1> SUFFICES ASSUME JournalOK, OrderOK, [Next]_vars
             PROVE  JournalOK' /\ OrderOK'
  BY DEF NodeInv
<1>0. JournalOK'
  BY JournalNext
<1>1. CASE UNCHANGED vars
  <2>1. /\ FilesAgree' = FilesAgree /\ SavedNonce' = SavedNonce /\ TipNonce' = TipNonce
        /\ HasBlock(Lines(journal))' = HasBlock(Lines(journal))
        /\ \A g \in Goroutines : InFlight(g)' = InFlight(g)
    BY <1>1 DEF vars, FilesAgree, LoadEnrollment, SavedNonce, TipNonce, HasBlock, InFlight
  <2>2. \A g \in Goroutines : HookOK(g)' = HookOK(g)
    BY <1>1, <2>1 DEF vars, HookOK
  <2>3. UpOrder' = UpOrder /\ DownOrder' = DownOrder /\ ReplaceOrder' = ReplaceOrder
    BY <1>1, <2>1, <2>2 DEF vars, UpOrder, DownOrder, ReplaceOrder
  <2> SUFFICES ASSUME orderly'
               PROVE  Order'
    BY <1>0 DEF OrderOK
  <2>4. Order /\ mode' = mode /\ stage' = stage /\ journal' = journal
    BY <1>1 DEF vars, OrderOK
  <2>5. Kept(sent', receiptsFile', SavedNonce', Written(journal')) = Kept(sent, receiptsFile, SavedNonce, Written(journal))
    BY <1>1, <2>1 DEF vars
  <2> QED
    BY <2>1, <2>3, <2>4, <2>5 DEF Order
<1>2. ASSUME NEW g \in Goroutines, SealBlock(g) \/ Hook(g)
      PROVE  OrderOK'
  BY <1>0, <1>2, SealKeepsOrder, SweepKeepsOrder, AppendKeepsOrder, SavesKeepOrder, LastStepsKeepOrder
     DEF Hook
<1>3. CASE Stop \/ BootFresh \/ BootAtTip \/ BeginReplace \/ BootWithoutTail
           \/ StopInReplace \/ Refuse \/ TrimBadLine
  BY <1>0, <1>3, StopKeepsOrder, FreshKeepsOrder, AtTipKeepsOrder, BeginReplaceKeepsOrder,
     WithoutTailKeepsOrder, StoppedKeepsOrder
<1>4. OrderOK'
  BY <1>1, <1>2, <1>3 DEF Next
<1> QED
  BY <1>0, <1>4

\* The inductive invariant: the journal is one chain, and an orderly history
\* keeps memory and files at most one block apart.
THEOREM NodeCorrect == Spec => []NodeInv
<1>1. Init => NodeInv
  BY JournalInit, OrderInit DEF NodeInv
<1> QED
  BY <1>1, NodeNext, PTL DEF Spec

\* While hooks run one at a time, no stop, failed write or boot takes a
\* block that was broadcast out of the journal.
THEOREM SentCorrect == Spec => []SentSurvives
<1>1. NodeInv => SentSurvives
  BY DEF NodeInv, OrderOK, Order, Kept, SentSurvives
<1> QED
  BY <1>1, NodeCorrect, PTL

\* The receipts on disk are those of blocks of the journal.
THEOREM ReceiptsCorrect == Spec => []ReceiptsOfChain
<1>1. NodeInv => ReceiptsOfChain
  BY DEF NodeInv, OrderOK, Order, Kept, ReceiptsOfChain
<1> QED
  BY <1>1, NodeCorrect, PTL

\* A running node's balance and bond add up to what the wallet was given,
\* after any number of orderly stops and boots.
THEOREM ConservedCorrect == Spec => []Conserved
<1>1. NodeInv => Conserved
  BY DEF NodeInv, OrderOK, Order, UpOrder, Conserved
<1> QED
  BY <1>1, NodeCorrect, PTL

\* A boot loses at most the block that was being persisted at each stop.
THEOREM LossCorrect == Spec => AtMostOneBlockLost
<1>1. ASSUME NodeInv, NodeInv', [Next]_vars, orderly, mode # "up", mode' = "up"
      PROVE  sealed - Len(chain') <= stops
  <2>1. orderly' = orderly /\ sealed' = sealed /\ stops' = stops
    BY <1>1 DEF Next, vars, SealBlock, Hook, Sweep, AppendJournal, SaveAccounts, SnapshotEnrollment,
                SaveEnrollment, AppendReceipts, Broadcast, SaveFails, InHook, Stop, BootFresh, BootAtTip,
                BeginReplace, BootWithoutTail, StopInReplace, Refuse, TrimBadLine, history
  <2>2. UpOrder' /\ TypeOK'
    BY <1>1, <2>1 DEF NodeInv, JournalOK, OrderOK, Order
  <2>3. sealed' <= Len(chain') + stops' /\ sealed' \in Nat /\ stops' \in Nat /\ Len(chain') \in Nat
    BY <2>2 DEF UpOrder, TypeOK
  <2> QED
    BY <2>1, <2>3
<1>2. NodeInv /\ NodeInv' /\ [Next]_vars
        => [(orderly /\ mode # "up" /\ mode' = "up") => sealed - Len(chain') <= stops]_vars
  BY <1>1
<1> QED
  BY <1>2, NodeCorrect, PTL DEF Spec, AtMostOneBlockLost

=============================================================================

------------------------- MODULE MiningLedgerProofs -------------------------
(***************************************************************************)
(* Theorems about MiningLedger, for every set of owners, nodes and cards   *)
(* and every overlap of sealed-block hooks with transactions: types, the   *)
(* GPU binding, how bonds are revoked and released, and the conservation   *)
(* of dust.                                                                *)
(***************************************************************************)
EXTENDS MiningLedger, FiniteSetTheorems, TLAPS

----------------------------------------------------------------------------
(* Counting units. *)

\* A set of units <<x, i>> over a finite set is finite, so its size is a
\* natural number: no sum of bonds or releases is negative.
LEMMA UnitsFinite ==
    ASSUME NEW S, IsFiniteSet(S), NEW k \in Int, NEW U \in SUBSET (S \X (1..k))
    PROVE  IsFiniteSet(U) /\ Cardinality(U) \in Nat
<1>1. IsFiniteSet(1..k)
  BY FS_Interval
<1>2. IsFiniteSet(S \X (1..k))
  BY <1>1, FS_Product
<1>3. IsFiniteSet(U)
  BY <1>2, FS_Subset
<1>. QED
  BY <1>3, FS_CardinalityType

\* The units of record n alone number k.
LEMMA UnitsOfOne ==
    ASSUME NEW n, NEW k \in Nat
    PROVE  IsFiniteSet({n} \X (1..k)) /\ Cardinality({n} \X (1..k)) = k
<1>1. IsFiniteSet({n}) /\ Cardinality({n}) = 1
  BY FS_Singleton
<1>2. IsFiniteSet(1..k) /\ Cardinality(1..k) = k
  BY FS_Interval
<1>3. /\ IsFiniteSet({n} \X (1..k))
      /\ Cardinality({n} \X (1..k)) = Cardinality({n}) * Cardinality(1..k)
  <2>. DEFINE S == {n}  T == 1..k
  <2>1. IsFiniteSet(S) /\ IsFiniteSet(T)
    BY <1>1, <1>2
  <2>. HIDE DEF S, T
  <2>2. IsFiniteSet(S \X T) /\ Cardinality(S \X T) = Cardinality(S) * Cardinality(T)
    BY <2>1, FS_Product
  <2>. QED
    BY <2>2 DEF S, T
<1>. QED
  BY <1>1, <1>2, <1>3

\* A unit of f is a place x and an index up to f[x].
LEMMA UnitIn ==
    ASSUME NEW f, NEW u
    PROVE  u \in Units(f) <=> \E x, i : x \in DOMAIN f /\ i \in 1..f[x] /\ u = <<x, i>>
BY DEF Units

LEMMA DustNat ==
    ASSUME NEW S, IsFiniteSet(S), NEW f \in [S -> Nat]
    PROVE  IsFiniteSet(Units(f)) /\ Dust(f) \in Nat
<1>. DEFINE g == [x \in S |-> {x} \X (1..f[x])]
            T == {{x} \X (1..f[x]) : x \in S}
<1>1. g \in Surjection(S, T)
  BY DEF Surjection
<1>2. IsFiniteSet(T)
  <2>. HIDE DEF g, T
  <2>. QED
    BY <1>1, FS_Surjection
<1>3. ASSUME NEW U \in T PROVE IsFiniteSet(U)
  <2>1. PICK x \in S : U = {x} \X (1..f[x])
    OBVIOUS
  <2>2. f[x] \in Nat
    OBVIOUS
  <2>. QED
    BY <2>1, <2>2, UnitsOfOne
<1>4. IsFiniteSet(UNION T)
  <2>. HIDE DEF T
  <2>. QED
    BY <1>2, <1>3, FS_UNION
<1>5. Units(f) = UNION T
  BY DEF Units
<1>. QED
  BY <1>4, <1>5, FS_CardinalityType DEF Dust

\* Disjoint finite sets.
LEMMA CountUnion ==
    ASSUME NEW A, NEW B, IsFiniteSet(A), IsFiniteSet(B), A \cap B = {}
    PROVE  Cardinality(A \cup B) = Cardinality(A) + Cardinality(B)
<1>1. Cardinality(A \cup B) = Cardinality(A) + Cardinality(B) - Cardinality(A \cap B)
  BY FS_Union
<1>2. Cardinality(A \cap B) = 0
  BY FS_EmptySet
<1>3. Cardinality(A) \in Nat /\ Cardinality(B) \in Nat
  BY FS_CardinalityType
<1>. QED
  BY <1>1, <1>2, <1>3

\* Two sums that differ at x only.
LEMMA DustChange ==
    ASSUME NEW S, IsFiniteSet(S), NEW f \in [S -> Nat], NEW g \in [S -> Nat], NEW x \in S,
           \A y \in S : y # x => g[y] = f[y]
    PROVE  Dust(g) - g[x] = Dust(f) - f[x]
<1>. DEFINE rest == {u \in Units(f) : u[1] # x}
<1>1. ASSUME NEW k \in [S -> Nat], \A y \in S : y # x => k[y] = f[y]
      PROVE  Dust(k) = Cardinality(rest) + k[x] /\ Cardinality(rest) \in Nat
  <2>. DEFINE own == {x} \X (1..k[x])
  <2>1. Units(k) = rest \cup own
    <3>1. ASSUME NEW u \in Units(k) PROVE u \in rest \cup own
      <4>1. PICK y, i : y \in S /\ i \in 1..k[y] /\ u = <<y, i>>
        BY <3>1, UnitIn
      <4>2. CASE y = x
        BY <4>1, <4>2
      <4>3. CASE y # x
        <5>1. k[y] = f[y]
          BY <1>1, <4>1, <4>3
        <5>2. i \in 1..f[y] /\ y \in DOMAIN f
          BY <4>1, <5>1
        <5>3. u \in Units(f)
          BY <4>1, <5>2, UnitIn
        <5>. QED
          BY <4>1, <4>3, <5>3
      <4>. QED
        BY <4>2, <4>3
    <3>2. ASSUME NEW u \in rest PROVE u \in Units(k)
      <4>1. PICK y, i : y \in S /\ i \in 1..f[y] /\ u = <<y, i>>
        BY <3>2, UnitIn
      <4>2. y # x
        BY <4>1
      <4>3. i \in 1..k[y] /\ y \in DOMAIN k
        BY <1>1, <4>1, <4>2
      <4>. QED
        BY <4>1, <4>3, UnitIn
    <3>3. own \subseteq Units(k)
      BY UnitIn
    <3>. QED
      BY <3>1, <3>2, <3>3
  <2>2. rest \cap own = {}
    OBVIOUS
  <2>3. IsFiniteSet(rest) /\ Cardinality(rest) \in Nat
    BY DustNat, FS_Subset, FS_CardinalityType
  <2>4. k[x] \in Nat
    OBVIOUS
  <2>5. IsFiniteSet(own) /\ Cardinality(own) = k[x]
    BY <2>4, UnitsOfOne
  <2>. HIDE DEF rest, own
  <2>. QED
    BY <2>1, <2>2, <2>3, <2>5, CountUnion DEF Dust
<1>. HIDE DEF rest
<1>2. Dust(f) = Cardinality(rest) + f[x] /\ Cardinality(rest) \in Nat
  BY <1>1
<1>3. Dust(g) = Cardinality(rest) + g[x]
  BY <1>1
<1>4. f[x] \in Nat /\ g[x] \in Nat
  OBVIOUS
<1>. QED
  BY <1>2, <1>3, <1>4

\* The sum of sums.
LEMMA DustPlus ==
    ASSUME NEW S, IsFiniteSet(S), NEW f \in [S -> Nat], NEW g \in [S -> Nat], NEW k \in [S -> Nat],
           \A x \in S : k[x] = f[x] + g[x]
    PROVE  Dust(k) = Dust(f) + Dust(g)
<1>. DEFINE above == {u \in Units(k) : u \notin Units(f)}
            b == [u \in Units(g) |-> <<u[1], f[u[1]] + u[2]>>]
<1>1. Units(f) \subseteq Units(k)
  <2>1. ASSUME NEW u \in Units(f) PROVE u \in Units(k)
    <3>1. PICK x, i : x \in S /\ i \in 1..f[x] /\ u = <<x, i>>
      BY UnitIn
    <3>2. f[x] \in Nat /\ g[x] \in Nat /\ k[x] = f[x] + g[x]
      BY <3>1
    <3>3. i \in 1..k[x] /\ x \in DOMAIN k
      BY <3>1, <3>2
    <3>. QED
      BY <3>1, <3>3, UnitIn
  <2>. QED
    BY <2>1
<1>2. ASSUME NEW u \in Units(g) PROVE b[u] \in above
  <2>1. PICK x, i : x \in S /\ i \in 1..g[x] /\ u = <<x, i>>
    BY UnitIn
  <2>2. f[x] \in Nat /\ g[x] \in Nat /\ k[x] = f[x] + g[x]
    BY <2>1
  <2>3. b[u] = <<x, f[x] + i>>
    BY <2>1
  <2>4. f[x] + i \in 1..k[x] /\ x \in DOMAIN k
    BY <2>1, <2>2
  <2>5. b[u] \in Units(k)
    BY <2>3, <2>4, UnitIn
  <2>6. ASSUME b[u] \in Units(f) PROVE FALSE
    <3>1. PICK y, j : y \in S /\ j \in 1..f[y] /\ b[u] = <<y, j>>
      BY <2>6, UnitIn
    <3>2. y = x /\ j = f[x] + i
      BY <2>3, <3>1
    <3>. QED
      BY <2>1, <2>2, <3>1, <3>2
  <2>. QED
    BY <2>5, <2>6
<1>3. ASSUME NEW v \in above PROVE \E u \in Units(g) : b[u] = v
  <2>1. PICK x, i : x \in S /\ i \in 1..k[x] /\ v = <<x, i>>
    BY UnitIn
  <2>2. f[x] \in Nat /\ g[x] \in Nat /\ k[x] = f[x] + g[x]
    BY <2>1
  <2>3. i > f[x]
    <3>1. ASSUME i \in 1..f[x] PROVE FALSE
      BY <2>1, <3>1, UnitIn
    <3>. QED
      BY <2>1, <2>2, <3>1
  <2>4. i - f[x] \in 1..g[x]
    BY <2>1, <2>2, <2>3
  <2>5. <<x, i - f[x]>> \in Units(g)
    BY <2>1, <2>4, UnitIn
  <2>6. b[<<x, i - f[x]>>] = <<x, f[x] + (i - f[x])>>
    BY <2>5
  <2>7. f[x] + (i - f[x]) = i
    BY <2>1, <2>2
  <2>. QED
    BY <2>1, <2>5, <2>6, <2>7
<1>4. ASSUME NEW u \in Units(g), NEW v \in Units(g), b[u] = b[v] PROVE u = v
  <2>1. PICK x, i : x \in S /\ i \in 1..g[x] /\ u = <<x, i>>
    BY UnitIn
  <2>2. PICK y, j : y \in S /\ j \in 1..g[y] /\ v = <<y, j>>
    BY UnitIn
  <2>3. b[u] = <<x, f[x] + i>> /\ b[v] = <<y, f[y] + j>>
    BY <2>1, <2>2
  <2>4. x = y /\ f[x] + i = f[y] + j
    BY <1>4, <2>3
  <2>5. f[x] \in Nat
    BY <2>1
  <2>. QED
    BY <2>1, <2>2, <2>4, <2>5
<1>5. b \in Bijection(Units(g), above)
  <2>1. b \in [Units(g) -> above]
    BY <1>2
  <2>. HIDE DEF b, above
  <2>. QED
    BY <1>3, <1>4, <2>1 DEF Bijection, Injection, IsInjective, Surjection
<1>6. IsFiniteSet(above) /\ Cardinality(above) = Dust(g)
  <2>. HIDE DEF above, b
  <2>1. ExistsBijection(Units(g), above)
    BY <1>5 DEF ExistsBijection
  <2>. QED
    BY <2>1, DustNat, FS_Bijection DEF Dust
<1>7. Units(k) = Units(f) \cup above /\ Units(f) \cap above = {}
  BY <1>1
<1>8. IsFiniteSet(Units(f))
  BY DustNat
<1>. HIDE DEF above
<1>. QED
  BY <1>6, <1>7, <1>8, CountUnion DEF Dust

----------------------------------------------------------------------------
(* AccrueBondFromReward. *)

\* What AccrueBondFromReward locks is never more than the reward, and never
\* more than a record still needs: the check "enrollment locked more than the
\* protocol reward" in ApplyMiningRewardTx cannot fire.
LEMMA AccrualWithinReward ==
    ASSUME TypeOK, NEW o \in Owners, NEW reward \in Nat,
           NEW locked, locked = [n \in Nodes |-> Locked(o, n, reward)]
    PROVE  /\ locked \in [Nodes -> 0..MinEnrollStake]
           /\ \A n \in Nodes : locked[n] > 0 =>
                n \in Provisional(o) /\ recs[n].stake + locked[n] \in 0..MinEnrollStake
           /\ Dust(locked) \in 0..reward
<1>. DEFINE units(n) == {u \in Provisional(o) \X (1..MinEnrollStake) : u[1] < n /\ u[2] <= BondRemaining(u[1])}
<1>0. MinEnrollStake \in Nat /\ Nodes \subseteq Nat /\ IsFiniteSet(Nodes)
  BY LedgerAssumption
<1>1. \A n \in Provisional(o) : n \in Nodes /\ recs[n] \in Record /\ BondRemaining(n) \in 1..MinEnrollStake
  BY <1>0 DEF Provisional, Active, Enrolled, TypeOK, Registry, Snapshot, Record, BondRemaining
<1>1a. \A n \in Provisional(o) : n \in Nat /\ BondRemaining(n) \in Nat
  <2>1. ASSUME NEW n \in Provisional(o) PROVE n \in Nat /\ BondRemaining(n) \in Nat
    <3>1. n \in Nodes /\ BondRemaining(n) \in 1..MinEnrollStake
      BY <1>1
    <3>2. n \in Nat
      BY <1>0, <3>1
    <3>3. BondRemaining(n) \in Nat
      BY <1>0, <3>1
    <3>. QED
      BY <3>2, <3>3
  <2>. QED
    BY <2>1
<1>2. IsFiniteSet(Provisional(o))
  BY <1>0, FS_Subset DEF Provisional
<1>3. ASSUME NEW n PROVE IsFiniteSet(units(n)) /\ Cardinality(units(n)) \in Nat
  BY <1>0, <1>2, UnitsFinite
<1>4. ASSUME NEW n PROVE Ahead(o, n) = Cardinality(units(n)) /\ Ahead(o, n) \in Nat
  BY <1>3 DEF Ahead
<1>5. ASSUME NEW n \in Nodes
      PROVE  /\ locked[n] \in 0..MinEnrollStake
             /\ locked[n] > 0 => n \in Provisional(o) /\ locked[n] <= BondRemaining(n) /\ Ahead(o, n) + locked[n] <= reward
  <2>1. Ahead(o, n) \in Nat
    BY <1>4
  <2>2. n \in Provisional(o) => BondRemaining(n) \in 1..MinEnrollStake
    BY <1>1
  <2>3. locked[n] = IF n \in Provisional(o) /\ reward > Ahead(o, n)
                    THEN Min2(BondRemaining(n), reward - Ahead(o, n)) ELSE 0
    BY DEF Locked
  <2>. QED
    BY <1>0, <2>1, <2>2, <2>3 DEF Min2
<1>6. ASSUME NEW m \in Provisional(o), NEW n \in Provisional(o), m < n
      PROVE  Ahead(o, m) + BondRemaining(m) <= Ahead(o, n)
  <2>. DEFINE own == {m} \X (1..BondRemaining(m))
  <2>. m \in Nat /\ n \in Nat /\ BondRemaining(m) \in 1..MinEnrollStake /\ BondRemaining(m) \in Nat
    BY <1>1, <1>1a
  <2>1. IsFiniteSet(own) /\ Cardinality(own) = BondRemaining(m)
    BY UnitsOfOne
  <2>2. units(m) \cap own = {}
    OBVIOUS
  <2>3. units(m) \cup own \subseteq units(n)
    <3>1. ASSUME NEW u \in units(m) PROVE u \in units(n)
      <4>1. u[1] \in Nat
        BY <1>0, <1>1
      <4>. QED
        BY <1>6, <4>1
    <3>2. ASSUME NEW u \in own PROVE u \in units(n)
      <4>1. u = <<m, u[2]>> /\ u[2] \in 1..BondRemaining(m)
        OBVIOUS
      <4>. QED
        BY <1>0, <1>6, <4>1
    <3>. QED
      BY <3>1, <3>2
  <2>4. Cardinality(units(m) \cup own) = Cardinality(units(m)) + Cardinality(own) - Cardinality({})
    <3>1. IsFiniteSet(units(m))
      BY <1>3
    <3>. HIDE DEF units, own
    <3>. QED
      BY <2>1, <2>2, <3>1, FS_Union
  <2>5. Cardinality(units(m) \cup own) <= Cardinality(units(n))
    BY <1>3, <2>3, FS_Subset
  <2>6. Cardinality({}) = 0
    BY FS_EmptySet
  <2>. HIDE DEF units, own
  <2>. QED
    BY <1>1, <1>3, <1>4, <2>1, <2>4, <2>5, <2>6
<1>7. Dust(locked) \in 0..reward
  <2>. DEFINE U == {u \in Nodes \X (1..MinEnrollStake) : u[2] <= locked[u[1]]}
              f == [u \in U |-> Ahead(o, u[1]) + u[2]]
  <2>1. Dust(locked) = Cardinality(U)
    <3>1. DOMAIN locked = Nodes /\ \A n \in Nodes : locked[n] \in 0..MinEnrollStake
      BY <1>5
    <3>2. ASSUME NEW u \in Units(locked) PROVE u \in U
      <4>1. PICK n, i : n \in Nodes /\ i \in 1..locked[n] /\ u = <<n, i>>
        BY <3>1, <3>2, UnitIn
      <4>2. i \in 1..MinEnrollStake /\ i <= locked[n]
        BY <1>0, <3>1, <4>1
      <4>. QED
        BY <4>1, <4>2
    <3>3. ASSUME NEW u \in U PROVE u \in Units(locked)
      <4>1. u = <<u[1], u[2]>> /\ u[1] \in Nodes /\ u[2] \in 1..MinEnrollStake /\ u[2] <= locked[u[1]]
        OBVIOUS
      <4>2. u[2] \in 1..locked[u[1]]
        BY <1>0, <3>1, <4>1
      <4>. QED
        BY <3>1, <4>1, <4>2, UnitIn
    <3>. QED
      BY <3>2, <3>3 DEF Dust
  <2>2. ASSUME NEW u \in U
        PROVE  /\ u[1] \in Provisional(o) /\ u[2] \in 1..BondRemaining(u[1])
               /\ Ahead(o, u[1]) + u[2] \in 1..reward
    <3>1. u[1] \in Nodes /\ u[2] \in 1..MinEnrollStake /\ u[2] <= locked[u[1]]
      OBVIOUS
    <3>2. locked[u[1]] \in 0..MinEnrollStake
      BY <1>5, <3>1
    <3>3. locked[u[1]] > 0
      BY <1>0, <3>1, <3>2
    <3>4. u[1] \in Provisional(o) /\ locked[u[1]] <= BondRemaining(u[1]) /\ Ahead(o, u[1]) + locked[u[1]] <= reward
      BY <1>5, <3>1, <3>3
    <3>5. Ahead(o, u[1]) \in Nat /\ BondRemaining(u[1]) \in 1..MinEnrollStake
      BY <1>1, <1>4, <3>4
    <3>. HIDE DEF U
    <3>. QED
      BY <1>0, <3>1, <3>2, <3>4, <3>5
  <2>3. f \in [U -> 1..reward]
    BY <2>2
  <2>4. ASSUME NEW u \in U, NEW v \in U, f[u] = f[v] PROVE u = v
    <3>1. u \in Nodes \X (1..MinEnrollStake) /\ v \in Nodes \X (1..MinEnrollStake)
      OBVIOUS
    <3>2. Ahead(o, u[1]) + u[2] = Ahead(o, v[1]) + v[2]
      BY <2>4
    <3>3. /\ u[1] \in Provisional(o) /\ u[2] \in 1..BondRemaining(u[1])
          /\ v[1] \in Provisional(o) /\ v[2] \in 1..BondRemaining(v[1])
      BY <2>2
    <3>4. /\ u[1] \in Nat /\ BondRemaining(u[1]) \in Nat /\ Ahead(o, u[1]) \in Nat
          /\ v[1] \in Nat /\ BondRemaining(v[1]) \in Nat /\ Ahead(o, v[1]) \in Nat
      <4>. HIDE DEF U
      <4>. QED
        BY <1>1a, <1>4, <3>3
    <3>5. ~(u[1] < v[1]) /\ ~(v[1] < u[1])
      <4>. HIDE DEF U
      <4>1. /\ u[1] < v[1] => Ahead(o, u[1]) + BondRemaining(u[1]) <= Ahead(o, v[1])
            /\ v[1] < u[1] => Ahead(o, v[1]) + BondRemaining(v[1]) <= Ahead(o, u[1])
        BY <1>6, <3>3
      <4>. QED
        BY <3>2, <3>3, <3>4, <4>1
    <3>6. u[1] = v[1]
      BY <3>4, <3>5
    <3>7. u[2] = v[2]
      BY <3>2, <3>3, <3>4, <3>6
    <3>. QED
      BY <3>1, <3>6, <3>7
  <2>5. f \in Injection(U, 1..reward)
    BY <2>3, <2>4 DEF Injection, IsInjective
  <2>6. IsFiniteSet(1..reward) /\ Cardinality(1..reward) = reward
    BY FS_Interval
  <2>7. IsFiniteSet(U) /\ Cardinality(U) <= reward
    BY <2>5, <2>6, FS_Injection
  <2>8. Cardinality(U) \in Nat
    BY <2>7, FS_CardinalityType
  <2>. QED
    BY <2>1, <2>7, <2>8
<1>8. \A n \in Nodes : locked[n] > 0 => n \in Provisional(o) /\ recs[n].stake + locked[n] \in 0..MinEnrollStake
  BY <1>0, <1>1, <1>5 DEF BondRemaining, Record
<1>. QED
  BY <1>5, <1>7, <1>8

----------------------------------------------------------------------------
(* Type correctness. *)

\* The registry part and the account part of TypeOK, for the steps that leave
\* the other part alone.
AccountsOK == known \subseteq Addrs /\ bal \in [Addrs -> Nat] /\ nonce \in [Addrs -> 0..MaxNonce] /\ burned \in Nat
RegistryOK == Registry \in Snapshot
ChainOK    == tip \in Nat /\ unswept \subseteq 1..tip
PendingOK  == applying \in EnrollTx \cup UnenrollTx \cup RewardTx \cup SlashTx \cup {NoTx}

LEMMA TypeParts == TypeOK <=> AccountsOK /\ RegistryOK /\ ChainOK /\ PendingOK
BY DEF TypeOK, AccountsOK, RegistryOK, ChainOK, PendingOK

LEMMA RegistryFields ==
    /\ RegistryOK <=> /\ recs \in [Nodes -> Record \cup {NoRec}]
                      /\ gpuActive \in [GPUs -> Nodes \cup {NoNode}]
                      /\ seen \in SUBSET Evidence
    /\ RegistryOK' <=> /\ recs' \in [Nodes -> Record \cup {NoRec}]
                       /\ gpuActive' \in [GPUs -> Nodes \cup {NoNode}]
                       /\ seen' \in SUBSET Evidence
BY DEF RegistryOK, Registry, Snapshot

\* Revoking a record gives a record.
LEMMA RevokedIsRecord ==
    ASSUME NEW r \in Record, NEW h \in Nat
    PROVE  /\ Revoked(r, h) \in Record
           /\ Revoked(r, h).revokedAt = h /\ Revoked(r, h).gpu = r.gpu
<1>1. h + UnbondWindow \in Nat
  BY LedgerAssumption
<1>2. [r EXCEPT !.revokedAt = h] \in Record
  BY DEF Record
<1>3. [[r EXCEPT !.revokedAt = h] EXCEPT !.maturesAt = h + UnbondWindow] \in Record
  BY <1>1, <1>2 DEF Record
<1>4. Revoked(r, h) = [[r EXCEPT !.revokedAt = h] EXCEPT !.maturesAt = h + UnbondWindow]
  BY DEF Revoked, Record
<1>. QED
  BY <1>3, <1>4 DEF Record

LEMMA TypeInit == Init => TypeOK
<1>. SUFFICES ASSUME Init PROVE TypeOK
  OBVIOUS
<1>1. AccountsOK
  BY LedgerAssumption DEF Init, AccountsOK
<1>2. RegistryOK
  BY RegistryFields DEF Init
<1>3. ChainOK /\ PendingOK
  BY DEF Init, ChainOK, PendingOK
<1>. QED
  BY <1>1, <1>2, <1>3, TypeParts

LEMMA TypeTransfer ==
    ASSUME TypeOK, NEW a \in Owners, NEW b \in Owners, NEW x \in TransferAmounts, NEW f \in Fees,
           Transfer(a, b, x, f)
    PROVE  TypeOK'
<1>0. x \in Nat /\ f \in Nat /\ MaxNonce \in Nat /\ Owners \subseteq Addrs
  BY LedgerAssumption DEF Addrs
<1>1. AccountsOK'
  <2>1. bal[a] \in Nat /\ bal[a] >= x + f /\ nonce[a] \in 0..MaxNonce /\ nonce[a] < MaxNonce
    BY <1>0 DEF Transfer, CanCharge, TypeOK
  <2>. QED
    BY <1>0, <2>1 DEF Transfer, TypeOK, AccountsOK
<1>2. RegistryOK' /\ ChainOK' /\ PendingOK'
  BY TypeParts DEF Transfer, registryVars, chainVars, RegistryOK, Registry, ChainOK, PendingOK
<1>. QED
  BY <1>1, <1>2 DEF TypeOK, AccountsOK, RegistryOK, ChainOK, PendingOK

LEMMA TypeEnroll ==
    ASSUME TypeOK, CommitEnroll
    PROVE  TypeOK'
<1>. DEFINE tx == applying
            bound == Bindable(tx.node, tx.gpu)
            stake == StakeOf(tx.mode)
<1>0. tx \in EnrollTx /\ MaxNonce \in Nat /\ MinEnrollStake \in Nat /\ Owners \subseteq Addrs
  BY LedgerAssumption DEF CommitEnroll, TypeOK, UnenrollTx, RewardTx, SlashTx, EnrollTx, Addrs
<1>1. stake \in 0..MinEnrollStake
  BY <1>0 DEF StakeOf
<1>2. AccountsOK'
  <2>1. /\ tx.from \in Addrs /\ tx.from \in Owners /\ tx.fee \in Nat
        /\ bal[tx.from] \in Nat /\ nonce[tx.from] \in 0..MaxNonce
    BY <1>0 DEF EnrollTx, TypeOK
  <2>2. nonce[tx.from] < MaxNonce /\ bal[tx.from] >= stake + tx.fee
    BY <1>0, <1>1, <2>1 DEF CommitEnroll, CanChargeEnroll, CanCharge
  <2>3. bal' \in [Addrs -> Nat]
    BY <1>1, <2>1, <2>2 DEF CommitEnroll, TypeOK
  <2>4. nonce' \in [Addrs -> 0..MaxNonce]
    BY <1>0, <2>1, <2>2 DEF CommitEnroll, TypeOK
  <2>. QED
    BY <2>1, <2>3, <2>4 DEF CommitEnroll, TypeOK, AccountsOK
<1>3. RegistryOK'
  <2>1. [owner |-> tx.from, gpu |-> tx.gpu, mode |-> tx.mode, stake |-> stake,
         revokedAt |-> 0, maturesAt |-> 0] \in Record
    BY <1>0, <1>1 DEF EnrollTx, Record
  <2>2. tx.node \in Nodes /\ tx.gpu \in GPUs
    BY <1>0 DEF EnrollTx
  <2>. QED
    BY <2>1, <2>2, RegistryFields, TypeParts DEF CommitEnroll
<1>4. ChainOK' /\ PendingOK'
  BY TypeParts DEF CommitEnroll, chainVars, ChainOK, PendingOK
<1>. QED
  BY <1>2, <1>3, <1>4 DEF TypeOK, AccountsOK, RegistryOK, ChainOK, PendingOK

LEMMA TypeUnenroll ==
    ASSUME TypeOK, CommitUnenroll
    PROVE  TypeOK'
<1>. DEFINE tx == applying
<1>0. tx \in UnenrollTx /\ MaxNonce \in Nat /\ Owners \subseteq Addrs
  BY LedgerAssumption DEF CommitUnenroll, TypeOK, UnenrollTx, RewardTx, SlashTx, EnrollTx, Addrs
<1>1. AccountsOK'
  <2>1. /\ tx.from \in Addrs /\ tx.fee \in Nat
        /\ bal[tx.from] \in Nat /\ nonce[tx.from] \in 0..MaxNonce
    BY <1>0 DEF UnenrollTx, TypeOK
  <2>2. nonce[tx.from] < MaxNonce /\ bal[tx.from] >= tx.fee
    BY DEF CommitUnenroll, CanCharge
  <2>. QED
    BY <1>0, <2>1, <2>2 DEF CommitUnenroll, TypeOK, AccountsOK
<1>2. RegistryOK'
  <2>1. tx.node \in Nodes /\ TxHeight \in Nat
    BY <1>0 DEF UnenrollTx, TxHeight, TypeOK
  <2>2. CASE Active(tx.node)
    <3>1. recs[tx.node] \in Record
      BY <2>1, <2>2, RegistryFields, TypeParts DEF Active, Enrolled
    <3>2. Revoked(recs[tx.node], TxHeight) \in Record
      BY <2>1, <3>1, RevokedIsRecord
    <3>3. recs[tx.node].gpu \in GPUs
      BY <3>1 DEF Record
    <3>. QED
      BY <2>1, <2>2, <3>2, <3>3, RegistryFields, TypeParts DEF CommitUnenroll, ReleaseBinding
  <2>3. CASE ~Active(tx.node)
    BY <2>3, RegistryFields, TypeParts DEF CommitUnenroll
  <2>. QED
    BY <2>2, <2>3
<1>3. ChainOK' /\ PendingOK'
  BY TypeParts DEF CommitUnenroll, chainVars, ChainOK, PendingOK
<1>. QED
  BY <1>1, <1>2, <1>3 DEF TypeOK, AccountsOK, RegistryOK, ChainOK, PendingOK

\* Accruing leaves a record alone or raises its stake within the minimum.
LEMMA AccrualKeepsRecord ==
    ASSUME TypeOK, NEW o \in Owners, NEW x \in RewardAmounts, NEW s \in BOOLEAN, BeginReward(o, x, s),
           NEW n \in Nodes
    PROVE  \/ recs'[n] = recs[n]
           \/ /\ recs[n] \in Record /\ recs'[n] \in Record
              /\ recs'[n].gpu = recs[n].gpu /\ recs'[n].revokedAt = recs[n].revokedAt
<1>. DEFINE locked == [m \in Nodes |-> Locked(o, m, x)]
<1>0. x \in Nat
  BY LedgerAssumption
<1>1. \A m \in Nodes : locked[m] > 0 => m \in Provisional(o) /\ recs[m].stake + locked[m] \in 0..MinEnrollStake
  BY <1>0, AccrualWithinReward
<1>2. recs'[n] = IF locked[n] > 0 THEN [recs[n] EXCEPT !.stake = @ + locked[n]] ELSE recs[n]
  BY DEF BeginReward
<1>3. n \in Provisional(o) => recs[n] \in Record
  BY RegistryFields, TypeParts DEF Provisional, Active, Enrolled
<1>. HIDE DEF locked
<1>. QED
  BY <1>1, <1>2, <1>3 DEF Record

LEMMA TypeBeginReward ==
    ASSUME TypeOK, NEW o \in Owners, NEW x \in RewardAmounts, NEW s \in BOOLEAN, BeginReward(o, x, s)
    PROVE  TypeOK'
<1>. DEFINE locked == [n \in Nodes |-> Locked(o, n, x)]
<1>0. x \in Nat
  BY LedgerAssumption
<1>1. /\ \A n \in Nodes : locked[n] > 0 =>
           n \in Provisional(o) /\ recs[n].stake + locked[n] \in 0..MinEnrollStake
      /\ Dust(locked) \in 0..x
  BY <1>0, AccrualWithinReward
<1>2. RegistryOK'
  <2>1. recs' \in [Nodes -> Record \cup {NoRec}]
    <3>1. \A n \in Nodes : recs'[n] \in Record \cup {NoRec}
      BY AccrualKeepsRecord, RegistryFields, TypeParts
    <3>2. recs' = [n \in Nodes |-> recs'[n]]
      BY DEF BeginReward
    <3>. QED
      BY <3>1, <3>2
  <2>. QED
    BY <2>1, RegistryFields, TypeParts DEF BeginReward
<1>3. PendingOK'
  <2>1. x - Dust(locked) \in Nat
    BY <1>0, <1>1
  <2>2. Registry \in Snapshot
    BY DEF TypeOK
  <2>3. applying' = [kind |-> "reward", to |-> o, amount |-> x, stale |-> s,
                     liquid |-> x - Dust(locked), before |-> Registry]
    BY DEF BeginReward
  <2>. HIDE DEF locked
  <2>4. applying' \in RewardTx
    BY <1>0, <2>1, <2>2, <2>3 DEF RewardTx
  <2>. QED
    BY <2>4 DEF PendingOK
<1>4. AccountsOK' /\ ChainOK'
  BY TypeParts DEF BeginReward, accountVars, chainVars, AccountsOK, ChainOK
<1>. QED
  BY <1>2, <1>3, <1>4 DEF TypeOK, AccountsOK, RegistryOK, ChainOK, PendingOK

LEMMA TypeCommitReward ==
    ASSUME TypeOK, CommitReward
    PROVE  TypeOK'
<1>. DEFINE tx == applying
            ok == CanCharge(Funder, tx.amount) /\ ~tx.stale
<1>0. tx \in RewardTx /\ MaxNonce \in Nat /\ Owners \subseteq Addrs /\ Funder \in Addrs /\ Funder \notin Owners
  BY LedgerAssumption DEF CommitReward, TypeOK, UnenrollTx, RewardTx, SlashTx, EnrollTx, Addrs
<1>1. /\ tx.to \in Owners /\ tx.amount \in Nat /\ tx.liquid \in Nat /\ tx.before \in Snapshot
      /\ bal[Funder] \in Nat /\ bal[tx.to] \in Nat /\ nonce[Funder] \in 0..MaxNonce
  BY <1>0 DEF RewardTx, TypeOK
<1>2. AccountsOK'
  <2>1. CASE ok
    <3>1. nonce[Funder] < MaxNonce /\ bal[Funder] >= tx.amount
      BY <2>1 DEF CanCharge
    <3>2. bal' = [[bal EXCEPT ![Funder] = @ - tx.amount] EXCEPT ![tx.to] = @ + tx.liquid]
          /\ nonce' = [nonce EXCEPT ![Funder] = @ + 1]
          /\ known' \subseteq known \cup {tx.to}
          /\ burned' = burned
      BY <2>1 DEF CommitReward
    <3>3. bal' \in [Addrs -> Nat]
      BY <1>0, <1>1, <3>1, <3>2 DEF TypeOK
    <3>4. nonce' \in [Addrs -> 0..MaxNonce]
      BY <1>0, <1>1, <3>1, <3>2 DEF TypeOK
    <3>. QED
      BY <1>0, <1>1, <3>2, <3>3, <3>4 DEF TypeOK, AccountsOK
  <2>2. CASE ~ok
    BY <2>2 DEF CommitReward, TypeOK, AccountsOK
  <2>. QED
    BY <2>1, <2>2
<1>3. RegistryOK'
  <2>1. RestoredUnless(ok, tx.before) \in Snapshot
    BY <1>1 DEF RestoredUnless, TypeOK
  <2>2. /\ recs' = RestoredUnless(ok, tx.before).recs
        /\ gpuActive' = RestoredUnless(ok, tx.before).gpuActive
        /\ seen' = RestoredUnless(ok, tx.before).seen
    BY DEF CommitReward
  <2>. HIDE DEF ok
  <2>. QED
    BY <2>1, <2>2, RegistryFields DEF Snapshot
<1>4. ChainOK' /\ PendingOK'
  BY TypeParts DEF CommitReward, chainVars, ChainOK, PendingOK
<1>. QED
  BY <1>2, <1>3, <1>4 DEF TypeOK, AccountsOK, RegistryOK, ChainOK, PendingOK

LEMMA TypeCommitSlash ==
    ASSUME TypeOK, CommitSlash
    PROVE  TypeOK'
<1>. DEFINE tx == applying
            present == Enrolled(tx.node)
            slashed == SlashStake(tx.node, tx.amount)
            reward == (slashed * RewardBPS) \div 10000
            rec == [recs[tx.node] EXCEPT !.stake = @ - slashed]
            revoke == present /\ UnderBonded(rec)
<1>0. tx \in SlashTx /\ MaxNonce \in Nat /\ Owners \subseteq Addrs /\ RewardBPS \in 0..5000
  BY LedgerAssumption DEF CommitSlash, TypeOK, UnenrollTx, RewardTx, SlashTx, EnrollTx, Addrs
<1>1. /\ tx.from \in Addrs /\ tx.node \in Nodes /\ tx.evidence \in Evidence
      /\ tx.amount \in Nat /\ tx.fee \in Nat /\ TxHeight \in Nat
      /\ bal[tx.from] \in Nat /\ nonce[tx.from] \in 0..MaxNonce
  BY <1>0 DEF SlashTx, TypeOK, TxHeight
<1>2. present => recs[tx.node] \in Record
  BY <1>1, RegistryFields, TypeParts DEF Enrolled
<1>3. slashed \in Nat /\ (present => recs[tx.node].stake - slashed \in 0..MinEnrollStake)
  <2>1. present => recs[tx.node].stake \in 0..MinEnrollStake
    BY <1>2 DEF Record
  <2>. QED
    BY <1>1, <2>1, LedgerAssumption DEF SlashStake, Min2
<1>4. reward \in Nat /\ reward <= slashed
  <2>. HIDE DEF slashed
  <2>1. slashed * RewardBPS \in Nat /\ slashed * RewardBPS <= slashed * 10000
    BY <1>0, <1>3
  <2>. QED
    BY <1>3, <2>1
<1>5. AccountsOK'
  <2>1. /\ bal' = [bal EXCEPT ![tx.from] = @ - tx.fee + reward]
        /\ nonce' = [nonce EXCEPT ![tx.from] = @ + 1]
        /\ burned' = burned + tx.fee + (slashed - reward)
        /\ known' = known
    BY DEF CommitSlash
  <2>2. nonce[tx.from] < MaxNonce /\ bal[tx.from] >= tx.fee
    BY DEF CommitSlash, CanCharge
  <2>. HIDE DEF reward, slashed
  <2>. QED
    BY <1>0, <1>1, <1>3, <1>4, <2>1, <2>2 DEF TypeOK, AccountsOK
<1>6. RegistryOK'
  <2>1. present => rec \in Record /\ Revoked(rec, TxHeight) \in Record /\ rec.gpu \in GPUs
    <3>. SUFFICES ASSUME present
                  PROVE  rec \in Record /\ Revoked(rec, TxHeight) \in Record /\ rec.gpu \in GPUs
      OBVIOUS
    <3>1. rec \in Record
      <4>. HIDE DEF slashed
      <4>. QED
        BY <1>2, <1>3 DEF Record
    <3>2. rec.gpu \in GPUs
      BY <3>1 DEF Record
    <3>. QED
      BY <1>1, <3>1, <3>2, RevokedIsRecord
  <2>2. /\ recs' = IF present
                   THEN [recs EXCEPT ![tx.node] = IF revoke THEN Revoked(rec, TxHeight) ELSE rec]
                   ELSE recs
        /\ gpuActive' = IF revoke THEN ReleaseBinding(gpuActive, rec.gpu) ELSE gpuActive
        /\ seen' = seen \cup {tx.evidence}
        /\ revoke => present
    BY DEF CommitSlash, MarkEvidenceSeen
  <2>. HIDE DEF present, revoke, rec
  <2>. QED
    BY <1>1, <2>1, <2>2, RegistryFields, TypeParts DEF ReleaseBinding
<1>7. ChainOK' /\ PendingOK'
  BY TypeParts DEF CommitSlash, chainVars, ChainOK, PendingOK
<1>. QED
  BY <1>5, <1>6, <1>7 DEF TypeOK, AccountsOK, RegistryOK, ChainOK, PendingOK

LEMMA TypeSweep ==
    ASSUME TypeOK, NEW h \in unswept, SealedHook(h)
    PROVE  TypeOK'
<1>. DEFINE legacy == LegacyAt(h)
            mid == [n \in Nodes |-> IF n \in legacy THEN Revoked(recs[n], SunsetHeight) ELSE recs[n]]
            matured == {n \in Nodes : mid[n] # NoRec /\ MatureForUnbond(mid[n], h)}
            units(a) == {u \in matured \X (1..MinEnrollStake) :
                           mid[u[1]].owner = a /\ u[2] <= mid[u[1]].stake}
<1>0. /\ SunsetHeight \in Nat /\ MinEnrollStake \in Nat /\ IsFiniteSet(Nodes) /\ Owners \subseteq Addrs
      /\ NoRec \notin Record
  BY LedgerAssumption DEF Addrs
<1>1. mid \in [Nodes -> Record \cup {NoRec}]
  <2>1. ASSUME NEW n \in legacy PROVE Revoked(recs[n], SunsetHeight) \in Record
    <3>1. recs[n] \in Record
      BY RegistryFields, TypeParts DEF LegacyAt, Active, Enrolled
    <3>. QED
      BY <1>0, <3>1, RevokedIsRecord
  <2>. HIDE DEF legacy
  <2>. QED
    BY <2>1, RegistryFields, TypeParts
<1>2. ASSUME NEW a PROVE Cardinality(units(a)) \in Nat
  <2>1. IsFiniteSet(matured)
    BY <1>0, FS_Subset
  <2>2. MinEnrollStake \in Int
    BY <1>0
  <2>. DEFINE M == matured
              U == units(a)
  <2>3. U \in SUBSET (M \X (1..MinEnrollStake)) /\ IsFiniteSet(M)
    BY <2>1
  <2>. HIDE DEF M, U
  <2>4. Cardinality(U) \in Nat
    BY <2>2, <2>3, UnitsFinite
  <2>. QED
    BY <2>4 DEF U
<1>3. /\ recs' = [n \in Nodes |-> IF n \in matured THEN NoRec ELSE mid[n]]
      /\ gpuActive' = [g \in GPUs |-> IF \E n \in legacy : recs[n].gpu = g THEN NoNode ELSE gpuActive[g]]
      /\ bal' = [a \in Addrs |-> bal[a] + Cardinality(units(a))]
      /\ known' = known \cup {mid[n].owner : n \in matured}
  BY DEF SealedHook, SweepMaturedEnrollments
<1>4. AccountsOK'
  <2>1. \A n \in matured : mid[n].owner \in Addrs
    BY <1>0, <1>1 DEF Record
  <2>2. nonce' = nonce /\ burned' = burned
    BY DEF SealedHook
  <2>. HIDE DEF matured, mid, units
  <2>3. bal' \in [Addrs -> Nat]
    BY <1>2, <1>3 DEF TypeOK
  <2>. QED
    BY <1>3, <2>1, <2>2, <2>3 DEF TypeOK, AccountsOK
<1>5. RegistryOK'
  <2>1. seen' = seen
    BY DEF SealedHook
  <2>. HIDE DEF matured, mid, legacy
  <2>. QED
    BY <1>1, <1>3, <2>1, RegistryFields, TypeParts
<1>6. ChainOK' /\ PendingOK'
  BY TypeParts DEF SealedHook, ChainOK, PendingOK
<1>. QED
  BY <1>4, <1>5, <1>6 DEF TypeOK, AccountsOK, RegistryOK, ChainOK, PendingOK

\* Begin steps and rejections change only the pending transaction.
LEMMA TypeBegin ==
    ASSUME TypeOK, applying' \in EnrollTx \cup UnenrollTx \cup SlashTx \cup {NoTx},
           UNCHANGED <<accountVars, registryVars, burned, chainVars>>
    PROVE  TypeOK'
BY DEF TypeOK, accountVars, registryVars, chainVars, Registry

\* Every step keeps the types.
LEMMA TypeNext == TypeOK /\ [Next]_vars => TypeOK'
<1>. SUFFICES ASSUME TypeOK, [Next]_vars PROVE TypeOK'
  OBVIOUS
<1>0. Fees \subseteq Nat /\ SlashAmounts \subseteq Nat /\ SlashCap \in Nat
  BY LedgerAssumption
<1>1. ASSUME NEW a \in Owners, NEW b \in Owners, NEW x \in TransferAmounts, NEW f \in Fees,
             Transfer(a, b, x, f)
      PROVE  TypeOK'
  BY <1>1, TypeTransfer
<1>2. ASSUME NEW a \in Owners, NEW n \in Nodes, NEW g \in GPUs, NEW m \in BondModes, NEW f \in Fees,
             BeginEnroll(a, n, g, m, f)
      PROVE  TypeOK'
  <2>1. applying' \in EnrollTx
    BY <1>0, <1>2 DEF BeginEnroll, EnrollTx
  <2>. QED
    BY <1>2, <2>1, TypeBegin DEF BeginEnroll
<1>3. ASSUME NEW a \in Owners, NEW n \in Nodes, NEW f \in Fees, BeginUnenroll(a, n, f)
      PROVE  TypeOK'
  <2>1. applying' \in UnenrollTx
    BY <1>0, <1>3 DEF BeginUnenroll, UnenrollTx
  <2>. QED
    BY <1>3, <2>1, TypeBegin DEF BeginUnenroll
<1>4. ASSUME NEW a \in Owners, NEW x \in RewardAmounts, NEW s \in BOOLEAN, BeginReward(a, x, s)
      PROVE  TypeOK'
  BY <1>4, TypeBeginReward
<1>5. ASSUME NEW a \in Owners, NEW n \in Nodes, NEW e \in Evidence, NEW x \in SlashAmounts, NEW f \in Fees,
             BeginSlash(a, n, e, x, f)
      PROVE  TypeOK'
  <2>1. recs[n].stake \in Nat
    <3>1. recs[n] \in Record
      BY <1>5, RegistryFields, TypeParts DEF BeginSlash, Enrolled
    <3>. QED
      BY <3>1, LedgerAssumption DEF Record
  <2>2. Min2(IF SlashCap > 0 THEN Min2(x, SlashCap) ELSE x, recs[n].stake) \in Nat
    BY <1>0, <2>1 DEF Min2
  <2>3. applying' \in SlashTx
    <3>. DEFINE y == Min2(IF SlashCap > 0 THEN Min2(x, SlashCap) ELSE x, recs[n].stake)
    <3>1. applying' = [kind |-> "slash", from |-> a, node |-> n, evidence |-> e, amount |-> y, fee |-> f]
      BY <1>5 DEF BeginSlash
    <3>. HIDE DEF y
    <3>2. y \in Nat /\ f \in Nat
      BY <1>0, <2>2 DEF y
    <3>. QED
      BY <3>1, <3>2 DEF SlashTx
  <2>. QED
    BY <1>5, <2>3, TypeBegin DEF BeginSlash
<1>6. CASE RejectCharge
  BY <1>6, TypeBegin DEF RejectCharge
<1>7. CASE SealBlock
  <2>1. ChainOK'
    BY <1>7 DEF SealBlock, TypeOK, ChainOK
  <2>2. AccountsOK' /\ RegistryOK' /\ PendingOK'
    BY <1>7, TypeParts DEF SealBlock, accountVars, registryVars, AccountsOK, RegistryOK, Registry, PendingOK
  <2>. QED
    BY <2>1, <2>2 DEF TypeOK, AccountsOK, RegistryOK, ChainOK, PendingOK
<1>8. CASE Hook
  BY <1>8, TypeSweep DEF Hook
<1>9. CASE UNCHANGED vars
  BY <1>9 DEF vars, TypeOK, Registry
<1>. QED
  BY <1>1, <1>2, <1>3, <1>4, <1>5, <1>6, <1>7, <1>8, <1>9,
     TypeEnroll, TypeUnenroll, TypeCommitReward, TypeCommitSlash
  DEF Next, Apply, Commit

\* Balances, bonds and liquid rewards never go negative, no bond exceeds the
\* minimum stake and no nonce its bound, in every reachable state.
THEOREM TypeCorrect == Spec => []TypeOK
<1>1. Init => TypeOK
  BY TypeInit
<1>2. TypeOK /\ [Next]_vars => TypeOK'
  BY TypeNext
<1>. QED
  BY <1>1, <1>2, PTL DEF Spec

----------------------------------------------------------------------------
(* The GPU binding. *)

\* The snapshot that a reward in progress may restore binds cards correctly
\* too: without this the rollback could bring an inconsistent registry back.
SnapshotBinding ==
    applying # NoTx /\ applying.kind = "reward" =>
        BindingOf(applying.before.recs, applying.before.gpuActive)

BindingInv == TypeOK /\ GPUBinding /\ SnapshotBinding

\* Enrolling binds a free card to a free node_id.
LEMMA BindingEnroll ==
    ASSUME BindingInv, CommitEnroll
    PROVE  GPUBinding'
<1>. DEFINE tx == applying
            bound == Bindable(tx.node, tx.gpu)
            new == [owner |-> tx.from, gpu |-> tx.gpu, mode |-> tx.mode, stake |-> StakeOf(tx.mode),
                    revokedAt |-> 0, maturesAt |-> 0]
<1>0. tx.node \in Nodes /\ tx.gpu \in GPUs /\ tx.mode \in BondModes /\ tx.from \in Owners /\ NoRec \notin Record
      /\ NoNode \notin Nodes
  BY LedgerAssumption DEF CommitEnroll, BindingInv, TypeOK, UnenrollTx, RewardTx, SlashTx, EnrollTx, NoNode
<1>1. recs \in [Nodes -> Record \cup {NoRec}] /\ gpuActive \in [GPUs -> Nodes \cup {NoNode}]
  BY RegistryFields, TypeParts DEF BindingInv
<1>2. CASE bound
  <2>1. recs' = [recs EXCEPT ![tx.node] = new] /\ gpuActive' = [gpuActive EXCEPT ![tx.gpu] = tx.node]
    BY <1>2 DEF CommitEnroll
  <2>2. new \in Record /\ new.revokedAt = 0 /\ new.gpu = tx.gpu
    BY <1>0, LedgerAssumption DEF Record, StakeOf
  <2>3. new # NoRec
    BY <1>0, <2>2
  <2>. HIDE DEF new
  <2>. QED
    BY <1>0, <1>1, <1>2, <2>1, <2>2, <2>3 DEF BindingInv, GPUBinding, BindingOf, Bindable, Enrolled
<1>3. CASE ~bound
  BY <1>3 DEF CommitEnroll, BindingInv, GPUBinding, BindingOf
<1>. QED
  BY <1>2, <1>3

\* Revoking an active record r of node n frees the card that n held.
LEMMA BindingRevoke ==
    ASSUME BindingInv, NEW n \in Nodes, Active(n), NEW r \in Record, r.revokedAt # 0,
           recs' = [recs EXCEPT ![n] = r],
           gpuActive' = ReleaseBinding(gpuActive, recs[n].gpu)
    PROVE  GPUBinding'
<1>1. recs \in [Nodes -> Record \cup {NoRec}] /\ gpuActive \in [GPUs -> Nodes \cup {NoNode}]
  BY RegistryFields, TypeParts DEF BindingInv
<1>2. NoNode \notin Nodes /\ recs[n] \in Record
  BY <1>1, LedgerAssumption DEF NoNode, Active, Enrolled
<1>3. recs[n].gpu \in GPUs
  BY <1>2 DEF Record
<1>. QED
  BY <1>1, <1>2, <1>3 DEF BindingInv, GPUBinding, BindingOf, ReleaseBinding, Active, Enrolled

LEMMA BindingUnenroll ==
    ASSUME BindingInv, CommitUnenroll
    PROVE  GPUBinding'
<1>. DEFINE tx == applying
<1>0. tx.node \in Nodes /\ TxHeight \in Nat /\ TxHeight # 0
  BY DEF CommitUnenroll, BindingInv, TypeOK, UnenrollTx, RewardTx, SlashTx, EnrollTx, TxHeight
<1>1. CASE Active(tx.node)
  <2>1. recs[tx.node] \in Record
    BY <1>0, <1>1, RegistryFields, TypeParts DEF BindingInv, Active, Enrolled
  <2>2. /\ Revoked(recs[tx.node], TxHeight) \in Record
        /\ Revoked(recs[tx.node], TxHeight).revokedAt # 0
    BY <1>0, <2>1, RevokedIsRecord
  <2>3. /\ recs' = [recs EXCEPT ![tx.node] = Revoked(recs[tx.node], TxHeight)]
        /\ gpuActive' = ReleaseBinding(gpuActive, recs[tx.node].gpu)
    BY <1>0, <1>1 DEF CommitUnenroll
  <2>. QED
    BY <1>0, <1>1, <2>2, <2>3, BindingRevoke
<1>2. CASE ~Active(tx.node)
  BY <1>2 DEF CommitUnenroll, BindingInv, GPUBinding, BindingOf
<1>. QED
  BY <1>1, <1>2

\* A slash keeps the binding, or revokes the record and frees the card.
LEMMA BindingSlash ==
    ASSUME BindingInv, CommitSlash
    PROVE  GPUBinding'
<1>. DEFINE tx == applying
            present == Enrolled(tx.node)
            slashed == SlashStake(tx.node, tx.amount)
            rec == [recs[tx.node] EXCEPT !.stake = @ - slashed]
            revoke == present /\ UnderBonded(rec)
<1>0. tx.node \in Nodes /\ tx.amount \in Nat /\ TxHeight \in Nat /\ TxHeight # 0 /\ NoRec \notin Record
      /\ MinEnrollStake \in Nat
  BY LedgerAssumption
  DEF CommitSlash, BindingInv, TypeOK, UnenrollTx, RewardTx, SlashTx, EnrollTx, TxHeight
<1>1. recs \in [Nodes -> Record \cup {NoRec}] /\ gpuActive \in [GPUs -> Nodes \cup {NoNode}]
  BY RegistryFields, TypeParts DEF BindingInv
<1>2. /\ recs' = IF present
                 THEN [recs EXCEPT ![tx.node] = IF revoke THEN Revoked(rec, TxHeight) ELSE rec]
                 ELSE recs
      /\ gpuActive' = IF revoke THEN ReleaseBinding(gpuActive, rec.gpu) ELSE gpuActive
  BY DEF CommitSlash
<1>3. CASE present
  <2>1. recs[tx.node] \in Record /\ recs[tx.node].stake \in 0..MinEnrollStake
    BY <1>0, <1>1, <1>3 DEF Enrolled, Record
  <2>2. slashed \in Nat /\ recs[tx.node].stake - slashed \in 0..MinEnrollStake
    BY <1>0, <1>3, <2>1 DEF SlashStake, Min2
  <2>3. /\ rec \in Record /\ rec.gpu = recs[tx.node].gpu /\ rec.revokedAt = recs[tx.node].revokedAt
    <3>. HIDE DEF slashed
    <3>. QED
      BY <2>1, <2>2 DEF Record
  <2>4. Revoked(rec, TxHeight) \in Record /\ Revoked(rec, TxHeight).revokedAt # 0
    <3>. HIDE DEF rec
    <3>. QED
      BY <1>0, <2>3, RevokedIsRecord
  <2>5. CASE revoke
    <3>1. Active(tx.node)
      BY <1>3, <2>3, <2>5 DEF UnderBonded, Active
    <3>2. /\ recs' = [recs EXCEPT ![tx.node] = Revoked(rec, TxHeight)]
          /\ gpuActive' = ReleaseBinding(gpuActive, recs[tx.node].gpu)
      BY <1>2, <1>3, <2>3, <2>5
    <3>. HIDE DEF rec
    <3>. QED
      BY <1>0, <2>4, <3>1, <3>2, BindingRevoke
  <2>6. CASE ~revoke
    <3>1. recs' = [recs EXCEPT ![tx.node] = rec] /\ gpuActive' = gpuActive
      BY <1>2, <1>3, <2>6
    <3>. HIDE DEF rec
    <3>2. rec # NoRec /\ recs[tx.node] # NoRec
      BY <1>0, <2>1, <2>3
    <3>. QED
      BY <1>0, <1>1, <2>3, <3>1, <3>2 DEF BindingInv, GPUBinding, BindingOf
  <2>. QED
    BY <2>5, <2>6
<1>4. CASE ~present
  BY <1>2, <1>4 DEF BindingInv, GPUBinding, BindingOf
<1>. QED
  BY <1>3, <1>4

\* Accruing changes stakes only.
LEMMA BindingBeginReward ==
    ASSUME BindingInv, NEW o \in Owners, NEW x \in RewardAmounts, NEW s \in BOOLEAN, BeginReward(o, x, s)
    PROVE  BindingInv'
<1>0. TypeOK' /\ TypeOK /\ NoRec \notin Record
  BY TypeBeginReward, LedgerAssumption DEF BindingInv
<1>1. /\ recs \in [Nodes -> Record \cup {NoRec}]
      /\ recs' \in [Nodes -> Record \cup {NoRec}]
  BY <1>0, RegistryFields DEF TypeOK, RegistryOK
<1>2. ASSUME NEW n \in Nodes
      PROVE  /\ recs'[n] # NoRec <=> recs[n] # NoRec
             /\ recs[n] # NoRec => recs'[n].revokedAt = recs[n].revokedAt /\ recs'[n].gpu = recs[n].gpu
  BY <1>0, AccrualKeepsRecord
<1>3. GPUBinding'
  BY <1>2 DEF BeginReward, BindingInv, GPUBinding, BindingOf
<1>4. SnapshotBinding'
  <2>1. applying'.before = Registry
    BY DEF BeginReward
  <2>. QED
    BY <2>1 DEF SnapshotBinding, Registry, BindingInv, GPUBinding
<1>. QED
  BY <1>0, <1>3, <1>4 DEF BindingInv

\* A reward leaves the live registry or restores the snapshot; both bind
\* correctly.
LEMMA BindingCommitReward ==
    ASSUME BindingInv, CommitReward
    PROVE  GPUBinding'
<1>. DEFINE ok == CanCharge(Funder, applying.amount) /\ ~applying.stale
<1>1. /\ recs' = RestoredUnless(ok, applying.before).recs
      /\ gpuActive' = RestoredUnless(ok, applying.before).gpuActive
  BY DEF CommitReward
<1>2. BindingOf(applying.before.recs, applying.before.gpuActive)
  BY DEF BindingInv, SnapshotBinding, CommitReward
<1>3. CASE ok
  BY <1>1, <1>3 DEF RestoredUnless, Registry, BindingInv, GPUBinding, BindingOf
<1>4. CASE ~ok
  BY <1>1, <1>2, <1>4 DEF RestoredUnless, GPUBinding, BindingOf
<1>. QED
  BY <1>3, <1>4

\* The sweep removes revoked records only, and the legacy sunset frees the
\* card of every record it revokes.
LEMMA BindingSweep ==
    ASSUME BindingInv, NEW h \in unswept, SealedHook(h)
    PROVE  GPUBinding'
<1>. DEFINE legacy == LegacyAt(h)
            mid == [n \in Nodes |-> IF n \in legacy THEN Revoked(recs[n], SunsetHeight) ELSE recs[n]]
            matured == {n \in Nodes : mid[n] # NoRec /\ MatureForUnbond(mid[n], h)}
<1>0. SunsetHeight \in Nat \ {0} /\ NoRec \notin Record /\ NoNode \notin Nodes
  BY LedgerAssumption DEF NoNode
<1>1. recs \in [Nodes -> Record \cup {NoRec}] /\ gpuActive \in [GPUs -> Nodes \cup {NoNode}]
  BY RegistryFields, TypeParts DEF BindingInv
<1>2. /\ recs' = [n \in Nodes |-> IF n \in matured THEN NoRec ELSE mid[n]]
      /\ gpuActive' = [g \in GPUs |-> IF \E n \in legacy : recs[n].gpu = g THEN NoNode ELSE gpuActive[g]]
  BY DEF SealedHook, SweepMaturedEnrollments
<1>3. ASSUME NEW n \in Nodes
      PROVE  /\ n \in legacy => Active(n) /\ mid[n] \in Record /\ mid[n].revokedAt # 0
             /\ n \notin legacy => mid[n] = recs[n]
  <2>1. n \in legacy => Active(n) /\ recs[n] \in Record
    BY <1>1 DEF LegacyAt, Active, Enrolled
  <2>2. n \in legacy => mid[n] = Revoked(recs[n], SunsetHeight)
    OBVIOUS
  <2>. HIDE DEF legacy, mid
  <2>3. n \in legacy => mid[n] \in Record /\ mid[n].revokedAt # 0
    BY <1>0, <2>1, <2>2, RevokedIsRecord
  <2>. QED
    BY <2>1, <2>3 DEF mid
<1>4. ASSUME NEW n \in Nodes
      PROVE  (recs'[n] # NoRec /\ recs'[n].revokedAt = 0)
               <=> (n \notin legacy /\ Active(n))
  <2>1. n \in matured => mid[n].revokedAt # 0
    BY DEF MatureForUnbond
  <2>2. recs'[n] = IF n \in matured THEN NoRec ELSE mid[n]
    BY <1>2
  <2>. HIDE DEF legacy, mid, matured
  <2>. QED
    BY <1>3, <2>1, <2>2 DEF Active, Enrolled
<1>5. ASSUME NEW n \in Nodes, n \notin legacy, Active(n) PROVE recs'[n] = recs[n]
  BY <1>2, <1>5 DEF MatureForUnbond, Active
<1>6. ASSUME NEW g \in GPUs, NEW n \in Nodes
      PROVE  gpuActive'[g] = n <=> recs'[n] # NoRec /\ recs'[n].revokedAt = 0 /\ recs'[n].gpu = g
  <2>1. gpuActive[g] = n <=> Active(n) /\ recs[n].gpu = g
    BY DEF BindingInv, GPUBinding, BindingOf, Active, Enrolled
  <2>2. ASSUME NEW m \in legacy, recs[m].gpu = g PROVE gpuActive[g] = m /\ m \in Nodes
    BY <1>3, <2>2 DEF BindingInv, GPUBinding, BindingOf, Active, Enrolled, LegacyAt
  <2>3. gpuActive'[g] = IF \E m \in legacy : recs[m].gpu = g THEN NoNode ELSE gpuActive[g]
    BY <1>2
  <2>. HIDE DEF legacy
  <2>4. CASE \E m \in legacy : recs[m].gpu = g
    <3>1. gpuActive'[g] # n
      BY <1>0, <2>3, <2>4
    <3>2. ~(recs'[n] # NoRec /\ recs'[n].revokedAt = 0 /\ recs'[n].gpu = g)
      BY <1>4, <1>5, <2>1, <2>2, <2>4
    <3>. QED
      BY <3>1, <3>2
  <2>5. CASE ~ \E m \in legacy : recs[m].gpu = g
    BY <1>4, <1>5, <2>1, <2>3, <2>5
  <2>. QED
    BY <2>4, <2>5
<1>. QED
  BY <1>6 DEF GPUBinding, BindingOf

\* Steps that leave both indexes alone and end or start no reward.
LEMMA BindingUnchanged ==
    ASSUME BindingInv, UNCHANGED <<recs, gpuActive>>
    PROVE  GPUBinding'
BY DEF BindingInv, GPUBinding, BindingOf

LEMMA BindingNext == BindingInv /\ [Next]_vars => BindingInv'
<1>. SUFFICES ASSUME BindingInv, [Next]_vars PROVE BindingInv'
  OBVIOUS
<1>0. TypeOK'
  BY TypeNext DEF BindingInv
<1>1. CASE \E a \in Owners, x \in RewardAmounts, s \in BOOLEAN : BeginReward(a, x, s)
  BY <1>1, BindingBeginReward
<1>2. CASE Commit
  <2>1. GPUBinding'
    BY <1>2, BindingEnroll, BindingUnenroll, BindingCommitReward, BindingSlash, BindingUnchanged
    DEF Commit, RejectCharge, registryVars
  <2>2. applying' = NoTx
    BY <1>2 DEF Commit, CommitEnroll, CommitUnenroll, CommitReward, CommitSlash, RejectCharge
  <2>. QED
    BY <1>0, <2>1, <2>2 DEF BindingInv, SnapshotBinding
<1>3. CASE Hook
  <2>1. GPUBinding' /\ applying' = applying
    BY <1>3, BindingSweep DEF Hook, SealedHook
  <2>. QED
    BY <1>0, <2>1 DEF BindingInv, SnapshotBinding, BindingOf
<1>4. ASSUME UNCHANGED <<recs, gpuActive>>, applying' = applying \/ applying'.kind # "reward"
      PROVE  BindingInv'
  <2>1. GPUBinding'
    BY <1>4, BindingUnchanged
  <2>. QED
    BY <1>0, <1>4, <2>1 DEF BindingInv, SnapshotBinding, BindingOf
<1>5. CASE SealBlock \/ UNCHANGED vars
  BY <1>4, <1>5 DEF SealBlock, vars, registryVars
<1>6. CASE \E a, b \in Owners, x \in TransferAmounts, f \in Fees : Transfer(a, b, x, f)
  BY <1>4, <1>6 DEF Transfer, registryVars
<1>7. CASE \E a \in Owners, n \in Nodes, g \in GPUs, m \in BondModes, f \in Fees : BeginEnroll(a, n, g, m, f)
  BY <1>4, <1>7 DEF BeginEnroll, registryVars
<1>8. CASE \E a \in Owners, n \in Nodes, f \in Fees : BeginUnenroll(a, n, f)
  BY <1>4, <1>8 DEF BeginUnenroll, registryVars
<1>9. CASE \E a \in Owners, n \in Nodes, e \in Evidence, x \in SlashAmounts, f \in Fees :
             BeginSlash(a, n, e, x, f)
  BY <1>4, <1>9 DEF BeginSlash, registryVars
<1>. QED
  BY <1>1, <1>2, <1>3, <1>5, <1>6, <1>7, <1>8, <1>9 DEF Next, Apply

\* byGPUActive and the active records agree in every reachable state, however
\* sealed-block hooks overlap transactions: no card mines under two node_ids
\* and none stays blocked after its record was revoked.
THEOREM BindingCorrect == Spec => []GPUBinding
<1>1. Init => BindingInv
  BY TypeInit, LedgerAssumption DEF Init, BindingInv, GPUBinding, SnapshotBinding, BindingOf, NoNode
<1>2. BindingInv /\ [Next]_vars => BindingInv'
  BY BindingNext
<1>3. BindingInv => GPUBinding
  BY DEF BindingInv
<1>. QED
  BY <1>1, <1>2, <1>3, PTL DEF Spec

----------------------------------------------------------------------------
(* What a step does to one record. *)

\* The verifiers' slash of n: the stake becomes k, and a record that is then
\* under-bonded is revoked.
SlashStep(n) ==
    /\ applying # NoTx /\ applying.kind = "slash" /\ applying.node = n
    /\ seen' = seen \cup {applying.evidence} /\ Enrolled(n)
    /\ \E k \in 0..MinEnrollStake :
          \/ recs'[n] = [recs[n] EXCEPT !.stake = k]
          \/ Active(n) /\ recs'[n] = Revoked([recs[n] EXCEPT !.stake = k], TxHeight)

\* The sunset revokes n.
SunsetStep(n) ==
    /\ Active(n) /\ recs[n].owner \in LegacyOwners
    /\ recs'[n] = Revoked(recs[n], SunsetHeight)

\* A sweep releases n to its owner.
ReleaseStep(n) ==
    /\ Enrolled(n) /\ recs'[n] = NoRec
    /\ \/ Unbonding(n) /\ tip >= recs[n].maturesAt
       \/ Active(n) /\ recs[n].owner \in LegacyOwners /\ tip >= SunsetHeight + UnbondWindow
    /\ bal'[recs[n].owner] >= bal[recs[n].owner] + recs[n].stake

\* A reward raises the bond of n.
AccrueStep(n) ==
    /\ Active(n)
    /\ \E k \in recs[n].stake..MinEnrollStake : recs'[n] = [recs[n] EXCEPT !.stake = k]

RecordStep(n) ==
    \/ recs'[n] = recs[n]
    \/ recs[n] = NoRec /\ recs'[n] \in Record /\ recs'[n].revokedAt = 0
    \/ Active(n) /\ recs'[n] = Revoked(recs[n], TxHeight)
    \/ Rollback /\ recs' = applying.before.recs
    \/ AccrueStep(n) \/ SlashStep(n) \/ SunsetStep(n) \/ ReleaseStep(n)

LEMMA EnrollRecord ==
    ASSUME TypeOK, CommitEnroll, NEW n \in Nodes
    PROVE  RecordStep(n)
<1>. DEFINE tx == applying
            new == [owner |-> tx.from, gpu |-> tx.gpu, mode |-> tx.mode, stake |-> StakeOf(tx.mode),
                    revokedAt |-> 0, maturesAt |-> 0]
<1>0. /\ tx.node \in Nodes /\ tx.gpu \in GPUs /\ tx.mode \in BondModes /\ tx.from \in Owners
      /\ recs \in [Nodes -> Record \cup {NoRec}]
  BY RegistryFields, TypeParts DEF CommitEnroll, TypeOK, UnenrollTx, RewardTx, SlashTx, EnrollTx
<1>1. new \in Record /\ new.revokedAt = 0
  BY <1>0, LedgerAssumption DEF Record, StakeOf
<1>2. \/ recs' = recs
      \/ recs[tx.node] = NoRec /\ recs' = [recs EXCEPT ![tx.node] = new]
  BY DEF CommitEnroll, Bindable, Enrolled
<1>. HIDE DEF new, tx
<1>3. \/ recs'[n] = recs[n]
      \/ recs[n] = NoRec /\ recs'[n] = new
  BY <1>0, <1>2
<1>. QED
  BY <1>1, <1>3 DEF RecordStep

LEMMA UnenrollRecord ==
    ASSUME TypeOK, CommitUnenroll, NEW n \in Nodes
    PROVE  RecordStep(n)
<1>0. applying.node \in Nodes /\ recs \in [Nodes -> Record \cup {NoRec}]
  BY RegistryFields, TypeParts DEF CommitUnenroll, TypeOK, UnenrollTx, RewardTx, SlashTx, EnrollTx
<1>1. \/ recs' = recs
      \/ Active(applying.node) /\ recs' = [recs EXCEPT ![applying.node] = Revoked(@, TxHeight)]
  BY DEF CommitUnenroll
<1>. QED
  BY <1>0, <1>1 DEF RecordStep

LEMMA RewardRecord ==
    ASSUME TypeOK, CommitReward, NEW n \in Nodes
    PROVE  RecordStep(n)
<1>. DEFINE ok == CanCharge(Funder, applying.amount) /\ ~applying.stale
<1>1. recs' = RestoredUnless(ok, applying.before).recs
  BY DEF CommitReward
<1>2. CASE ok
  BY <1>1, <1>2 DEF RestoredUnless, Registry, RecordStep
<1>3. CASE ~ok
  <2>1. recs' = applying.before.recs
    BY <1>1, <1>3 DEF RestoredUnless
  <2>2. Rollback
    BY <1>3 DEF CommitReward, Rollback
  <2>. QED
    BY <2>1, <2>2 DEF RecordStep
<1>. QED
  BY <1>2, <1>3

LEMMA AccrueRecord ==
    ASSUME TypeOK, NEW o \in Owners, NEW x \in RewardAmounts, NEW s \in BOOLEAN, BeginReward(o, x, s),
           NEW n \in Nodes
    PROVE  RecordStep(n)
<1>. DEFINE locked == [m \in Nodes |-> Locked(o, m, x)]
<1>0. x \in Nat /\ MinEnrollStake \in Nat
  BY LedgerAssumption
<1>1. /\ locked \in [Nodes -> 0..MinEnrollStake]
      /\ \A m \in Nodes : locked[m] > 0 => m \in Provisional(o) /\ recs[m].stake + locked[m] \in 0..MinEnrollStake
  BY <1>0, AccrualWithinReward
<1>2. recs'[n] = IF locked[n] > 0 THEN [recs[n] EXCEPT !.stake = @ + locked[n]] ELSE recs[n]
  BY DEF BeginReward
<1>3. n \in Provisional(o) => Active(n) /\ recs[n] \in Record
  BY RegistryFields, TypeParts DEF Provisional, Active, Enrolled
<1>. HIDE DEF locked
<1>4. CASE locked[n] > 0
  <2>1. Active(n) /\ recs[n] \in Record /\ recs[n].stake + locked[n] \in 0..MinEnrollStake
    BY <1>1, <1>3, <1>4
  <2>2. recs[n].stake \in Nat /\ locked[n] \in Nat
    BY <1>0, <1>1, <2>1 DEF Record
  <2>3. recs[n].stake + locked[n] \in recs[n].stake..MinEnrollStake
    BY <1>0, <2>1, <2>2
  <2>4. recs'[n] = [recs[n] EXCEPT !.stake = recs[n].stake + locked[n]]
    BY <1>2, <1>4, <2>1 DEF Record
  <2>. QED
    BY <2>1, <2>3, <2>4 DEF AccrueStep, RecordStep
<1>5. CASE ~(locked[n] > 0)
  BY <1>2, <1>5 DEF RecordStep
<1>. QED
  BY <1>4, <1>5

LEMMA SlashRecord ==
    ASSUME TypeOK, CommitSlash, NEW n \in Nodes
    PROVE  RecordStep(n)
<1>. DEFINE tx == applying
            slashed == SlashStake(tx.node, tx.amount)
            rec == [recs[tx.node] EXCEPT !.stake = @ - slashed]
            revoke == Enrolled(tx.node) /\ UnderBonded(rec)
<1>0. tx.node \in Nodes /\ tx.amount \in Nat /\ MinEnrollStake \in Nat
  BY LedgerAssumption DEF CommitSlash, TypeOK, UnenrollTx, RewardTx, SlashTx, EnrollTx
<1>1. recs \in [Nodes -> Record \cup {NoRec}]
  BY RegistryFields, TypeParts
<1>2. /\ recs' = IF Enrolled(tx.node)
                 THEN [recs EXCEPT ![tx.node] = IF revoke THEN Revoked(rec, TxHeight) ELSE rec]
                 ELSE recs
      /\ tx # NoTx /\ tx.kind = "slash" /\ seen' = seen \cup {tx.evidence}
  BY DEF CommitSlash, MarkEvidenceSeen
<1>3. CASE n = tx.node /\ Enrolled(n)
  <2>. DEFINE k == recs[n].stake - slashed
  <2>1. recs[n] \in Record /\ recs[n].stake \in 0..MinEnrollStake
    BY <1>1, <1>3 DEF Enrolled, Record
  <2>2. k \in 0..MinEnrollStake
    BY <1>0, <1>3, <2>1 DEF SlashStake, Min2
  <2>3. rec = [recs[n] EXCEPT !.stake = k]
    BY <1>3, <2>1 DEF Record
  <2>4. rec.revokedAt = recs[n].revokedAt
    BY <2>1, <2>3 DEF Record
  <2>5. revoke => Active(n)
    BY <1>3, <2>4 DEF UnderBonded, Active
  <2>6. recs'[n] = IF revoke THEN Revoked(rec, TxHeight) ELSE rec
    BY <1>1, <1>2, <1>3
  <2>. HIDE DEF rec, revoke, k
  <2>. QED
    BY <1>2, <1>3, <2>2, <2>3, <2>5, <2>6 DEF SlashStep, RecordStep
<1>4. CASE ~(n = tx.node /\ Enrolled(n))
  <2>. HIDE DEF rec, revoke
  <2>1. recs'[n] = recs[n]
    BY <1>0, <1>1, <1>2, <1>4
  <2>. QED
    BY <2>1 DEF RecordStep
<1>. QED
  BY <1>3, <1>4

LEMMA SweepRecord ==
    ASSUME TypeOK, NEW h \in unswept, SealedHook(h), NEW n \in Nodes
    PROVE  RecordStep(n)
<1>. DEFINE legacy == LegacyAt(h)
            mid == [m \in Nodes |-> IF m \in legacy THEN Revoked(recs[m], SunsetHeight) ELSE recs[m]]
            matured == {m \in Nodes : mid[m] # NoRec /\ MatureForUnbond(mid[m], h)}
            units(a) == {u \in matured \X (1..MinEnrollStake) :
                           mid[u[1]].owner = a /\ u[2] <= mid[u[1]].stake}
<1>0. /\ SunsetHeight \in Nat \ {0} /\ MinEnrollStake \in Nat /\ IsFiniteSet(Nodes) /\ Owners \subseteq Addrs
      /\ NoRec \notin Record /\ UnbondWindow \in Nat
  BY LedgerAssumption DEF Addrs
<1>1. recs \in [Nodes -> Record \cup {NoRec}]
  BY RegistryFields, TypeParts
<1>2. /\ recs' = [m \in Nodes |-> IF m \in matured THEN NoRec ELSE mid[m]]
      /\ bal' = [a \in Addrs |-> bal[a] + Cardinality(units(a))]
  BY DEF SealedHook, SweepMaturedEnrollments
<1>3. tip \in Nat /\ h \in Nat /\ h <= tip
  BY DEF TypeOK
<1>4. n \in legacy => Active(n) /\ recs[n].owner \in LegacyOwners
  BY DEF LegacyAt
<1>5. mid[n] = IF n \in legacy THEN Revoked(recs[n], SunsetHeight) ELSE recs[n]
  OBVIOUS
<1>6. n \in legacy => mid[n] \in Record /\ mid[n].owner = recs[n].owner /\ mid[n].stake = recs[n].stake
                      /\ mid[n].maturesAt = SunsetHeight + UnbondWindow
  <2>1. n \in legacy => recs[n] \in Record
    BY <1>1, <1>4 DEF Active, Enrolled
  <2>2. n \in legacy => mid[n] = Revoked(recs[n], SunsetHeight)
    BY <1>5
  <2>. HIDE DEF mid, legacy
  <2>3. ASSUME NEW r \in Record
        PROVE  /\ Revoked(r, SunsetHeight) \in Record /\ Revoked(r, SunsetHeight).owner = r.owner
               /\ Revoked(r, SunsetHeight).stake = r.stake
               /\ Revoked(r, SunsetHeight).maturesAt = SunsetHeight + UnbondWindow
    <3>1. Revoked(r, SunsetHeight) \in Record
      BY <1>0, RevokedIsRecord
    <3>. QED
      BY <3>1 DEF Record, Revoked
  <2>. QED
    BY <2>1, <2>2, <2>3
<1>7. CASE n \notin matured
  <2>1. recs'[n] = mid[n]
    BY <1>2, <1>7
  <2>. HIDE DEF mid, matured, legacy
  <2>. QED
    BY <1>4, <1>5, <2>1 DEF SunsetStep, RecordStep
<1>8. CASE n \in matured
  <2>1. recs'[n] = NoRec
    BY <1>2, <1>8
  <2>2. mid[n] # NoRec /\ mid[n].revokedAt # 0 /\ h >= mid[n].maturesAt
    BY <1>8 DEF MatureForUnbond
  <2>3. Enrolled(n) /\ recs[n] \in Record
    BY <1>1, <1>4, <1>5, <2>2 DEF Active, Enrolled
  <2>4. mid[n].owner = recs[n].owner /\ mid[n].stake = recs[n].stake
    BY <1>5, <1>6
  <2>5. recs[n].owner \in Addrs /\ recs[n].stake \in 0..MinEnrollStake /\ recs[n].maturesAt \in Nat
    BY <1>0, <2>3 DEF Record
  <2>6. Cardinality(units(recs[n].owner)) \in Nat /\ Cardinality(units(recs[n].owner)) >= recs[n].stake
    <3>. DEFINE U == units(recs[n].owner)
                own == {n} \X (1..recs[n].stake)
    <3>1. own \subseteq U
      BY <1>0, <1>8, <2>4, <2>5
    <3>2. IsFiniteSet(matured)
      BY <1>0, FS_Subset
    <3>3. U \in SUBSET (matured \X (1..MinEnrollStake)) /\ MinEnrollStake \in Int
      BY <1>0
    <3>. HIDE DEF U, matured
    <3>4. IsFiniteSet(U) /\ Cardinality(U) \in Nat
      BY <3>2, <3>3, UnitsFinite
    <3>5. recs[n].stake \in Nat
      BY <1>0, <2>5
    <3>6. Cardinality(own) = recs[n].stake
      BY <3>5, UnitsOfOne
    <3>7. Cardinality(own) <= Cardinality(U)
      <4>. HIDE DEF own
      <4>. QED
        BY <3>1, <3>4, FS_Subset
    <3>8. Cardinality(U) >= recs[n].stake
      BY <3>4, <3>5, <3>6, <3>7
    <3>. QED
      BY <3>4, <3>8 DEF U
  <2>7. bal'[recs[n].owner] = bal[recs[n].owner] + Cardinality(units(recs[n].owner)) /\ bal[recs[n].owner] \in Nat
    BY <1>2, <2>5 DEF TypeOK
  <2>. HIDE DEF mid, matured, legacy, units
  <2>8. bal'[recs[n].owner] >= bal[recs[n].owner] + recs[n].stake
    BY <1>0, <2>5, <2>6, <2>7
  <2>9. CASE n \in legacy
    <3>1. tip >= SunsetHeight + UnbondWindow
      BY <1>0, <1>3, <1>6, <2>2, <2>9
    <3>. QED
      BY <1>4, <2>1, <2>3, <2>8, <2>9, <3>1 DEF ReleaseStep, RecordStep
  <2>10. CASE n \notin legacy
    <3>1. Unbonding(n) /\ tip >= recs[n].maturesAt
      BY <1>3, <1>5, <2>2, <2>3, <2>5, <2>10 DEF Unbonding
    <3>. QED
      BY <2>1, <2>3, <2>8, <3>1 DEF ReleaseStep, RecordStep
  <2>. QED
    BY <2>9, <2>10
<1>. QED
  BY <1>7, <1>8

LEMMA RecordNext ==
    ASSUME TypeOK, [Next]_vars, NEW n \in Nodes
    PROVE  RecordStep(n)
<1>1. ASSUME recs' = recs PROVE RecordStep(n)
  BY <1>1 DEF RecordStep
<1>2. CASE \E a \in Owners, x \in RewardAmounts, s \in BOOLEAN : BeginReward(a, x, s)
  BY <1>2, AccrueRecord
<1>3. CASE Commit
  BY <1>1, <1>3, EnrollRecord, UnenrollRecord, RewardRecord, SlashRecord DEF Commit, RejectCharge, registryVars
<1>4. CASE Hook
  BY <1>4, SweepRecord DEF Hook
<1>5. CASE SealBlock \/ UNCHANGED vars
  BY <1>1, <1>5 DEF SealBlock, vars, registryVars
<1>6. CASE \E a, b \in Owners, x \in TransferAmounts, f \in Fees : Transfer(a, b, x, f)
  BY <1>1, <1>6 DEF Transfer, registryVars
<1>7. CASE \E a \in Owners, m \in Nodes, g \in GPUs, d \in BondModes, f \in Fees : BeginEnroll(a, m, g, d, f)
  BY <1>1, <1>7 DEF BeginEnroll, registryVars
<1>8. CASE \E a \in Owners, m \in Nodes, f \in Fees : BeginUnenroll(a, m, f)
  BY <1>1, <1>8 DEF BeginUnenroll, registryVars
<1>9. CASE \E a \in Owners, m \in Nodes, e \in Evidence, x \in SlashAmounts, f \in Fees :
             BeginSlash(a, m, e, x, f)
  BY <1>1, <1>9 DEF BeginSlash, registryVars
<1>. QED
  BY <1>2, <1>3, <1>4, <1>5, <1>6, <1>7, <1>8, <1>9 DEF Next, Apply

----------------------------------------------------------------------------
(* Revoking and releasing. *)

\* A revoked record matures UnbondWindow blocks after its revocation.
MaturityOf(r) ==
    \A n \in Nodes : r[n] # NoRec /\ r[n].revokedAt # 0 => r[n].maturesAt = r[n].revokedAt + UnbondWindow

\* So do the records a reward in progress may restore, and a slash in progress
\* has evidence that was not used: nothing marks evidence in between.
ReleaseInv ==
    /\ TypeOK
    /\ MaturityOf(recs)
    /\ applying # NoTx /\ applying.kind = "reward" => MaturityOf(applying.before.recs)
    /\ applying # NoTx /\ applying.kind = "slash" => applying.evidence \notin seen

\* What a step does to the transaction in progress.
LEMMA PendingNext ==
    ASSUME TypeOK, [Next]_vars
    PROVE  \/ applying' = NoTx
           \/ applying' = applying /\ seen' = seen
           \/ applying'.kind \in {"enroll", "unenroll"}
           \/ applying'.kind = "reward" /\ applying'.before = Registry
           \/ applying'.kind = "slash" /\ applying'.evidence \notin seen /\ seen' = seen
<1>1. CASE \E a \in Owners, x \in RewardAmounts, s \in BOOLEAN : BeginReward(a, x, s)
  BY <1>1 DEF BeginReward
<1>2. CASE Commit
  BY <1>2 DEF Commit, CommitEnroll, CommitUnenroll, CommitReward, CommitSlash, RejectCharge
<1>3. CASE Hook
  BY <1>3 DEF Hook, SealedHook
<1>4. CASE SealBlock \/ UNCHANGED vars
  BY <1>4 DEF SealBlock, vars, registryVars
<1>5. CASE \E a, b \in Owners, x \in TransferAmounts, f \in Fees : Transfer(a, b, x, f)
  BY <1>5 DEF Transfer, registryVars
<1>6. CASE \E a \in Owners, m \in Nodes, g \in GPUs, d \in BondModes, f \in Fees : BeginEnroll(a, m, g, d, f)
  BY <1>6 DEF BeginEnroll
<1>7. CASE \E a \in Owners, m \in Nodes, f \in Fees : BeginUnenroll(a, m, f)
  BY <1>7 DEF BeginUnenroll
<1>8. CASE \E a \in Owners, m \in Nodes, e \in Evidence, x \in SlashAmounts, f \in Fees :
             BeginSlash(a, m, e, x, f)
  <2>1. PICK a \in Owners, m \in Nodes, e \in Evidence, x \in SlashAmounts, f \in Fees : BeginSlash(a, m, e, x, f)
    BY <1>8
  <2>2. applying'.kind = "slash" /\ applying'.evidence = e /\ e \notin seen /\ seen' = seen
    BY <2>1 DEF BeginSlash, registryVars
  <2>. QED
    BY <2>2
<1>. QED
  BY <1>1, <1>2, <1>3, <1>4, <1>5, <1>6, <1>7, <1>8 DEF Next, Apply

\* Revoking sets the height of the release and leaves the rest of a record.
LEMMA RevokedFields ==
    ASSUME NEW r \in Record, NEW h \in Nat
    PROVE  /\ Revoked(r, h) \in Record
           /\ Revoked(r, h).revokedAt = h /\ Revoked(r, h).maturesAt = h + UnbondWindow
           /\ Revoked(r, h).stake = r.stake /\ Revoked(r, h).owner = r.owner
<1>1. Revoked(r, h) \in Record
  BY RevokedIsRecord
<1>. QED
  BY <1>1 DEF Record, Revoked

LEMMA MaturityNext ==
    ASSUME ReleaseInv, [Next]_vars
    PROVE  MaturityOf(recs)'
<1>0. TypeOK
  BY DEF ReleaseInv
<1>1. recs \in [Nodes -> Record \cup {NoRec}] /\ NoRec \notin Record /\ MinEnrollStake \in Nat
  BY <1>0, RegistryFields, TypeParts, LedgerAssumption
<1>2. TxHeight \in Nat /\ SunsetHeight \in Nat
  BY <1>0, LedgerAssumption DEF TypeOK, TxHeight
<1>3. ASSUME NEW n \in Nodes, recs'[n] # NoRec, recs'[n].revokedAt # 0
      PROVE  recs'[n].maturesAt = recs'[n].revokedAt + UnbondWindow
  <2>0. recs[n] # NoRec => recs[n] \in Record
    BY <1>1
  <2>1. recs[n] # NoRec /\ recs[n].revokedAt # 0 => recs[n].maturesAt = recs[n].revokedAt + UnbondWindow
    BY DEF ReleaseInv, MaturityOf
  <2>2. ASSUME NEW k \in 0..MinEnrollStake, recs[n] # NoRec
        PROVE  LET r == [recs[n] EXCEPT !.stake = k] IN
               r \in Record /\ r.revokedAt = recs[n].revokedAt /\ r.maturesAt = recs[n].maturesAt
    BY <2>0, <2>2 DEF Record
  <2>3. CASE recs'[n] = recs[n]
    BY <1>3, <2>1, <2>3
  <2>4. CASE recs[n] = NoRec /\ recs'[n] \in Record /\ recs'[n].revokedAt = 0
    BY <1>3, <2>4
  <2>5. CASE Active(n) /\ recs'[n] = Revoked(recs[n], TxHeight)
    BY <1>2, <2>0, <2>5, RevokedFields DEF Active, Enrolled
  <2>6. CASE Rollback /\ recs' = applying.before.recs
    <3>1. MaturityOf(applying.before.recs)
      BY <2>6 DEF ReleaseInv, Rollback
    <3>. QED
      BY <1>3, <2>6, <3>1 DEF MaturityOf
  <2>7. CASE AccrueStep(n)
    <3>1. PICK k \in recs[n].stake..MinEnrollStake : recs'[n] = [recs[n] EXCEPT !.stake = k]
      BY <2>7 DEF AccrueStep
    <3>2. recs[n] # NoRec /\ recs[n] \in Record
      BY <2>0, <2>7 DEF AccrueStep, Active, Enrolled
    <3>3. k \in 0..MinEnrollStake
      BY <1>1, <3>2 DEF Record
    <3>. QED
      BY <1>3, <2>1, <2>2, <3>1, <3>2, <3>3
  <2>8. CASE SlashStep(n)
    <3>1. PICK k \in 0..MinEnrollStake :
            \/ recs'[n] = [recs[n] EXCEPT !.stake = k]
            \/ recs'[n] = Revoked([recs[n] EXCEPT !.stake = k], TxHeight)
      BY <2>8 DEF SlashStep
    <3>. DEFINE r == [recs[n] EXCEPT !.stake = k]
    <3>2. recs[n] # NoRec
      BY <2>8 DEF SlashStep, Enrolled
    <3>3. r \in Record /\ r.revokedAt = recs[n].revokedAt /\ r.maturesAt = recs[n].maturesAt
      BY <2>2, <3>2
    <3>. HIDE DEF r
    <3>4. Revoked(r, TxHeight).maturesAt = Revoked(r, TxHeight).revokedAt + UnbondWindow
      BY <1>2, <3>3, RevokedFields
    <3>. QED
      BY <1>3, <2>1, <3>1, <3>2, <3>3, <3>4 DEF r
  <2>9. CASE SunsetStep(n)
    BY <1>2, <2>0, <2>9, RevokedFields DEF SunsetStep, Active, Enrolled
  <2>10. CASE ReleaseStep(n)
    BY <1>3, <2>10 DEF ReleaseStep
  <2>. QED
    BY <1>0, <2>3, <2>4, <2>5, <2>6, <2>7, <2>8, <2>9, <2>10, RecordNext DEF RecordStep
<1>. QED
  BY <1>3 DEF MaturityOf

LEMMA ReleaseNext == ReleaseInv /\ [Next]_vars => ReleaseInv'
<1>. SUFFICES ASSUME ReleaseInv, [Next]_vars PROVE ReleaseInv'
  OBVIOUS
<1>0. TypeOK /\ TypeOK'
  BY TypeNext DEF ReleaseInv
<1>1. MaturityOf(recs)'
  BY MaturityNext
<1>2. applying' # NoTx /\ applying'.kind = "reward" => MaturityOf(applying'.before.recs)
  BY <1>0, PendingNext DEF ReleaseInv, Registry
<1>3. applying' # NoTx /\ applying'.kind = "slash" => applying'.evidence \notin seen'
  BY <1>0, PendingNext DEF ReleaseInv
<1>. QED
  BY <1>0, <1>1, <1>2, <1>3 DEF ReleaseInv, MaturityOf

LEMMA ReleaseInit == Init => ReleaseInv
<1>. SUFFICES ASSUME Init PROVE ReleaseInv
  OBVIOUS
<1>1. TypeOK
  BY TypeInit
<1>2. MaturityOf(recs)
  BY DEF Init, MaturityOf
<1>3. applying = NoTx
  BY DEF Init
<1>. QED
  BY <1>1, <1>2, <1>3 DEF ReleaseInv

\* What BondLeavesOnlyBySlashOrRelease and RevokedStaysRevoked say of a record.
BondStep(n) ==
    Enrolled(n) /\ (recs'[n] = NoRec \/ recs'[n].stake < recs[n].stake) =>
      \/ Rollback
      \/ seen' # seen /\ applying.node = n
      \/ /\ recs'[n] = NoRec
         /\ recs[n].revokedAt # 0 \/ recs[n].owner \in LegacyOwners
         /\ tip >= UnbondWindow + IF Active(n) THEN SunsetHeight ELSE recs[n].revokedAt
         /\ bal'[recs[n].owner] >= bal[recs[n].owner] + recs[n].stake

RevokedStep(n) ==
    Unbonding(n) => \/ recs'[n] = NoRec \/ RollbackOfHook
                    \/ [recs'[n] EXCEPT !.stake = 0] = [recs[n] EXCEPT !.stake = 0]

LEMMA BondNext ==
    ASSUME ReleaseInv, [Next]_vars, NEW n \in Nodes
    PROVE  BondStep(n)
<1>. SUFFICES ASSUME Enrolled(n), recs'[n] = NoRec \/ recs'[n].stake < recs[n].stake, ~Rollback
              PROVE  \/ seen' # seen /\ applying.node = n
                     \/ /\ recs'[n] = NoRec
                        /\ recs[n].revokedAt # 0 \/ recs[n].owner \in LegacyOwners
                        /\ tip >= UnbondWindow + IF Active(n) THEN SunsetHeight ELSE recs[n].revokedAt
                        /\ bal'[recs[n].owner] >= bal[recs[n].owner] + recs[n].stake
  BY DEF BondStep
<1>0. TypeOK
  BY DEF ReleaseInv
<1>1. /\ recs[n] \in Record /\ NoRec \notin Record /\ MinEnrollStake \in Nat /\ UnbondWindow \in Nat
      /\ SunsetHeight \in Nat /\ TxHeight \in Nat /\ tip \in Nat
  BY <1>0, RegistryFields, TypeParts, LedgerAssumption DEF Enrolled, TypeOK, TxHeight
<1>2. recs[n].stake \in 0..MinEnrollStake /\ recs[n].revokedAt \in Nat /\ recs[n].maturesAt \in Nat
  BY <1>1 DEF Record
<1>3. ~(recs'[n] = recs[n])
  BY <1>1, <1>2
<1>4. ASSUME NEW h \in Nat, recs'[n] = Revoked(recs[n], h) PROVE FALSE
  <2>1. Revoked(recs[n], h) \in Record /\ Revoked(recs[n], h).stake = recs[n].stake
    BY <1>1, RevokedFields
  <2>. QED
    BY <1>1, <1>2, <1>4, <2>1
<1>5. ~AccrueStep(n)
  <2>. SUFFICES ASSUME AccrueStep(n) PROVE FALSE
    OBVIOUS
  <2>1. PICK k \in recs[n].stake..MinEnrollStake : recs'[n] = [recs[n] EXCEPT !.stake = k]
    BY DEF AccrueStep
  <2>2. k \in 0..MinEnrollStake /\ k >= recs[n].stake
    BY <1>1, <1>2
  <2>3. recs'[n] \in Record /\ recs'[n].stake = k
    BY <1>1, <2>1, <2>2 DEF Record
  <2>. QED
    BY <1>1, <1>2, <2>2, <2>3
<1>6. CASE SlashStep(n)
  <2>1. applying # NoTx /\ applying.kind = "slash" /\ applying.node = n /\ seen' = seen \cup {applying.evidence}
    BY <1>6 DEF SlashStep
  <2>2. applying.evidence \notin seen
    BY <2>1 DEF ReleaseInv
  <2>. QED
    BY <2>1, <2>2
<1>7. CASE ReleaseStep(n)
  <2>1. CASE Unbonding(n) /\ tip >= recs[n].maturesAt
    <3>1. recs[n].maturesAt = recs[n].revokedAt + UnbondWindow /\ recs[n].revokedAt # 0 /\ ~Active(n)
      BY <2>1 DEF ReleaseInv, MaturityOf, Unbonding, Enrolled, Active
    <3>2. tip >= UnbondWindow + recs[n].revokedAt
      BY <1>1, <1>2, <2>1, <3>1
    <3>. QED
      BY <1>7, <3>1, <3>2 DEF ReleaseStep
  <2>2. CASE Active(n) /\ recs[n].owner \in LegacyOwners /\ tip >= SunsetHeight + UnbondWindow
    <3>1. tip >= UnbondWindow + SunsetHeight
      BY <1>1, <2>2
    <3>. QED
      BY <1>7, <2>2, <3>1 DEF ReleaseStep
  <2>. QED
    BY <1>7, <2>1, <2>2 DEF ReleaseStep
<1>8. ~SunsetStep(n) /\ ~(Active(n) /\ recs'[n] = Revoked(recs[n], TxHeight))
  BY <1>1, <1>4 DEF SunsetStep
<1>9. recs[n] # NoRec
  BY DEF Enrolled
<1>. QED
  BY <1>0, <1>3, <1>5, <1>6, <1>7, <1>8, <1>9, RecordNext DEF RecordStep

LEMMA RevokedNext ==
    ASSUME ReleaseInv, [Next]_vars, NEW n \in Nodes
    PROVE  RevokedStep(n)
<1>. SUFFICES ASSUME Unbonding(n), ~RollbackOfHook
              PROVE  recs'[n] = NoRec \/ [recs'[n] EXCEPT !.stake = 0] = [recs[n] EXCEPT !.stake = 0]
  BY DEF RevokedStep
<1>0. TypeOK /\ Enrolled(n) /\ ~Active(n)
  BY DEF ReleaseInv, Unbonding, Active
<1>1. recs[n] \in Record
  BY <1>0, RegistryFields, TypeParts DEF Enrolled
<1>2. CASE recs'[n] = recs[n]
  BY <1>2
<1>3. CASE Rollback /\ recs' = applying.before.recs
  <2>1. recs[n] = applying.before.recs[n]
    BY <1>3 DEF RollbackOfHook
  <2>. QED
    BY <1>3, <2>1
<1>4. CASE SlashStep(n)
  <2>1. PICK k \in 0..MinEnrollStake : recs'[n] = [recs[n] EXCEPT !.stake = k]
    BY <1>0, <1>4 DEF SlashStep
  <2>. QED
    BY <1>1, <2>1 DEF Record
<1>5. CASE ReleaseStep(n)
  BY <1>5 DEF ReleaseStep
<1>. QED
  BY <1>0, <1>2, <1>3, <1>4, <1>5, RecordNext DEF RecordStep, AccrueStep, SunsetStep, Enrolled

\* A revoked record is never revived, and its owner, card and release height
\* never move, whatever transactions and hooks do in between.
THEOREM RevokedCorrect == Spec => RevokedStaysRevoked
<1>1. Init => ReleaseInv
  BY ReleaseInit
<1>2. ReleaseInv /\ [Next]_vars => ReleaseInv'
  BY ReleaseNext
<1>3. ReleaseInv /\ [Next]_vars => [\A n \in Nodes : RevokedStep(n)]_vars
  BY RevokedNext
<1>. QED
  BY <1>1, <1>2, <1>3, PTL DEF Spec, RevokedStaysRevoked, RevokedStep

\* A bond leaves its record only by a slash with unused evidence, by its
\* release to its owner after the unbonding window, or by a rollback.
THEOREM BondCorrect == Spec => BondLeavesOnlyBySlashOrRelease
<1>1. Init => ReleaseInv
  BY ReleaseInit
<1>2. ReleaseInv /\ [Next]_vars => ReleaseInv'
  BY ReleaseNext
<1>3. ReleaseInv /\ [Next]_vars => [\A n \in Nodes : BondStep(n)]_vars
  BY BondNext
<1>. QED
  BY <1>1, <1>2, <1>3, PTL DEF Spec, BondLeavesOnlyBySlashOrRelease, BondStep

----------------------------------------------------------------------------
(* Conservation. *)

LEMMA BondsNat ==
    ASSUME NEW r \in [Nodes -> Record \cup {NoRec}]
    PROVE  /\ BondsOf(r) \in [Nodes -> Nat]
           /\ \A n \in Nodes : BondsOf(r)[n] = IF r[n] = NoRec THEN 0 ELSE r[n].stake
<1>1. ASSUME NEW n \in Nodes PROVE (IF r[n] = NoRec THEN 0 ELSE r[n].stake) \in Nat
  <2>1. r[n] # NoRec => r[n] \in Record
    OBVIOUS
  <2>. QED
    BY <2>1, LedgerAssumption DEF Record
<1>. QED
  BY <1>1 DEF BondsOf

\* What the properties add up, and what a reward in progress is owed.
Total == Dust(bal) + Bonded + burned - Accrued

\* The sums are naturals.
LEMMA SumsNat ==
    ASSUME TypeOK
    PROVE  /\ Dust(bal) \in Nat /\ Bonded \in Nat /\ burned \in Nat /\ Accrued \in Int
           /\ recs \in [Nodes -> Record \cup {NoRec}] /\ bal \in [Addrs -> Nat]
           /\ IsFiniteSet(Addrs) /\ IsFiniteSet(Nodes)
<1>1. recs \in [Nodes -> Record \cup {NoRec}] /\ bal \in [Addrs -> Nat] /\ burned \in Nat
  BY RegistryFields, TypeParts DEF AccountsOK
<1>2. IsFiniteSet(Addrs) /\ IsFiniteSet(Nodes)
  BY LedgerAssumption
<1>3. Dust(bal) \in Nat /\ Bonded \in Nat
  BY <1>1, <1>2, BondsNat, DustNat DEF Bonded
<1>4. Accrued \in Int
  <2>1. applying # NoTx /\ applying.kind = "reward" => applying.amount \in Nat /\ applying.liquid \in Nat
    BY DEF TypeOK, EnrollTx, UnenrollTx, RewardTx, SlashTx
  <2>. QED
    BY <2>1 DEF Accrued
<1>. QED
  BY <1>1, <1>2, <1>3, <1>4

\* The same of the next state.
LEMMA SumsNatNext ==
    ASSUME TypeOK'
    PROVE  /\ Dust(bal') \in Nat /\ Bonded' \in Nat /\ burned' \in Nat /\ Accrued' \in Int
           /\ recs' \in [Nodes -> Record \cup {NoRec}] /\ bal' \in [Addrs -> Nat]
<1>1. recs' \in [Nodes -> Record \cup {NoRec}] /\ bal' \in [Addrs -> Nat] /\ burned' \in Nat
  BY DEF TypeOK, Registry, Snapshot
<1>2. IsFiniteSet(Addrs) /\ IsFiniteSet(Nodes)
  BY LedgerAssumption
<1>3. Dust(bal') \in Nat /\ Bonded' \in Nat
  BY <1>1, <1>2, BondsNat, DustNat DEF Bonded
<1>4. Accrued' \in Int
  <2>1. applying' # NoTx /\ applying'.kind = "reward" => applying'.amount \in Nat /\ applying'.liquid \in Nat
    BY DEF TypeOK, EnrollTx, UnenrollTx, RewardTx, SlashTx
  <2>. QED
    BY <2>1 DEF Accrued
<1>. QED
  BY <1>1, <1>2, <1>3, <1>4

\* A change of one balance or of one bond.
LEMMA BalanceChange ==
    ASSUME TypeOK, NEW g \in [Addrs -> Nat], NEW f \in [Addrs -> Nat], NEW a \in Addrs,
           \A b \in Addrs : b # a => g[b] = f[b]
    PROVE  Dust(g) = Dust(f) + (g[a] - f[a]) /\ Dust(g) \in Nat /\ Dust(f) \in Nat
<1>1. IsFiniteSet(Addrs)
  BY LedgerAssumption
<1>2. Dust(g) - g[a] = Dust(f) - f[a]
  BY <1>1, DustChange
<1>3. Dust(g) \in Nat /\ Dust(f) \in Nat
  BY <1>1, DustNat
<1>4. g[a] \in Nat /\ f[a] \in Nat
  OBVIOUS
<1>. QED
  BY <1>2, <1>3, <1>4

LEMMA BondChange ==
    ASSUME TypeOK, TypeOK', NEW n \in Nodes, \A m \in Nodes : m # n => recs'[m] = recs[m]
    PROVE  Bonded' = Bonded + (BondsOf(recs')[n] - BondsOf(recs)[n])
<1>1. recs \in [Nodes -> Record \cup {NoRec}] /\ recs' \in [Nodes -> Record \cup {NoRec}] /\ IsFiniteSet(Nodes)
  BY SumsNat, SumsNatNext
<1>. DEFINE f == BondsOf(recs)
            g == BondsOf(recs')
<1>2. f \in [Nodes -> Nat] /\ g \in [Nodes -> Nat] /\ \A m \in Nodes : m # n => g[m] = f[m]
  BY <1>1, BondsNat
<1>. HIDE DEF f, g
<1>3. Dust(g) - g[n] = Dust(f) - f[n]
  BY <1>1, <1>2, DustChange
<1>4. Dust(g) \in Nat /\ Dust(f) \in Nat /\ g[n] \in Nat /\ f[n] \in Nat
  BY <1>1, <1>2, DustNat
<1>5. Dust(g) = Dust(f) + (g[n] - f[n])
  BY <1>3, <1>4
<1>. QED
  BY <1>5 DEF f, g, Bonded

\* Records whose stakes stay.
LEMMA BondsSame ==
    ASSUME TypeOK, TypeOK',
           \A n \in Nodes : \/ recs'[n] = recs[n]
                            \/ recs[n] \in Record /\ recs'[n] \in Record /\ recs'[n].stake = recs[n].stake
    PROVE  Bonded' = Bonded
<1>1. recs \in [Nodes -> Record \cup {NoRec}] /\ recs' \in [Nodes -> Record \cup {NoRec}] /\ NoRec \notin Record
  BY SumsNat, SumsNatNext, LedgerAssumption
<1>2. BondsOf(recs') = BondsOf(recs)
  BY <1>1 DEF BondsOf
<1>. QED
  BY <1>2 DEF Bonded

LEMMA TransferConserves ==
    ASSUME TypeOK, TypeOK', NEW a \in Owners, NEW b \in Owners, NEW x \in TransferAmounts, NEW f \in Fees,
           Transfer(a, b, x, f)
    PROVE  Total' = Total
<1>0. x \in Nat /\ f \in Nat /\ a \in Addrs /\ b \in Addrs /\ bal \in [Addrs -> Nat] /\ burned \in Nat
  BY LedgerAssumption DEF Addrs, TypeOK
<1>1. bal[a] >= x + f
  BY DEF Transfer, CanCharge
<1>. DEFINE mid == [bal EXCEPT ![a] = @ - (x + f)]
<1>2. mid \in [Addrs -> Nat] /\ mid[a] = bal[a] - (x + f) /\ \A c \in Addrs : c # a => mid[c] = bal[c]
  BY <1>0, <1>1
<1>3. bal' = [mid EXCEPT ![b] = @ + x] /\ burned' = burned + f
  BY DEF Transfer
<1>. HIDE DEF mid
<1>4. bal' \in [Addrs -> Nat] /\ bal'[b] = mid[b] + x /\ \A c \in Addrs : c # b => bal'[c] = mid[c]
  BY <1>0, <1>2, <1>3
<1>5. Dust(mid) = Dust(bal) + (mid[a] - bal[a]) /\ Dust(mid) \in Nat /\ Dust(bal) \in Nat
  BY <1>0, <1>2, BalanceChange
<1>6. Dust(bal') = Dust(mid) + (bal'[b] - mid[b])
  BY <1>0, <1>2, <1>4, BalanceChange
<1>7. mid[b] \in Nat /\ bal[a] \in Nat
  BY <1>0, <1>2
<1>8. Dust(bal') = Dust(bal) - f
  BY <1>0, <1>2, <1>4, <1>5, <1>6, <1>7
<1>9. Bonded' = Bonded /\ Accrued' = Accrued
  BY DEF Transfer, registryVars, Bonded, Accrued
<1>. QED
  BY <1>0, <1>3, <1>5, <1>8, <1>9, SumsNat DEF Total

LEMMA EnrollConserves ==
    ASSUME TypeOK, TypeOK', CommitEnroll
    PROVE  Total' = Total
<1>. DEFINE tx == applying
            bound == Bindable(tx.node, tx.gpu)
            stake == StakeOf(tx.mode)
            new == [owner |-> tx.from, gpu |-> tx.gpu, mode |-> tx.mode, stake |-> stake,
                    revokedAt |-> 0, maturesAt |-> 0]
            paid == tx.fee + (IF bound THEN stake ELSE 0)
<1>0. /\ tx \in EnrollTx /\ Owners \subseteq Addrs /\ tx.kind = "enroll" /\ applying' = NoTx
      /\ NoRec \notin Record /\ MinEnrollStake \in Nat
  BY LedgerAssumption DEF CommitEnroll, TypeOK, UnenrollTx, RewardTx, SlashTx, EnrollTx, Addrs
<1>1. tx.from \in Addrs /\ tx.from \in Owners /\ tx.fee \in Nat /\ tx.node \in Nodes /\ tx.gpu \in GPUs /\ tx.mode \in BondModes
  BY <1>0 DEF EnrollTx
<1>2. stake \in 0..MinEnrollStake /\ stake \in Nat
  BY <1>0 DEF StakeOf
<1>3. /\ bal \in [Addrs -> Nat] /\ bal' \in [Addrs -> Nat] /\ recs \in [Nodes -> Record \cup {NoRec}]
      /\ recs' \in [Nodes -> Record \cup {NoRec}]
  BY SumsNat, SumsNatNext
<1>4. /\ bal' = [bal EXCEPT ![tx.from] = @ - paid] /\ burned' = burned + tx.fee
      /\ recs' = IF bound THEN [recs EXCEPT ![tx.node] = new] ELSE recs
  BY DEF CommitEnroll
<1>5. Dust(bal') = Dust(bal) - paid /\ paid \in Nat
  <2>1. paid \in Nat
    BY <1>1, <1>2
  <2>. HIDE DEF paid
  <2>2. \A b \in Addrs : b # tx.from => bal'[b] = bal[b]
    BY <1>3, <1>4
  <2>3. bal'[tx.from] = bal[tx.from] - paid /\ bal[tx.from] \in Nat
    BY <1>1, <1>3, <1>4
  <2>4. Dust(bal') = Dust(bal) + (bal'[tx.from] - bal[tx.from]) /\ Dust(bal) \in Nat
    BY <1>1, <1>3, <2>2, BalanceChange
  <2>. QED
    BY <2>1, <2>3, <2>4
<1>6. Bonded' = Bonded + (paid - tx.fee)
  <2>1. CASE bound
    <3>1. new \in Record /\ new.stake = stake
      BY <1>1, <1>2 DEF Record
    <3>2. recs[tx.node] = NoRec /\ recs'[tx.node] = new /\ \A m \in Nodes : m # tx.node => recs'[m] = recs[m]
      BY <1>1, <1>3, <1>4, <2>1 DEF Bindable, Enrolled
    <3>. HIDE DEF new
    <3>3. BondsOf(recs)[tx.node] = 0 /\ BondsOf(recs')[tx.node] = stake
      BY <1>0, <1>1, <1>3, <3>1, <3>2, BondsNat
    <3>4. Bonded' = Bonded + (BondsOf(recs')[tx.node] - BondsOf(recs)[tx.node])
      BY <1>1, <3>2, BondChange
    <3>5. paid - tx.fee = stake
      BY <1>1, <1>2, <2>1
    <3>. HIDE DEF paid, stake
    <3>. QED
      BY <1>2, <3>3, <3>4, <3>5, SumsNat
  <2>2. CASE ~bound
    <3>1. Bonded' = Bonded
      BY <1>4, <2>2 DEF Bonded
    <3>2. paid - tx.fee = 0
      BY <1>1, <2>2
    <3>. QED
      BY <3>1, <3>2, SumsNat
  <2>. QED
    BY <2>1, <2>2
<1>7. Accrued = 0 /\ Accrued' = 0
  BY <1>0 DEF Accrued
<1>. HIDE DEF paid, stake, new, bound
<1>. QED
  BY <1>1, <1>4, <1>5, <1>6, <1>7, SumsNat DEF Total

LEMMA UnenrollConserves ==
    ASSUME TypeOK, TypeOK', CommitUnenroll
    PROVE  Total' = Total
<1>. DEFINE tx == applying
<1>0. tx \in UnenrollTx /\ Owners \subseteq Addrs /\ tx.kind = "unenroll" /\ applying' = NoTx
  BY DEF CommitUnenroll, TypeOK, UnenrollTx, RewardTx, SlashTx, EnrollTx, Addrs
<1>1. tx.from \in Addrs /\ tx.fee \in Nat /\ tx.node \in Nodes /\ TxHeight \in Nat
  BY <1>0 DEF UnenrollTx, TypeOK, TxHeight
<1>2. /\ bal \in [Addrs -> Nat] /\ bal' \in [Addrs -> Nat] /\ recs \in [Nodes -> Record \cup {NoRec}]
  BY SumsNat, SumsNatNext
<1>3. Accrued = 0 /\ Accrued' = 0
  BY <1>0 DEF Accrued
<1>4. CASE Active(tx.node)
  <2>1. /\ bal' = [bal EXCEPT ![tx.from] = @ - tx.fee] /\ burned' = burned + tx.fee
        /\ recs' = [recs EXCEPT ![tx.node] = Revoked(recs[tx.node], TxHeight)]
    BY <1>1, <1>2, <1>4 DEF CommitUnenroll
  <2>2. \A b \in Addrs : b # tx.from => bal'[b] = bal[b]
    BY <1>2, <2>1
  <2>3. bal'[tx.from] = bal[tx.from] - tx.fee /\ bal[tx.from] \in Nat
    BY <1>1, <1>2, <2>1
  <2>4. Dust(bal') = Dust(bal) + (bal'[tx.from] - bal[tx.from]) /\ Dust(bal) \in Nat
    BY <1>1, <1>2, <2>2, BalanceChange
  <2>5. recs[tx.node] \in Record
    BY <1>1, <1>2, <1>4 DEF Active, Enrolled
  <2>6. Revoked(recs[tx.node], TxHeight) \in Record /\ Revoked(recs[tx.node], TxHeight).stake = recs[tx.node].stake
    BY <1>1, <2>5, RevokedFields
  <2>7. Bonded' = Bonded
    <3>. DEFINE new == Revoked(recs[tx.node], TxHeight)
    <3>1. recs' = [recs EXCEPT ![tx.node] = new] /\ new \in Record /\ new.stake = recs[tx.node].stake
      BY <2>1, <2>6
    <3>. HIDE DEF new
    <3>2. \A m \in Nodes : \/ recs'[m] = recs[m]
                           \/ recs[m] \in Record /\ recs'[m] \in Record /\ recs'[m].stake = recs[m].stake
      <4>1. recs'[tx.node] = new /\ \A m \in Nodes : m # tx.node => recs'[m] = recs[m]
        BY <1>1, <1>2, <3>1
      <4>2. new \in Record /\ new.stake = recs[tx.node].stake /\ recs[tx.node] \in Record
        BY <2>5, <3>1
      <4>3. ASSUME NEW m \in Nodes, m = tx.node
            PROVE  recs[m] \in Record /\ recs'[m] \in Record /\ recs'[m].stake = recs[m].stake
        BY <4>1, <4>2, <4>3
      <4>. QED
        BY <4>1, <4>3
    <3>. QED
      BY <3>2, BondsSame
  <2>. QED
    BY <1>1, <1>3, <2>1, <2>3, <2>4, <2>7, SumsNat DEF Total
<1>5. CASE ~Active(tx.node)
  BY <1>3, <1>5 DEF CommitUnenroll, Total, Bonded
<1>. QED
  BY <1>4, <1>5

LEMMA SlashConserves ==
    ASSUME TypeOK, TypeOK', CommitSlash
    PROVE  Total' = Total
<1>. DEFINE tx == applying
            present == Enrolled(tx.node)
            slashed == SlashStake(tx.node, tx.amount)
            reward == (slashed * RewardBPS) \div 10000
            rec == [recs[tx.node] EXCEPT !.stake = @ - slashed]
            revoke == present /\ UnderBonded(rec)
<1>0. tx \in SlashTx /\ Owners \subseteq Addrs /\ RewardBPS \in 0..5000 /\ tx.kind = "slash" /\ applying' = NoTx
      /\ NoRec \notin Record /\ MinEnrollStake \in Nat
  BY LedgerAssumption DEF CommitSlash, TypeOK, UnenrollTx, RewardTx, SlashTx, EnrollTx, Addrs
<1>1. tx.from \in Addrs /\ tx.node \in Nodes /\ tx.amount \in Nat /\ tx.fee \in Nat /\ TxHeight \in Nat
  BY <1>0 DEF SlashTx, TypeOK, TxHeight
<1>2. /\ bal \in [Addrs -> Nat] /\ bal' \in [Addrs -> Nat] /\ recs \in [Nodes -> Record \cup {NoRec}]
      /\ recs' \in [Nodes -> Record \cup {NoRec}]
  BY SumsNat, SumsNatNext
<1>3. present => recs[tx.node] \in Record /\ recs[tx.node].stake \in 0..MinEnrollStake
  BY <1>1, <1>2 DEF Enrolled, Record
<1>4. /\ slashed \in Nat /\ (~present => slashed = 0)
      /\ present => recs[tx.node].stake - slashed \in 0..MinEnrollStake
  BY <1>0, <1>1, <1>3 DEF SlashStake, Min2
<1>5. /\ bal' = [bal EXCEPT ![tx.from] = @ - tx.fee + reward]
      /\ burned' = burned + tx.fee + (slashed - reward)
      /\ recs' = IF present
                 THEN [recs EXCEPT ![tx.node] = IF revoke THEN Revoked(rec, TxHeight) ELSE rec]
                 ELSE recs
  BY DEF CommitSlash
<1>6. reward \in Nat
  <2>. HIDE DEF slashed
  <2>1. slashed * RewardBPS \in Nat
    BY <1>0, <1>4
  <2>. QED
    BY <2>1
<1>7. Dust(bal') = Dust(bal) - tx.fee + reward
  <2>. HIDE DEF reward
  <2>1. \A b \in Addrs : b # tx.from => bal'[b] = bal[b]
    BY <1>2, <1>5
  <2>2. bal'[tx.from] = bal[tx.from] - tx.fee + reward /\ bal[tx.from] \in Nat
    BY <1>1, <1>2, <1>5
  <2>3. Dust(bal') = Dust(bal) + (bal'[tx.from] - bal[tx.from]) /\ Dust(bal) \in Nat
    BY <1>1, <1>2, <2>1, BalanceChange
  <2>. QED
    BY <1>1, <1>6, <2>2, <2>3
<1>8. Bonded' = Bonded - slashed
  <2>1. CASE present
    <3>1. rec \in Record /\ rec.stake = recs[tx.node].stake - slashed
      <4>. HIDE DEF slashed
      <4>. QED
        BY <1>3, <1>4, <2>1 DEF Record
    <3>2. \A m \in Nodes : m # tx.node => recs'[m] = recs[m]
      <4>. HIDE DEF rec, revoke
      <4>. QED
        BY <1>2, <1>5
    <3>3. recs'[tx.node] = IF revoke THEN Revoked(rec, TxHeight) ELSE rec
      <4>. HIDE DEF rec, revoke
      <4>. QED
        BY <1>1, <1>2, <1>5, <2>1
    <3>. HIDE DEF rec, revoke
    <3>4. recs'[tx.node] \in Record /\ recs'[tx.node].stake = recs[tx.node].stake - slashed
      BY <1>1, <3>1, <3>3, RevokedFields
    <3>5. /\ BondsOf(recs)[tx.node] = recs[tx.node].stake
          /\ BondsOf(recs')[tx.node] = recs[tx.node].stake - slashed
      BY <1>0, <1>1, <1>2, <1>3, <2>1, <3>4, BondsNat
    <3>6. Bonded' = Bonded + (BondsOf(recs')[tx.node] - BondsOf(recs)[tx.node])
      BY <1>1, <3>2, BondChange
    <3>7. recs[tx.node].stake \in Nat
      BY <1>0, <1>3, <2>1
    <3>. HIDE DEF slashed
    <3>. QED
      BY <1>4, <3>5, <3>6, <3>7, SumsNat
  <2>2. CASE ~present
    <3>1. recs' = recs
      BY <1>5, <2>2
    <3>2. Bonded' = Bonded
      BY <3>1 DEF Bonded
    <3>. HIDE DEF slashed
    <3>. QED
      BY <1>4, <2>2, <3>2, SumsNat
  <2>. QED
    BY <2>1, <2>2
<1>9. Accrued = 0 /\ Accrued' = 0
  BY <1>0 DEF Accrued
<1>. HIDE DEF reward, slashed, rec, revoke, present
<1>. QED
  BY <1>1, <1>4, <1>5, <1>6, <1>7, <1>8, <1>9, SumsNat DEF Total

\* While a reward is in progress, the bonds that are still active are those of
\* its snapshot and what it accrued; hooks may have revoked and released others.
AccruedOver(before, locked) ==
    \A n \in Nodes :
        /\ locked[n] > 0 => before[n] # NoRec /\ before[n].revokedAt = 0
        /\ recs[n] # NoRec /\ recs[n].revokedAt = 0 =>
               before[n] # NoRec /\ recs[n].stake = before[n].stake + locked[n]

AccrualInv ==
    applying # NoTx /\ applying.kind = "reward" =>
        \E locked \in [Nodes -> 0..MinEnrollStake] :
            /\ Dust(locked) = applying.amount - applying.liquid
            /\ AccruedOver(applying.before.recs, locked)

MoneyInv == TypeOK /\ AccrualInv

\* The accrual adds to the bonds what the reward owes.
LEMMA AccrueConserves ==
    ASSUME TypeOK, TypeOK', NEW o \in Owners, NEW x \in RewardAmounts, NEW s \in BOOLEAN, BeginReward(o, x, s)
    PROVE  Total' = Total /\ AccrualInv'
<1>. DEFINE locked == [m \in Nodes |-> Locked(o, m, x)]
<1>0. x \in Nat /\ MinEnrollStake \in Nat /\ NoRec \notin Record /\ IsFiniteSet(Nodes)
  BY LedgerAssumption
<1>1. /\ locked \in [Nodes -> 0..MinEnrollStake]
      /\ \A m \in Nodes : locked[m] > 0 => m \in Provisional(o) /\ recs[m].stake + locked[m] \in 0..MinEnrollStake
      /\ Dust(locked) \in 0..x
  BY <1>0, AccrualWithinReward
<1>2. /\ recs' = [n \in Nodes |-> IF locked[n] > 0 THEN [recs[n] EXCEPT !.stake = @ + locked[n]] ELSE recs[n]]
      /\ applying' = [kind |-> "reward", to |-> o, amount |-> x, stale |-> s,
                      liquid |-> x - Dust(locked), before |-> Registry]
      /\ applying = NoTx /\ bal' = bal /\ burned' = burned
  BY DEF BeginReward, Ready, accountVars
<1>3. \A n \in Provisional(o) : n \in Nodes /\ Active(n)
  BY DEF Provisional
<1>. HIDE DEF locked
<1>4. recs \in [Nodes -> Record \cup {NoRec}] /\ recs' \in [Nodes -> Record \cup {NoRec}]
  BY SumsNat, SumsNatNext
<1>5. ASSUME NEW n \in Nodes
      PROVE  /\ locked[n] \in Nat
             /\ locked[n] > 0 => recs[n] # NoRec /\ recs[n].revokedAt = 0
             /\ recs'[n] = NoRec <=> recs[n] = NoRec
             /\ recs[n] # NoRec => recs'[n].stake = recs[n].stake + locked[n] /\ recs'[n].revokedAt = recs[n].revokedAt
  <2>1. locked[n] \in Nat
    BY <1>0, <1>1
  <2>2. recs'[n] = IF locked[n] > 0 THEN [recs[n] EXCEPT !.stake = @ + locked[n]] ELSE recs[n]
    BY <1>2
  <2>3. CASE locked[n] > 0
    <3>1. recs[n] # NoRec /\ recs[n].revokedAt = 0 /\ recs[n] \in Record
      BY <1>1, <1>3, <1>4, <2>3 DEF Active, Enrolled
    <3>2. recs[n].stake + locked[n] \in 0..MinEnrollStake
      BY <1>1, <2>3
    <3>3. recs'[n] \in Record /\ recs'[n].stake = recs[n].stake + locked[n] /\ recs'[n].revokedAt = recs[n].revokedAt
      BY <2>2, <2>3, <3>1, <3>2 DEF Record
    <3>. QED
      BY <1>0, <2>1, <3>1, <3>3
  <2>4. CASE ~(locked[n] > 0)
    <3>1. locked[n] = 0 /\ recs'[n] = recs[n]
      BY <2>1, <2>2, <2>4
    <3>2. recs[n] # NoRec => recs[n].stake \in Nat
      BY <1>0, <1>4 DEF Record
    <3>. QED
      BY <2>4, <3>1, <3>2
  <2>. QED
    BY <2>3, <2>4
<1>6. Bonded' = Bonded + Dust(locked)
  <2>. DEFINE f == BondsOf(recs)
              g == BondsOf(recs')
  <2>1. f \in [Nodes -> Nat] /\ g \in [Nodes -> Nat] /\ locked \in [Nodes -> Nat]
    BY <1>4, <1>5, <1>1, BondsNat
  <2>2. ASSUME NEW n \in Nodes PROVE g[n] = f[n] + locked[n]
    <3>1. /\ f[n] = IF recs[n] = NoRec THEN 0 ELSE recs[n].stake
          /\ g[n] = IF recs'[n] = NoRec THEN 0 ELSE recs'[n].stake
      BY <1>4, BondsNat
    <3>2. recs[n] = NoRec => locked[n] = 0
      BY <1>5
    <3>. HIDE DEF f, g
    <3>. QED
      BY <1>5, <3>1, <3>2
  <2>. HIDE DEF f, g
  <2>3. Dust(g) = Dust(f) + Dust(locked)
    BY <1>0, <2>1, <2>2, DustPlus
  <2>. QED
    BY <2>3 DEF f, g, Bonded
<1>7. Dust(locked) \in Nat /\ Dust(locked) <= x
  BY <1>0, <1>1
<1>8. applying'.kind = "reward" /\ applying'.amount = x /\ applying'.liquid = x - Dust(locked)
      /\ applying'.before.recs = recs
  BY <1>2 DEF Registry
<1>9. applying' # NoTx => Accrued' = Dust(locked)
  BY <1>0, <1>7, <1>8 DEF Accrued
<1>10. applying' # NoTx
  <2>1. Registry \in Snapshot /\ x - Dust(locked) \in Nat
    BY <1>0, <1>7 DEF TypeOK
  <2>2. applying' \in RewardTx
    BY <1>0, <1>2, <2>1 DEF RewardTx
  <2>. QED
    BY <2>2, TxAssumption
<1>11. Accrued = 0
  BY <1>2 DEF Accrued
<1>12. AccrualInv'
  <2>1. Dust(locked) = x - (x - Dust(locked))
    BY <1>0, <1>7
  <2>2. \A n \in Nodes :
          /\ locked[n] > 0 => recs[n] # NoRec /\ recs[n].revokedAt = 0
          /\ recs'[n] # NoRec /\ recs'[n].revokedAt = 0 =>
                recs[n] # NoRec /\ recs'[n].stake = recs[n].stake + locked[n]
    BY <1>5
  <2>3. Dust(locked) = applying'.amount - applying'.liquid
    BY <1>8, <2>1
  <2>. QED
    BY <1>1, <1>8, <2>2, <2>3 DEF AccrualInv, AccruedOver
<1>. QED
  BY <1>2, <1>6, <1>7, <1>9, <1>10, <1>11, <1>12, SumsNat DEF Total

\* A reward that is paid, or rolled back with no hook to undo.
LEMMA RewardConserves ==
    ASSUME MoneyInv, TypeOK', CommitReward, ~RollbackOfHook
    PROVE  Total' = Total
<1>. DEFINE tx == applying
            ok == CanCharge(Funder, tx.amount) /\ ~tx.stale
<1>0. /\ TypeOK /\ tx \in RewardTx /\ Owners \subseteq Addrs /\ Funder \in Addrs
      /\ tx # NoTx /\ tx.kind = "reward" /\ applying' = NoTx /\ burned' = burned
  BY DEF CommitReward, MoneyInv, TypeOK, UnenrollTx, RewardTx, SlashTx, EnrollTx, Addrs
<1>1. tx.to \in Addrs /\ tx.amount \in Nat /\ tx.liquid \in Nat /\ tx.before \in Snapshot
  BY <1>0 DEF RewardTx
<1>2. Accrued = tx.amount - tx.liquid /\ Accrued' = 0
  BY <1>0 DEF Accrued
<1>3. bal \in [Addrs -> Nat] /\ bal' \in [Addrs -> Nat]
  BY <1>0, SumsNat, SumsNatNext
<1>4. CASE ok
  <2>. DEFINE mid == [bal EXCEPT ![Funder] = @ - tx.amount]
  <2>1. bal[Funder] >= tx.amount /\ bal[Funder] \in Nat
    BY <1>0, <1>3, <1>4 DEF CanCharge
  <2>2. mid \in [Addrs -> Nat] /\ mid[Funder] = bal[Funder] - tx.amount /\ \A c \in Addrs : c # Funder => mid[c] = bal[c]
    BY <1>0, <1>1, <1>3, <2>1
  <2>3. bal' = [mid EXCEPT ![tx.to] = @ + tx.liquid]
    BY <1>4 DEF CommitReward
  <2>4. recs' = recs
    BY <1>4 DEF CommitReward, RestoredUnless, Registry
  <2>. HIDE DEF mid, ok
  <2>5. bal'[tx.to] = mid[tx.to] + tx.liquid /\ \A c \in Addrs : c # tx.to => bal'[c] = mid[c]
    BY <1>1, <2>2, <2>3
  <2>6. Dust(mid) = Dust(bal) + (mid[Funder] - bal[Funder]) /\ Dust(mid) \in Nat /\ Dust(bal) \in Nat
    BY <1>0, <1>3, <2>2, BalanceChange
  <2>7. Dust(bal') = Dust(mid) + (bal'[tx.to] - mid[tx.to])
    BY <1>0, <1>1, <1>3, <2>2, <2>5, BalanceChange
  <2>8. mid[tx.to] \in Nat
    BY <1>1, <2>2
  <2>9. Dust(bal') = Dust(bal) - tx.amount + tx.liquid
    BY <1>1, <2>1, <2>2, <2>5, <2>6, <2>7, <2>8
  <2>10. Bonded' = Bonded
    BY <2>4 DEF Bonded
  <2>. QED
    BY <1>0, <1>1, <1>2, <2>6, <2>9, <2>10, SumsNat DEF Total
<1>5. CASE ~ok
  <2>1. bal' = bal /\ nonce' = nonce /\ recs' = tx.before.recs
    BY <1>5 DEF CommitReward, RestoredUnless
  <2>2. \A n \in Nodes : /\ Enrolled(n) <=> tx.before.recs[n] # NoRec
                         /\ Unbonding(n) => recs[n] = tx.before.recs[n]
    BY <1>0, <2>1 DEF RollbackOfHook, Rollback
  <2>3. PICK locked \in [Nodes -> 0..MinEnrollStake] :
          Dust(locked) = tx.amount - tx.liquid /\ AccruedOver(tx.before.recs, locked)
    BY <1>0 DEF MoneyInv, AccrualInv
  <2>. DEFINE old == tx.before.recs
              f == BondsOf(old)
              g == BondsOf(recs)
  <2>4. old \in [Nodes -> Record \cup {NoRec}] /\ recs \in [Nodes -> Record \cup {NoRec}] /\ MinEnrollStake \in Nat
        /\ IsFiniteSet(Nodes)
    BY <1>0, <1>1, SumsNat, LedgerAssumption DEF Snapshot
  <2>5. ASSUME NEW n \in Nodes PROVE g[n] = f[n] + locked[n]
    <3>1. /\ f[n] = IF old[n] = NoRec THEN 0 ELSE old[n].stake
          /\ g[n] = IF recs[n] = NoRec THEN 0 ELSE recs[n].stake
          /\ f[n] \in Nat
      BY <2>4, BondsNat
    <3>2. locked[n] \in Nat
      BY <2>4
    <3>3. /\ locked[n] > 0 => old[n] # NoRec /\ old[n].revokedAt = 0
          /\ recs[n] # NoRec /\ recs[n].revokedAt = 0 => old[n] # NoRec /\ recs[n].stake = old[n].stake + locked[n]
      BY <2>3 DEF AccruedOver
    <3>4. /\ recs[n] # NoRec <=> old[n] # NoRec
          /\ recs[n] # NoRec /\ recs[n].revokedAt # 0 => recs[n] = old[n]
      BY <2>2 DEF Enrolled, Unbonding
    <3>. HIDE DEF f, g, old
    <3>. QED
      BY <3>1, <3>2, <3>3, <3>4
  <2>6. f \in [Nodes -> Nat] /\ g \in [Nodes -> Nat] /\ locked \in [Nodes -> Nat]
    BY <2>4, BondsNat
  <2>7. Bonded = Dust(g) /\ Bonded' = Dust(f)
    BY <2>1 DEF Bonded
  <2>. HIDE DEF f, g, old, ok
  <2>8. Dust(g) = Dust(f) + Dust(locked)
    BY <2>4, <2>5, <2>6, DustPlus
  <2>9. Dust(f) \in Nat
    BY <2>4, <2>6, DustNat
  <2>. QED
    BY <1>0, <1>1, <1>2, <2>1, <2>3, <2>7, <2>8, <2>9, SumsNat DEF Total
<1>. QED
  BY <1>4, <1>5

\* Counting a set of units by owner counts it.
LEMMA DustByOwner ==
    ASSUME NEW S, IsFiniteSet(S), NEW W, IsFiniteSet(W), NEW own \in [W -> S],
           NEW f \in [S -> Nat], \A a \in S : f[a] = Cardinality({u \in W : own[u] = a})
    PROVE  Dust(f) = Cardinality(W)
<1>. DEFINE part(a) == {u \in W : own[u] = a}
<1>1. ASSUME NEW a \in S PROVE IsFiniteSet(part(a)) /\ Cardinality(part(a)) \in Nat /\ f[a] = Cardinality(part(a))
  BY FS_Subset, FS_CardinalityType
<1>2. f \in [S -> Nat]
  OBVIOUS
<1>3. ASSUME NEW a \in S PROVE Bijection(1..f[a], part(a)) # {}
  <2>1. IsFiniteSet(part(a)) /\ f[a] = Cardinality(part(a)) /\ f[a] \in Nat
    BY <1>1
  <2>2. IsFiniteSet(1..f[a]) /\ Cardinality(1..f[a]) = f[a]
    BY <2>1, FS_Interval
  <2>. DEFINE P == part(a)
              I == 1..f[a]
  <2>. HIDE DEF P, I
  <2>3. ExistsBijection(I, P)
    BY <2>1, <2>2, FS_SameCardinalityBij DEF P, I
  <2>. QED
    BY <2>3 DEF ExistsBijection, P, I
<1>. DEFINE nth == [a \in S |-> CHOOSE b \in Bijection(1..f[a], part(a)) : TRUE]
            at == [v \in Units(f) |-> nth[v[1]][v[2]]]
<1>4. ASSUME NEW a \in S PROVE nth[a] \in Bijection(1..f[a], part(a))
  BY <1>3
<1>. HIDE DEF nth
<1>5. ASSUME NEW a \in S, NEW i \in 1..f[a] PROVE nth[a][i] \in part(a)
  <2>. HIDE DEF part
  <2>. QED
    BY <1>4 DEF Bijection, Injection
<1>6. ASSUME NEW a \in S, NEW i \in 1..f[a], NEW j \in 1..f[a], nth[a][i] = nth[a][j] PROVE i = j
  <2>. HIDE DEF part
  <2>. QED
    BY <1>4, <1>6 DEF Bijection, Injection, IsInjective
<1>7. ASSUME NEW a \in S, NEW u \in part(a) PROVE \E i \in 1..f[a] : nth[a][i] = u
  <2>. HIDE DEF part
  <2>. QED
    BY <1>4 DEF Bijection, Surjection
<1>8. ASSUME NEW v \in Units(f)
      PROVE  v = <<v[1], v[2]>> /\ v[1] \in S /\ v[2] \in 1..f[v[1]] /\ at[v] = nth[v[1]][v[2]]
  <2>1. PICK a, i : a \in DOMAIN f /\ i \in 1..f[a] /\ v = <<a, i>>
    BY UnitIn
  <2>. QED
    BY <1>2, <2>1
<1>9. ASSUME NEW v \in Units(f) PROVE at[v] \in W /\ own[at[v]] = v[1]
  BY <1>5, <1>8
<1>10. ASSUME NEW v \in Units(f), NEW w \in Units(f), at[v] = at[w] PROVE v = w
  <2>1. v[1] = w[1]
    BY <1>9, <1>10
  <2>2. v[1] \in S /\ v[2] \in 1..f[v[1]] /\ w[2] \in 1..f[v[1]] /\ nth[v[1]][v[2]] = nth[v[1]][w[2]]
    BY <1>8, <1>10, <2>1
  <2>3. v[2] = w[2]
    BY <1>6, <2>2
  <2>4. v = <<v[1], v[2]>> /\ w = <<w[1], w[2]>>
    BY <1>8
  <2>. QED
    BY <2>1, <2>3, <2>4
<1>11. ASSUME NEW u \in W PROVE \E v \in Units(f) : at[v] = u
  <2>1. own[u] \in S /\ u \in part(own[u])
    OBVIOUS
  <2>2. PICK i \in 1..f[own[u]] : nth[own[u]][i] = u
    BY <1>7, <2>1
  <2>3. own[u] \in DOMAIN f
    BY <1>2, <2>1
  <2>4. <<own[u], i>> \in Units(f)
    BY <2>3, UnitIn
  <2>5. at[<<own[u], i>>] = u
    BY <2>2, <2>4
  <2>. QED
    BY <2>4, <2>5
<1>12. at \in Bijection(Units(f), W)
  <2>1. at \in [Units(f) -> W]
    BY <1>9
  <2>. HIDE DEF at
  <2>. QED
    BY <1>10, <1>11, <2>1 DEF Bijection, Injection, IsInjective, Surjection
<1>13. ExistsBijection(Units(f), W)
  <2>. HIDE DEF at
  <2>. QED
    BY <1>12 DEF ExistsBijection
<1>14. IsFiniteSet(Units(f))
  BY <1>2, DustNat
<1>15. Cardinality(W) = Cardinality(Units(f))
  BY <1>13, <1>14, FS_Bijection
<1>. QED
  BY <1>2, <1>15 DEF Dust

\* A sweep pays out what it takes from the bonds, and leaves active records
\* alone.
LEMMA SweepConserves ==
    ASSUME TypeOK, TypeOK', NEW h \in unswept, SealedHook(h)
    PROVE  /\ Total' = Total
           /\ \A n \in Nodes : recs'[n] # NoRec /\ recs'[n].revokedAt = 0 => recs'[n] = recs[n]
<1>. DEFINE legacy == LegacyAt(h)
            mid == [m \in Nodes |-> IF m \in legacy THEN Revoked(recs[m], SunsetHeight) ELSE recs[m]]
            matured == {m \in Nodes : mid[m] # NoRec /\ MatureForUnbond(mid[m], h)}
            units(a) == {u \in matured \X (1..MinEnrollStake) :
                           mid[u[1]].owner = a /\ u[2] <= mid[u[1]].stake}
            paid == [m \in Nodes |-> IF m \in matured THEN mid[m].stake ELSE 0]
            W == Units(paid)
            own == [u \in W |-> mid[u[1]].owner]
            gain == [a \in Addrs |-> Cardinality(units(a))]
<1>0. /\ SunsetHeight \in Nat \ {0} /\ MinEnrollStake \in Nat /\ IsFiniteSet(Nodes) /\ IsFiniteSet(Addrs)
      /\ Owners \subseteq Addrs /\ NoRec \notin Record
  BY LedgerAssumption DEF Addrs
<1>1. recs \in [Nodes -> Record \cup {NoRec}] /\ recs' \in [Nodes -> Record \cup {NoRec}] /\ bal \in [Addrs -> Nat]
      /\ bal' \in [Addrs -> Nat]
  BY SumsNat, SumsNatNext
<1>2. /\ recs' = [m \in Nodes |-> IF m \in matured THEN NoRec ELSE mid[m]]
      /\ bal' = [a \in Addrs |-> bal[a] + Cardinality(units(a))]
      /\ burned' = burned /\ applying' = applying
  BY DEF SealedHook, SweepMaturedEnrollments
<1>3. ASSUME NEW n \in Nodes
      PROVE  /\ mid[n] = NoRec <=> recs[n] = NoRec
             /\ recs[n] # NoRec => mid[n] \in Record /\ mid[n].stake = recs[n].stake
             /\ n \in legacy => mid[n] \in Record /\ mid[n].revokedAt # 0
             /\ n \notin legacy => mid[n] = recs[n]
  <2>1. CASE n \in legacy
    <3>1. recs[n] \in Record
      BY <1>1, <2>1 DEF LegacyAt, Active, Enrolled
    <3>2. mid[n] = Revoked(recs[n], SunsetHeight)
      BY <2>1
    <3>. HIDE DEF mid, legacy
    <3>. QED
      BY <1>0, <2>1, <3>1, <3>2, RevokedFields
  <2>2. CASE n \notin legacy
    BY <1>1, <2>2
  <2>. QED
    BY <2>1, <2>2
<1>4. \A n \in matured : n \in Nodes /\ mid[n] # NoRec
  OBVIOUS
<1>5. ASSUME NEW n \in Nodes PROVE recs'[n] = IF n \in matured THEN NoRec ELSE mid[n]
  BY <1>2
<1>6. ASSUME NEW n \in Nodes PROVE paid[n] = IF n \in matured THEN mid[n].stake ELSE 0
  OBVIOUS
<1>7. ASSUME NEW u
      PROVE  u \in W <=> /\ u \in matured \X (1..MinEnrollStake)
                         /\ u[2] <= mid[u[1]].stake
  <2>. HIDE DEF mid, matured, paid
  <2>1. ASSUME u \in W PROVE u \in matured \X (1..MinEnrollStake) /\ u[2] <= mid[u[1]].stake
    <3>1. PICK n, i : n \in DOMAIN paid /\ i \in 1..paid[n] /\ u = <<n, i>>
      BY <2>1, UnitIn
    <3>2. n \in Nodes /\ n \in matured /\ paid[n] = mid[n].stake
      <4>1. n \in Nodes
        BY <3>1 DEF paid
      <4>2. n \in matured
        BY <1>6, <3>1, <4>1
      <4>. QED
        BY <1>6, <4>1, <4>2
    <3>3. mid[n].stake \in 0..MinEnrollStake
      BY <1>3, <1>4, <3>2 DEF Record
    <3>. QED
      BY <1>0, <3>1, <3>2, <3>3
  <2>2. ASSUME u \in matured \X (1..MinEnrollStake), u[2] <= mid[u[1]].stake PROVE u \in W
    <3>1. u = <<u[1], u[2]>> /\ u[1] \in matured /\ u[2] \in 1..MinEnrollStake
      BY <2>2
    <3>2. u[1] \in Nodes /\ mid[u[1]].stake \in 0..MinEnrollStake /\ paid[u[1]] = mid[u[1]].stake
      BY <1>3, <1>4, <1>6, <3>1 DEF Record
    <3>3. u[2] \in 1..paid[u[1]]
      BY <1>0, <2>2, <3>1, <3>2
    <3>4. u[1] \in DOMAIN paid
      BY <3>2 DEF paid
    <3>. QED
      BY <3>1, <3>3, <3>4, UnitIn
  <2>. QED
    BY <2>1, <2>2
<1>8. paid \in [Nodes -> Nat]
  <2>1. ASSUME NEW n \in Nodes PROVE (IF n \in matured THEN mid[n].stake ELSE 0) \in Nat
    <3>. HIDE DEF mid, matured
    <3>. QED
      BY <1>0, <1>3, <1>4 DEF Record
  <2>. HIDE DEF mid, matured
  <2>. QED
    BY <2>1
<1>9. Bonded = Bonded' + Dust(paid)
  <2>. DEFINE f == BondsOf(recs)
              g == BondsOf(recs')
  <2>1. f \in [Nodes -> Nat] /\ g \in [Nodes -> Nat]
    BY <1>1, BondsNat
  <2>2. ASSUME NEW n \in Nodes PROVE f[n] = g[n] + paid[n]
    <3>1. /\ f[n] = IF recs[n] = NoRec THEN 0 ELSE recs[n].stake
          /\ g[n] = IF recs'[n] = NoRec THEN 0 ELSE recs'[n].stake
          /\ f[n] \in Nat
      BY <1>1, BondsNat
    <3>. HIDE DEF f, g, mid, matured, paid
    <3>. QED
      BY <1>3, <1>4, <1>5, <1>6, <3>1
  <2>. HIDE DEF f, g, paid
  <2>3. Dust(f) = Dust(g) + Dust(paid)
    BY <1>0, <1>8, <2>1, <2>2, DustPlus
  <2>. QED
    BY <2>3 DEF f, g, Bonded
<1>10. IsFiniteSet(W) /\ Dust(paid) = Cardinality(W)
  <2>. HIDE DEF paid
  <2>. QED
    BY <1>0, <1>8, DustNat DEF Dust
<1>11. own \in [W -> Addrs] /\ \A u \in W : own[u] = mid[u[1]].owner
  <2>1. ASSUME NEW u \in W PROVE mid[u[1]].owner \in Addrs
    <3>1. u[1] \in matured
      BY <1>7
    <3>. HIDE DEF mid, matured, W
    <3>2. mid[u[1]] \in Record
      BY <1>3, <1>4, <3>1
    <3>. QED
      BY <1>0, <3>2 DEF Record
  <2>. HIDE DEF mid, W
  <2>. QED
    BY <2>1
<1>12. ASSUME NEW a \in Addrs PROVE units(a) = {u \in W : own[u] = a}
  <2>1. \A u : u \in units(a) <=> u \in matured \X (1..MinEnrollStake) /\ mid[u[1]].owner = a /\ u[2] <= mid[u[1]].stake
    OBVIOUS
  <2>. HIDE DEF units, mid, matured, W, own
  <2>2. \A u : u \in units(a) <=> u \in W /\ own[u] = a
    BY <1>7, <1>11, <2>1
  <2>. QED
    BY <2>2
<1>13. ASSUME NEW a \in Addrs PROVE gain[a] = Cardinality({u \in W : own[u] = a}) /\ gain[a] \in Nat
  <2>1. gain[a] = Cardinality(units(a))
    OBVIOUS
  <2>. HIDE DEF units, W, own, gain
  <2>2. gain[a] = Cardinality({u \in W : own[u] = a})
    BY <1>12, <2>1
  <2>3. Cardinality({u \in W : own[u] = a}) \in Nat
    <3>. DEFINE P == {u \in W : own[u] = a}
    <3>1. P \subseteq W
      OBVIOUS
    <3>. HIDE DEF P
    <3>2. Cardinality(P) \in Nat
      BY <1>10, <3>1, FS_Subset, FS_CardinalityType
    <3>. QED
      BY <3>2 DEF P
  <2>. QED
    BY <2>2, <2>3
<1>14. gain \in [Addrs -> Nat]
  <2>1. gain = [a \in Addrs |-> gain[a]]
    OBVIOUS
  <2>. HIDE DEF gain, W, own
  <2>. QED
    BY <1>13, <2>1
<1>15. \A a \in Addrs : bal'[a] = bal[a] + gain[a]
  BY <1>2
<1>16. \A n \in Nodes : recs'[n] # NoRec /\ recs'[n].revokedAt = 0 => recs'[n] = recs[n]
  <2>. HIDE DEF mid, matured, legacy
  <2>. QED
    BY <1>3, <1>5
<1>. HIDE DEF W, own, gain, paid, mid, matured, units, legacy
<1>17. Dust(gain) = Cardinality(W)
  BY <1>0, <1>10, <1>11, <1>13, <1>14, DustByOwner
<1>18. Dust(bal') = Dust(bal) + Dust(gain)
  BY <1>0, <1>1, <1>14, <1>15, DustPlus
<1>19. Dust(paid) \in Nat
  BY <1>0, <1>8, DustNat
<1>20. Accrued' = Accrued
  BY <1>2 DEF Accrued
<1>21. Bonded' \in Nat
  BY SumsNatNext
<1>22. Dust(gain) = Dust(paid)
  BY <1>10, <1>17
<1>23. Total' = Total
  BY <1>2, <1>9, <1>18, <1>19, <1>20, <1>21, <1>22, SumsNat DEF Total
<1>. QED
  BY <1>16, <1>23

\* A step that moves no dust: it begins or ends no reward.
LEMMA IdleConserves ==
    ASSUME UNCHANGED <<bal, recs, burned>>,
           applying' = applying \/ /\ applying = NoTx \/ applying.kind # "reward"
                                   /\ applying' = NoTx \/ applying'.kind # "reward"
    PROVE  Total' = Total
BY DEF Total, Bonded, Accrued

\* Every step conserves, but for the rollback of a hook.
LEMMA TotalNext ==
    ASSUME MoneyInv, [Next]_vars, ~RollbackOfHook
    PROVE  Total' = Total
<1>0. TypeOK /\ TypeOK'
  BY TypeNext DEF MoneyInv
<1>1. CASE \E a \in Owners, x \in RewardAmounts, s \in BOOLEAN : BeginReward(a, x, s)
  BY <1>0, <1>1, AccrueConserves
<1>2. CASE Commit
  <2>1. CASE RejectCharge
    BY <2>1, IdleConserves DEF RejectCharge, accountVars, registryVars
  <2>. QED
    BY <1>0, <1>2, <2>1, EnrollConserves, UnenrollConserves, RewardConserves, SlashConserves DEF Commit
<1>3. CASE Hook
  BY <1>0, <1>3, SweepConserves DEF Hook
<1>4. CASE SealBlock \/ UNCHANGED vars
  BY <1>4, IdleConserves DEF SealBlock, vars, accountVars, registryVars
<1>5. CASE \E a, b \in Owners, x \in TransferAmounts, f \in Fees : Transfer(a, b, x, f)
  BY <1>0, <1>5, TransferConserves
<1>6. CASE \E a \in Owners, m \in Nodes, g \in GPUs, d \in BondModes, f \in Fees : BeginEnroll(a, m, g, d, f)
  BY <1>6, IdleConserves DEF BeginEnroll, Ready, accountVars, registryVars
<1>7. CASE \E a \in Owners, m \in Nodes, f \in Fees : BeginUnenroll(a, m, f)
  BY <1>7, IdleConserves DEF BeginUnenroll, Ready, accountVars, registryVars
<1>8. CASE \E a \in Owners, m \in Nodes, e \in Evidence, x \in SlashAmounts, f \in Fees :
             BeginSlash(a, m, e, x, f)
  <2>1. PICK a \in Owners, m \in Nodes, e \in Evidence, x \in SlashAmounts, f \in Fees : BeginSlash(a, m, e, x, f)
    BY <1>8
  <2>2. applying = NoTx /\ applying'.kind = "slash" /\ UNCHANGED <<bal, recs, burned>>
    BY <2>1 DEF BeginSlash, Ready, accountVars, registryVars
  <2>. QED
    BY <2>2, IdleConserves
<1>. QED
  BY <1>1, <1>2, <1>3, <1>4, <1>5, <1>6, <1>7, <1>8 DEF Next, Apply

\* The accrual of a reward in progress stays put until it ends.
LEMMA AccrualKept ==
    ASSUME AccrualInv, applying' = applying,
           \A n \in Nodes : recs'[n] # NoRec /\ recs'[n].revokedAt = 0 => recs'[n] = recs[n]
    PROVE  AccrualInv'
<1>. SUFFICES ASSUME applying # NoTx, applying.kind = "reward"
              PROVE  \E locked \in [Nodes -> 0..MinEnrollStake] :
                        /\ Dust(locked) = applying.amount - applying.liquid
                        /\ AccruedOver(applying.before.recs, locked)'
  BY DEF AccrualInv
<1>1. PICK locked \in [Nodes -> 0..MinEnrollStake] :
        Dust(locked) = applying.amount - applying.liquid /\ AccruedOver(applying.before.recs, locked)
  BY DEF AccrualInv
<1>2. \A n \in Nodes :
        /\ locked[n] > 0 => applying.before.recs[n] # NoRec /\ applying.before.recs[n].revokedAt = 0
        /\ recs[n] # NoRec /\ recs[n].revokedAt = 0 =>
             applying.before.recs[n] # NoRec /\ recs[n].stake = applying.before.recs[n].stake + locked[n]
  BY <1>1 DEF AccruedOver
<1>3. AccruedOver(applying.before.recs, locked)'
  BY <1>2 DEF AccruedOver
<1>. QED
  BY <1>1, <1>3

LEMMA AccrualNext == MoneyInv /\ [Next]_vars => MoneyInv'
<1>. SUFFICES ASSUME MoneyInv, [Next]_vars PROVE MoneyInv'
  OBVIOUS
<1>0. TypeOK /\ TypeOK' /\ AccrualInv
  BY TypeNext DEF MoneyInv
<1>1. ASSUME AccrualInv' PROVE MoneyInv'
  BY <1>0, <1>1 DEF MoneyInv
<1>2. ASSUME applying' = NoTx \/ applying'.kind # "reward" PROVE MoneyInv'
  BY <1>1, <1>2 DEF AccrualInv
<1>3. ASSUME applying' = applying, recs' = recs PROVE MoneyInv'
  BY <1>0, <1>1, <1>3, AccrualKept
<1>4. CASE \E a \in Owners, x \in RewardAmounts, s \in BOOLEAN : BeginReward(a, x, s)
  BY <1>0, <1>1, <1>4, AccrueConserves
<1>5. CASE Commit
  BY <1>2, <1>5 DEF Commit, CommitEnroll, CommitUnenroll, CommitReward, CommitSlash, RejectCharge
<1>6. CASE Hook
  <2>1. PICK h \in unswept : SealedHook(h)
    BY <1>6 DEF Hook
  <2>2. applying' = applying
    BY <2>1 DEF SealedHook
  <2>3. \A n \in Nodes : recs'[n] # NoRec /\ recs'[n].revokedAt = 0 => recs'[n] = recs[n]
    BY <1>0, <2>1, SweepConserves
  <2>. QED
    BY <1>0, <1>1, <2>2, <2>3, AccrualKept
<1>7. CASE SealBlock \/ UNCHANGED vars
  BY <1>3, <1>7 DEF SealBlock, vars, registryVars
<1>8. CASE \E a, b \in Owners, x \in TransferAmounts, f \in Fees : Transfer(a, b, x, f)
  BY <1>3, <1>8 DEF Transfer, registryVars
<1>9. CASE \E a \in Owners, m \in Nodes, g \in GPUs, d \in BondModes, f \in Fees : BeginEnroll(a, m, g, d, f)
  BY <1>2, <1>9 DEF BeginEnroll
<1>10. CASE \E a \in Owners, m \in Nodes, f \in Fees : BeginUnenroll(a, m, f)
  BY <1>2, <1>10 DEF BeginUnenroll
<1>11. CASE \E a \in Owners, m \in Nodes, e \in Evidence, x \in SlashAmounts, f \in Fees :
             BeginSlash(a, m, e, x, f)
  <2>1. applying'.kind = "slash"
    BY <1>11 DEF BeginSlash
  <2>. QED
    BY <1>2, <2>1
<1>. QED
  BY <1>4, <1>5, <1>6, <1>7, <1>8, <1>9, <1>10, <1>11 DEF Next, Apply

LEMMA MoneyInit == Init => MoneyInv
<1>. SUFFICES ASSUME Init PROVE MoneyInv
  OBVIOUS
<1>1. TypeOK /\ applying = NoTx
  BY TypeInit DEF Init
<1>. QED
  BY <1>1 DEF MoneyInv, AccrualInv

\* No step creates or loses dust, for any overlap of hooks and transactions,
\* but for the rollback of a reward that undoes a hook.
THEOREM StepCorrect == Spec => StepConserves
<1>1. Init => MoneyInv
  BY MoneyInit
<1>2. MoneyInv /\ [Next]_vars => MoneyInv'
  BY AccrualNext
<1>3. MoneyInv /\ [Next]_vars =>
        [\/ RollbackOfHook
         \/ Dust(bal') + Bonded' + burned' - Accrued' = Dust(bal) + Bonded + burned - Accrued]_vars
  BY TotalNext DEF Total
<1>. QED
  BY <1>1, <1>2, <1>3, PTL DEF Spec, StepConserves

----------------------------------------------------------------------------
(* One goroutine: no hook runs inside a transaction. *)

\* A transaction in progress sees no block waiting for its hook, so a reward
\* that is rolled back finds the registry as it left it.
NoHookInside ==
    /\ applying # NoTx => unswept = {}
    /\ applying # NoTx /\ applying.kind = "reward" =>
         /\ gpuActive = applying.before.gpuActive
         /\ \A n \in Nodes : /\ Enrolled(n) <=> applying.before.recs[n] # NoRec
                             /\ Unbonding(n) => recs[n] = applying.before.recs[n]

SerialInv == MoneyInv /\ NoHookInside /\ DustConserved

LEMMA ReadyMeansSwept ==
    ASSUME TypeOK, Overlap = 0, Ready
    PROVE  unswept = {} /\ applying = NoTx
<1>1. tip \in Nat /\ unswept \subseteq 1..tip /\ Cardinality(unswept) <= 0 /\ applying = NoTx
  BY DEF Ready, TypeOK
<1>2. IsFiniteSet(unswept)
  <2>1. IsFiniteSet(1..tip)
    BY <1>1, FS_Interval
  <2>. QED
    BY <1>1, <2>1, FS_Subset
<1>3. Cardinality(unswept) \in Nat
  BY <1>2, FS_CardinalityType
<1>4. Cardinality(unswept) = 0
  BY <1>1, <1>3
<1>. QED
  BY <1>1, <1>2, <1>4, FS_EmptySet

LEMMA NoHookNext ==
    ASSUME SerialInv, Overlap = 0, [Next]_vars
    PROVE  NoHookInside'
<1>0. TypeOK /\ NoHookInside
  BY DEF SerialInv, MoneyInv
<1>1. ASSUME applying' = NoTx PROVE NoHookInside'
  BY <1>1 DEF NoHookInside
<1>2. ASSUME unswept' = {}, applying'.kind # "reward" PROVE NoHookInside'
  BY <1>2 DEF NoHookInside
<1>3. CASE \E a \in Owners, x \in RewardAmounts, s \in BOOLEAN : BeginReward(a, x, s)
  <2>1. PICK a \in Owners, x \in RewardAmounts, s \in BOOLEAN : BeginReward(a, x, s)
    BY <1>3
  <2>2. unswept' = {} /\ gpuActive' = gpuActive /\ applying'.before = Registry
    BY <1>0, <2>1, ReadyMeansSwept DEF BeginReward, chainVars
  <2>3. recs \in [Nodes -> Record \cup {NoRec}] /\ NoRec \notin Record
    BY <1>0, RegistryFields, TypeParts, LedgerAssumption
  <2>. DEFINE locked == [n \in Nodes |-> Locked(a, n, x)]
  <2>4. /\ locked \in [Nodes -> 0..MinEnrollStake]
        /\ \A n \in Nodes : locked[n] > 0 => n \in Provisional(a) /\ recs[n].stake + locked[n] \in 0..MinEnrollStake
    <3>1. x \in Nat
      BY LedgerAssumption
    <3>. QED
      BY <1>0, <3>1, AccrualWithinReward
  <2>5. \A n \in Nodes : recs'[n] = IF locked[n] > 0 THEN [recs[n] EXCEPT !.stake = @ + locked[n]] ELSE recs[n]
    BY <2>1 DEF BeginReward
  <2>6. \A n \in Provisional(a) : recs[n] # NoRec /\ recs[n].revokedAt = 0
    BY DEF Provisional, Active, Enrolled
  <2>. HIDE DEF locked
  <2>7. ASSUME NEW n \in Nodes
        PROVE  /\ recs'[n] # NoRec <=> recs[n] # NoRec
               /\ recs'[n] # NoRec /\ recs'[n].revokedAt # 0 => recs'[n] = recs[n]
    <3>1. CASE locked[n] > 0
      <4>1. recs[n] \in Record /\ recs[n].revokedAt = 0 /\ recs[n].stake + locked[n] \in 0..MinEnrollStake
        BY <2>3, <2>4, <2>6, <3>1
      <4>2. recs'[n] = [recs[n] EXCEPT !.stake = @ + locked[n]]
        BY <2>5, <3>1
      <4>3. recs'[n] \in Record /\ recs'[n].revokedAt = 0
        BY <4>1, <4>2 DEF Record
      <4>. QED
        BY <2>3, <4>1, <4>3
    <3>2. CASE ~(locked[n] > 0)
      BY <2>5, <3>2
    <3>. QED
      BY <3>1, <3>2
  <2>8. applying'.before.recs = recs /\ applying'.before.gpuActive = gpuActive
    BY <2>2 DEF Registry
  <2>. QED
    BY <2>2, <2>7, <2>8 DEF NoHookInside, Enrolled, Unbonding
<1>4. CASE Commit
  BY <1>1, <1>4 DEF Commit, CommitEnroll, CommitUnenroll, CommitReward, CommitSlash, RejectCharge
<1>5. CASE Hook
  <2>1. PICK h \in unswept : SealedHook(h)
    BY <1>5 DEF Hook
  <2>2. applying = NoTx /\ applying' = applying
    BY <1>0, <2>1 DEF SealedHook, NoHookInside
  <2>. QED
    BY <1>1, <2>2
<1>6. CASE SealBlock
  BY <1>1, <1>6 DEF SealBlock
<1>7. CASE UNCHANGED vars
  BY <1>0, <1>7 DEF vars, NoHookInside, Enrolled, Unbonding
<1>8. CASE \E a, b \in Owners, x \in TransferAmounts, f \in Fees : Transfer(a, b, x, f)
  BY <1>1, <1>8 DEF Transfer, Ready
<1>9. CASE \E a \in Owners, m \in Nodes, g \in GPUs, d \in BondModes, f \in Fees : BeginEnroll(a, m, g, d, f)
  BY <1>0, <1>2, <1>9, ReadyMeansSwept DEF BeginEnroll, chainVars
<1>10. CASE \E a \in Owners, m \in Nodes, f \in Fees : BeginUnenroll(a, m, f)
  BY <1>0, <1>2, <1>10, ReadyMeansSwept DEF BeginUnenroll, chainVars
<1>11. CASE \E a \in Owners, m \in Nodes, e \in Evidence, x \in SlashAmounts, f \in Fees :
             BeginSlash(a, m, e, x, f)
  <2>1. Ready /\ applying'.kind = "slash" /\ unswept' = unswept
    BY <1>11 DEF BeginSlash, chainVars
  <2>. QED
    BY <1>0, <1>2, <2>1, ReadyMeansSwept
<1>. QED
  BY <1>3, <1>4, <1>5, <1>6, <1>7, <1>8, <1>9, <1>10, <1>11 DEF Next, Apply

\* All dust is there at the start.
LEMMA SerialInit == Init => SerialInv
<1>. SUFFICES ASSUME Init PROVE SerialInv
  OBVIOUS
<1>1. MoneyInv /\ TypeOK
  BY MoneyInit DEF MoneyInv
<1>2. bal = Genesis /\ burned = 0 /\ applying = NoTx /\ recs = [n \in Nodes |-> NoRec]
  BY DEF Init
<1>3. Dust(bal) = Supply /\ Accrued = 0 /\ Supply \in Nat
  BY <1>2, LedgerAssumption DEF Accrued
<1>4. Bonded = 0
  <2>. DEFINE f == BondsOf(recs)
  <2>1. f = [n \in Nodes |-> 0]
    BY <1>2 DEF BondsOf
  <2>2. Units(f) = {}
    <3>1. ASSUME NEW u \in Units(f) PROVE FALSE
      <4>1. PICK n, i : n \in DOMAIN f /\ i \in 1..f[n] /\ u = <<n, i>>
        BY UnitIn
      <4>. QED
        BY <2>1, <4>1
    <3>. QED
      BY <3>1
  <2>3. Dust(f) = 0
    BY <2>2, FS_EmptySet DEF Dust
  <2>. QED
    BY <2>3 DEF Bonded
<1>5. DustConserved
  BY <1>2, <1>3, <1>4 DEF DustConserved
<1>. QED
  BY <1>1, <1>2, <1>5 DEF SerialInv, NoHookInside

LEMMA SerialNext ==
    ASSUME Overlap = 0
    PROVE  SerialInv /\ [Next]_vars => SerialInv'
<1>. SUFFICES ASSUME SerialInv, [Next]_vars PROVE SerialInv'
  OBVIOUS
<1>1. MoneyInv /\ MoneyInv' /\ NoHookInside'
  BY AccrualNext, NoHookNext DEF SerialInv
<1>2. ~RollbackOfHook
  <2>. SUFFICES ASSUME RollbackOfHook PROVE FALSE
    OBVIOUS
  <2>1. /\ gpuActive = applying.before.gpuActive
        /\ \A n \in Nodes : /\ recs[n] # NoRec <=> applying.before.recs[n] # NoRec
                            /\ Unbonding(n) => recs[n] = applying.before.recs[n]
    BY DEF RollbackOfHook, Rollback, SerialInv, NoHookInside, Enrolled
  <2>2. \E n \in Nodes : (recs[n] # NoRec) # (applying.before.recs[n] # NoRec)
    BY <2>1 DEF RollbackOfHook, Enrolled
  <2>. QED
    BY <2>1, <2>2
<1>3. Total' = Total
  BY <1>1, <1>2, TotalNext
<1>4. TypeOK /\ TypeOK' /\ Supply \in Nat
  BY <1>1, LedgerAssumption DEF MoneyInv
<1>5. /\ Dust(bal) \in Nat /\ Bonded \in Nat /\ burned \in Nat /\ Accrued \in Int
      /\ Dust(bal') \in Nat /\ Bonded' \in Nat /\ burned' \in Nat /\ Accrued' \in Int
  BY <1>4, SumsNat, SumsNatNext
<1>6. Dust(bal) + Bonded + burned = Supply + Accrued
  BY DEF SerialInv, DustConserved
<1>7. Dust(bal') + Bonded' + burned' - Accrued' = Dust(bal) + Bonded + burned - Accrued
  BY <1>3 DEF Total
<1>8. Dust(bal') + Bonded' + burned' = Supply + Accrued'
  BY <1>4, <1>5, <1>6, <1>7
<1>9. DustConserved'
  BY <1>8 DEF DustConserved
<1>. QED
  BY <1>1, <1>9 DEF SerialInv

\* With one goroutine sealing blocks, all dust is always in an account, in a
\* bond or burned; the overlap of hooks with transactions is what breaks it.
THEOREM SerialCorrect ==
    ASSUME Overlap = 0
    PROVE  Spec => []DustConserved
<1>1. Init => SerialInv
  BY SerialInit
<1>2. SerialInv /\ [Next]_vars => SerialInv'
  BY SerialNext
<1>3. SerialInv => DustConserved
  BY DEF SerialInv
<1>. QED
  BY <1>1, <1>2, <1>3, PTL DEF Spec
=============================================================================

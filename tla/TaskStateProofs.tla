--------------------------- MODULE TaskStateProofs ---------------------------
(***************************************************************************)
(* Proofs about TaskState, for all sets of wallets, tasks, rounds, proofs  *)
(* and amounts: a boot rebuilds the store of the running node, a receipt   *)
(* is paid for once, the totals of a task are those of its parts, and CELL *)
(* is conserved.                                                           *)
(***************************************************************************)
EXTENDS TaskState, FiniteSetTheorems, TLAPS

----------------------------------------------------------------------------
(* Sums over finite sets.  The induction is by least counterexample, which *)
(* needs no operator parameter.                                            *)

\* A set of subsets of a finite set has a least element.
LEMMA LeastSet ==
    ASSUME NEW S, IsFiniteSet(S), NEW F, F \subseteq SUBSET S, F # {}
    PROVE  \E T \in F : \A U \in F : U \subseteq T => U = T
<1>1. IsWellFoundedOn(StrictSubsetOrdering(S), FiniteSubsetsOf(S))
  BY FS_StrictSubsetOrderingWellFounded
<1>2. FiniteSubsetsOf(S) = SUBSET S
  BY FS_FiniteSubsetsOfFinite
<1>3. PICK T \in F : \A U \in F : ~(<<U, T>> \in StrictSubsetOrdering(S))
  BY <1>1, <1>2, WFMin
<1>4. ASSUME NEW U \in F, U \subseteq T, U # T PROVE FALSE
  <2>1. <<U, T>> \in StrictSubsetOrdering(S)
    BY <1>4 DEF StrictSubsetOrdering
  <2> QED
    BY <2>1, <1>3
<1> QED
  BY <1>4

\* The element that a fold takes first.
Pick(s) == CHOOSE x \in s : TRUE

\* g sums f over the subsets of S.
SumTable(g, f, S) == g = [s \in SUBSET S |-> IF s = {} THEN 0 ELSE f[Pick(s)] + g[s \ {Pick(s)}]]

\* A sum is the value of such a function.
LEMMA SumIs ==
    ASSUME NEW f, NEW S
    PROVE  SumFunctionOnSet(f, S) = (CHOOSE g : SumTable(g, f, S))[S]
  BY DEF SumFunctionOnSet, FoldFunctionOnSet, MapThenFoldSet, SumTable, Pick

\* One summand of such a function.
LEMMA TableAt ==
    ASSUME NEW f, NEW S, NEW g, SumTable(g, f, S), NEW s \in SUBSET S
    PROVE  /\ s = {} => g[s] = 0
           /\ s # {} => /\ Pick(s) \in s /\ s \ {Pick(s)} \in SUBSET S
                       /\ g[s] = f[Pick(s)] + g[s \ {Pick(s)}]
<1>1. s # {} => Pick(s) \in s
  BY DEF Pick
<1>2. g[s] = IF s = {} THEN 0 ELSE f[Pick(s)] + g[s \ {Pick(s)}]
  BY DEF SumTable
<1> QED
  BY <1>1, <1>2

\* Two such functions agree where both are defined.
LEMMA TableAgree ==
    ASSUME NEW f, NEW S, IsFiniteSet(S), NEW T, NEW g, SumTable(g, f, S), NEW h, SumTable(h, f, T),
           NEW u, u \subseteq S, u \subseteq T
    PROVE  g[u] = h[u]
<1> DEFINE F == {s \in SUBSET S : s \subseteq T /\ g[s] # h[s]}
<1>1. ASSUME F # {} PROVE FALSE
  <2>1. PICK s \in F : \A r \in F : r \subseteq s => r = s
    <3> HIDE DEF F
    <3>1. F \subseteq SUBSET S
      BY DEF F
    <3> QED
      BY <1>1, <3>1, LeastSet
  <2>2. s \in SUBSET S /\ s \in SUBSET T /\ g[s] # h[s]
    BY <2>1
  <2> DEFINE x == Pick(s)
  <2> HIDE DEF F, x
  <2>a. /\ s = {} => g[s] = 0
        /\ s # {} => x \in s /\ s \ {x} \in SUBSET S /\ g[s] = f[x] + g[s \ {x}]
    BY <2>2, TableAt DEF x
  <2>b. /\ s = {} => h[s] = 0
        /\ s # {} => s \ {x} \in SUBSET T /\ h[s] = f[x] + h[s \ {x}]
    BY <2>2, TableAt DEF x
  <2>3. s # {}
    BY <2>2, <2>a, <2>b
  <2>4. /\ x \in s /\ s \ {x} \in SUBSET S /\ s \ {x} \in SUBSET T
        /\ g[s] = f[x] + g[s \ {x}] /\ h[s] = f[x] + h[s \ {x}]
    BY <2>a, <2>b, <2>3
  <2>5. s \ {x} \notin F
    BY <2>1, <2>4
  <2> QED
    BY <2>2, <2>4, <2>5 DEF F
<1> QED
  BY <1>1

\* There is one for every finite set.
LEMMA TableExist ==
    ASSUME NEW f, NEW S, IsFiniteSet(S)
    PROVE  \E g : SumTable(g, f, S)
<1> DEFINE F == {U \in SUBSET S : ~\E g : SumTable(g, f, U)}
<1>1. ASSUME F # {} PROVE FALSE
  <2>1. PICK T \in F : \A r \in F : r \subseteq T => r = T
    <3> HIDE DEF F
    <3>1. F \subseteq SUBSET S
      BY DEF F
    <3> QED
      BY <1>1, <3>1, LeastSet
  <2>2. T \in SUBSET S /\ ~\E g : SumTable(g, f, T)
    BY <2>1
  <2> DEFINE G(U) == CHOOSE g : SumTable(g, f, U)
             h == [s \in SUBSET T |-> IF s = {} THEN 0
                     ELSE f[Pick(s)] + G(s \ {Pick(s)})[s \ {Pick(s)}]]
  <2>3. ASSUME NEW U \in SUBSET T, U # T PROVE IsFiniteSet(U) /\ SumTable(G(U), f, U)
    <3>1. U \in SUBSET S /\ U \notin F
      BY <2>1, <2>2, <2>3
    <3>2. \E g : SumTable(g, f, U)
      BY <3>1
    <3> QED
      BY <3>1, <3>2, FS_Subset
  <2>4. ASSUME NEW U \in SUBSET T, U # T PROVE h[U] = G(U)[U]
    <3>1. IsFiniteSet(U) /\ SumTable(G(U), f, U)
      BY <2>3, <2>4
    <3> DEFINE V == U \ {Pick(U)}
    <3>2. CASE U = {}
      <4>1. h[U] = 0
        BY <3>2
      <4>2. G(U)[U] = 0
        <5> HIDE DEF G
        <5>1. U \in SUBSET U
          OBVIOUS
        <5> QED
          BY <3>1, <3>2, <5>1, TableAt
      <4> QED BY <4>1, <4>2
    <3>3. CASE U # {}
      <4>1. h[U] = f[Pick(U)] + G(V)[V]
        BY <3>3
      <4> HIDE DEF G, h
      <4>2. Pick(U) \in U /\ V \in SUBSET U /\ G(U)[U] = f[Pick(U)] + G(U)[V]
        BY <3>1, <3>3, TableAt
      <4>3. V \in SUBSET T /\ V # T
        BY <4>2
      <4>4. SumTable(G(V), f, V)
        BY <2>3, <4>3
      <4>5. G(U)[V] = G(V)[V]
        BY <3>1, <4>2, <4>4, TableAgree
      <4> QED
        BY <4>1, <4>2, <4>5
    <3> QED
      BY <3>2, <3>3
  <2>5. ASSUME NEW s \in SUBSET T
        PROVE  h[s] = IF s = {} THEN 0 ELSE f[Pick(s)] + h[s \ {Pick(s)}]
    <3> DEFINE V == s \ {Pick(s)}
    <3>1. s # {} => h[s] = f[Pick(s)] + G(V)[V]
      OBVIOUS
    <3>2. s = {} => h[s] = 0
      OBVIOUS
    <3>3. s # {} => V \in SUBSET T /\ V # T
      BY DEF Pick
    <3> HIDE DEF G, h
    <3>4. s # {} => h[V] = G(V)[V]
      BY <3>3, <2>4
    <3> QED
      BY <3>1, <3>2, <3>4
  <2>6. h = [s \in SUBSET T |-> IF s = {} THEN 0 ELSE f[Pick(s)] + h[s \ {Pick(s)}]]
    <3>1. h = [s \in SUBSET T |-> h[s]]
      OBVIOUS
    <3> HIDE DEF h
    <3> QED
      BY <3>1, <2>5
  <2> QED
    BY <2>2, <2>6 DEF SumTable
<1> QED
  BY <1>1

\* The recursion that a sum follows.
LEMMA SumStep ==
    ASSUME NEW f, NEW S, IsFiniteSet(S)
    PROVE  /\ S = {} => SumFunctionOnSet(f, S) = 0
           /\ S # {} => /\ Pick(S) \in S /\ SumFunctionOnSet(f, S) = f[Pick(S)] + SumFunctionOnSet(f, S \ {Pick(S)})
<1> DEFINE G(U) == CHOOSE g : SumTable(g, f, U)
           V == S \ {Pick(S)}
<1>1. IsFiniteSet(V) /\ V \in SUBSET S
  BY FS_Subset
<1>2. SumTable(G(S), f, S) /\ SumTable(G(V), f, V)
  BY <1>1, TableExist
<1>3. SumFunctionOnSet(f, S) = G(S)[S] /\ SumFunctionOnSet(f, V) = G(V)[V]
  BY SumIs
<1> HIDE DEF G
<1>4. G(S)[V] = G(V)[V]
  BY <1>1, <1>2, TableAgree
<1>5. S \in SUBSET S
  OBVIOUS
<1>6. /\ S = {} => G(S)[S] = 0
      /\ S # {} => Pick(S) \in S /\ G(S)[S] = f[Pick(S)] + G(S)[V]
  BY <1>2, <1>5, TableAt
<1> QED
  BY <1>3, <1>4, <1>6

\* Sums of natural numbers are natural numbers.
LEMMA SumNat ==
    ASSUME NEW f, NEW S, IsFiniteSet(S), \A x \in S : f[x] \in Nat
    PROVE  SumFunctionOnSet(f, S) \in Nat
<1> DEFINE F == {s \in SUBSET S : SumFunctionOnSet(f, s) \notin Nat}
<1>1. ASSUME F # {} PROVE FALSE
  <2>1. PICK s \in F : \A r \in F : r \subseteq s => r = s
    <3> HIDE DEF F
    <3>1. F \subseteq SUBSET S
      BY DEF F
    <3> QED
      BY <1>1, <3>1, LeastSet
  <2>2. IsFiniteSet(s) /\ s \in SUBSET S
    BY FS_Subset
  <2>a. s = {} => SumFunctionOnSet(f, s) = 0
    BY <2>2, SumStep
  <2>b. SumFunctionOnSet(f, s) \notin Nat /\ 0 \in Nat
    BY <2>1
  <2>3. s # {}
    BY <2>a, <2>b
  <2>4. Pick(s) \in s /\ SumFunctionOnSet(f, s) = f[Pick(s)] + SumFunctionOnSet(f, s \ {Pick(s)})
    BY <2>2, <2>3, SumStep
  <2>5. s \ {Pick(s)} \notin F
    BY <2>1, <2>4
  <2>6. SumFunctionOnSet(f, s \ {Pick(s)}) \in Nat /\ f[Pick(s)] \in Nat
    BY <2>2, <2>4, <2>5
  <2> QED
    BY <2>1, <2>4, <2>6
<1> QED
  BY <1>1

\* Only the values on the set count.
LEMMA SumSame ==
    ASSUME NEW f, NEW g, NEW S, IsFiniteSet(S), \A x \in S : f[x] = g[x]
    PROVE  SumFunctionOnSet(f, S) = SumFunctionOnSet(g, S)
<1> DEFINE F == {s \in SUBSET S : SumFunctionOnSet(f, s) # SumFunctionOnSet(g, s)}
<1>1. ASSUME F # {} PROVE FALSE
  <2>1. PICK s \in F : \A r \in F : r \subseteq s => r = s
    <3> HIDE DEF F
    <3>1. F \subseteq SUBSET S
      BY DEF F
    <3> QED
      BY <1>1, <3>1, LeastSet
  <2>2. IsFiniteSet(s) /\ s \in SUBSET S
    BY FS_Subset
  <2>3. s # {}
    BY <2>1, <2>2, SumStep
  <2>4. /\ Pick(s) \in s /\ SumFunctionOnSet(f, s) = f[Pick(s)] + SumFunctionOnSet(f, s \ {Pick(s)})
        /\ SumFunctionOnSet(g, s) = g[Pick(s)] + SumFunctionOnSet(g, s \ {Pick(s)})
    BY <2>2, <2>3, SumStep
  <2>5. s \ {Pick(s)} \notin F
    BY <2>1, <2>4
  <2>6. SumFunctionOnSet(f, s \ {Pick(s)}) = SumFunctionOnSet(g, s \ {Pick(s)}) /\ f[Pick(s)] = g[Pick(s)]
    BY <2>2, <2>4, <2>5
  <2> QED
    BY <2>1, <2>4, <2>6
<1> QED
  BY <1>1

\* Any element may be taken out first.
LEMMA SumRemove ==
    ASSUME NEW f, NEW S, IsFiniteSet(S), \A x \in S : f[x] \in Nat, NEW x \in S
    PROVE  SumFunctionOnSet(f, S) = f[x] + SumFunctionOnSet(f, S \ {x})
<1> DEFINE F == {s \in SUBSET S : \E y \in s : SumFunctionOnSet(f, s) # f[y] + SumFunctionOnSet(f, s \ {y})}
<1>1. ASSUME F # {} PROVE FALSE
  <2>1. PICK s \in F : \A r \in F : r \subseteq s => r = s
    <3> HIDE DEF F
    <3>1. F \subseteq SUBSET S
      BY DEF F
    <3> QED
      BY <1>1, <3>1, LeastSet
  <2>2. PICK y \in s : SumFunctionOnSet(f, s) # f[y] + SumFunctionOnSet(f, s \ {y})
    BY <2>1
  <2> DEFINE p == Pick(s)
             u == s \ {p}
             v == s \ {y}
             w == (s \ {p}) \ {y}
  <2>3. IsFiniteSet(s) /\ s \in SUBSET S /\ s # {}
    BY <2>1, <2>2, FS_Subset
  <2>4. p \in s /\ SumFunctionOnSet(f, s) = f[p] + SumFunctionOnSet(f, u)
    BY <2>3, SumStep
  <2>5. p # y
    BY <2>2, <2>4
  <2>6. u \notin F /\ v \notin F /\ u \in SUBSET S /\ v \in SUBSET S /\ y \in u /\ p \in v
    BY <2>1, <2>2, <2>3, <2>4, <2>5
  <2>7. SumFunctionOnSet(f, u) = f[y] + SumFunctionOnSet(f, w)
    BY <2>6
  <2>8. v \ {p} = w
    OBVIOUS
  <2>9. SumFunctionOnSet(f, v) = f[p] + SumFunctionOnSet(f, w)
    BY <2>6, <2>8
  <2>10. IsFiniteSet(w) /\ w \in SUBSET S
    BY <2>3, FS_Subset
  <2>11. SumFunctionOnSet(f, w) \in Nat /\ f[p] \in Nat /\ f[y] \in Nat
    BY <2>2, <2>3, <2>4, <2>10, SumNat
  <2> HIDE DEF p, u, v, w
  <2> QED
    BY <2>2, <2>4, <2>7, <2>9, <2>11 DEF v
<1> QED
  BY <1>1
\* Sums of functions that differ at one point.
LEMMA SumChange ==
    ASSUME NEW f, NEW g, NEW S, IsFiniteSet(S), NEW x \in S,
           \A y \in S : f[y] \in Nat /\ g[y] \in Nat, \A y \in S : y # x => f[y] = g[y]
    PROVE  SumFunctionOnSet(g, S) = SumFunctionOnSet(f, S) - f[x] + g[x]
<1> DEFINE R == S \ {x}
<1>1. IsFiniteSet(R) /\ R \subseteq S
  BY FS_Subset
<1>2. SumFunctionOnSet(f, R) = SumFunctionOnSet(g, R)
  BY <1>1, SumSame
<1>3. SumFunctionOnSet(f, S) = f[x] + SumFunctionOnSet(f, R) /\ SumFunctionOnSet(g, S) = g[x] + SumFunctionOnSet(g, R)
  BY SumRemove
<1>4. SumFunctionOnSet(f, R) \in Nat /\ f[x] \in Nat /\ g[x] \in Nat
  BY <1>1, SumNat
<1> HIDE DEF R
<1> QED
  BY <1>2, <1>3, <1>4

\* The sum of a sum.
LEMMA SumPlus ==
    ASSUME NEW f, NEW g, NEW h, NEW S, IsFiniteSet(S),
           \A x \in S : f[x] \in Nat /\ g[x] \in Nat /\ h[x] = f[x] + g[x]
    PROVE  SumFunctionOnSet(h, S) = SumFunctionOnSet(f, S) + SumFunctionOnSet(g, S)
<1> DEFINE F == {s \in SUBSET S : SumFunctionOnSet(h, s) # SumFunctionOnSet(f, s) + SumFunctionOnSet(g, s)}
<1>1. ASSUME F # {} PROVE FALSE
  <2>1. PICK s \in F : \A r \in F : r \subseteq s => r = s
    <3> HIDE DEF F
    <3>1. F \subseteq SUBSET S
      BY DEF F
    <3> QED
      BY <1>1, <3>1, LeastSet
  <2>2. IsFiniteSet(s) /\ s \in SUBSET S /\ SumFunctionOnSet(h, s) # SumFunctionOnSet(f, s) + SumFunctionOnSet(g, s)
    BY <2>1, FS_Subset
  <2> DEFINE x == Pick(s)
             u == s \ {x}
  <2>3. /\ s = {} => SumFunctionOnSet(f, s) = 0 /\ SumFunctionOnSet(g, s) = 0 /\ SumFunctionOnSet(h, s) = 0
        /\ s # {} => /\ x \in s /\ SumFunctionOnSet(f, s) = f[x] + SumFunctionOnSet(f, u)
                    /\ SumFunctionOnSet(g, s) = g[x] + SumFunctionOnSet(g, u) /\ SumFunctionOnSet(h, s) = h[x] + SumFunctionOnSet(h, u)
    BY <2>2, SumStep
  <2>4. x \in s
    <3> HIDE DEF x, u
    <3> QED
      BY <2>2, <2>3
  <2>5. u \in SUBSET S /\ u \notin F /\ IsFiniteSet(u)
    BY <2>1, <2>2, <2>4, FS_Subset
  <2>6. SumFunctionOnSet(h, u) = SumFunctionOnSet(f, u) + SumFunctionOnSet(g, u)
    BY <2>5
  <2>7. SumFunctionOnSet(f, u) \in Nat /\ SumFunctionOnSet(g, u) \in Nat /\ f[x] \in Nat /\ g[x] \in Nat /\ h[x] = f[x] + g[x]
    BY <2>2, <2>4, <2>5, SumNat
  <2> HIDE DEF x, u, F
  <2> QED
    BY <2>2, <2>3, <2>4, <2>6, <2>7
<1> QED
  BY <1>1

\* What is 0 outside a subset sums up over the subset.
LEMMA SumWithin ==
    ASSUME NEW f, NEW g, NEW S, IsFiniteSet(S), NEW K \in SUBSET S,
           \A x \in K : f[x] \in Nat,
           \A x \in S : g[x] = IF x \in K THEN f[x] ELSE 0
    PROVE  SumFunctionOnSet(g, S) = SumFunctionOnSet(f, K)
<1> DEFINE F == {s \in SUBSET S : SumFunctionOnSet(g, s) # SumFunctionOnSet(f, s \cap K)}
<1>1. ASSUME F # {} PROVE FALSE
  <2>1. PICK s \in F : \A r \in F : r \subseteq s => r = s
    <3> HIDE DEF F
    <3>1. F \subseteq SUBSET S
      BY DEF F
    <3> QED
      BY <1>1, <3>1, LeastSet
  <2>2. IsFiniteSet(s) /\ s \in SUBSET S /\ SumFunctionOnSet(g, s) # SumFunctionOnSet(f, s \cap K)
    BY <2>1, FS_Subset
  <2> DEFINE x == Pick(s)
             u == s \ {x}
  <2>3. /\ s = {} => SumFunctionOnSet(g, s) = 0
        /\ s # {} => x \in s /\ SumFunctionOnSet(g, s) = g[x] + SumFunctionOnSet(g, u)
    BY <2>2, SumStep
  <2>4. CASE s = {}
    <3>1. s \cap K = {}
      BY <2>4
    <3>2. SumFunctionOnSet(f, s \cap K) = 0
      BY <3>1, FS_EmptySet, SumStep
    <3> HIDE DEF x, u
    <3> QED
      BY <2>2, <2>3, <2>4, <3>2
  <2>5. CASE s # {}
    <3>1. u \in SUBSET S /\ u \notin F /\ x \in s
      BY <2>1, <2>2, <2>3, <2>5
    <3>2. SumFunctionOnSet(g, u) = SumFunctionOnSet(f, u \cap K)
      BY <3>1
    <3>3. IsFiniteSet(u \cap K) /\ IsFiniteSet(s \cap K)
      BY <2>2, <3>1, FS_Subset
    <3>4. SumFunctionOnSet(f, u \cap K) \in Nat
      BY <3>3, SumNat
    <3>5. CASE x \in K
      <4>1. (s \cap K) \ {x} = u \cap K /\ x \in s \cap K
        BY <3>1, <3>5
      <4>2. \A y \in s \cap K : f[y] \in Nat
        OBVIOUS
      <4>3. SumFunctionOnSet(f, s \cap K) = f[x] + SumFunctionOnSet(f, u \cap K)
        <5> HIDE DEF x, u
        <5> QED
          BY <3>3, <4>1, <4>2, SumRemove
      <4>4. g[x] = f[x]
        BY <2>2, <3>1, <3>5
      <4> HIDE DEF x, u
      <4> QED
        BY <2>2, <2>3, <2>5, <3>2, <4>3, <4>4
    <3>6. CASE x \notin K
      <4>1. s \cap K = u \cap K
        BY <3>6
      <4>2. g[x] = 0
        BY <2>2, <3>1, <3>6
      <4>3. 0 + SumFunctionOnSet(f, u \cap K) = SumFunctionOnSet(f, u \cap K)
        BY <3>4
      <4>4. SumFunctionOnSet(g, s) = SumFunctionOnSet(f, u \cap K)
        BY <2>3, <2>5, <3>2, <4>2, <4>3
      <4>5. SumFunctionOnSet(f, s \cap K) = SumFunctionOnSet(f, u \cap K)
        BY <4>1
      <4> QED
        BY <2>2, <4>4, <4>5
    <3> QED
      BY <3>5, <3>6
  <2> QED
    BY <2>4, <2>5
<1>2. S \cap K = K
  OBVIOUS
<1> QED
  BY <1>1, <1>2

\* A function with one value other than 0.
LEMMA SumOne ==
    ASSUME NEW g, NEW S, IsFiniteSet(S), NEW p \in S, NEW v \in Nat,
           \A x \in S : g[x] = IF x = p THEN v ELSE 0
    PROVE  SumFunctionOnSet(g, S) = v
<1>1. SumFunctionOnSet(g, S) = g[p] + SumFunctionOnSet(g, S \ {p})
  <2>1. \A x \in S : g[x] \in Nat
    OBVIOUS
  <2> QED
    BY <2>1, SumRemove
<1> DEFINE R == S \ {p}
           z == [x \in R |-> 0]
<1>2. IsFiniteSet(R) /\ R \subseteq S
  BY FS_Subset
<1>3. SumFunctionOnSet(g, R) = 0
  <2>1. {} \in SUBSET R /\ \A x \in {} : z[x] \in Nat
    OBVIOUS
  <2>2. \A x \in R : g[x] = IF x \in {} THEN z[x] ELSE 0
    OBVIOUS
  <2> HIDE DEF R, z
  <2>3. SumFunctionOnSet(g, R) = SumFunctionOnSet(z, {})
    BY <1>2, <2>1, <2>2, SumWithin
  <2> QED
    BY <2>3, FS_EmptySet, SumStep
<1> HIDE DEF R, z
<1> QED
  BY <1>1, <1>3 DEF R

\* No summand exceeds the sum.
LEMMA SumMember ==
    ASSUME NEW f, NEW S, IsFiniteSet(S), \A y \in S : f[y] \in Nat, NEW x \in S
    PROVE  f[x] <= SumFunctionOnSet(f, S)
<1>1. SumFunctionOnSet(f, S) = f[x] + SumFunctionOnSet(f, S \ {x})
  BY SumRemove
<1>2. IsFiniteSet(S \ {x}) /\ \A y \in S \ {x} : f[y] \in Nat
  BY FS_Subset
<1>3. SumFunctionOnSet(f, S \ {x}) \in Nat /\ f[x] \in Nat
  BY <1>2, SumNat
<1> QED
  BY <1>1, <1>3

\* The sum of a function is that over its domain.
LEMMA SumAll ==
    ASSUME NEW f, NEW S, DOMAIN f = S
    PROVE  SumFunction(f) = SumFunctionOnSet(f, S)
  BY DEF SumFunction

----------------------------------------------------------------------------
(* The shape of the store.                                                 *)

TaskFields ==
    {"exists", "manifest", "paused", "stake", "pool", "pending", "paid", "running",
     "migrated", "parts", "subs"}
StoreFields == {"tasks", "senderNonce", "bindings", "proofs", "receipts"}

\* A submission is absent or says which proof it settled, if any.
SubShape(sub) == sub = None \/ "proof" \in DOMAIN sub

TaskShape(task) ==
    /\ DOMAIN task = TaskFields
    /\ DOMAIN task.subs = Rounds \X Wallets
    /\ \A k \in Rounds \X Wallets : SubShape(task.subs[k])

StoreShape(s) ==
    /\ DOMAIN s = StoreFields /\ DOMAIN s.tasks = Tasks
    /\ \A k \in Tasks : TaskShape(s.tasks[k])

\* The submission x of task k settled a proof.
SettledIn(s, k, x) == s.tasks[k].subs[x] # None /\ s.tasks[k].subs[x].proof # None

\* The receipts of settled submissions are on record ...
ReceiptsRecorded(s) ==
    \A k \in Tasks, x \in Rounds \X Wallets :
        SettledIn(s, k, x) => s.tasks[k].subs[x].proof.receipts \subseteq s.receipts

\* ... and those of two are disjoint.
PaidOnce(s) ==
    \A k, l \in Tasks, x, y \in Rounds \X Wallets :
        SettledIn(s, k, x) /\ SettledIn(s, l, y) /\ (k # l \/ x # y)
            => s.tasks[k].subs[x].proof.receipts \cap s.tasks[l].subs[y].proof.receipts = {}

StoreOK(s) == StoreShape(s) /\ ReceiptsRecorded(s) /\ PaidOnce(s)

MarketInv == StoreOK(store) /\ ReplayAgrees

----------------------------------------------------------------------------
(* Changes of one task.                                                    *)

\* The submissions of new settled nothing that those of old had not.
SettlesNothing(old, new) ==
    \A x \in Rounds \X Wallets :
        new.subs[x] # None /\ new.subs[x].proof # None
            => old.subs[x] # None /\ new.subs[x].proof = old.subs[x].proof

\* A task may be replaced by one that has settled no more.
LEMMA PutKeeps ==
    ASSUME NEW s, StoreOK(s), NEW k \in Tasks, NEW new, TaskShape(new),
           SettlesNothing(s.tasks[k], new)
    PROVE  StoreOK([s EXCEPT !.tasks[k] = new])
<1> DEFINE n == [s EXCEPT !.tasks[k] = new]
<1>1. StoreShape(s)
  BY DEF StoreOK
<1>2. /\ DOMAIN n = StoreFields /\ DOMAIN n.tasks = Tasks /\ n.receipts = s.receipts
      /\ n.tasks[k] = new /\ \A l \in Tasks : l # k => n.tasks[l] = s.tasks[l]
  BY <1>1 DEF StoreShape, StoreFields
<1> HIDE DEF n
<1>3. StoreShape(n)
  BY <1>1, <1>2 DEF StoreShape
<1>4. ASSUME NEW l \in Tasks, NEW x \in Rounds \X Wallets, SettledIn(n, l, x)
      PROVE  SettledIn(s, l, x) /\ n.tasks[l].subs[x].proof = s.tasks[l].subs[x].proof
  BY <1>2, <1>4 DEF SettledIn, SettlesNothing
<1>5. ReceiptsRecorded(n)
  BY <1>2, <1>4 DEF StoreOK, ReceiptsRecorded
<1>6. PaidOnce(n)
  <2> SUFFICES ASSUME NEW l1 \in Tasks, NEW l2 \in Tasks,
                      NEW x \in Rounds \X Wallets, NEW y \in Rounds \X Wallets,
                      SettledIn(n, l1, x), SettledIn(n, l2, y), l1 # l2 \/ x # y
               PROVE  n.tasks[l1].subs[x].proof.receipts \cap n.tasks[l2].subs[y].proof.receipts = {}
    BY DEF PaidOnce
  <2>1. SettledIn(s, l1, x) /\ n.tasks[l1].subs[x].proof = s.tasks[l1].subs[x].proof
    BY <1>4
  <2>2. SettledIn(s, l2, y) /\ n.tasks[l2].subs[y].proof = s.tasks[l2].subs[y].proof
    BY <1>4
  <2>3. s.tasks[l1].subs[x].proof.receipts \cap s.tasks[l2].subs[y].proof.receipts = {}
    BY <2>1, <2>2 DEF StoreOK, PaidOnce
  <2> QED
    BY <2>1, <2>2, <2>3
<1> QED
  BY <1>3, <1>5, <1>6 DEF StoreOK, n

\* A change that leaves the submissions alone settles nothing.
LEMMA SameSubs ==
    ASSUME NEW old, NEW new, TaskShape(old), DOMAIN new = TaskFields, new.subs = old.subs
    PROVE  TaskShape(new) /\ SettlesNothing(old, new)
  BY DEF TaskShape, SettlesNothing

\* Starting, stopping, staking, funding and the catalog leave them alone.
LEMMA PlainChanges ==
    ASSUME NEW task, TaskShape(task), NEW w \in Wallets, NEW amount, NEW t
    PROVE  /\ TaskShape([task EXCEPT !.exists = TRUE]) /\ SettlesNothing(task, [task EXCEPT !.exists = TRUE])
           /\ TaskShape(Started(task, w)) /\ SettlesNothing(task, Started(task, w))
           /\ TaskShape(Stopped(task, w)) /\ SettlesNothing(task, Stopped(task, w))
           /\ TaskShape(Staked(task, w, amount)) /\ SettlesNothing(task, Staked(task, w, amount))
           /\ TaskShape(Unstaked(task, w, amount)) /\ SettlesNothing(task, Unstaked(task, w, amount))
           /\ TaskShape([task EXCEPT !.pool = @ + amount]) /\ SettlesNothing(task, [task EXCEPT !.pool = @ + amount])
           /\ TaskShape([task EXCEPT !.migrated = TRUE]) /\ SettlesNothing(task, [task EXCEPT !.migrated = TRUE])
           /\ TaskShape(CatalogApplied(task, t)) /\ SettlesNothing(task, CatalogApplied(task, t))
<1>0. DOMAIN task = TaskFields
  BY DEF TaskShape
<1>1. ASSUME NEW p
      PROVE  DOMAIN WithPart(task, w, p) = TaskFields /\ WithPart(task, w, p).subs = task.subs
  BY <1>0 DEF WithPart, TaskFields
<1>2. DOMAIN [task EXCEPT !.exists = TRUE] = TaskFields /\ [task EXCEPT !.exists = TRUE].subs = task.subs
  BY <1>0 DEF TaskFields
<1>3. DOMAIN Started(task, w) = TaskFields /\ Started(task, w).subs = task.subs
  <2> DEFINE p == [task.parts[w] EXCEPT !.running = TRUE]
             v == WithPart(task, w, p)
  <2>1. DOMAIN v = TaskFields /\ v.subs = task.subs
    BY <1>1
  <2>2. Started(task, w) = [v EXCEPT !.running = IF task.parts[w].running THEN @ ELSE @ + 1]
    BY DEF Started
  <2> HIDE DEF v
  <2> QED
    BY <2>1, <2>2 DEF TaskFields
<1>4. DOMAIN Stopped(task, w) = TaskFields /\ Stopped(task, w).subs = task.subs
  <2> DEFINE p == [task.parts[w] EXCEPT !.running = FALSE]
             v == WithPart(task, w, p)
  <2>1. DOMAIN v = TaskFields /\ v.subs = task.subs
    BY <1>1
  <2>2. Stopped(task, w) = [v EXCEPT !.running = IF task.parts[w].running /\ @ > 0 THEN @ - 1 ELSE @]
    BY DEF Stopped
  <2> HIDE DEF v
  <2> QED
    BY <2>1, <2>2 DEF TaskFields
<1>5. DOMAIN Staked(task, w, amount) = TaskFields /\ Staked(task, w, amount).subs = task.subs
  <2> DEFINE p == [task.parts[w] EXCEPT !.stake = @ + amount]
             v == WithPart(task, w, p)
  <2>1. DOMAIN v = TaskFields /\ v.subs = task.subs
    BY <1>1
  <2>2. Staked(task, w, amount) = [v EXCEPT !.stake = @ + amount]
    BY DEF Staked
  <2> HIDE DEF v
  <2> QED
    BY <2>1, <2>2 DEF TaskFields
<1>6. DOMAIN Unstaked(task, w, amount) = TaskFields /\ Unstaked(task, w, amount).subs = task.subs
  <2> DEFINE delta == IF amount > task.parts[w].stake THEN task.parts[w].stake ELSE amount
             p == [task.parts[w] EXCEPT !.stake = @ - delta]
             v == WithPart(task, w, p)
  <2>1. DOMAIN v = TaskFields /\ v.subs = task.subs
    BY <1>1
  <2>2. Unstaked(task, w, amount) = [v EXCEPT !.stake = NonNeg(@ - delta)]
    BY DEF Unstaked
  <2> HIDE DEF v
  <2> QED
    BY <2>1, <2>2 DEF TaskFields
<1>7. /\ DOMAIN [task EXCEPT !.pool = @ + amount] = TaskFields /\ [task EXCEPT !.pool = @ + amount].subs = task.subs
      /\ DOMAIN [task EXCEPT !.migrated = TRUE] = TaskFields /\ [task EXCEPT !.migrated = TRUE].subs = task.subs
  BY <1>0 DEF TaskFields
<1>8. DOMAIN CatalogApplied(task, t) = TaskFields /\ CatalogApplied(task, t).subs = task.subs
  BY <1>0 DEF CatalogApplied, TaskFields
<1> QED
  BY <1>2, <1>3, <1>4, <1>5, <1>6, <1>7, <1>8, SameSubs

\* One change after the other.
LEMMA SettlesNothingTwice ==
    ASSUME NEW a, NEW b, NEW c, SettlesNothing(a, b), SettlesNothing(b, c)
    PROVE  SettlesNothing(a, c)
  BY DEF SettlesNothing

\* A claim marks submissions as claimed and leaves their proofs.
LEMMA ClaimedKeeps ==
    ASSUME NEW task, TaskShape(task), NEW t, NEW reward
    PROVE  TaskShape(Claimed(task, t, reward)) /\ SettlesNothing(task, Claimed(task, t, reward))
<1> DEFINE subs == [k \in DOMAIN task.subs |-> IF k \in ClaimableKeys(task, t)
                                               THEN [task.subs[k] EXCEPT !.claimed = TRUE] ELSE task.subs[k]]
           n == Claimed(task, t, reward)
<1>0. DOMAIN task = TaskFields /\ DOMAIN task.subs = Rounds \X Wallets
  BY DEF TaskShape
<1>1. DOMAIN n = TaskFields /\ n.subs = subs
  BY <1>0 DEF Claimed, TaskFields
<1>2. ASSUME NEW k \in Rounds \X Wallets
      PROVE  SubShape(subs[k]) /\ (subs[k] # None => task.subs[k] # None /\ subs[k].proof = task.subs[k].proof)
  <2>1. CASE k \in ClaimableKeys(task, t)
    <3>1. task.subs[k] # None /\ subs[k] = [task.subs[k] EXCEPT !.claimed = TRUE]
      BY <1>0, <2>1 DEF ClaimableKeys
    <3>2. "proof" \in DOMAIN task.subs[k]
      BY <3>1 DEF TaskShape, SubShape
    <3> QED
      BY <3>1, <3>2 DEF SubShape
  <2>2. CASE k \notin ClaimableKeys(task, t)
    BY <1>0, <2>2 DEF TaskShape
  <2> QED
    BY <2>1, <2>2
<1>3. DOMAIN subs = Rounds \X Wallets
  BY <1>0
<1> HIDE DEF subs, n
<1> QED
  BY <1>1, <1>2, <1>3 DEF TaskShape, SettlesNothing, n

----------------------------------------------------------------------------
(* Submissions.                                                            *)

\* A submission leaves the other submissions of its task alone.
LEMMA SubmittedTask ==
    ASSUME NEW task, TaskShape(task), NEW t, NEW old, NEW key \in Rounds \X Wallets, NEW sub
    PROVE  LET new == [Rewarded(Replaced(task, t, old), t) EXCEPT !.exists = TRUE, !.subs[key] = sub]
           IN  /\ DOMAIN new = TaskFields /\ DOMAIN new.subs = Rounds \X Wallets
               /\ new.subs[key] = sub
               /\ \A x \in Rounds \X Wallets : x # key => new.subs[x] = task.subs[x]
<1> DEFINE a == Replaced(task, t, old)
           b == Rewarded(a, t)
<1>0. DOMAIN task = TaskFields /\ DOMAIN task.subs = Rounds \X Wallets
  BY DEF TaskShape
<1>1. DOMAIN a = TaskFields /\ a.subs = task.subs
  BY <1>0 DEF Replaced, TaskFields
<1> HIDE DEF a
<1>2. DOMAIN b = TaskFields /\ b.subs = a.subs
  BY <1>1 DEF Rewarded, TaskFields
<1> HIDE DEF b
<1>3. LET new == [b EXCEPT !.exists = TRUE, !.subs[key] = sub]
      IN  /\ DOMAIN new = TaskFields /\ DOMAIN new.subs = Rounds \X Wallets
          /\ new.subs[key] = sub
          /\ \A x \in Rounds \X Wallets : x # key => new.subs[x] = task.subs[x]
  BY <1>0, <1>1, <1>2 DEF TaskFields
<1> QED
  BY <1>3 DEF a, b

\* A settlement is accepted for a round without a submission and for receipts
\* that are not on record (PooledAccepts), so it
\* keeps the receipts of settled submissions apart.
LEMMA SubmittedKeeps ==
    ASSUME NEW s, StoreOK(s), NEW t, NEW h, t.task \in Tasks, t.sender \in Wallets,
           t.round \in Rounds, SubmitAccepts(s, t, h)
    PROVE  StoreOK(Submitted(s, t))
<1> DEFINE key == <<t.round, t.sender>>
           sub == [value |-> t.value, reward |-> t.reward, claimed |-> Settles(t),
                   proof |-> IF Settles(t) THEN t.proof ELSE None]
           new == [Rewarded(Replaced(Task(s, t), t, Returned(s, t)), t)
                       EXCEPT !.exists = TRUE, !.subs[key] = sub]
           kept == [s EXCEPT !.tasks[t.task] = new]
<1>0. StoreShape(s) /\ key \in Rounds \X Wallets
  BY DEF StoreOK
<1>1. TaskShape(Task(s, t)) /\ Task(s, t) = s.tasks[t.task]
  BY <1>0 DEF StoreShape, Task
<1>2. /\ DOMAIN new = TaskFields /\ DOMAIN new.subs = Rounds \X Wallets
      /\ new.subs[key] = sub
      /\ \A x \in Rounds \X Wallets : x # key => new.subs[x] = Task(s, t).subs[x]
  BY <1>0, <1>1, SubmittedTask
<1>3. /\ "proof" \in DOMAIN sub
      /\ sub.proof = IF Settles(t) THEN t.proof ELSE None
  OBVIOUS
<1>4. Submitted(s, t) = IF ReplayedSubmit(s, t) THEN s
                        ELSE IF ~Settles(t) THEN kept
                        ELSE [kept EXCEPT !.bindings[t.proof.relay] =
                                              IF @ = None THEN Binding(t.proof) ELSE @,
                                          !.proofs = @ \cup {t.proof.id},
                                          !.receipts = @ \cup t.proof.receipts]
  BY DEF Submitted, Untouched
<1> HIDE DEF sub, new
<1>5. TaskShape(new)
  BY <1>1, <1>2, <1>3 DEF TaskShape, SubShape
<1>6. CASE ReplayedSubmit(s, t)
  BY <1>4, <1>6
<1>7. CASE ~ReplayedSubmit(s, t) /\ ~Settles(t)
  <2>1. SettlesNothing(s.tasks[t.task], new)
    BY <1>1, <1>2, <1>3, <1>7 DEF SettlesNothing
  <2> HIDE DEF kept
  <2>2. Submitted(s, t) = kept
    BY <1>4, <1>7
  <2> QED
    BY <1>5, <2>1, <2>2, PutKeeps DEF kept
<1>8. CASE ~ReplayedSubmit(s, t) /\ Settles(t)
  <2> DEFINE n == Submitted(s, t)
  <2>1. /\ DOMAIN kept = StoreFields /\ DOMAIN kept.tasks = Tasks /\ kept.receipts = s.receipts
        /\ kept.tasks[t.task] = new
        /\ \A l \in Tasks : l # t.task => kept.tasks[l] = s.tasks[l]
    BY <1>0 DEF StoreShape, StoreFields
  <2> HIDE DEF kept
  <2>2. DOMAIN n = StoreFields /\ n.tasks = kept.tasks /\ n.receipts = s.receipts \cup t.proof.receipts
    BY <1>4, <1>8, <2>1 DEF StoreFields
  <2> HIDE DEF n
  <2>3. StoreShape(n)
    BY <1>0, <1>5, <2>1, <2>2 DEF StoreShape
  <2>4. t.proof.receipts \cap s.receipts = {}
    BY <1>8 DEF SubmitAccepts, PolicyAccepts, PooledAccepts, Consumed
  <2>5. n.tasks[t.task].subs[key].proof = t.proof
    BY <1>2, <1>3, <1>8, <2>1, <2>2
  <2>6. ASSUME NEW l \in Tasks, NEW x \in Rounds \X Wallets, SettledIn(n, l, x),
               l # t.task \/ x # key
        PROVE  SettledIn(s, l, x) /\ n.tasks[l].subs[x] = s.tasks[l].subs[x]
    BY <1>1, <1>2, <2>1, <2>2, <2>6 DEF SettledIn
  <2>7. ASSUME NEW l \in Tasks, NEW x \in Rounds \X Wallets, SettledIn(n, l, x),
               l # t.task \/ x # key
        PROVE  n.tasks[l].subs[x].proof.receipts \subseteq s.receipts
    <3>1. SettledIn(s, l, x) /\ n.tasks[l].subs[x] = s.tasks[l].subs[x]
      BY <2>6, <2>7
    <3> QED
      BY <3>1 DEF StoreOK, ReceiptsRecorded
  <2>8. ReceiptsRecorded(n)
    <3> SUFFICES ASSUME NEW l \in Tasks, NEW x \in Rounds \X Wallets, SettledIn(n, l, x)
                 PROVE  n.tasks[l].subs[x].proof.receipts \subseteq n.receipts
      BY DEF ReceiptsRecorded
    <3>1. CASE l = t.task /\ x = key
      BY <2>2, <2>5, <3>1
    <3>2. CASE l # t.task \/ x # key
      BY <2>2, <2>7, <3>2
    <3> QED
      BY <3>1, <3>2
  <2>9. PaidOnce(n)
    <3> SUFFICES ASSUME NEW l1 \in Tasks, NEW l2 \in Tasks,
                        NEW x \in Rounds \X Wallets, NEW y \in Rounds \X Wallets,
                        SettledIn(n, l1, x), SettledIn(n, l2, y), l1 # l2 \/ x # y
                 PROVE  n.tasks[l1].subs[x].proof.receipts \cap n.tasks[l2].subs[y].proof.receipts = {}
      BY DEF PaidOnce
    <3>1. CASE l1 = t.task /\ x = key
      <4>1. n.tasks[l2].subs[y].proof.receipts \subseteq s.receipts
        BY <2>7, <3>1
      <4> QED
        BY <2>4, <2>5, <3>1, <4>1
    <3>2. CASE l2 = t.task /\ y = key
      <4>1. n.tasks[l1].subs[x].proof.receipts \subseteq s.receipts
        BY <2>7, <3>2
      <4> QED
        BY <2>4, <2>5, <3>2, <4>1
    <3>3. CASE (l1 # t.task \/ x # key) /\ (l2 # t.task \/ y # key)
      <4>1. SettledIn(s, l1, x) /\ n.tasks[l1].subs[x] = s.tasks[l1].subs[x]
        BY <2>6, <3>3
      <4>2. SettledIn(s, l2, y) /\ n.tasks[l2].subs[y] = s.tasks[l2].subs[y]
        BY <2>6, <3>3
      <4>3. s.tasks[l1].subs[x].proof.receipts \cap s.tasks[l2].subs[y].proof.receipts = {}
        BY <4>1, <4>2 DEF StoreOK, PaidOnce
      <4> QED
        BY <4>1, <4>2, <4>3
    <3> QED
      BY <3>1, <3>2, <3>3
  <2> QED
    BY <2>3, <2>8, <2>9 DEF StoreOK, n
<1> QED
  BY <1>6, <1>7, <1>8

----------------------------------------------------------------------------
(* Transactions.                                                           *)

\* A transaction of a wallet for a task; a submission names a round, and its
\* reward, value and proof are ones that decoding lets through.
WellFormed(t) ==
    /\ t.task \in Tasks /\ t.sender \in Wallets /\ t.amount \in Nat
    /\ t.action = "submit" =>
          /\ t.round \in Rounds /\ t.reward \in Rewards
          /\ t.value \in Values \cup {p.receipts : p \in PoolProofs}
          /\ t.proof \in PoolProofs \cup {None}

\* Every accepted action keeps the store in order.
LEMMA AppliedKeeps ==
    ASSUME NEW s, StoreOK(s), NEW t, WellFormed(t), NEW h, Accepts(s, t, h)
    PROVE  StoreOK(Applied(s, t))
<1> DEFINE old == Task(s, t)
           task == [old EXCEPT !.exists = TRUE]
           c == Changed(s, t)
<1>0. /\ t.task \in Tasks /\ t.sender \in Wallets /\ old = s.tasks[t.task] /\ TaskShape(old)
      /\ t.action = "submit" => t.round \in Rounds
  BY DEF WellFormed, StoreOK, StoreShape, Task
<1> HIDE DEF old
<1>1. TaskShape(task) /\ SettlesNothing(old, task)
  BY <1>0, PlainChanges
<1>2. ASSUME NEW new, TaskShape(new), SettlesNothing(old, new)
      PROVE  StoreOK([s EXCEPT !.tasks[t.task] = new])
  BY <1>0, <1>2, PutKeeps
<1> HIDE DEF task
<1>3. ASSUME NEW new, TaskShape(new), SettlesNothing(task, new)
      PROVE  StoreOK([s EXCEPT !.tasks[t.task] = new])
  <2>1. SettlesNothing(old, new)
    BY <1>1, <1>3, SettlesNothingTwice
  <2> QED
    BY <1>2, <1>3, <2>1
<1>4. StoreOK(c)
  <2> DEFINE put(new) == [s EXCEPT !.tasks[t.task] = new]
  <2>0. c = CASE t.action \in CatalogActions -> put(CatalogApplied(old, t))
          [] t.action = "start"   -> put(Started(task, t.sender))
          [] t.action = "stop"    -> put(Stopped(task, t.sender))
          [] t.action = "stake"   -> put(Staked(task, t.sender, t.amount))
          [] t.action = "fund"    -> put([task EXCEPT !.pool = @ + t.amount])
          [] t.action = "unstake" -> put(Unstaked(task, t.sender, t.amount))
          [] t.action = "submit"  -> Submitted(s, t)
          [] t.action = "claim"   -> put(Claimed(task, t, ClaimableReward(s, t)))
          [] OTHER                -> put([task EXCEPT !.migrated = TRUE])
    BY DEF Changed, task, old
  <2>1. StoreOK(put(CatalogApplied(old, t)))
    <3>1. TaskShape(CatalogApplied(old, t)) /\ SettlesNothing(old, CatalogApplied(old, t))
      BY <1>0, PlainChanges
    <3> QED
      BY <1>2, <3>1
  <2>2. /\ TaskShape(Started(task, t.sender)) /\ SettlesNothing(task, Started(task, t.sender))
        /\ TaskShape(Stopped(task, t.sender)) /\ SettlesNothing(task, Stopped(task, t.sender))
        /\ TaskShape(Staked(task, t.sender, t.amount)) /\ SettlesNothing(task, Staked(task, t.sender, t.amount))
        /\ TaskShape(Unstaked(task, t.sender, t.amount)) /\ SettlesNothing(task, Unstaked(task, t.sender, t.amount))
        /\ TaskShape([task EXCEPT !.pool = @ + t.amount]) /\ SettlesNothing(task, [task EXCEPT !.pool = @ + t.amount])
        /\ TaskShape([task EXCEPT !.migrated = TRUE]) /\ SettlesNothing(task, [task EXCEPT !.migrated = TRUE])
    BY <1>0, <1>1, PlainChanges
  <2>3. StoreOK(put(Started(task, t.sender))) /\ StoreOK(put(Stopped(task, t.sender)))
    BY <1>3, <2>2
  <2>4. /\ StoreOK(put(Staked(task, t.sender, t.amount)))
        /\ StoreOK(put(Unstaked(task, t.sender, t.amount)))
    BY <1>3, <2>2
  <2>5. /\ StoreOK(put([task EXCEPT !.pool = @ + t.amount]))
        /\ StoreOK(put([task EXCEPT !.migrated = TRUE]))
    BY <1>3, <2>2
  <2>6. t.action = "submit" => StoreOK(Submitted(s, t))
    BY <1>0, SubmittedKeeps DEF Accepts
  <2>7. StoreOK(put(Claimed(task, t, ClaimableReward(s, t))))
    <3> DEFINE r == ClaimableReward(s, t)
    <3> HIDE DEF r
    <3>1. TaskShape(Claimed(task, t, r)) /\ SettlesNothing(task, Claimed(task, t, r))
      BY <1>1, ClaimedKeeps
    <3>2. StoreOK(put(Claimed(task, t, r)))
      BY <1>3, <3>1
    <3> QED
      BY <3>2 DEF r
  <2> HIDE DEF c, put
  <2> QED
    BY <2>0, <2>1, <2>3, <2>4, <2>5, <2>6, <2>7
<1> HIDE DEF c
<1>5. /\ Applied(s, t) = [c EXCEPT !.senderNonce[t.sender] = IF t.nonce > 0 THEN t.nonce ELSE @]
      /\ DOMAIN c = StoreFields
  BY <1>4 DEF Applied, c, StoreOK, StoreShape
<1>6. /\ DOMAIN Applied(s, t) = StoreFields /\ Applied(s, t).tasks = c.tasks
      /\ Applied(s, t).receipts = c.receipts
  BY <1>5 DEF StoreFields
<1> QED
  BY <1>4, <1>6 DEF StoreOK, StoreShape, ReceiptsRecorded, PaidOnce, SettledIn

\* A transaction keeps the invariant: a refused one is undone, and a committed
\* one is accepted in replay because the store it meets there is the same.
LEMMA TxKeeps ==
    ASSUME MarketInv, NEW t, WellFormed(t), ApplyEconomicTx(t)
    PROVE  MarketInv'
<1>1. CASE Commit(t)
  <2>1. Accepts(store, t, Height) /\ store' = Applied(store, t) /\ rebuilt' = Replay(t)
    BY <1>1 DEF Commit
  <2>2. store # NoStore
    <3>1. DOMAIN store # DOMAIN NoStore
      BY DEF MarketInv, StoreOK, StoreShape, StoreFields, NoStore
    <3> QED
      BY <3>1
  <2>3. rebuilt = store
    BY DEF MarketInv, ReplayAgrees
  <2>4. rebuilt' = store'
    BY <2>1, <2>2, <2>3 DEF Replay
  <2> DEFINE h == Height
  <2> HIDE DEF h
  <2>5. StoreOK(store) /\ Accepts(store, t, h)
    BY <2>1 DEF MarketInv, h
  <2>6. StoreOK(Applied(store, t))
    BY <2>5, AppliedKeeps
  <2>7. StoreOK(store')
    BY <2>1, <2>6
  <2> QED
    BY <2>4, <2>7 DEF MarketInv, ReplayAgrees
<1>2. CASE Refuse(t)
  BY <1>2 DEF Refuse, Restore, MarketInv, ReplayAgrees
<1> QED
  BY <1>1, <1>2 DEF ApplyEconomicTx

\* The transactions of the actions are well formed.
LEMMA Transactions ==
    ASSUME NEW w \in Wallets, NEW k \in Tasks, NEW action
    PROVE  /\ action # "submit" => WellFormed(Tx(action, w, k))
           /\ \A m : action # "submit" => WellFormed([Tx(action, w, k) EXCEPT !.manifest = m])
           /\ \A x \in Amounts : action # "submit" => WellFormed([Tx(action, w, k) EXCEPT !.amount = x])
           /\ \A r : action # "submit" => WellFormed([Tx(action, w, k) EXCEPT !.round = r])
           /\ \A r \in Rounds, x \in Rewards, v \in Values :
                WellFormed([Tx(action, w, k) EXCEPT !.round = r, !.reward = x, !.value = v])
           /\ \A r \in Rounds, x \in Rewards, p \in PoolProofs : \A slot :
                WellFormed([Tx(action, w, k) EXCEPT !.round = r, !.reward = x, !.slot = slot,
                                                    !.value = p.receipts, !.proof = p])
<1>1. Amounts \subseteq Nat
  BY TaskAssumption DEF TaskAssumption
<1> QED
  BY <1>1 DEF Tx, WellFormed

\* The empty store is in order.
LEMMA InitInv == Init => MarketInv
<1> SUFFICES ASSUME Init
             PROVE  MarketInv
  OBVIOUS
<1>1. TaskShape(NewTask(FALSE)) /\ \A x \in Rounds \X Wallets : NewTask(FALSE).subs[x] = None
  BY DEF TaskShape, TaskFields, NewTask, SubShape
<1>2. /\ DOMAIN store = StoreFields /\ DOMAIN store.tasks = Tasks
      /\ \A k \in Tasks : store.tasks[k] = NewTask(FALSE)
  BY DEF Init, NewTaskStateStore, StoreFields
<1>3. StoreOK(store)
  BY <1>1, <1>2 DEF StoreOK, StoreShape, ReceiptsRecorded, PaidOnce, SettledIn
<1> QED
  BY <1>3 DEF Init, MarketInv, ReplayAgrees

\* A step of the market is a transaction or a new height.
LEMMA Steps ==
    ASSUME Next
    PROVE  (\E t : WellFormed(t) /\ ApplyEconomicTx(t)) \/ SealBlock
<1>1. ASSUME NEW w \in Wallets, NEW k \in Tasks,
             \/ Register(w, k) \/ Update(w, k) \/ Pause(w, k) \/ Resume(w, k)
             \/ Start(w, k) \/ Stop(w, k) \/ Migrate(w, k)
             \/ Stake(w, k) \/ Fund(w, k) \/ Unstake(w, k)
             \/ Submit(w, k) \/ Settle(w, k) \/ Claim(w, k)
      PROVE  \E t : WellFormed(t) /\ ApplyEconomicTx(t)
  <2>1. CASE Register(w, k)
    <3>1. PICK m \in Manifests :
            ApplyEconomicTx([Tx("catalog-register", w, k) EXCEPT !.manifest = Manifest(w, 1, m)])
      BY <2>1 DEF Register
    <3> QED
      BY <3>1, Transactions
  <2>2. CASE Update(w, k)
    <3>1. PICK m \in Manifests, v \in Versions :
            ApplyEconomicTx([Tx("catalog-update", w, k) EXCEPT !.manifest = Manifest(w, v, m)])
      BY <2>2 DEF Update
    <3> QED
      BY <3>1, Transactions
  <2>3. CASE Pause(w, k) \/ Resume(w, k) \/ Start(w, k) \/ Stop(w, k) \/ Migrate(w, k)
    BY <2>3, Transactions DEF Pause, Resume, Start, Stop, Migrate
  <2>4. CASE Stake(w, k) \/ Fund(w, k) \/ Unstake(w, k)
    BY <2>4, Transactions DEF Stake, Fund, Unstake
  <2>5. CASE Submit(w, k)
    BY <2>5, Transactions DEF Submit
  <2>6. CASE Settle(w, k)
    BY <2>6, Transactions DEF Settle
  <2>7. CASE Claim(w, k)
    BY <2>7, Transactions DEF Claim
  <2> QED
    BY <1>1, <2>1, <2>2, <2>3, <2>4, <2>5, <2>6, <2>7
<1> QED
  BY <1>1 DEF Next

\* Every step keeps the store in order.
LEMMA NextInv == MarketInv /\ [Next]_vars => MarketInv'
<1> SUFFICES ASSUME MarketInv, [Next]_vars
             PROVE  MarketInv'
  OBVIOUS
<1>1. ASSUME NEW t, WellFormed(t), ApplyEconomicTx(t)
      PROVE  MarketInv'
  BY <1>1, TxKeeps
<1>2. CASE SealBlock \/ UNCHANGED vars
  BY <1>2 DEF SealBlock, vars, MarketInv, ReplayAgrees
<1> QED
  BY <1>1, <1>2, Steps

\* The inductive invariant holds: the store is in order, and the one rebuilt
\* from the blocks is the same.
THEOREM MarketCorrect == Spec => []MarketInv
  BY InitInv, NextInv, PTL DEF Spec

\* A node that boots and replays its blocks has the task store of the node
\* that made them (replayTaskStateFromBlocks): a refused transaction leaves no
\* trace and a committed one is never refused in replay.
THEOREM ReplayCorrect == Spec => []ReplayAgrees
<1>1. MarketInv => ReplayAgrees
  BY DEF MarketInv
<1> QED
  BY <1>1, MarketCorrect, PTL

\* A receipt of a relay is paid for once in the whole market
\* (settledPooledReceipts), for any pool proofs, overlapping ones included.
THEOREM PaidOnceCorrect == Spec => []ReceiptPaidOnce
<1>1. MarketInv => ReceiptPaidOnce
  <2> SUFFICES ASSUME MarketInv, NEW x \in Settled, NEW y \in Settled, x # y
               PROVE  SettledProof(x).receipts \cap SettledProof(y).receipts = {}
    BY DEF ReceiptPaidOnce
  <2>1. /\ x \in Tasks \X Rounds \X Wallets /\ y \in Tasks \X Rounds \X Wallets
        /\ SettledIn(store, x[1], <<x[2], x[3]>>) /\ SettledIn(store, y[1], <<y[2], y[3]>>)
    BY DEF Settled, SettledIn
  <2>2. x[1] # y[1] \/ <<x[2], x[3]>> # <<y[2], y[3]>>
    BY <2>1
  <2>3. x[1] \in Tasks /\ y[1] \in Tasks /\ <<x[2], x[3]>> \in Rounds \X Wallets
        /\ <<y[2], y[3]>> \in Rounds \X Wallets
    BY <2>1
  <2> QED
    BY <2>1, <2>2, <2>3 DEF MarketInv, StoreOK, PaidOnce, SettledProof
<1> QED
  BY <1>1, MarketCorrect, PTL

----------------------------------------------------------------------------
(* The amounts of one task.                                                *)

\* The task has its types and its totals agree with its parts.
TaskSound(task) == DOMAIN task = TaskFields /\ TaskOK(task) /\ Totals(task)

\* The constants that amounts and sums depend on.
LEMMA Finite ==
    /\ IsFiniteSet(Wallets) /\ IsFiniteSet(Tasks) /\ IsFiniteSet(Payees)
    /\ \A w : IsFiniteSet(Rounds \X {w})
    /\ Rewards \subseteq Nat /\ Amounts \subseteq Nat /\ Fee \in Nat
<1>1. /\ IsFiniteSet(Wallets) /\ IsFiniteSet(Tasks) /\ IsFiniteSet(Rounds)
      /\ Rewards \subseteq Nat /\ Amounts \subseteq Nat /\ Fee \in Nat
  BY TaskAssumption DEF TaskAssumption
<1>2. IsFiniteSet(Payees)
  BY <1>1, FS_AddElement DEF Payees
<1>3. \A w : IsFiniteSet({w})
  BY FS_Singleton
<1>4. \A w : IsFiniteSet(Rounds \X {w})
  BY <1>1, <1>3, FS_Product
<1> QED
  BY <1>1, <1>2, <1>4

One(b) == IF b THEN 1 ELSE 0
Running(parts) == {v \in Wallets : parts[v].running}

Stakes(parts) == [v \in Wallets |-> parts[v].stake]
Pendings(parts) == [v \in Wallets |-> parts[v].pending]

\* A change of one participant, and the totals.
LEMMA PartChange ==
    ASSUME NEW parts \in [Wallets -> Participant], NEW w \in Wallets, NEW p \in Participant,
           NEW new \in [Wallets -> Participant], new[w] = p,
           \A v \in Wallets : v # w => new[v] = parts[v]
    PROVE      /\ SumFunction(Stakes(new))
                    = SumFunction(Stakes(parts)) - parts[w].stake + p.stake
               /\ SumFunction(Pendings(new))
                    = SumFunction(Pendings(parts)) - parts[w].pending + p.pending
               /\ Cardinality(Running(new)) = Cardinality(Running(parts)) - One(parts[w].running) + One(p.running)
               /\ parts[w].running => Cardinality(Running(parts)) > 0
               /\ Cardinality(Running(parts)) \in Nat
               /\ parts[w].pending <= SumFunction(Pendings(parts))
               /\ parts[w].stake <= SumFunction(Stakes(parts))
<1> DEFINE f == Stakes(parts)
           g == Stakes(new)
           fp == Pendings(parts)
           gp == Pendings(new)
           A == Running(parts)
           B == Running(new)
<1>2. \A v \in Wallets : /\ parts[v].stake \in Nat /\ new[v].stake \in Nat
                         /\ parts[v].pending \in Nat /\ new[v].pending \in Nat
                         /\ parts[v].running \in BOOLEAN /\ new[v].running \in BOOLEAN
  BY DEF Participant
<1>3. /\ DOMAIN f = Wallets /\ DOMAIN g = Wallets /\ DOMAIN fp = Wallets /\ DOMAIN gp = Wallets
      /\ \A v \in Wallets : /\ f[v] \in Nat /\ g[v] \in Nat /\ fp[v] \in Nat /\ gp[v] \in Nat
                            /\ v # w => f[v] = g[v] /\ fp[v] = gp[v]
      /\ f[w] = parts[w].stake /\ g[w] = p.stake /\ fp[w] = parts[w].pending /\ gp[w] = p.pending
  BY <1>2 DEF Stakes, Pendings
<1>a. DOMAIN f = Wallets /\ DOMAIN g = Wallets /\ DOMAIN fp = Wallets /\ DOMAIN gp = Wallets
  BY <1>3
<1> HIDE DEF f, g, fp, gp
<1>4. SumFunctionOnSet(g, Wallets) = SumFunctionOnSet(f, Wallets) - f[w] + g[w]
  BY <1>3, Finite, SumChange
<1>5. SumFunctionOnSet(gp, Wallets) = SumFunctionOnSet(fp, Wallets) - fp[w] + gp[w]
  BY <1>3, Finite, SumChange
<1>6. /\ SumFunction(f) = SumFunctionOnSet(f, Wallets) /\ SumFunction(g) = SumFunctionOnSet(g, Wallets)
      /\ SumFunction(fp) = SumFunctionOnSet(fp, Wallets) /\ SumFunction(gp) = SumFunctionOnSet(gp, Wallets)
  BY <1>a, SumAll
<1>7. f[w] <= SumFunctionOnSet(f, Wallets) /\ fp[w] <= SumFunctionOnSet(fp, Wallets)
  BY <1>3, Finite, SumMember
<1>8. IsFiniteSet(A) /\ Cardinality(A) \in Nat
  BY Finite, FS_Subset, FS_CardinalityType DEF Running
<1>9. parts[w].running => Cardinality(A) > 0
  <2> SUFFICES ASSUME parts[w].running PROVE Cardinality(A) > 0
    OBVIOUS
  <2>1. w \in A
    BY DEF Running
  <2>2. Cardinality(A) # 0
    BY <1>8, <2>1, FS_EmptySet
  <2> QED
    BY <1>8, <2>2
<1>10. Cardinality(B) = Cardinality(A) - One(parts[w].running) + One(p.running)
  <2>1. CASE p.running /\ ~parts[w].running
    <3>1. B = A \cup {w} /\ w \notin A
      BY <2>1 DEF Running
    <3>2. Cardinality(A \cup {w}) = Cardinality(A) + 1
      BY <1>8, <3>1, FS_AddElement
    <3> HIDE DEF A, B
    <3> QED
      BY <1>8, <2>1, <3>1, <3>2 DEF One
  <2>2. CASE ~p.running /\ parts[w].running
    <3>1. B = A \ {w} /\ w \in A
      BY <2>2 DEF Running
    <3>2. Cardinality(A \ {w}) = Cardinality(A) - 1
      BY <1>8, <3>1, FS_RemoveElement
    <3> HIDE DEF A, B
    <3> QED
      BY <1>8, <2>2, <3>1, <3>2 DEF One
  <2>3. CASE p.running <=> parts[w].running
    <3>1. B = A
      BY <2>3 DEF Running
    <3> HIDE DEF A, B
    <3> QED
      BY <1>8, <2>3, <3>1 DEF One
  <2> QED
    BY <2>1, <2>2, <2>3
<1> HIDE DEF A, B
<1>11. /\ SumFunction(g) = SumFunction(f) - parts[w].stake + p.stake
       /\ SumFunction(gp) = SumFunction(fp) - parts[w].pending + p.pending
       /\ parts[w].stake <= SumFunction(f) /\ parts[w].pending <= SumFunction(fp)
  BY <1>3, <1>4, <1>5, <1>6, <1>7
<1> QED
  BY <1>8, <1>9, <1>10, <1>11 DEF f, g, fp, gp, A, B

\* A task of which one participant changes, and the totals with it.
LEMMA PartPut ==
    ASSUME NEW task, TaskSound(task), NEW new, NEW w \in Wallets, NEW p \in Participant,
           new.parts \in [Wallets -> Participant], new.parts[w] = p,
           \A v \in Wallets : v # w => new.parts[v] = task.parts[v],
           p.pending = SumFunctionOnSet(Promised(new), Rounds \X {w}),
           \A v \in Wallets : v # w => SumFunctionOnSet(Promised(new), Rounds \X {v})
                                         = SumFunctionOnSet(Promised(task), Rounds \X {v}),
           new.stake = task.stake - task.parts[w].stake + p.stake,
           new.pending = task.pending - task.parts[w].pending + p.pending,
           new.running = task.running - One(task.parts[w].running) + One(p.running)
    PROVE  Totals(new)
<1> DEFINE parts == task.parts
           q == new.parts
<1>1. parts \in [Wallets -> Participant]
  BY DEF TaskSound, TaskOK
<1>2. q \in [Wallets -> Participant] /\ q[w] = p /\ \A v \in Wallets : v # w => q[v] = parts[v]
  OBVIOUS
<1> HIDE DEF q, parts
<1>3. /\ SumFunction(Stakes(q))
            = SumFunction(Stakes(parts)) - parts[w].stake + p.stake
      /\ SumFunction(Pendings(q))
            = SumFunction(Pendings(parts)) - parts[w].pending + p.pending
      /\ Cardinality(Running(q))
            = Cardinality(Running(parts)) - One(parts[w].running) + One(p.running)
  BY <1>1, <1>2, PartChange
<1>4. /\ task.stake = SumFunction(Stakes(parts))
      /\ task.pending = SumFunction(Pendings(parts))
      /\ task.running = Cardinality(Running(parts))
      /\ \A v \in Wallets : parts[v].pending = SumFunctionOnSet(Promised(task), Rounds \X {v})
  BY DEF TaskSound, Totals, Running, Stakes, Pendings, parts
<1>5. \A v \in Wallets : q[v].pending = SumFunctionOnSet(Promised(new), Rounds \X {v})
  BY <1>2, <1>4
<1>6. /\ new.stake = SumFunction(Stakes(q))
      /\ new.pending = SumFunction(Pendings(q))
      /\ new.running = Cardinality(Running(q))
  BY <1>3, <1>4 DEF parts
<1> QED
  BY <1>1, <1>5, <1>6 DEF Totals, Running, Stakes, Pendings, q

\* Facts about a sound task and a wallet.
LEMMA SoundFacts ==
    ASSUME NEW task, TaskSound(task), NEW w \in Wallets
    PROVE  /\ DOMAIN task = TaskFields /\ task.parts \in [Wallets -> Participant]
           /\ task.parts[w] \in Participant
           /\ task.parts[w].stake \in Nat /\ task.parts[w].pending \in Nat /\ task.parts[w].claimed \in Nat
           /\ task.parts[w].running \in BOOLEAN
           /\ task.stake \in Nat /\ task.pool \in Nat /\ task.pending \in Nat /\ task.paid \in Nat
           /\ task.running \in Nat
           /\ task.parts[w].stake <= task.stake /\ task.parts[w].pending <= task.pending
           /\ task.parts[w].running => task.running > 0
           /\ task.parts[w].pending = SumFunctionOnSet(Promised(task), Rounds \X {w})
<1>1. /\ DOMAIN task = TaskFields /\ task.parts \in [Wallets -> Participant]
      /\ task.stake \in Nat /\ task.pool \in Nat /\ task.pending \in Nat /\ task.paid \in Nat
      /\ task.running \in Nat
  BY DEF TaskSound, TaskOK
<1>2. /\ task.parts[w] \in Participant
      /\ task.parts[w].stake \in Nat /\ task.parts[w].pending \in Nat /\ task.parts[w].claimed \in Nat
      /\ task.parts[w].running \in BOOLEAN
  BY <1>1 DEF Participant
<1>3. /\ task.stake = SumFunction(Stakes(task.parts))
      /\ task.pending = SumFunction(Pendings(task.parts))
      /\ task.running = Cardinality(Running(task.parts))
      /\ task.parts[w].pending = SumFunctionOnSet(Promised(task), Rounds \X {w})
  BY DEF TaskSound, Totals, Running, Stakes, Pendings
<1>4. /\ task.parts[w].running => Cardinality(Running(task.parts)) > 0
      /\ task.parts[w].pending <= SumFunction(Pendings(task.parts))
      /\ task.parts[w].stake <= SumFunction(Stakes(task.parts))
  BY <1>1, <1>2, PartChange
<1> QED
  BY <1>1, <1>2, <1>3, <1>4

\* The submissions stay, and so does what they promise.
LEMMA SamePromises ==
    ASSUME NEW task, NEW new, new.subs = task.subs
    PROVE  Promised(new) = Promised(task)
  BY DEF Promised

\* Changes of the catalog, of the pool and of flags.
LEMMA PlainSound ==
    ASSUME NEW task, TaskSound(task), NEW new, DOMAIN new = TaskFields,
           new.exists \in BOOLEAN, new.paused \in BOOLEAN, new.migrated \in BOOLEAN,
           new.pool \in Nat, new.stake = task.stake, new.pending = task.pending,
           new.paid = task.paid, new.running = task.running, new.parts = task.parts,
           new.subs = task.subs
    PROVE  TaskSound(new) /\ Worth(new) = Worth(task) - task.pool + new.pool
<1>1. Promised(new) = Promised(task)
  BY SamePromises
<1>2. Totals(new)
  BY <1>1 DEF TaskSound, Totals
<1>3. TaskOK(new)
  BY DEF TaskSound, TaskOK
<1>4. Worth(new) = Worth(task) - task.pool + new.pool
  BY DEF TaskSound, TaskOK, Worth
<1> QED
  BY <1>2, <1>3, <1>4 DEF TaskSound

\* In the task new participant w is p, and but for the totals of stakes and
\* running participants all else is as in task.
OnlyPart(task, new, w, p) ==
    /\ DOMAIN new = TaskFields /\ new.parts = [task.parts EXCEPT ![w] = p] /\ new.subs = task.subs
    /\ new.exists = TRUE /\ new.paused = task.paused /\ new.migrated = task.migrated
    /\ new.pool = task.pool /\ new.paid = task.paid /\ new.pending = task.pending

\* A participant changes and the submissions stay.
LEMMA PartSound ==
    ASSUME NEW task, TaskSound(task), NEW new, NEW w \in Wallets, NEW p \in Participant,
           OnlyPart(task, new, w, p), p.pending = task.parts[w].pending,
           new.stake = task.stake - task.parts[w].stake + p.stake,
           new.running = task.running - One(task.parts[w].running) + One(p.running)
    PROVE  TaskSound(new) /\ Worth(new) = Worth(task) - task.parts[w].stake + p.stake
<1>1. Promised(new) = Promised(task)
  BY SamePromises DEF OnlyPart
<1>2. /\ task.parts \in [Wallets -> Participant]
      /\ task.parts[w].stake \in Nat /\ task.parts[w].pending \in Nat
      /\ task.stake \in Nat /\ task.pool \in Nat /\ task.pending \in Nat
      /\ task.running \in Nat /\ task.parts[w].stake <= task.stake
      /\ task.parts[w].running => task.running > 0
      /\ task.parts[w].pending = SumFunctionOnSet(Promised(task), Rounds \X {w})
  BY SoundFacts
<1>3. p.pending = SumFunctionOnSet(Promised(new), Rounds \X {w})
  BY <1>1, <1>2
<1>4. new.pending = task.pending - task.parts[w].pending + p.pending
  BY <1>2 DEF OnlyPart
<1>q. /\ new.parts \in [Wallets -> Participant] /\ new.parts[w] = p
      /\ \A v \in Wallets : v # w => new.parts[v] = task.parts[v]
  BY <1>2 DEF OnlyPart
<1>5. Totals(new)
  BY <1>1, <1>3, <1>4, <1>q, PartPut
<1>6. p.stake \in Nat /\ p.running \in BOOLEAN
  BY DEF Participant
<1>7. new.stake \in Nat /\ new.running \in Nat
  BY <1>2, <1>6 DEF One
<1>8. new.parts \in [Wallets -> Participant]
  BY <1>2 DEF OnlyPart
<1>a. /\ task.paused \in BOOLEAN /\ task.migrated \in BOOLEAN /\ task.paid \in Nat
      /\ task.subs \in [Rounds \X Wallets -> Submission \cup {None}]
  BY DEF TaskSound, TaskOK
<1>b. /\ new.exists \in BOOLEAN /\ new.paused \in BOOLEAN /\ new.migrated \in BOOLEAN
      /\ new.pool \in Nat /\ new.pending \in Nat /\ new.paid \in Nat
      /\ new.subs \in [Rounds \X Wallets -> Submission \cup {None}]
  BY <1>2, <1>a DEF OnlyPart
<1>9. TaskOK(new)
  BY <1>7, <1>8, <1>b DEF TaskOK
<1>10. Worth(new) = Worth(task) - task.parts[w].stake + p.stake
  BY <1>2, <1>6 DEF Worth, OnlyPart
<1> QED
  BY <1>5, <1>9, <1>10 DEF TaskSound, OnlyPart

\* Starting, stopping, staking and unstaking.
LEMMA PartOps ==
    ASSUME NEW task, TaskSound(task), NEW w \in Wallets, NEW x \in Nat
    PROVE  /\ TaskSound(Started(task, w)) /\ Worth(Started(task, w)) = Worth(task)
           /\ TaskSound(Stopped(task, w)) /\ Worth(Stopped(task, w)) = Worth(task)
           /\ TaskSound(Staked(task, w, x)) /\ Worth(Staked(task, w, x)) = Worth(task) + x
           /\ TaskSound(Unstaked(task, w, x))
           /\ x <= task.parts[w].stake => Worth(Unstaked(task, w, x)) = Worth(task) - x
<1>0. /\ DOMAIN task = TaskFields /\ task.parts \in [Wallets -> Participant]
      /\ task.parts[w] \in Participant
      /\ task.parts[w].stake \in Nat /\ task.parts[w].running \in BOOLEAN
      /\ task.stake \in Nat /\ task.running \in Nat /\ task.parts[w].stake <= task.stake
      /\ task.parts[w].running => task.running > 0
  BY SoundFacts
<1>w. Worth(task) \in Nat
  BY DEF TaskSound, TaskOK, Worth
<1>1. ASSUME NEW p
      PROVE  LET v == WithPart(task, w, p) IN
             /\ OnlyPart(task, v, w, p) /\ v.stake = task.stake /\ v.running = task.running
  BY <1>0 DEF WithPart, OnlyPart, TaskFields
<1>2. TaskSound(Started(task, w)) /\ Worth(Started(task, w)) = Worth(task)
  <2> DEFINE p == [task.parts[w] EXCEPT !.running = TRUE]
             v == WithPart(task, w, p)
             n == Started(task, w)
  <2>1. n = [v EXCEPT !.running = IF task.parts[w].running THEN @ ELSE @ + 1]
    BY DEF Started
  <2>2. p \in Participant /\ p.pending = task.parts[w].pending /\ p.stake = task.parts[w].stake /\ p.running = TRUE
    BY <1>0 DEF Participant
  <2> HIDE DEF p
  <2>3. /\ OnlyPart(task, v, w, p) /\ v.stake = task.stake /\ v.running = task.running
    BY <1>1
  <2> HIDE DEF v, n
  <2>4. /\ OnlyPart(task, n, w, p) /\ n.stake = task.stake
        /\ n.running = IF task.parts[w].running THEN task.running ELSE task.running + 1
    BY <2>1, <2>3 DEF OnlyPart, TaskFields
  <2>5. /\ n.running = task.running - One(task.parts[w].running) + One(p.running)
        /\ n.stake = task.stake - task.parts[w].stake + p.stake
    BY <1>0, <2>2, <2>4 DEF One
  <2>6. TaskSound(n) /\ Worth(n) = Worth(task) - task.parts[w].stake + p.stake
    BY <2>2, <2>4, <2>5, PartSound
  <2> QED
    BY <1>0, <1>w, <2>2, <2>6 DEF n
<1>3. TaskSound(Stopped(task, w)) /\ Worth(Stopped(task, w)) = Worth(task)
  <2> DEFINE p == [task.parts[w] EXCEPT !.running = FALSE]
             v == WithPart(task, w, p)
             n == Stopped(task, w)
  <2>1. n = [v EXCEPT !.running = IF task.parts[w].running /\ @ > 0 THEN @ - 1 ELSE @]
    BY DEF Stopped
  <2>2. p \in Participant /\ p.pending = task.parts[w].pending /\ p.stake = task.parts[w].stake /\ p.running = FALSE
    BY <1>0 DEF Participant
  <2> HIDE DEF p
  <2>3. /\ OnlyPart(task, v, w, p) /\ v.stake = task.stake /\ v.running = task.running
    BY <1>1
  <2> HIDE DEF v, n
  <2>4. /\ OnlyPart(task, n, w, p) /\ n.stake = task.stake
        /\ n.running = IF task.parts[w].running /\ task.running > 0 THEN task.running - 1 ELSE task.running
    BY <2>1, <2>3 DEF OnlyPart, TaskFields
  <2>5. /\ n.running = task.running - One(task.parts[w].running) + One(p.running)
        /\ n.stake = task.stake - task.parts[w].stake + p.stake
    BY <1>0, <2>2, <2>4 DEF One
  <2>6. TaskSound(n) /\ Worth(n) = Worth(task) - task.parts[w].stake + p.stake
    BY <2>2, <2>4, <2>5, PartSound
  <2> QED
    BY <1>0, <1>w, <2>2, <2>6 DEF n
<1>4. TaskSound(Staked(task, w, x)) /\ Worth(Staked(task, w, x)) = Worth(task) + x
  <2> DEFINE p == [task.parts[w] EXCEPT !.stake = @ + x]
             v == WithPart(task, w, p)
             n == Staked(task, w, x)
  <2>1. n = [v EXCEPT !.stake = @ + x]
    BY DEF Staked
  <2>2. /\ p \in Participant /\ p.pending = task.parts[w].pending
        /\ p.stake = task.parts[w].stake + x /\ p.running = task.parts[w].running
    BY <1>0 DEF Participant
  <2> HIDE DEF p
  <2>3. /\ OnlyPart(task, v, w, p) /\ v.stake = task.stake /\ v.running = task.running
    BY <1>1
  <2> HIDE DEF v, n
  <2>4. /\ OnlyPart(task, n, w, p) /\ n.stake = task.stake + x /\ n.running = task.running
    BY <2>1, <2>3 DEF OnlyPart, TaskFields
  <2>5. /\ n.running = task.running - One(task.parts[w].running) + One(p.running)
        /\ n.stake = task.stake - task.parts[w].stake + p.stake
    BY <1>0, <2>2, <2>4 DEF One
  <2>6. TaskSound(n) /\ Worth(n) = Worth(task) - task.parts[w].stake + p.stake
    BY <2>2, <2>4, <2>5, PartSound
  <2> QED
    BY <1>0, <1>w, <2>2, <2>6 DEF n
<1>5. /\ TaskSound(Unstaked(task, w, x))
      /\ x <= task.parts[w].stake => Worth(Unstaked(task, w, x)) = Worth(task) - x
  <2> DEFINE delta == IF x > task.parts[w].stake THEN task.parts[w].stake ELSE x
             p == [task.parts[w] EXCEPT !.stake = @ - delta]
             v == WithPart(task, w, p)
             n == Unstaked(task, w, x)
  <2>1. n = [v EXCEPT !.stake = NonNeg(@ - delta)]
    BY DEF Unstaked
  <2>d. delta \in Nat /\ delta <= task.parts[w].stake /\ (x <= task.parts[w].stake => delta = x)
    BY <1>0
  <2> HIDE DEF delta
  <2>2. /\ p \in Participant /\ p.pending = task.parts[w].pending
        /\ p.stake = task.parts[w].stake - delta /\ p.running = task.parts[w].running
    BY <1>0, <2>d DEF Participant
  <2> HIDE DEF p
  <2>3. /\ OnlyPart(task, v, w, p) /\ v.stake = task.stake /\ v.running = task.running
    BY <1>1
  <2> HIDE DEF v, n
  <2>4. /\ OnlyPart(task, n, w, p) /\ n.stake = NonNeg(task.stake - delta) /\ n.running = task.running
    BY <2>1, <2>3 DEF OnlyPart, TaskFields
  <2>5. /\ n.running = task.running - One(task.parts[w].running) + One(p.running)
        /\ n.stake = task.stake - task.parts[w].stake + p.stake
    BY <1>0, <2>d, <2>2, <2>4 DEF One, NonNeg
  <2>6. TaskSound(n) /\ Worth(n) = Worth(task) - task.parts[w].stake + p.stake
    BY <2>2, <2>4, <2>5, PartSound
  <2> QED
    BY <1>0, <1>w, <2>d, <2>2, <2>6 DEF n
<1> QED
  BY <1>2, <1>3, <1>4, <1>5

\* What a sound task promises.
LEMMA PromisedFacts ==
    ASSUME NEW task, task.subs \in [Rounds \X Wallets -> Submission \cup {None}]
    PROVE  /\ DOMAIN Promised(task) = Rounds \X Wallets
           /\ \A k \in Rounds \X Wallets :
                 /\ Promised(task)[k] \in Nat
                 /\ Promised(task)[k] = IF task.subs[k] # None /\ ~task.subs[k].claimed
                                        THEN task.subs[k].reward ELSE 0
<1>1. Rewards \subseteq Nat
  BY Finite
<1>2. \A k \in Rounds \X Wallets : task.subs[k] # None => task.subs[k].reward \in Nat
  BY <1>1 DEF Submission
<1> QED
  BY <1>2 DEF Promised

\* In the task new the submissions of w differ from those in task, and
\* participant w, now p, with them.
SubsChange(task, new, w, p) ==
    /\ DOMAIN new = TaskFields
    /\ new.parts \in [Wallets -> Participant] /\ new.parts[w] = p
    /\ \A v \in Wallets : v # w => new.parts[v] = task.parts[v]
    /\ new.subs \in [Rounds \X Wallets -> Submission \cup {None}]
    /\ p.stake = task.parts[w].stake /\ p.running = task.parts[w].running
    /\ p.pending = SumFunctionOnSet(Promised(new), Rounds \X {w})
    /\ \A v \in Wallets : v # w => SumFunctionOnSet(Promised(new), Rounds \X {v})
                                     = SumFunctionOnSet(Promised(task), Rounds \X {v})
    /\ new.exists = TRUE /\ new.paused = task.paused /\ new.migrated = task.migrated
    /\ new.pool \in Nat /\ new.paid \in Nat /\ new.stake = task.stake /\ new.running = task.running
    /\ new.pending = task.pending - task.parts[w].pending + p.pending

\* Then the totals still agree.
LEMMA SubsSound ==
    ASSUME NEW task, TaskSound(task), NEW new, NEW w \in Wallets, NEW p \in Participant,
           SubsChange(task, new, w, p)
    PROVE  /\ TaskSound(new)
           /\ Worth(new) = Worth(task) - task.pool + new.pool - task.parts[w].pending + p.pending
<1>1. /\ task.parts[w].stake \in Nat /\ task.parts[w].pending \in Nat /\ task.parts[w].running \in BOOLEAN
      /\ task.stake \in Nat /\ task.pool \in Nat /\ task.pending \in Nat
      /\ task.running \in Nat /\ task.parts[w].pending <= task.pending
  BY SoundFacts
<1>2. /\ task.paused \in BOOLEAN /\ task.migrated \in BOOLEAN
  BY DEF TaskSound, TaskOK
<1>3. p.pending \in Nat
  BY DEF Participant
<1>4. new.pending \in Nat
  BY <1>1, <1>3 DEF SubsChange
<1>5. /\ new.stake = task.stake - task.parts[w].stake + p.stake
      /\ new.running = task.running - One(task.parts[w].running) + One(p.running)
  BY <1>1 DEF One, SubsChange
<1>6. Totals(new)
  BY <1>5, PartPut DEF SubsChange
<1>7. TaskOK(new)
  BY <1>1, <1>2, <1>4 DEF TaskOK, SubsChange
<1>8. Worth(new) = Worth(task) - task.pool + new.pool - task.parts[w].pending + p.pending
  BY <1>1, <1>3 DEF Worth, SubsChange
<1> QED
  BY <1>6, <1>7, <1>8 DEF TaskSound, SubsChange

\* What the claimable submissions of a task are worth.
ClaimSum(task, t) == SumFunction([k \in ClaimableKeys(task, t) |-> task.subs[k].reward])

\* A claim takes from what is pending what the submissions had promised.
LEMMA ClaimSound ==
    ASSUME NEW task, TaskSound(task), NEW t, t.sender \in Wallets, task.exists = TRUE
    PROVE  /\ TaskSound(Claimed(task, t, ClaimSum(task, t)))
           /\ ClaimSum(task, t) \in Nat
           /\ Worth(Claimed(task, t, ClaimSum(task, t))) = Worth(task) - ClaimSum(task, t)
<1> DEFINE w == t.sender
           x == ClaimSum(task, t)
           n == Claimed(task, t, x)
           K == ClaimableKeys(task, t)
           S == Rounds \X {w}
           f == Promised(task)
           g == Promised(n)
           z == [k \in K |-> task.subs[k].reward]
           h == [k \in S |-> IF k \in K THEN z[k] ELSE 0]
           p == [task.parts[w] EXCEPT !.pending = NonNeg(@ - x), !.claimed = @ + x]
<1>0. w \in Wallets /\ IsFiniteSet(S) /\ S \subseteq Rounds \X Wallets
  BY Finite
<1>1. /\ DOMAIN task = TaskFields /\ task.parts \in [Wallets -> Participant]
      /\ task.parts[w] \in Participant
      /\ task.parts[w].stake \in Nat /\ task.parts[w].pending \in Nat /\ task.parts[w].claimed \in Nat
      /\ task.parts[w].running \in BOOLEAN
      /\ task.pending \in Nat /\ task.paid \in Nat /\ task.pool \in Nat
      /\ task.parts[w].pending <= task.pending
      /\ task.parts[w].pending = SumFunctionOnSet(f, S)
  BY <1>0, SoundFacts
<1>2. task.subs \in [Rounds \X Wallets -> Submission \cup {None}] /\ None \notin Submission
  BY TaskAssumption DEF TaskSound, TaskOK, TaskAssumption
<1>3. /\ K \in SUBSET S
      /\ \A k \in K : task.subs[k] \in Submission /\ task.subs[k] # None /\ ~task.subs[k].claimed
  <2>1. K \in SUBSET S
    BY DEF ClaimableKeys
  <2>2. \A k \in K : task.subs[k] # None /\ ~task.subs[k].claimed
    BY DEF ClaimableKeys
  <2> QED
    BY <1>0, <1>2, <2>1, <2>2
<1>4. \A k \in Rounds \X Wallets :
         /\ f[k] \in Nat
         /\ f[k] = IF task.subs[k] # None /\ ~task.subs[k].claimed THEN task.subs[k].reward ELSE 0
  BY <1>2, PromisedFacts
<1>5. /\ DOMAIN n = TaskFields
      /\ n.subs = [k \in Rounds \X Wallets |-> IF k \in K THEN [task.subs[k] EXCEPT !.claimed = TRUE]
                                               ELSE task.subs[k]]
      /\ n.parts = [task.parts EXCEPT ![w] = p]
      /\ n.pending = NonNeg(task.pending - x) /\ n.paid = task.paid + x
      /\ n.exists = TRUE /\ n.paused = task.paused /\ n.migrated = task.migrated
      /\ n.pool = task.pool /\ n.stake = task.stake /\ n.running = task.running
  <2> HIDE DEF K, x
  <2>1. DOMAIN task.subs = Rounds \X Wallets
    BY <1>2
  <2>2. n = [task EXCEPT !.subs = [k \in DOMAIN @ |-> IF k \in K THEN [@[k] EXCEPT !.claimed = TRUE] ELSE @[k]],
                 !.parts[w].pending = NonNeg(@ - x),
                 !.parts[w].claimed = @ + x,
                 !.pending = NonNeg(@ - x),
                 !.paid = @ + x]
    BY DEF Claimed, K
  <2>3. p = [[task.parts[w] EXCEPT !.pending = NonNeg(@ - x)] EXCEPT !.claimed = @ + x]
    BY <1>1 DEF Participant
  <2>4. n.parts = [[task.parts EXCEPT ![w].pending = NonNeg(@ - x)] EXCEPT ![w].claimed = @ + x]
    BY <1>1, <2>2 DEF TaskFields
  <2>5. n.parts = [task.parts EXCEPT ![w] = p]
    BY <1>0, <1>1, <2>3, <2>4
  <2> HIDE DEF p
  <2> QED
    BY <1>1, <2>1, <2>2, <2>5 DEF TaskFields
<1> HIDE DEF n, K, f, g, z, h, S, x
<1>6. ASSUME NEW k \in K
      PROVE  [task.subs[k] EXCEPT !.claimed = TRUE] \in Submission /\ [task.subs[k] EXCEPT !.claimed = TRUE].claimed = TRUE
  BY <1>3 DEF Submission
<1>7. n.subs \in [Rounds \X Wallets -> Submission \cup {None}]
  BY <1>2, <1>5, <1>6
<1>8. \A k \in Rounds \X Wallets : g[k] \in Nat /\ g[k] = IF k \in K THEN 0 ELSE f[k]
  <2>1. \A k \in Rounds \X Wallets :
         /\ g[k] \in Nat
         /\ g[k] = IF n.subs[k] # None /\ ~n.subs[k].claimed THEN n.subs[k].reward ELSE 0
    BY <1>7, PromisedFacts DEF g
  <2> QED
    BY <2>1, <1>4, <1>5, <1>6
<1>9. \A k \in K : z[k] = f[k] /\ z[k] \in Nat
  <2>1. \A k \in K : z[k] = task.subs[k].reward
    BY DEF z
  <2> QED
    BY <1>0, <1>3, <1>4, <2>1
<1>10. \A k \in S : h[k] = IF k \in K THEN z[k] ELSE 0
  BY DEF h
<1>11. SumFunctionOnSet(f, S) = SumFunctionOnSet(g, S) + SumFunctionOnSet(h, S)
  <2>1. \A k \in S : g[k] \in Nat /\ h[k] \in Nat /\ f[k] = g[k] + h[k]
    BY <1>0, <1>4, <1>8, <1>9, <1>10
  <2> QED
    BY <1>0, <2>1, SumPlus
<1>12. SumFunctionOnSet(h, S) = SumFunctionOnSet(z, K)
  BY <1>0, <1>3, <1>9, <1>10, SumWithin
<1>13. x = SumFunctionOnSet(z, K)
  <2>1. DOMAIN z = K
    BY DEF z
  <2>2. x = SumFunction(z)
    BY DEF x, ClaimSum, z, K
  <2> QED
    BY <2>1, <2>2, SumAll
<1>14. SumFunctionOnSet(g, S) \in Nat /\ SumFunctionOnSet(h, S) \in Nat
  <2>1. \A k \in S : g[k] \in Nat /\ h[k] \in Nat
    BY <1>0, <1>8, <1>9, <1>10
  <2> QED
    BY <1>0, <2>1, SumNat
<1>15. /\ x \in Nat /\ x <= task.parts[w].pending
       /\ task.parts[w].pending - x = SumFunctionOnSet(g, S)
  BY <1>1, <1>11, <1>12, <1>13, <1>14
<1>16. /\ NonNeg(task.parts[w].pending - x) = task.parts[w].pending - x
       /\ NonNeg(task.pending - x) = task.pending - x
  BY <1>1, <1>15 DEF NonNeg
<1>17. /\ p \in Participant /\ p.stake = task.parts[w].stake /\ p.running = task.parts[w].running
       /\ p.pending = task.parts[w].pending - x
  <2> DEFINE a == NonNeg(task.parts[w].pending - x)
             b == task.parts[w].claimed + x
  <2>1. a \in Nat /\ b \in Nat /\ a = task.parts[w].pending - x
    BY <1>1, <1>15, <1>16
  <2>2. p = [task.parts[w] EXCEPT !.pending = a, !.claimed = b]
    OBVIOUS
  <2> HIDE DEF a, b, p
  <2> QED
    BY <1>1, <2>1, <2>2 DEF Participant
<1> HIDE DEF p
<1>18. ASSUME NEW v \in Wallets, v # w
       PROVE  SumFunctionOnSet(g, Rounds \X {v}) = SumFunctionOnSet(f, Rounds \X {v})
  <2>1. \A k \in Rounds \X {v} : k \in Rounds \X Wallets /\ k \notin K
    BY <1>3, <1>18 DEF S
  <2>2. \A k \in Rounds \X {v} : g[k] = f[k]
    BY <1>8, <2>1
  <2>3. IsFiniteSet(Rounds \X {v})
    BY Finite
  <2> QED
    BY <2>2, <2>3, SumSame
<1>19. /\ n.parts \in [Wallets -> Participant] /\ n.parts[w] = p
       /\ \A v \in Wallets : v # w => n.parts[v] = task.parts[v]
  BY <1>0, <1>1, <1>5, <1>17
<1>20. n.pending = task.pending - task.parts[w].pending + p.pending /\ n.paid \in Nat
  BY <1>1, <1>5, <1>15, <1>16, <1>17
<1>21. /\ p.pending = SumFunctionOnSet(Promised(n), Rounds \X {w})
       /\ \A v \in Wallets : v # w => SumFunctionOnSet(Promised(n), Rounds \X {v})
                                         = SumFunctionOnSet(Promised(task), Rounds \X {v})
  BY <1>15, <1>17, <1>18 DEF g, f, S
<1>22. /\ TaskSound(n)
       /\ Worth(n) = Worth(task) - task.pool + n.pool - task.parts[w].pending + p.pending
  <2>1. SubsChange(task, n, w, p)
    BY <1>1, <1>5, <1>7, <1>17, <1>19, <1>20, <1>21 DEF SubsChange
  <2> QED
    BY <1>0, <1>17, <2>1, SubsSound
<1>23. Worth(task) \in Nat
  BY DEF TaskSound, TaskOK, Worth
<1>24. Worth(n) = Worth(task) - x
  BY <1>1, <1>5, <1>15, <1>17, <1>22, <1>23
<1> QED
  BY <1>15, <1>22, <1>24 DEF n, x

\* The three parts of a settlement add up to it.
LEMMA SplitSum ==
    ASSUME NEW r \in Nat
    PROVE  LET split == SplitPooledSettlementReward(r) IN
           /\ split.contributor \in Nat /\ split.mother \in Nat /\ split.ecosystem \in Nat
           /\ split.contributor + split.mother + split.ecosystem = r
<1> DEFINE c == (r * 70) \div 100
           m == (r * 15) \div 100
<1>1. c \in Nat /\ m \in Nat /\ c + m <= r
  OBVIOUS
<1> HIDE DEF c, m
<1>2. SplitPooledSettlementReward(r) = [contributor |-> c, mother |-> m, ecosystem |-> r - c - m]
  BY DEF SplitPooledSettlementReward, c, m
<1> QED
  BY <1>1, <1>2

\* The shares of the payees add up to the reward.
LEMMA ShareSum ==
    ASSUME NEW t, t.reward \in Nat, t.proof \in PoolProofs
    PROVE  /\ \A w : SettlementShare(t, w) \in Nat
           /\ SumFunctionOnSet([w \in Payees |-> SettlementShare(t, w)], Payees) = t.reward
<1> DEFINE split == SplitPooledSettlementReward(t.reward)
           c == split.contributor
           m == split.mother
           e == split.ecosystem
           only(payee, x) == [w \in Payees |-> IF w = payee THEN x ELSE 0]
           f == only(t.proof.contributor, c)
           g == only(t.proof.mother, m)
           h == only(Ecosystem, e)
           fg == [w \in Payees |-> f[w] + g[w]]
           all == [w \in Payees |-> SettlementShare(t, w)]
<1>1. c \in Nat /\ m \in Nat /\ e \in Nat /\ c + m + e = t.reward
  BY SplitSum
<1>2. /\ t.proof.contributor \in Payees /\ t.proof.mother \in Payees /\ Ecosystem \in Payees
      /\ IsFiniteSet(Payees)
  BY TaskAssumption, Finite DEF TaskAssumption, Payees
<1>a. \A w : SettlementShare(t, w) = (IF t.proof.contributor = w THEN c ELSE 0)
                                     + (IF t.proof.mother = w THEN m ELSE 0)
                                     + (IF Ecosystem = w THEN e ELSE 0)
  BY DEF SettlementShare
<1> HIDE DEF split, c, m, e
<1>3. \A w : SettlementShare(t, w) \in Nat
  BY <1>1, <1>a
<1>4. /\ \A w \in Payees : f[w] = IF w = t.proof.contributor THEN c ELSE 0
      /\ \A w \in Payees : g[w] = IF w = t.proof.mother THEN m ELSE 0
      /\ \A w \in Payees : h[w] = IF w = Ecosystem THEN e ELSE 0
  OBVIOUS
<1> HIDE DEF f, g, h
<1>5. \A w \in Payees : /\ f[w] \in Nat /\ g[w] \in Nat /\ h[w] \in Nat
                        /\ fg[w] = f[w] + g[w] /\ fg[w] \in Nat
                        /\ all[w] = fg[w] + h[w]
  BY <1>1, <1>4, <1>a
<1> HIDE DEF fg, all
<1>6. /\ SumFunctionOnSet(f, Payees) = c
      /\ SumFunctionOnSet(g, Payees) = m
      /\ SumFunctionOnSet(h, Payees) = e
  <2>1. SumFunctionOnSet(f, Payees) = c
    BY <1>1, <1>2, <1>4, SumOne
  <2>2. SumFunctionOnSet(g, Payees) = m
    BY <1>1, <1>2, <1>4, SumOne
  <2>3. SumFunctionOnSet(h, Payees) = e
    BY <1>1, <1>2, <1>4, SumOne
  <2> QED
    BY <2>1, <2>2, <2>3
<1>7. SumFunctionOnSet(fg, Payees) = SumFunctionOnSet(f, Payees) + SumFunctionOnSet(g, Payees)
  BY <1>2, <1>5, SumPlus
<1>8. SumFunctionOnSet(all, Payees) = SumFunctionOnSet(fg, Payees) + SumFunctionOnSet(h, Payees)
  BY <1>2, <1>5, SumPlus
<1>9. SumFunctionOnSet(all, Payees) = t.reward
  BY <1>1, <1>6, <1>7, <1>8
<1> QED
  BY <1>3, <1>9 DEF all

\* The task a submission leaves.
WithSub(task, t, old, sub) ==
    [Rewarded(Replaced(task, t, old), t) EXCEPT !.exists = TRUE, !.subs[<<t.round, t.sender>>] = sub]

\* ... and what the participant is then.
SubPart(part, t, old) ==
    IF Settles(t)
    THEN [part EXCEPT !.pending = part.pending - old, !.claimed = part.claimed + SettlementShare(t, t.sender)]
    ELSE [part EXCEPT !.pending = part.pending - old + t.reward]

\* The fields of the task n, which t has left.
SubFieldsOf(task, n, t, old, sub) ==
    /\ DOMAIN n = TaskFields
    /\ n.parts = [task.parts EXCEPT ![t.sender] = SubPart(task.parts[t.sender], t, old)]
    /\ n.subs = [task.subs EXCEPT ![<<t.round, t.sender>>] = sub]
    /\ n.exists = TRUE /\ n.paused = task.paused /\ n.migrated = task.migrated
    /\ n.pool = task.pool + old - t.reward /\ n.stake = task.stake /\ n.running = task.running
    /\ n.pending = task.pending - old + IF Settles(t) THEN 0 ELSE t.reward
    /\ n.paid = task.paid + IF Settles(t) THEN t.reward ELSE 0

\* An accepted submission leaves these, when the totals hold the amount old.
LEMMA SubFields ==
    ASSUME NEW task, TaskSound(task), NEW t, t.sender \in Wallets, t.round \in Rounds,
           t.reward \in Nat, NEW old \in Nat, old <= task.parts[t.sender].pending,
           task.pool + old >= t.reward, NEW sub
    PROVE  SubFieldsOf(task, WithSub(task, t, old, sub), t, old, sub)
<1> DEFINE w == t.sender
           part == task.parts[w]
           a == Replaced(task, t, old)
           b == Rewarded(a, t)
           n == WithSub(task, t, old, sub)
           share == SettlementShare(t, w)
           x == t.reward
<1>1. /\ DOMAIN task = TaskFields /\ task.parts \in [Wallets -> Participant]
      /\ part \in Participant /\ part.pending \in Nat /\ part.claimed \in Nat
      /\ task.pending \in Nat /\ task.paid \in Nat /\ task.pool \in Nat
      /\ part.pending <= task.pending
  BY SoundFacts
<1>2. NonNeg(task.pending - old) = task.pending - old /\ NonNeg(part.pending - old) = part.pending - old
  BY <1>1 DEF NonNeg
<1>3. NonNeg((task.pool + old) - x) = task.pool + old - x
  BY <1>1 DEF NonNeg
<1> DEFINE q == [part EXCEPT !.pending = part.pending - old]
<1>4. a = [task EXCEPT !.pool = @ + old, !.pending = NonNeg(@ - old), !.parts[w].pending = NonNeg(@ - old)]
  BY DEF Replaced
<1>5. a.parts = [task.parts EXCEPT ![w] = q]
  <2>1. a.parts = [task.parts EXCEPT ![w].pending = NonNeg(@ - old)]
    BY <1>1, <1>4 DEF TaskFields
  <2> QED
    BY <1>1, <1>2, <2>1
<1>6. /\ DOMAIN a = TaskFields /\ a.subs = task.subs /\ a.paused = task.paused
      /\ a.migrated = task.migrated /\ a.stake = task.stake /\ a.running = task.running
      /\ a.paid = task.paid /\ a.pool = task.pool + old /\ a.pending = task.pending - old
  BY <1>1, <1>2, <1>4 DEF TaskFields
<1>7. q \in [{"running", "stake", "pending", "claimed"} -> BOOLEAN \cup Int] /\ q.pending = part.pending - old /\ q.claimed = part.claimed
  BY <1>1 DEF Participant
<1>8. a.parts[w] = q /\ w \in DOMAIN a.parts
  BY <1>1, <1>5
<1> HIDE DEF a
<1> DEFINE p == IF Settles(t) THEN [part EXCEPT !.pending = part.pending - old, !.claimed = part.claimed + share]
                ELSE [part EXCEPT !.pending = part.pending - old + x]
<1>9. /\ DOMAIN b = TaskFields /\ b.subs = task.subs /\ b.paused = task.paused
      /\ b.migrated = task.migrated /\ b.stake = task.stake /\ b.running = task.running
      /\ b.pool = task.pool + old - x
      /\ b.pending = task.pending - old + IF Settles(t) THEN 0 ELSE x
      /\ b.paid = task.paid + IF Settles(t) THEN x ELSE 0
      /\ b.parts = [task.parts EXCEPT ![w] = p]
  <2>1. CASE Settles(t)
    <3>1. b = [a EXCEPT !.pool = NonNeg(@ - x), !.paid = @ + x, !.parts[w].claimed = @ + share]
      BY <2>1 DEF Rewarded
    <3>2. b.parts = [a.parts EXCEPT ![w] = [q EXCEPT !.claimed = @ + share]]
      <4>1. b.parts = [a.parts EXCEPT ![w].claimed = @ + share]
        BY <1>6, <3>1 DEF TaskFields
      <4> QED
        BY <1>8, <4>1
    <3>3. [q EXCEPT !.claimed = @ + share] = p
      BY <1>1, <2>1 DEF Participant
    <3>4. b.parts = [task.parts EXCEPT ![w] = p]
      BY <1>1, <1>5, <3>2, <3>3
    <3> HIDE DEF b, p, q, share
    <3>5. /\ DOMAIN b = TaskFields /\ b.subs = task.subs /\ b.paused = task.paused
          /\ b.migrated = task.migrated /\ b.stake = task.stake /\ b.running = task.running
          /\ b.pool = NonNeg(a.pool - x) /\ b.pending = a.pending /\ b.paid = a.paid + x
      BY <1>6, <3>1 DEF TaskFields
    <3> QED
      BY <1>1, <1>3, <1>6, <2>1, <3>4, <3>5
  <2>2. CASE ~Settles(t)
    <3>1. b = [a EXCEPT !.pool = NonNeg(@ - x), !.pending = @ + x, !.parts[w].pending = @ + x]
      BY <2>2 DEF Rewarded
    <3>2. b.parts = [a.parts EXCEPT ![w] = [q EXCEPT !.pending = @ + x]]
      <4>1. b.parts = [a.parts EXCEPT ![w].pending = @ + x]
        BY <1>6, <3>1 DEF TaskFields
      <4> QED
        BY <1>8, <4>1
    <3>3. [q EXCEPT !.pending = @ + x] = p
      BY <1>1, <2>2 DEF Participant
    <3>4. b.parts = [task.parts EXCEPT ![w] = p]
      BY <1>1, <1>5, <3>2, <3>3
    <3> HIDE DEF b, p, q
    <3>5. /\ DOMAIN b = TaskFields /\ b.subs = task.subs /\ b.paused = task.paused
          /\ b.migrated = task.migrated /\ b.stake = task.stake /\ b.running = task.running
          /\ b.pool = NonNeg(a.pool - x) /\ b.pending = a.pending + x /\ b.paid = a.paid
      BY <1>6, <3>1 DEF TaskFields
    <3> QED
      BY <1>1, <1>3, <1>6, <2>2, <3>4, <3>5
  <2> QED
    BY <2>1, <2>2
<1>10. n = [b EXCEPT !.exists = TRUE, !.subs[<<t.round, w>>] = sub]
  BY DEF WithSub, a
<1> HIDE DEF b, p, n
<1>11. /\ DOMAIN n = TaskFields /\ n.parts = b.parts /\ n.subs = [task.subs EXCEPT ![<<t.round, w>>] = sub]
       /\ n.exists = TRUE /\ n.paused = b.paused /\ n.migrated = b.migrated
       /\ n.pool = b.pool /\ n.stake = b.stake /\ n.running = b.running
       /\ n.pending = b.pending /\ n.paid = b.paid
  BY <1>9, <1>10 DEF TaskFields
<1> QED
  BY <1>9, <1>11 DEF n, p, SubFieldsOf, SubPart

\* A submission adds to what is pending what it promises; a settlement takes
\* its reward off the task.
LEMMA SubmitSound ==
    ASSUME NEW task, TaskSound(task), NEW t, t.sender \in Wallets, t.round \in Rounds,
           t.reward \in Rewards, NEW old, old = Promised(task)[<<t.round, t.sender>>],
           task.pool + old >= t.reward,
           Settles(t) => old = 0 /\ SettlementShare(t, t.sender) \in Nat,
           NEW sub \in Submission, sub.reward = t.reward, sub.claimed = Settles(t)
    PROVE  /\ TaskSound(WithSub(task, t, old, sub))
           /\ Worth(WithSub(task, t, old, sub)) = Worth(task) - IF Settles(t) THEN t.reward ELSE 0
<1> DEFINE w == t.sender
           key == <<t.round, w>>
           part == task.parts[w]
           S == Rounds \X {w}
           f == Promised(task)
           share == SettlementShare(t, w)
           x == t.reward
           n == WithSub(task, t, old, sub)
           g == Promised(n)
           p == IF Settles(t) THEN [part EXCEPT !.pending = part.pending - old, !.claimed = part.claimed + share]
                ELSE [part EXCEPT !.pending = part.pending - old + x]
<1>0. /\ w \in Wallets /\ IsFiniteSet(S) /\ S \subseteq Rounds \X Wallets /\ key \in S /\ x \in Nat
  BY Finite
<1>1. /\ task.parts \in [Wallets -> Participant]
      /\ part \in Participant /\ part.stake \in Nat /\ part.running \in BOOLEAN
      /\ part.pending \in Nat /\ part.claimed \in Nat
      /\ task.pending \in Nat /\ task.paid \in Nat /\ task.pool \in Nat
      /\ part.pending = SumFunctionOnSet(f, S)
  BY <1>0, SoundFacts
<1>2. task.subs \in [Rounds \X Wallets -> Submission \cup {None}] /\ None \notin Submission
  BY TaskAssumption DEF TaskSound, TaskOK, TaskAssumption
<1>3. \A k \in Rounds \X Wallets :
         /\ f[k] \in Nat
         /\ f[k] = IF task.subs[k] # None /\ ~task.subs[k].claimed THEN task.subs[k].reward ELSE 0
  BY <1>2, PromisedFacts
<1> HIDE DEF f, S, key, n
<1>4. old \in Nat /\ old = f[key] /\ key \in Rounds \X Wallets
  BY <1>0, <1>3 DEF f, key
<1>5. old <= part.pending
  <2>1. \A k \in S : f[k] \in Nat
    BY <1>0, <1>3
  <2>2. f[key] <= SumFunctionOnSet(f, S)
    BY <1>0, <2>1, SumMember
  <2> QED
    BY <1>1, <1>4, <2>2
<1>6. /\ DOMAIN n = TaskFields
      /\ n.parts = [task.parts EXCEPT ![w] = p]
      /\ n.subs = [task.subs EXCEPT ![key] = sub]
      /\ n.exists = TRUE /\ n.paused = task.paused /\ n.migrated = task.migrated
      /\ n.pool = task.pool + old - x /\ n.stake = task.stake /\ n.running = task.running
      /\ n.pending = task.pending - old + IF Settles(t) THEN 0 ELSE x
      /\ n.paid = task.paid + IF Settles(t) THEN x ELSE 0
  <2>1. SubFieldsOf(task, n, t, old, sub)
    BY <1>0, <1>4, <1>5, SubFields DEF n
  <2> QED
    BY <2>1 DEF SubFieldsOf, SubPart, key
<1>7. /\ p \in Participant /\ p.stake = part.stake /\ p.running = part.running
      /\ p.pending = part.pending - old + IF Settles(t) THEN 0 ELSE x
  <2> DEFINE a == part.pending - old
             b == part.claimed + share
             c == part.pending - old + x
  <2>1. a \in Nat /\ c \in Nat /\ (Settles(t) => b \in Nat)
    BY <1>0, <1>1, <1>4, <1>5
  <2>2. a = a + 0
    BY <2>1
  <2> HIDE DEF a, b, c
  <2>3. p = IF Settles(t) THEN [part EXCEPT !.pending = a, !.claimed = b] ELSE [part EXCEPT !.pending = c]
    BY DEF a, b, c
  <2> HIDE DEF p
  <2>4. /\ p \in Participant /\ p.stake = part.stake /\ p.running = part.running
        /\ p.pending = IF Settles(t) THEN a ELSE c
    BY <1>1, <2>1, <2>3 DEF Participant
  <2> QED
    BY <2>2, <2>4 DEF a, c
<1> HIDE DEF p
<1>8. n.subs \in [Rounds \X Wallets -> Submission \cup {None}]
  BY <1>2, <1>6
<1>9. /\ n.subs[key] = sub /\ \A k \in Rounds \X Wallets : k # key => n.subs[k] = task.subs[k]
  BY <1>2, <1>4, <1>6
<1>10. /\ \A k \in Rounds \X Wallets : g[k] \in Nat /\ (k # key => g[k] = f[k])
       /\ g[key] = IF Settles(t) THEN 0 ELSE x
  <2>1. \A k \in Rounds \X Wallets :
         /\ g[k] \in Nat
         /\ g[k] = IF n.subs[k] # None /\ ~n.subs[k].claimed THEN n.subs[k].reward ELSE 0
    BY <1>8, PromisedFacts
  <2> HIDE DEF g
  <2>2. \A k \in Rounds \X Wallets : k # key => g[k] = f[k]
    BY <1>3, <1>9, <2>1
  <2>3. g[key] = IF Settles(t) THEN 0 ELSE x
    BY <1>2, <1>4, <1>9, <2>1
  <2> QED
    BY <2>1, <2>2, <2>3
<1> HIDE DEF g
<1>11. SumFunctionOnSet(g, S) = SumFunctionOnSet(f, S) - f[key] + g[key]
  <2>1. \A k \in S : f[k] \in Nat /\ g[k] \in Nat /\ (k # key => f[k] = g[k])
    BY <1>0, <1>3, <1>10
  <2> QED
    BY <1>0, <2>1, SumChange
<1>12. p.pending = SumFunctionOnSet(g, S)
  BY <1>1, <1>4, <1>7, <1>10, <1>11
<1>13. ASSUME NEW v \in Wallets, v # w
       PROVE  SumFunctionOnSet(g, Rounds \X {v}) = SumFunctionOnSet(f, Rounds \X {v})
  <2>1. \A k \in Rounds \X {v} : k \in Rounds \X Wallets /\ k # key
    BY <1>13 DEF key
  <2>2. \A k \in Rounds \X {v} : g[k] = f[k]
    BY <1>10, <2>1
  <2>3. IsFiniteSet(Rounds \X {v})
    BY Finite
  <2> QED
    BY <2>2, <2>3, SumSame
<1>14. /\ n.parts \in [Wallets -> Participant] /\ n.parts[w] = p
       /\ \A v \in Wallets : v # w => n.parts[v] = task.parts[v]
  BY <1>0, <1>1, <1>6, <1>7
<1>15. /\ n.pending = task.pending - part.pending + p.pending /\ n.paid \in Nat /\ n.pool \in Nat
  BY <1>0, <1>1, <1>4, <1>6, <1>7
<1>16. SubsChange(task, n, w, p)
  BY <1>6, <1>7, <1>8, <1>12, <1>13, <1>14, <1>15 DEF SubsChange, g, f, S
<1>17. /\ TaskSound(n)
       /\ Worth(n) = Worth(task) - task.pool + n.pool - part.pending + p.pending
  BY <1>0, <1>7, <1>16, SubsSound
<1>18. Worth(task) \in Nat
  BY DEF TaskSound, TaskOK, Worth
<1>19. Worth(n) = Worth(task) - IF Settles(t) THEN x ELSE 0
  BY <1>0, <1>1, <1>4, <1>6, <1>7, <1>17, <1>18
<1> QED
  BY <1>17, <1>19 DEF n

----------------------------------------------------------------------------
(* The store and the accounts.                                             *)

StoreSound(s) ==
    /\ StoreShape(s) /\ \A k \in Tasks : TaskSound(s.tasks[k])
    /\ s.proofs \subseteq {p.id : p \in PoolProofs}
    /\ s.receipts \subseteq UNION {p.receipts : p \in PoolProofs}

\* What an action puts into its task ...
Deposit(t) == IF t.action \in {"stake", "fund"} THEN t.amount ELSE 0

\* ... and takes out of it.
Payout(s, t) ==
    IF t.action = "unstake" THEN t.amount
    ELSE IF t.action = "claim" THEN ClaimableReward(s, t)
    ELSE IF Settles(t) THEN t.reward ELSE 0

\* The store c is s but for the task of t, which is worth what t makes of it.
Moved(s, c, t) ==
    /\ DOMAIN c = StoreFields /\ DOMAIN c.tasks = Tasks
    /\ \A l \in Tasks : l # t.task => c.tasks[l] = s.tasks[l]
    /\ TaskSound(c.tasks[t.task])
    /\ Worth(c.tasks[t.task]) = Worth(s.tasks[t.task]) + Deposit(t) - Payout(s, t)
    /\ c.proofs \subseteq {p.id : p \in PoolProofs}
    /\ c.receipts \subseteq UNION {p.receipts : p \in PoolProofs}

\* A task is replaced by a sound one of the right worth.
LEMMA PutMoves ==
    ASSUME NEW s, StoreSound(s), NEW t, t.task \in Tasks, NEW new, TaskSound(new),
           Worth(new) = Worth(s.tasks[t.task]) + Deposit(t) - Payout(s, t)
    PROVE  Moved(s, [s EXCEPT !.tasks[t.task] = new], t)
<1> DEFINE n == [s EXCEPT !.tasks[t.task] = new]
<1>1. /\ DOMAIN n = StoreFields /\ DOMAIN n.tasks = Tasks /\ n.receipts = s.receipts /\ n.proofs = s.proofs
      /\ n.tasks[t.task] = new /\ \A l \in Tasks : l # t.task => n.tasks[l] = s.tasks[l]
  BY DEF StoreSound, StoreShape, StoreFields
<1> HIDE DEF n
<1>2. Moved(s, n, t)
  BY <1>1 DEF Moved, StoreSound
<1> QED
  BY <1>2 DEF n

\* Naming a task creates it.
LEMMA TouchSound ==
    ASSUME NEW task, TaskSound(task)
    PROVE  LET new == [task EXCEPT !.exists = TRUE] IN
           /\ TaskSound(new) /\ Worth(new) = Worth(task) /\ new.exists = TRUE
           /\ new.subs = task.subs /\ new.parts = task.parts /\ new.pool = task.pool
           /\ DOMAIN new = TaskFields /\ new.paused \in BOOLEAN /\ new.migrated \in BOOLEAN
<1> DEFINE new == [task EXCEPT !.exists = TRUE]
<1>1. DOMAIN task = TaskFields
  BY DEF TaskSound
<1>2. /\ DOMAIN new = TaskFields /\ new.exists = TRUE
      /\ new.subs = task.subs /\ new.parts = task.parts /\ new.paused = task.paused
      /\ new.migrated = task.migrated /\ new.pool = task.pool /\ new.stake = task.stake
      /\ new.pending = task.pending /\ new.paid = task.paid /\ new.running = task.running
  BY <1>1 DEF TaskFields
<1>3. task.paused \in BOOLEAN /\ task.migrated \in BOOLEAN /\ task.pool \in Nat
  BY DEF TaskSound, TaskOK
<1> HIDE DEF new
<1>4. TaskSound(new) /\ Worth(new) = Worth(task) - task.pool + new.pool
  BY <1>2, <1>3, PlainSound
<1>5. Worth(new) = Worth(task)
  BY <1>2 DEF Worth
<1> QED
  BY <1>2, <1>3, <1>4, <1>5 DEF new

\* The amounts of an action.
LEMMA AmountFacts ==
    ASSUME NEW s, StoreSound(s), NEW t, WellFormed(t)
    PROVE  /\ Task(s, t) = s.tasks[t.task] /\ TaskSound(s.tasks[t.task])
           /\ Worth(s.tasks[t.task]) \in Nat
           /\ ClaimableReward(s, t) = ClaimSum(s.tasks[t.task], t)
           /\ ClaimableReward(s, t) \in Nat
           /\ t.action = "submit" => t.reward \in Nat
           /\ Deposit(t) \in Nat /\ Payout(s, t) \in Nat
<1>1. Task(s, t) = s.tasks[t.task] /\ TaskSound(s.tasks[t.task])
  BY DEF Task, WellFormed, StoreSound
<1>2. Worth(s.tasks[t.task]) \in Nat
  BY <1>1 DEF TaskSound, TaskOK, Worth
<1>3. ClaimableReward(s, t) = ClaimSum(s.tasks[t.task], t)
  BY <1>1 DEF ClaimableReward, ClaimSum
<1>4. ClaimSum(s.tasks[t.task], t) \in Nat
  <2> DEFINE old == s.tasks[t.task]
             task == [old EXCEPT !.exists = TRUE]
  <2>1. TaskSound(task) /\ task.exists = TRUE /\ task.subs = old.subs
    BY <1>1, TouchSound
  <2> HIDE DEF task
  <2>2. ClaimSum(task, t) \in Nat
    BY <2>1, ClaimSound DEF WellFormed
  <2> QED
    BY <2>1, <2>2 DEF ClaimSum, ClaimableKeys
<1>5. t.action = "submit" => t.reward \in Nat
  BY Finite DEF WellFormed
<1>6. Deposit(t) \in Nat
  BY DEF Deposit, WellFormed
<1>7. Payout(s, t) \in Nat
  BY <1>3, <1>4, <1>5 DEF Payout, WellFormed, Settles
<1> QED
  BY <1>1, <1>2, <1>3, <1>4, <1>5, <1>6, <1>7

\* Funding, migrating and the catalog.
LEMMA PlainOps ==
    ASSUME NEW task, TaskSound(task), task.exists \in BOOLEAN, NEW x \in Nat, NEW t
    PROVE  /\ TaskSound([task EXCEPT !.pool = @ + x])
           /\ Worth([task EXCEPT !.pool = @ + x]) = Worth(task) + x
           /\ TaskSound([task EXCEPT !.migrated = TRUE])
           /\ Worth([task EXCEPT !.migrated = TRUE]) = Worth(task)
           /\ TaskSound(CatalogApplied(task, t)) /\ Worth(CatalogApplied(task, t)) = Worth(task)
<1>1. /\ DOMAIN task = TaskFields /\ task.paused \in BOOLEAN /\ task.migrated \in BOOLEAN
      /\ task.pool \in Nat /\ task.stake \in Nat /\ task.pending \in Nat
  BY DEF TaskSound, TaskOK
<1>2. TaskSound([task EXCEPT !.pool = @ + x]) /\ Worth([task EXCEPT !.pool = @ + x]) = Worth(task) + x
  <2> DEFINE n == [task EXCEPT !.pool = @ + x]
  <2>1. /\ DOMAIN n = TaskFields /\ n.exists = task.exists
        /\ n.subs = task.subs /\ n.parts = task.parts /\ n.paused = task.paused
        /\ n.migrated = task.migrated /\ n.pool = task.pool + x /\ n.stake = task.stake
        /\ n.pending = task.pending /\ n.paid = task.paid /\ n.running = task.running
    BY <1>1 DEF TaskFields
  <2> HIDE DEF n
  <2>2. TaskSound(n)
    BY <1>1, <2>1, PlainSound
  <2>3. Worth(n) = Worth(task) + x
    BY <1>1, <2>1 DEF Worth
  <2> QED
    BY <2>2, <2>3 DEF n
<1>3. TaskSound([task EXCEPT !.migrated = TRUE]) /\ Worth([task EXCEPT !.migrated = TRUE]) = Worth(task)
  <2> DEFINE n == [task EXCEPT !.migrated = TRUE]
  <2>1. /\ DOMAIN n = TaskFields /\ n.exists = task.exists
        /\ n.subs = task.subs /\ n.parts = task.parts /\ n.paused = task.paused
        /\ n.migrated = TRUE /\ n.pool = task.pool /\ n.stake = task.stake
        /\ n.pending = task.pending /\ n.paid = task.paid /\ n.running = task.running
    BY <1>1 DEF TaskFields
  <2> HIDE DEF n
  <2>2. TaskSound(n)
    BY <1>1, <2>1, PlainSound
  <2>3. Worth(n) = Worth(task)
    BY <1>1, <2>1 DEF Worth
  <2> QED
    BY <2>2, <2>3 DEF n
<1>4. TaskSound(CatalogApplied(task, t)) /\ Worth(CatalogApplied(task, t)) = Worth(task)
  <2> DEFINE n == CatalogApplied(task, t)
  <2>1. /\ DOMAIN n = TaskFields /\ n.exists \in BOOLEAN
        /\ n.subs = task.subs /\ n.parts = task.parts /\ n.paused \in BOOLEAN
        /\ n.migrated = task.migrated /\ n.pool = task.pool /\ n.stake = task.stake
        /\ n.pending = task.pending /\ n.paid = task.paid /\ n.running = task.running
    BY <1>1 DEF TaskFields, CatalogApplied
  <2> HIDE DEF n
  <2>2. TaskSound(n)
    BY <1>1, <2>1, PlainSound
  <2>3. Worth(n) = Worth(task)
    BY <1>1, <2>1 DEF Worth
  <2> QED
    BY <2>2, <2>3 DEF n
<1> QED
  BY <1>2, <1>3, <1>4

\* A submission that is accepted.
LEMMA SubmittedMoves ==
    ASSUME NEW s, StoreSound(s), NEW t, WellFormed(t), t.action = "submit", NEW h,
           SubmitAccepts(s, t, h)
    PROVE  Moved(s, Submitted(s, t), t)
<1> DEFINE key == <<t.round, t.sender>>
           task == s.tasks[t.task]
           sub == [value |-> t.value, reward |-> t.reward, claimed |-> Settles(t),
                   proof |-> IF Settles(t) THEN t.proof ELSE None]
           old == Returned(s, t)
           new == WithSub(task, t, old, sub)
           kept == [s EXCEPT !.tasks[t.task] = new]
<1>0. /\ t.task \in Tasks /\ t.sender \in Wallets /\ t.round \in Rounds /\ t.reward \in Rewards
      /\ t.value \in Values \cup {p.receipts : p \in PoolProofs} /\ t.proof \in PoolProofs \cup {None}
      /\ key \in Rounds \X Wallets
  BY DEF WellFormed
<1>1. /\ Task(s, t) = task /\ TaskSound(task) /\ Worth(task) \in Nat /\ t.reward \in Nat
  BY AmountFacts
<1>2. Sub(s, t) = task.subs[key]
  BY <1>1 DEF Sub
<1>3. /\ task.subs \in [Rounds \X Wallets -> Submission \cup {None}] /\ None \notin Submission
      /\ task.pool \in Nat
  BY <1>1, TaskAssumption DEF TaskSound, TaskOK, TaskAssumption
<1> HIDE DEF task, key
<1>4. Submitted(s, t) = IF ReplayedSubmit(s, t) THEN s
                        ELSE IF ~Settles(t) THEN kept
                        ELSE [kept EXCEPT !.bindings[t.proof.relay] =
                                              IF @ = None THEN Binding(t.proof) ELSE @,
                                          !.proofs = @ \cup {t.proof.id},
                                          !.receipts = @ \cup t.proof.receipts]
  BY <1>1 DEF Submitted, Untouched, WithSub, key
<1>5. Settles(t) => t.proof \in PoolProofs /\ Sub(s, t) = None
  BY <1>0 DEF Settles, SubmitAccepts
<1>6. Deposit(t) = 0 /\ Payout(s, t) = IF Settles(t) THEN t.reward ELSE 0
  BY DEF Deposit, Payout
<1>7. CASE ReplayedSubmit(s, t)
  <2>1. ~Settles(t)
    BY <1>5, <1>7 DEF ReplayedSubmit
  <2>2. Submitted(s, t) = s
    BY <1>4, <1>7
  <2>3. Worth(task) = Worth(task) + Deposit(t) - Payout(s, t)
    BY <1>1, <1>6, <2>1
  <2>4. Moved(s, s, t)
    BY <1>0, <1>1, <2>3 DEF StoreSound, StoreShape, Moved, task
  <2> QED
    BY <2>2, <2>4
<1>8. CASE ~ReplayedSubmit(s, t)
  <2>1. old = Promised(task)[key]
    <3>1. Promised(task)[key] = IF task.subs[key] # None /\ ~task.subs[key].claimed THEN task.subs[key].reward ELSE 0
      BY <1>0, <1>3, PromisedFacts
    <3> QED
      BY <1>2, <1>8, <3>1 DEF Returned, ReplayedSubmit
  <2>2. old \in Nat
    <3> HIDE DEF old
    <3>1. Promised(task)[key] \in Nat
      BY <1>0, <1>3, PromisedFacts
    <3> QED
      BY <2>1, <3>1
  <2>3. task.pool + old >= t.reward
    <3>1. t.reward > 0 => task.pool + old >= t.reward
      BY <1>1, <1>8 DEF SubmitAccepts
    <3> QED
      BY <1>1, <1>3, <2>2, <3>1
  <2>4. Settles(t) => old = 0
    BY <1>5 DEF Returned
  <2>5. sub \in Submission /\ sub.reward = t.reward /\ sub.claimed = Settles(t)
    <3>1. Settles(t) \in BOOLEAN /\ (IF Settles(t) THEN t.proof ELSE None) \in PoolProofs \cup {None}
      BY <1>5 DEF Settles
    <3> QED
      BY <1>0, <3>1 DEF Submission
  <2> HIDE DEF old, sub
  <2>6. TaskSound(new) /\ Worth(new) = Worth(task) - IF Settles(t) THEN t.reward ELSE 0
    <3>1. Settles(t) => SettlementShare(t, t.sender) \in Nat
      BY <1>1, <1>5, ShareSum
    <3> QED
      BY <1>0, <1>1, <2>1, <2>3, <2>4, <2>5, <3>1, SubmitSound DEF key
  <2>7. Worth(new) = Worth(task) + Deposit(t) - Payout(s, t)
    BY <1>1, <1>6, <2>6
  <2> HIDE DEF new
  <2>8. Moved(s, kept, t)
    BY <1>0, <2>6, <2>7, PutMoves DEF task
  <2>9. CASE ~Settles(t)
    BY <1>4, <1>8, <2>8, <2>9
  <2>10. CASE Settles(t)
    <3> DEFINE n == Submitted(s, t)
    <3> HIDE DEF kept
    <3>1. n = [kept EXCEPT !.bindings[t.proof.relay] = IF @ = None THEN Binding(t.proof) ELSE @,
                           !.proofs = @ \cup {t.proof.id},
                           !.receipts = @ \cup t.proof.receipts]
      BY <1>4, <1>8, <2>10
    <3>2. DOMAIN kept = StoreFields
      BY <2>8 DEF Moved
    <3>3. /\ DOMAIN n = StoreFields /\ n.tasks = kept.tasks /\ n.proofs = kept.proofs \cup {t.proof.id}
          /\ n.receipts = kept.receipts \cup t.proof.receipts
      BY <3>1, <3>2 DEF StoreFields
    <3> HIDE DEF n
    <3>4. /\ t.proof.id \in {p.id : p \in PoolProofs}
          /\ t.proof.receipts \subseteq UNION {p.receipts : p \in PoolProofs}
      BY <1>5, <2>10
    <3>5. Moved(s, n, t)
      BY <2>8, <3>3, <3>4 DEF Moved
    <3> QED
      BY <3>5 DEF n
  <2> QED
    BY <2>9, <2>10
<1> QED
  BY <1>7, <1>8

\* Every accepted action.
LEMMA AppliedMoves ==
    ASSUME NEW s, StoreSound(s), NEW t, WellFormed(t), NEW h, Accepts(s, t, h), Worthwhile(s, t)
    PROVE  Moved(s, Applied(s, t), t)
<1> DEFINE old == s.tasks[t.task]
           task == [old EXCEPT !.exists = TRUE]
           c == Changed(s, t)
           w == t.sender
           x == t.amount
           put(new) == [s EXCEPT !.tasks[t.task] = new]
<1>0. t.task \in Tasks /\ w \in Wallets /\ x \in Nat
  BY DEF WellFormed
<1>1. /\ Task(s, t) = old /\ TaskSound(old) /\ Worth(old) \in Nat
      /\ ClaimableReward(s, t) = ClaimSum(old, t) /\ ClaimableReward(s, t) \in Nat
  BY AmountFacts
<1>2. old.exists \in BOOLEAN
  BY <1>1 DEF TaskSound, TaskOK
<1>3. TaskSound(task) /\ Worth(task) = Worth(old) /\ task.exists = TRUE /\ task.subs = old.subs /\ task.parts = old.parts
  BY <1>1, TouchSound
<1> HIDE DEF old
<1>4. c = CASE t.action \in CatalogActions -> put(CatalogApplied(old, t))
            [] t.action = "start"   -> put(Started(task, w))
            [] t.action = "stop"    -> put(Stopped(task, w))
            [] t.action = "stake"   -> put(Staked(task, w, x))
            [] t.action = "fund"    -> put([task EXCEPT !.pool = @ + x])
            [] t.action = "unstake" -> put(Unstaked(task, w, x))
            [] t.action = "submit"  -> Submitted(s, t)
            [] t.action = "claim"   -> put(Claimed(task, t, ClaimableReward(s, t)))
            [] OTHER                -> put([task EXCEPT !.migrated = TRUE])
  BY <1>1 DEF Changed
<1> HIDE DEF task, c
<1>5. ASSUME NEW new, TaskSound(new), Worth(new) = Worth(old) + Deposit(t) - Payout(s, t)
      PROVE  Moved(s, put(new), t)
  BY <1>0, <1>5, PutMoves DEF old
<1>6. /\ TaskSound(Started(task, w)) /\ Worth(Started(task, w)) = Worth(old)
      /\ TaskSound(Stopped(task, w)) /\ Worth(Stopped(task, w)) = Worth(old)
      /\ TaskSound(Staked(task, w, x)) /\ Worth(Staked(task, w, x)) = Worth(old) + x
      /\ TaskSound(Unstaked(task, w, x))
      /\ x <= task.parts[w].stake => Worth(Unstaked(task, w, x)) = Worth(old) - x
  BY <1>0, <1>3, PartOps
<1>7. /\ TaskSound([task EXCEPT !.pool = @ + x]) /\ Worth([task EXCEPT !.pool = @ + x]) = Worth(old) + x
      /\ TaskSound([task EXCEPT !.migrated = TRUE]) /\ Worth([task EXCEPT !.migrated = TRUE]) = Worth(old)
  BY <1>0, <1>3, PlainOps
<1>8. TaskSound(CatalogApplied(old, t)) /\ Worth(CatalogApplied(old, t)) = Worth(old)
  BY <1>0, <1>1, <1>2, PlainOps
<1>9. /\ t.action \in CatalogActions \/ t.action \in {"start", "stop"}
           \/ t.action \notin CatalogActions \cup {"start", "stop", "stake", "fund", "unstake", "submit", "claim"}
         => Deposit(t) = 0 /\ Payout(s, t) = 0
      /\ t.action \in {"stake", "fund"} => Deposit(t) = x /\ Payout(s, t) = 0
      /\ t.action = "unstake" => Deposit(t) = 0 /\ Payout(s, t) = x
      /\ t.action = "claim" => Deposit(t) = 0 /\ Payout(s, t) = ClaimableReward(s, t)
  BY DEF Deposit, Payout, Settles, CatalogActions
<1> HIDE DEF put
<1>10. ASSUME t.action \in CatalogActions PROVE Moved(s, c, t)
  <2>1. Worth(CatalogApplied(old, t)) = Worth(old) + Deposit(t) - Payout(s, t)
    BY <1>1, <1>8, <1>9, <1>10
  <2>2. c = put(CatalogApplied(old, t))
    BY <1>4, <1>10 DEF CatalogActions
  <2> QED
    BY <1>5, <1>8, <2>1, <2>2
<1>11. ASSUME t.action = "start" PROVE Moved(s, c, t)
  <2>1. Worth(Started(task, w)) = Worth(old) + Deposit(t) - Payout(s, t)
    BY <1>1, <1>6, <1>9, <1>11
  <2>2. c = put(Started(task, w))
    BY <1>4, <1>11 DEF CatalogActions
  <2> QED
    BY <1>5, <1>6, <2>1, <2>2
<1>12. ASSUME t.action = "stop" PROVE Moved(s, c, t)
  <2>1. Worth(Stopped(task, w)) = Worth(old) + Deposit(t) - Payout(s, t)
    BY <1>1, <1>6, <1>9, <1>12
  <2>2. c = put(Stopped(task, w))
    BY <1>4, <1>12 DEF CatalogActions
  <2> QED
    BY <1>5, <1>6, <2>1, <2>2
<1>13. ASSUME t.action = "stake" PROVE Moved(s, c, t)
  <2>1. Worth(Staked(task, w, x)) = Worth(old) + Deposit(t) - Payout(s, t)
    BY <1>0, <1>1, <1>6, <1>9, <1>13
  <2>2. c = put(Staked(task, w, x))
    BY <1>4, <1>13 DEF CatalogActions
  <2> QED
    BY <1>5, <1>6, <2>1, <2>2
<1>14. ASSUME t.action = "fund" PROVE Moved(s, c, t)
  <2>1. Worth([task EXCEPT !.pool = @ + x]) = Worth(old) + Deposit(t) - Payout(s, t)
    BY <1>0, <1>1, <1>7, <1>9, <1>14
  <2>2. c = put([task EXCEPT !.pool = @ + x])
    BY <1>4, <1>14 DEF CatalogActions
  <2> QED
    BY <1>5, <1>7, <2>1, <2>2
<1>15. ASSUME t.action = "unstake" PROVE Moved(s, c, t)
  <2>1. x <= task.parts[w].stake
    <3>1. Part(s, t).stake >= x /\ Part(s, t) = task.parts[w]
      BY <1>1, <1>3, <1>15 DEF Worthwhile, Part
    <3>2. task.parts[w].stake \in Nat
      BY <1>0, <1>3, SoundFacts
    <3> QED
      BY <1>0, <3>1, <3>2
  <2>2. Worth(Unstaked(task, w, x)) = Worth(old) + Deposit(t) - Payout(s, t)
    BY <1>0, <1>1, <1>6, <1>9, <1>15, <2>1
  <2>3. c = put(Unstaked(task, w, x))
    BY <1>4, <1>15 DEF CatalogActions
  <2> QED
    BY <1>5, <1>6, <2>2, <2>3
<1>16. ASSUME t.action = "submit" PROVE Moved(s, c, t)
  <2>1. Moved(s, Submitted(s, t), t)
    BY <1>16, SubmittedMoves DEF Accepts
  <2>2. c = Submitted(s, t)
    BY <1>4, <1>16 DEF CatalogActions
  <2> QED
    BY <2>1, <2>2
<1>17. ASSUME t.action = "claim" PROVE Moved(s, c, t)
  <2> DEFINE r == ClaimableReward(s, t)
             n == Claimed(task, t, r)
  <2>1. r = ClaimSum(task, t)
    BY <1>1, <1>3 DEF ClaimSum, ClaimableKeys
  <2>2. TaskSound(n) /\ Worth(n) = Worth(old) - r
    BY <1>0, <1>3, <2>1, ClaimSound
  <2>3. c = put(n)
    BY <1>4, <1>17 DEF CatalogActions
  <2> HIDE DEF n
  <2>4. Worth(n) = Worth(old) + Deposit(t) - Payout(s, t)
    BY <1>1, <1>9, <1>17, <2>2
  <2> QED
    BY <1>5, <2>2, <2>3, <2>4
<1>18. ASSUME t.action \notin CatalogActions \cup {"start", "stop", "stake", "fund", "unstake", "submit", "claim"} PROVE Moved(s, c, t)
  <2>1. Worth([task EXCEPT !.migrated = TRUE]) = Worth(old) + Deposit(t) - Payout(s, t)
    BY <1>1, <1>7, <1>9, <1>18
  <2>2. c = put([task EXCEPT !.migrated = TRUE])
    BY <1>4, <1>18
  <2> QED
    BY <1>5, <1>7, <2>1, <2>2
<1>19. Moved(s, c, t)
  BY <1>10, <1>11, <1>12, <1>13, <1>14, <1>15, <1>16, <1>17, <1>18
<1>20. Applied(s, t) = [c EXCEPT !.senderNonce[t.sender] = IF t.nonce > 0 THEN t.nonce ELSE @]
  BY DEF Applied, c
<1>21. DOMAIN c = StoreFields
  BY <1>19 DEF Moved
<1>22. /\ DOMAIN Applied(s, t) = StoreFields /\ Applied(s, t).tasks = c.tasks
       /\ Applied(s, t).receipts = c.receipts /\ Applied(s, t).proofs = c.proofs
  BY <1>20, <1>21 DEF StoreFields
<1> QED
  BY <1>19, <1>22 DEF Moved

\* The credits of an action add up to what it takes out of the task.
LEMMA CreditSum ==
    ASSUME NEW s, StoreSound(s), NEW t, WellFormed(t)
    PROVE  /\ \A w : Credit(s, t, w) \in Nat
           /\ SumFunctionOnSet([w \in Payees |-> Credit(s, t, w)], Payees) = Payout(s, t)
<1> DEFINE f == [w \in Payees |-> Credit(s, t, w)]
           only(x) == [w \in Payees |-> IF w = t.sender THEN x ELSE 0]
           r == ClaimableReward(s, t)
<1>0. t.sender \in Payees /\ IsFiniteSet(Payees) /\ t.amount \in Nat /\ r \in Nat
  BY AmountFacts, Finite DEF WellFormed, Payees
<1> HIDE DEF r
<1>1. ASSUME NEW x \in Nat PROVE SumFunctionOnSet(only(x), Payees) = x
  <2> DEFINE g == only(x)
  <2>1. \A w \in Payees : g[w] = IF w = t.sender THEN x ELSE 0
    OBVIOUS
  <2> HIDE DEF g
  <2>2. SumFunctionOnSet(g, Payees) = x
    BY <1>0, <2>1, SumOne
  <2> QED
    BY <2>2 DEF g
<1>2. CASE t.action = "unstake"
  <2>1. /\ \A w : Credit(s, t, w) = IF w = t.sender THEN t.amount ELSE 0
        /\ Payout(s, t) = t.amount
    BY <1>2 DEF Credit, Payout, Settles
  <2>2. f = only(t.amount)
    BY <2>1
  <2> HIDE DEF f, only
  <2> QED
    BY <1>0, <1>1, <2>1, <2>2 DEF f
<1>3. CASE t.action = "claim"
  <2>1. /\ \A w : Credit(s, t, w) = IF w = t.sender THEN r ELSE 0
        /\ Payout(s, t) = r
    BY <1>3 DEF Credit, Payout, Settles, r
  <2>2. f = only(r)
    BY <2>1
  <2> HIDE DEF f, only
  <2> QED
    BY <1>0, <1>1, <2>1, <2>2 DEF f
<1>4. CASE Settles(t)
  <2>1. /\ \A w : Credit(s, t, w) = SettlementShare(t, w)
        /\ Payout(s, t) = t.reward
    BY <1>4 DEF Credit, Payout, Settles
  <2>2. t.proof \in PoolProofs /\ t.reward \in Nat
    BY <1>4, Finite DEF Settles, WellFormed
  <2>3. f = [w \in Payees |-> SettlementShare(t, w)]
    BY <2>1
  <2>4. /\ \A w : SettlementShare(t, w) \in Nat
        /\ SumFunctionOnSet([w \in Payees |-> SettlementShare(t, w)], Payees) = t.reward
    BY <2>2, ShareSum
  <2> HIDE DEF f
  <2>5. SumFunctionOnSet(f, Payees) = Payout(s, t)
    BY <2>1, <2>3, <2>4
  <2>6. \A w : Credit(s, t, w) \in Nat
    BY <2>1, <2>4
  <2> QED
    BY <2>5, <2>6 DEF f
<1>5. CASE t.action # "unstake" /\ t.action # "claim" /\ ~Settles(t)
  <2>1. /\ \A w : Credit(s, t, w) = 0
        /\ Payout(s, t) = 0
    BY <1>5 DEF Credit, Payout
  <2>2. f = only(0)
    BY <2>1
  <2> HIDE DEF f, only
  <2> QED
    BY <1>0, <1>1, <2>1, <2>2 DEF f
<1> QED
  BY <1>2, <1>3, <1>4, <1>5

\* The accounts after a committed transaction.
LEMMA AccountsMove ==
    ASSUME NEW s, StoreSound(s), NEW t, WellFormed(t), NEW b \in [Payees -> Nat],
           b[t.sender] >= Charge(t), NEW c,
           c = [w \in Payees |-> b[w] + Credit(s, t, w) - IF w = t.sender THEN Charge(t) ELSE 0]
    PROVE  /\ c \in [Payees -> Nat]
           /\ SumFunction(c) = SumFunction(b) + Payout(s, t) - Fee - Deposit(t)
           /\ SumFunction(b) \in Nat
<1> DEFINE f == [w \in Payees |-> Credit(s, t, w)]
           x == Charge(t)
           d == [w \in Payees |-> IF w = t.sender THEN x ELSE 0]
           e == [w \in Payees |-> b[w] + f[w]]
<1>0. /\ t.sender \in Payees /\ IsFiniteSet(Payees) /\ Deposit(t) \in Nat /\ Payout(s, t) \in Nat
      /\ Fee \in Nat
  BY AmountFacts, Finite DEF WellFormed, Payees
<1>1. x = Fee + Deposit(t) /\ x \in Nat
  BY <1>0 DEF Charge, Deposit
<1>2. /\ \A w : Credit(s, t, w) \in Nat
      /\ SumFunctionOnSet(f, Payees) = Payout(s, t)
  BY CreditSum
<1> HIDE DEF x
<1>3. \A w \in Payees : /\ f[w] = Credit(s, t, w) /\ d[w] = IF w = t.sender THEN x ELSE 0
                        /\ e[w] = b[w] + f[w]
                        /\ c[w] = b[w] + Credit(s, t, w) - IF w = t.sender THEN x ELSE 0
  BY DEF x
<1> HIDE DEF f, d, e
<1>4. \A w \in Payees : /\ b[w] \in Nat /\ f[w] \in Nat /\ d[w] \in Nat /\ c[w] \in Nat
                        /\ e[w] = b[w] + f[w] /\ e[w] = c[w] + d[w]
  <2> SUFFICES ASSUME NEW w \in Payees
               PROVE  /\ b[w] \in Nat /\ f[w] \in Nat /\ d[w] \in Nat /\ c[w] \in Nat
                      /\ e[w] = b[w] + f[w] /\ e[w] = c[w] + d[w]
    OBVIOUS
  <2>1. b[w] \in Nat /\ f[w] \in Nat /\ d[w] \in Nat
    BY <1>1, <1>2, <1>3
  <2>2. c[w] = b[w] + f[w] - d[w]
    BY <1>3
  <2>3. d[w] <= b[w]
    BY <1>1, <1>3, <2>1 DEF x
  <2> QED
    BY <1>3, <2>1, <2>2, <2>3
<1>5. DOMAIN c = Payees /\ DOMAIN b = Payees
  OBVIOUS
<1>6. c \in [Payees -> Nat]
  BY <1>4
<1>7. SumFunctionOnSet(e, Payees) = SumFunctionOnSet(b, Payees) + SumFunctionOnSet(f, Payees)
  BY <1>0, <1>4, SumPlus
<1>8. SumFunctionOnSet(e, Payees) = SumFunctionOnSet(c, Payees) + SumFunctionOnSet(d, Payees)
  BY <1>0, <1>4, SumPlus
<1>9. SumFunctionOnSet(d, Payees) = x
  BY <1>0, <1>1, <1>3, SumOne
<1>10. SumFunctionOnSet(b, Payees) \in Nat /\ SumFunctionOnSet(c, Payees) \in Nat
  BY <1>0, <1>4, SumNat
<1>11. SumFunction(c) = SumFunctionOnSet(c, Payees) /\ SumFunction(b) = SumFunctionOnSet(b, Payees)
  BY <1>5, SumAll
<1> QED
  BY <1>0, <1>1, <1>2, <1>6, <1>7, <1>8, <1>9, <1>10, <1>11

\* What each task is worth.
WorthOf(tasks) == [k \in Tasks |-> Worth(tasks[k])]

\* The worth of all tasks changes by what the action moves.
LEMMA WorthMoves ==
    ASSUME NEW s, StoreSound(s), NEW t, WellFormed(t), NEW c, Moved(s, c, t)
    PROVE  /\ StoreSound(c) /\ SumFunction(WorthOf(s.tasks)) \in Nat
           /\ SumFunction(WorthOf(c.tasks)) = SumFunction(WorthOf(s.tasks)) + Deposit(t) - Payout(s, t)
<1> DEFINE f == WorthOf(s.tasks)
           g == WorthOf(c.tasks)
           k == t.task
<1>0. k \in Tasks /\ IsFiniteSet(Tasks) /\ Deposit(t) \in Nat /\ Payout(s, t) \in Nat
  BY AmountFacts, Finite DEF WellFormed
<1>1. \A l \in Tasks : TaskSound(s.tasks[l]) /\ TaskSound(c.tasks[l])
  BY DEF StoreSound, Moved
<1>2. \A l \in Tasks : Worth(s.tasks[l]) \in Nat /\ Worth(c.tasks[l]) \in Nat
  BY <1>1 DEF TaskSound, TaskOK, Worth
<1>3. StoreSound(c)
  <2>1. \A l \in Tasks : TaskShape(c.tasks[l])
    <3> SUFFICES ASSUME NEW l \in Tasks PROVE TaskShape(c.tasks[l])
      OBVIOUS
    <3>1. /\ DOMAIN c.tasks[l] = TaskFields
          /\ c.tasks[l].subs \in [Rounds \X Wallets -> Submission \cup {None}]
      BY <1>1 DEF TaskSound, TaskOK
    <3>2. \A sub \in Submission : "proof" \in DOMAIN sub
      BY DEF Submission
    <3>3. \A x \in Rounds \X Wallets : SubShape(c.tasks[l].subs[x])
      BY <3>1, <3>2 DEF SubShape
    <3> QED
      BY <3>1, <3>3 DEF TaskShape
  <2> QED
    BY <1>1, <2>1 DEF StoreSound, StoreShape, Moved
<1>4. /\ DOMAIN f = Tasks /\ DOMAIN g = Tasks
      /\ \A l \in Tasks : f[l] = Worth(s.tasks[l]) /\ g[l] = Worth(c.tasks[l])
  BY DEF WorthOf
<1> HIDE DEF f, g
<1>5. \A l \in Tasks : f[l] \in Nat /\ g[l] \in Nat /\ (l # k => f[l] = g[l])
  BY <1>2, <1>4 DEF Moved
<1>6. SumFunctionOnSet(g, Tasks) = SumFunctionOnSet(f, Tasks) - f[k] + g[k]
  BY <1>0, <1>5, SumChange
<1>7. SumFunctionOnSet(f, Tasks) \in Nat
  BY <1>0, <1>5, SumNat
<1>8. SumFunction(f) = SumFunctionOnSet(f, Tasks) /\ SumFunction(g) = SumFunctionOnSet(g, Tasks)
  BY <1>4, SumAll
<1>9. g[k] = f[k] + Deposit(t) - Payout(s, t)
  BY <1>0, <1>4 DEF Moved
<1>10. f[k] \in Nat
  BY <1>0, <1>5
<1> QED
  BY <1>0, <1>3, <1>6, <1>7, <1>8, <1>9, <1>10 DEF f, g

\* The inductive invariant of the amounts.
MoneyInv == StoreSound(store) /\ TypeOK /\ CellConserved

\* At first the wallets have their start balances and the tasks nothing.
LEMMA MoneyInit == Init => MoneyInv
<1> SUFFICES ASSUME Init PROVE MoneyInv
  OBVIOUS
<1> DEFINE task == NewTask(FALSE)
           zero(S) == [x \in S |-> 0]
           b == [w \in Payees |-> IF w \in Wallets THEN StartBalance[w] ELSE 0]
<1>1. /\ DOMAIN task = TaskFields /\ task.exists = FALSE /\ task.paused = FALSE /\ task.migrated = FALSE
      /\ task.stake = 0 /\ task.pool = 0 /\ task.pending = 0 /\ task.paid = 0 /\ task.running = 0
      /\ task.parts = [w \in Wallets |-> NoParticipant]
      /\ task.subs = [k \in Rounds \X Wallets |-> None]
  BY DEF NewTask, TaskFields
<1> HIDE DEF task
<1>2. /\ NoParticipant \in Participant /\ NoParticipant.stake = 0 /\ NoParticipant.pending = 0
      /\ NoParticipant.running = FALSE
  BY DEF NoParticipant, Participant
<1>3. TaskOK(task)
  <2>1. task.parts \in [Wallets -> Participant]
    BY <1>1, <1>2
  <2>2. task.subs \in [Rounds \X Wallets -> Submission \cup {None}]
    BY <1>1
  <2>3. task.exists \in BOOLEAN /\ task.paused \in BOOLEAN /\ task.migrated \in BOOLEAN
    BY <1>1
  <2>4. \A x \in {task.stake, task.pool, task.pending, task.paid, task.running} : x \in Nat
    BY <1>1
  <2> QED
    BY <2>1, <2>2, <2>3, <2>4 DEF TaskOK
<1>z. ASSUME NEW f, NEW S, IsFiniteSet(S), \A x \in S : f[x] = 0
      PROVE  SumFunctionOnSet(f, S) = 0
  <2>1. SumFunctionOnSet(f, S) = SumFunctionOnSet(f, {})
    <3>1. \A x \in S : f[x] = IF x \in {} THEN f[x] ELSE 0
      BY <1>z
    <3> QED
      BY <1>z, <3>1, SumWithin
  <2> QED
    BY <2>1, FS_EmptySet, SumStep
<1>4. Totals(task)
  <2> DEFINE f == Stakes(task.parts)
             g == Pendings(task.parts)
  <2>1. /\ DOMAIN f = Wallets /\ DOMAIN g = Wallets
        /\ \A v \in Wallets : f[v] = 0 /\ g[v] = 0
    BY <1>1, <1>2 DEF Stakes, Pendings
  <2> HIDE DEF f, g
  <2>2. SumFunction(f) = 0 /\ SumFunction(g) = 0
    BY <1>z, <2>1, Finite, SumAll
  <2>3. Cardinality(Running(task.parts)) = 0
    <3>1. Running(task.parts) = {}
      BY <1>1, <1>2 DEF Running
    <3> QED
      BY <3>1, FS_EmptySet
  <2>4. ASSUME NEW w \in Wallets
        PROVE  task.parts[w].pending = SumFunctionOnSet(Promised(task), Rounds \X {w})
    <3>1. \A k \in Rounds \X {w} : Promised(task)[k] = 0
      BY <1>1 DEF Promised
    <3>2. SumFunctionOnSet(Promised(task), Rounds \X {w}) = 0
      BY <1>z, <3>1, Finite
    <3> QED
      BY <1>1, <1>2, <3>2
  <2> QED
    BY <1>1, <2>2, <2>3, <2>4 DEF Totals, Running, Stakes, Pendings, f, g
<1>5. TaskSound(task)
  BY <1>1, <1>3, <1>4 DEF TaskSound
<1>6. /\ DOMAIN store = StoreFields /\ DOMAIN store.tasks = Tasks
      /\ \A k \in Tasks : store.tasks[k] = task
      /\ store.proofs = {} /\ store.receipts = {}
  BY DEF Init, NewTaskStateStore, StoreFields, task
<1>7. StoreSound(store)
  <2>1. StoreShape(store)
    BY InitInv DEF MarketInv, StoreOK
  <2> QED
    BY <1>5, <1>6, <2>1 DEF StoreSound
<1>8. balances = b /\ b \in [Payees -> Nat] /\ DOMAIN b = Payees /\ DOMAIN StartBalance = Wallets
  BY TaskAssumption DEF Init, TaskAssumption
<1>9. TypeOK
  <2>1. nonces \in [Wallets -> Nat] /\ tip \in 0 .. MaxHeight /\ burned \in Nat
    BY TaskAssumption DEF Init, TaskAssumption
  <2> QED
    BY <1>3, <1>6, <1>8, <2>1 DEF TypeOK
<1>10. SumFunction(balances) = SumFunction(StartBalance)
  <2>1. \A w \in Payees : b[w] = IF w \in Wallets THEN StartBalance[w] ELSE 0
    OBVIOUS
  <2>2. Wallets \in SUBSET Payees /\ IsFiniteSet(Payees) /\ \A w \in Wallets : StartBalance[w] \in Nat
    BY Finite, TaskAssumption DEF Payees, TaskAssumption
  <2> HIDE DEF b
  <2>3. SumFunctionOnSet(b, Payees) = SumFunctionOnSet(StartBalance, Wallets)
    BY <2>1, <2>2, SumWithin
  <2>4. SumFunction(b) = SumFunctionOnSet(b, Payees) /\ SumFunction(StartBalance) = SumFunctionOnSet(StartBalance, Wallets)
    BY <1>8, SumAll
  <2> QED
    BY <1>8, <2>3, <2>4
<1>11. SumFunction(WorthOf(store.tasks)) = 0
  <2> DEFINE f == WorthOf(store.tasks)
  <2>1. DOMAIN f = Tasks /\ \A k \in Tasks : f[k] = 0
    BY <1>1, <1>6 DEF WorthOf, Worth
  <2> HIDE DEF f
  <2>2. SumFunction(f) = 0
    BY <1>z, <2>1, Finite, SumAll
  <2> QED
    BY <2>2 DEF f
<1>12. SumFunction(balances) \in Nat
  <2>1. DOMAIN balances = Payees /\ \A w \in Payees : balances[w] \in Nat
    BY <1>8
  <2>2. SumFunctionOnSet(balances, Payees) \in Nat
    BY <2>1, Finite, SumNat
  <2> QED
    BY <2>1, <2>2, SumAll
<1>13. CellConserved
  <2>1. burned = 0
    BY DEF Init
  <2> QED
    BY <1>10, <1>11, <1>12, <2>1 DEF CellConserved, WorthOf
<1> QED
  BY <1>7, <1>9, <1>13 DEF MoneyInv

\* A committed transaction moves amounts between accounts and its task and
\* burns the fee.
LEMMA TxMoney ==
    ASSUME MoneyInv, NEW t, WellFormed(t), ApplyEconomicTx(t)
    PROVE  MoneyInv'
<1>1. CASE Commit(t)
  <2>1. /\ StoreSound(store) /\ balances \in [Payees -> Nat] /\ nonces \in [Wallets -> Nat]
        /\ tip \in 0 .. MaxHeight /\ burned \in Nat /\ t.sender \in Wallets
        /\ SumFunction(balances) + SumFunction(WorthOf(store.tasks)) + burned = SumFunction(StartBalance)
    BY DEF MoneyInv, TypeOK, CellConserved, WellFormed, WorthOf
  <2>2. /\ Affords(t) /\ Worthwhile(store, t) /\ store' = Applied(store, t)
        /\ balances' = [w \in Payees |-> balances[w] + Credit(store, t, w)
                                     - IF w = t.sender THEN Charge(t) ELSE 0]
        /\ nonces' = [nonces EXCEPT ![t.sender] = @ + 1]
        /\ burned' = burned + Fee /\ tip' = tip
    BY <1>1 DEF Commit
  <2>3. Moved(store, Applied(store, t), t)
    <3> DEFINE h == Height
    <3>1. Accepts(store, t, h)
      BY <1>1 DEF Commit
    <3> HIDE DEF h
    <3> QED
      BY <2>1, <2>2, <3>1, AppliedMoves
  <2> DEFINE c == Applied(store, t)
             b == balances'
             s == store
             a == balances
  <2>4. /\ StoreSound(c) /\ SumFunction(WorthOf(s.tasks)) \in Nat
        /\ SumFunction(WorthOf(c.tasks)) = SumFunction(WorthOf(s.tasks)) + Deposit(t) - Payout(s, t)
    BY <2>1, <2>3, WorthMoves
  <2>5. /\ b \in [Payees -> Nat]
        /\ SumFunction(b) = SumFunction(a) + Payout(s, t) - Fee - Deposit(t)
        /\ SumFunction(a) \in Nat
    BY <2>1, <2>2, AccountsMove DEF Affords
  <2>6. Deposit(t) \in Nat /\ Payout(s, t) \in Nat /\ Fee \in Nat
    BY <2>1, AmountFacts, Finite
  <2>7. SumFunction(b) + SumFunction(WorthOf(c.tasks)) + burned' = SumFunction(StartBalance)
    <3> HIDE DEF a, b, c, s
    <3>1. SumFunction(a) + SumFunction(WorthOf(s.tasks)) + burned = SumFunction(StartBalance)
      BY <2>1 DEF a, s
    <3> QED
      BY <2>1, <2>2, <2>4, <2>5, <2>6, <3>1
  <2>8. CellConserved'
    BY <2>2, <2>7 DEF CellConserved, WorthOf
  <2>9. StoreSound(store)'
    BY <2>2, <2>4 DEF StoreSound
  <2>10. TypeOK'
    <3>1. nonces' \in [Wallets -> Nat]
      BY <2>1, <2>2
    <3>2. tip' \in 0 .. MaxHeight /\ burned' \in Nat /\ balances' \in [Payees -> Nat]
      BY <2>1, <2>2, <2>5, <2>6
    <3> QED
      BY <2>9, <3>1, <3>2 DEF TypeOK, StoreSound, TaskSound
  <2> QED
    BY <2>8, <2>9, <2>10 DEF MoneyInv
<1>2. CASE Refuse(t)
  BY <1>2 DEF Refuse, Restore, MoneyInv, StoreSound, TypeOK, CellConserved
<1> QED
  BY <1>1, <1>2 DEF ApplyEconomicTx

\* Every step keeps the amounts.
LEMMA MoneyNext == MoneyInv /\ [Next]_vars => MoneyInv'
<1> SUFFICES ASSUME MoneyInv, [Next]_vars
             PROVE  MoneyInv'
  OBVIOUS
<1>1. ASSUME NEW t, WellFormed(t), ApplyEconomicTx(t)
      PROVE  MoneyInv'
  BY <1>1, TxMoney
<1>2. CASE SealBlock
  <2>1. tip' \in 0 .. MaxHeight
    BY <1>2, TaskAssumption DEF SealBlock, MoneyInv, TypeOK, TaskAssumption
  <2> QED
    BY <1>2, <2>1 DEF SealBlock, MoneyInv, StoreSound, TypeOK, CellConserved
<1>3. CASE UNCHANGED vars
  BY <1>3 DEF vars, MoneyInv, StoreSound, TypeOK, CellConserved
<1> QED
  BY <1>1, <1>2, <1>3, Steps

\* The inductive invariant of the amounts: the tasks have their types, their
\* totals agree with their participants and submissions, and CELL is conserved.
THEOREM MoneyCorrect == Spec => []MoneyInv
  BY MoneyInit, MoneyNext, PTL DEF Spec

\* The task totals are those of the participants, and what a participant has
\* pending is what its unclaimed submissions promise, whatever is replaced,
\* claimed or settled (applySubmissionLocked, applyClaimLocked).
THEOREM TotalsCorrect == Spec => []TotalsInv
<1>1. MoneyInv => TotalsInv
  BY DEF MoneyInv, StoreSound, TaskSound, TotalsInv
<1> QED
  BY <1>1, MoneyCorrect, PTL

\* CELL is conserved by every transaction of the market but for its fee
\* (applyEconomicTx).
THEOREM CellCorrect == Spec => []CellConserved
<1>1. MoneyInv => CellConserved
  BY DEF MoneyInv
<1> QED
  BY <1>1, MoneyCorrect, PTL

=============================================================================

-------------------------------- MODULE Sums --------------------------------
EXTENDS Functions, FiniteSetTheorems, TLAPS
(***************************************************************************)
(* Least elements, and the sum of a function as the community modules      *)
(* define it: a fold over the function's domain in an order nobody knows.  *)
(* The proofs about the budgets and the audit chain use them.              *)
(***************************************************************************)

\* The element a fold takes next.
Pick(s) == CHOOSE x \in s : TRUE

\* A table of sums of f over the subsets of S.
Sums(g, f, S) ==
  g = [s \in SUBSET S |-> IF s = {} THEN 0 ELSE f[Pick(s)] + g[s \ {Pick(s)}]]

\* A sum is what such a table says of the whole set.
LEMMA SumTable ==
  ASSUME NEW f, NEW S
  PROVE  SumFunctionOnSet(f, S) = (CHOOSE g : Sums(g, f, S))[S]
  BY DEF SumFunctionOnSet, FoldFunctionOnSet, MapThenFoldSet, Sums, Pick

(***************************************************************************)
(* Least elements stand in for induction over sets and naturals.           *)
(***************************************************************************)
\* Among the subsets of a finite set one has no other below it.
LEMMA LeastSubset ==
  ASSUME NEW S, IsFiniteSet(S), NEW F \in SUBSET (SUBSET S), F # {}
  PROVE  \E m \in F : \A u \in F : u \subseteq m => u = m
<1>1. F \subseteq FiniteSubsetsOf(S)
  BY FS_FiniteSubsetsOfFinite
<1>2. PICK m \in F : \A u \in F : <<u, m>> \notin StrictSubsetOrdering(S)
  BY <1>1, FS_StrictSubsetOrderingWellFounded, WFMin
<1>3. QED
  BY <1>2 DEF StrictSubsetOrdering

\* A set of naturals has a least one.
LEMMA LeastNatural ==
  ASSUME NEW S \in SUBSET Nat, S # {}
  PROVE  \E m \in S : \A n \in S : m <= n
<1>1. PICK k \in S : TRUE
  OBVIOUS
<1> DEFINE Upto == {n \in S : n <= k}
           F == {0 .. n : n \in Upto}
           All == 0 .. k
<1>2. IsFiniteSet(All)
  BY FS_Interval
<1>3. F \in SUBSET (SUBSET All) /\ F # {}
  OBVIOUS
<1>4. PICK u \in F : \A v \in F : v \subseteq u => v = u
  <2> HIDE DEF F, All
  <2>1. QED BY <1>2, <1>3, LeastSubset
<1>5. PICK m \in Upto : u = 0 .. m
  BY <1>4
<1>6. ASSUME NEW n \in S, n < m
      PROVE  FALSE
  <2>1. n \in Upto /\ 0 .. n \in F
    BY <1>5, <1>6
  <2>2. 0 .. n \subseteq 0 .. m /\ m \in 0 .. m /\ m \notin 0 .. n
    BY <1>5, <1>6
  <2>3. QED BY <1>4, <1>5, <2>1, <2>2
<1>7. QED
  BY <1>5, <1>6

(***************************************************************************)
(* Sums.                                                                   *)
(***************************************************************************)
\* Where two tables overlap they agree.
LEMMA TablesAgree ==
  ASSUME NEW f, NEW S, IsFiniteSet(S), NEW T \in SUBSET S, NEW g, NEW h, Sums(g, f, S), Sums(h, f, T)
  PROVE  \A s \in SUBSET T : g[s] = h[s]
<1> DEFINE Differ == {s \in SUBSET T : g[s] # h[s]}
<1>1. SUFFICES ASSUME Differ # {} PROVE FALSE
  OBVIOUS
<1>2. IsFiniteSet(T)
  BY FS_Subset
<1>3. PICK s \in Differ : \A u \in Differ : u \subseteq s => u = s
  <2> HIDE DEF Differ
  <2>1. Differ \in SUBSET (SUBSET T)
    BY DEF Differ
  <2>2. QED
    BY <1>1, <1>2, <2>1, LeastSubset
<1>4. s # {}
  BY <1>3 DEF Sums
<1>5. Pick(s) \in s
  BY <1>4 DEF Pick
<1>6. g[s \ {Pick(s)}] = h[s \ {Pick(s)}]
  BY <1>3, <1>5
<1>7. QED
  BY <1>3, <1>4, <1>6 DEF Sums

\* Every finite set has a table.
LEMMA TableExists ==
  ASSUME NEW f, NEW S, IsFiniteSet(S)
  PROVE  \E g : Sums(g, f, S)
<1> DEFINE Bad == {T \in SUBSET S : ~\E g : Sums(g, f, T)}
<1>1. SUFFICES ASSUME Bad # {} PROVE FALSE
  OBVIOUS
<1>2. PICK T \in Bad : \A U \in Bad : U \subseteq T => U = T
  <2> HIDE DEF Bad
  <2>1. Bad \in SUBSET (SUBSET S)
    BY DEF Bad
  <2>2. QED
    BY <1>1, <2>1, LeastSubset
<1> DEFINE Of(U) == CHOOSE g : Sums(g, f, U)
           Rest(s) == s \ {Pick(s)}
           G == [s \in SUBSET T |-> IF s = {} THEN 0 ELSE f[Pick(s)] + Of(Rest(s))[Rest(s)]]
<1>3. ASSUME NEW U \in SUBSET T, U # T
      PROVE  Sums(Of(U), f, U)
  <2>1. \E g : Sums(g, f, U)
    BY <1>2, <1>3
  <2>2. QED
    BY <2>1
<1>4. ASSUME NEW s \in SUBSET T, s # {}
      PROVE  G[Rest(s)] = Of(Rest(s))[Rest(s)]
  <2>1. Pick(s) \in s
    BY <1>4 DEF Pick
  <2> DEFINE r == Rest(s)
  <2>2. r \in SUBSET T /\ r # T
    BY <2>1
  <2>3. Sums(Of(r), f, r)
    BY <1>3, <2>2
  <2>4. CASE r = {}
    <3>1. Of(r)[r] = 0
      BY <2>3, <2>4 DEF Sums
    <3>2. QED
      BY <3>1, <2>4
  <2>5. CASE r # {}
    <3>1. Pick(r) \in r
      BY <2>5 DEF Pick
    <3>2. Rest(r) \in SUBSET r /\ Rest(r) # T /\ Rest(r) \in SUBSET T
      BY <2>2, <3>1
    <3>3. IsFiniteSet(r)
      BY <2>2, FS_Subset
    <3>4. Sums(Of(Rest(r)), f, Rest(r))
      BY <1>3, <3>2
    <3>5. Of(r)[Rest(r)] = Of(Rest(r))[Rest(r)]
      <4> HIDE DEF Of, Rest, r
      <4>1. QED
        BY <2>3, <3>2, <3>3, <3>4, TablesAgree
    <3>6. Of(r)[r] = f[Pick(r)] + Of(r)[Rest(r)]
      BY <2>3, <2>5 DEF Sums
    <3>7. G[r] = f[Pick(r)] + Of(Rest(r))[Rest(r)]
      BY <2>2, <2>5
    <3>8. QED
      BY <3>5, <3>6, <3>7
  <2>6. QED
    BY <2>4, <2>5
<1>5. Sums(G, f, T)
  <2>1. \A s \in SUBSET T : s # {} => G[s] = f[Pick(s)] + G[Rest(s)]
    BY <1>4
  <2>2. G[{}] = 0
    OBVIOUS
  <2>3. G = [s \in SUBSET T |-> G[s]]
    OBVIOUS
  <2>4. QED
    BY <2>1, <2>2, <2>3 DEF Sums
<1>6. QED
  BY <1>2, <1>5

\* The recursion of a sum.
LEMMA SumStep ==
  ASSUME NEW f, NEW S, IsFiniteSet(S)
  PROVE  SumFunctionOnSet(f, S) =
           IF S = {} THEN 0 ELSE f[Pick(S)] + SumFunctionOnSet(f, S \ {Pick(S)})
<1> DEFINE Of(U) == CHOOSE g : Sums(g, f, U)
           R == S \ {Pick(S)}
<1>1. Sums(Of(S), f, S) /\ Sums(Of(R), f, R)
  <2>1. IsFiniteSet(R)
    BY FS_Subset
  <2>2. QED
    BY <2>1, TableExists
<1>2. SumFunctionOnSet(f, S) = Of(S)[S] /\ SumFunctionOnSet(f, R) = Of(R)[R]
  BY SumTable
<1>3. Of(S)[R] = Of(R)[R]
  <2> HIDE DEF Of
  <2>1. QED
    BY <1>1, TablesAgree
<1>4. Of(S)[S] = IF S = {} THEN 0 ELSE f[Pick(S)] + Of(S)[R]
  BY <1>1 DEF Sums
<1>5. QED
  BY <1>2, <1>3, <1>4

\* Sums of naturals are naturals.
LEMMA SumIsNatural ==
  ASSUME NEW f, NEW S, IsFiniteSet(S), \A x \in S : f[x] \in Nat
  PROVE  SumFunctionOnSet(f, S) \in Nat
<1> DEFINE Bad == {T \in SUBSET S : SumFunctionOnSet(f, T) \notin Nat}
<1>1. SUFFICES ASSUME Bad # {} PROVE FALSE
  OBVIOUS
<1>2. PICK T \in Bad : \A U \in Bad : U \subseteq T => U = T
  <2> HIDE DEF Bad
  <2>1. Bad \in SUBSET (SUBSET S)
    BY DEF Bad
  <2>2. QED
    BY <1>1, <2>1, LeastSubset
<1>3. IsFiniteSet(T)
  BY FS_Subset
<1>4. SumFunctionOnSet(f, T) =
        IF T = {} THEN 0 ELSE f[Pick(T)] + SumFunctionOnSet(f, T \ {Pick(T)})
  BY <1>3, SumStep
<1>5. T # {} => Pick(T) \in T
  BY DEF Pick
<1>6. T # {} => SumFunctionOnSet(f, T \ {Pick(T)}) \in Nat
  BY <1>2, <1>5
<1>7. QED
  BY <1>2, <1>4, <1>5, <1>6

\* Only the values on the set matter.
LEMMA SumOfEquals ==
  ASSUME NEW f, NEW g, NEW S, IsFiniteSet(S), \A x \in S : f[x] = g[x]
  PROVE  SumFunctionOnSet(f, S) = SumFunctionOnSet(g, S)
<1> DEFINE Bad == {T \in SUBSET S : SumFunctionOnSet(f, T) # SumFunctionOnSet(g, T)}
<1>1. SUFFICES ASSUME Bad # {} PROVE FALSE
  OBVIOUS
<1>2. PICK T \in Bad : \A U \in Bad : U \subseteq T => U = T
  <2> HIDE DEF Bad
  <2>1. Bad \in SUBSET (SUBSET S)
    BY DEF Bad
  <2>2. QED
    BY <1>1, <2>1, LeastSubset
<1>3. IsFiniteSet(T)
  BY FS_Subset
<1>4. /\ SumFunctionOnSet(f, T) =
           IF T = {} THEN 0 ELSE f[Pick(T)] + SumFunctionOnSet(f, T \ {Pick(T)})
      /\ SumFunctionOnSet(g, T) =
           IF T = {} THEN 0 ELSE g[Pick(T)] + SumFunctionOnSet(g, T \ {Pick(T)})
  BY <1>3, SumStep
<1>5. T # {} => Pick(T) \in T
  BY DEF Pick
<1>6. T # {} => SumFunctionOnSet(f, T \ {Pick(T)}) = SumFunctionOnSet(g, T \ {Pick(T)})
  BY <1>2, <1>5
<1>7. QED
  BY <1>2, <1>4, <1>5, <1>6

\* Any summand can be taken out first.
LEMMA SumSplits ==
  ASSUME NEW f, NEW S, IsFiniteSet(S), \A x \in S : f[x] \in Nat, NEW x \in S
  PROVE  SumFunctionOnSet(f, S) = f[x] + SumFunctionOnSet(f, S \ {x})
<1> DEFINE Bad == {T \in SUBSET S : \E y \in T :
                     SumFunctionOnSet(f, T) # f[y] + SumFunctionOnSet(f, T \ {y})}
<1>1. SUFFICES ASSUME Bad # {} PROVE FALSE
  OBVIOUS
<1>2. PICK T \in Bad : \A U \in Bad : U \subseteq T => U = T
  <2> HIDE DEF Bad
  <2>1. Bad \in SUBSET (SUBSET S)
    BY DEF Bad
  <2>2. QED
    BY <1>1, <2>1, LeastSubset
<1>3. PICK y \in T : SumFunctionOnSet(f, T) # f[y] + SumFunctionOnSet(f, T \ {y})
  BY <1>2
<1> DEFINE p == Pick(T)
           Both == (T \ {y}) \ {p}
<1>4. p \in T
  BY <1>3 DEF Pick
<1>5. IsFiniteSet(T) /\ IsFiniteSet(Both) /\ T \subseteq S
  BY FS_Subset
<1>6. SumFunctionOnSet(f, T) = f[p] + SumFunctionOnSet(f, T \ {p})
  BY <1>3, <1>5, SumStep
<1>7. p # y
  BY <1>3, <1>6
<1>8. /\ SumFunctionOnSet(f, T \ {p}) = f[y] + SumFunctionOnSet(f, (T \ {p}) \ {y})
      /\ SumFunctionOnSet(f, T \ {y}) = f[p] + SumFunctionOnSet(f, Both)
  <2>1. ASSUME NEW U \in SUBSET T, U # T, NEW z \in U
        PROVE  SumFunctionOnSet(f, U) = f[z] + SumFunctionOnSet(f, U \ {z})
    BY <1>2, <2>1
  <2>2. y \in T \ {p} /\ p \in T \ {y} /\ T \ {p} # T /\ T \ {y} # T
    BY <1>4, <1>7
  <2> HIDE DEF p, Bad
  <2>3. QED
    BY <2>1, <2>2
<1>9. (T \ {p}) \ {y} = Both
  OBVIOUS
<1>10. f[p] \in Nat /\ f[y] \in Nat /\ SumFunctionOnSet(f, Both) \in Nat
  BY <1>4, <1>5, SumIsNatural
<1>11. QED
  BY <1>3, <1>6, <1>8, <1>9, <1>10

\* The sum over two sets without a common element.
LEMMA SumOfUnion ==
  ASSUME NEW f, NEW A, NEW B, IsFiniteSet(A), IsFiniteSet(B), A \cap B = {},
         \A x \in A \cup B : f[x] \in Nat
  PROVE  SumFunctionOnSet(f, A \cup B) = SumFunctionOnSet(f, A) + SumFunctionOnSet(f, B)
<1> DEFINE Bad == {T \in SUBSET B :
                     SumFunctionOnSet(f, A \cup T) # SumFunctionOnSet(f, A) + SumFunctionOnSet(f, T)}
<1>1. SUFFICES ASSUME Bad # {} PROVE FALSE
  OBVIOUS
<1>2. PICK T \in Bad : \A U \in Bad : U \subseteq T => U = T
  <2> HIDE DEF Bad
  <2>1. Bad \in SUBSET (SUBSET B)
    BY DEF Bad
  <2>2. QED BY <1>1, <2>1, LeastSubset
<1>3. T \subseteq B /\ IsFiniteSet(T) /\ IsFiniteSet(A \cup T)
  BY FS_Subset, FS_Union
<1>4. SumFunctionOnSet(f, A) \in Nat
  BY SumIsNatural
<1>5. T # {}
  <2>1. SumFunctionOnSet(f, {}) = 0
    BY SumStep, FS_EmptySet
  <2>2. A \cup {} = A
    OBVIOUS
  <2>3. ASSUME T = {} PROVE FALSE
    BY <1>4, <2>1, <2>2, <2>3
  <2>4. QED BY <2>3
<1>6. PICK x \in T : TRUE
  BY <1>5
<1> DEFINE R == T \ {x}
<1>7. SumFunctionOnSet(f, A \cup R) = SumFunctionOnSet(f, A) + SumFunctionOnSet(f, R)
  BY <1>2, <1>3, <1>6
<1>8. SumFunctionOnSet(f, T) = f[x] + SumFunctionOnSet(f, R)
  BY <1>3, SumSplits
<1>9. SumFunctionOnSet(f, A \cup T) = f[x] + SumFunctionOnSet(f, A \cup R)
  <2>1. (A \cup T) \ {x} = A \cup R
    BY <1>3
  <2>2. \A y \in A \cup T : f[y] \in Nat
    BY <1>3
  <2>3. x \in A \cup T
    OBVIOUS
  <2>4. SumFunctionOnSet(f, A \cup T) = f[x] + SumFunctionOnSet(f, (A \cup T) \ {x})
    BY <1>3, <2>2, <2>3, SumSplits
  <2>5. QED BY <2>1, <2>4
<1>10. SumFunctionOnSet(f, R) \in Nat /\ f[x] \in Nat
  <2>1. IsFiniteSet(R)
    BY <1>3, FS_Subset
  <2>2. QED BY <1>3, <2>1, SumIsNatural
<1> HIDE DEF R
<1>11. SumFunctionOnSet(f, A \cup T) = SumFunctionOnSet(f, A) + SumFunctionOnSet(f, T)
  BY <1>4, <1>7, <1>8, <1>9, <1>10
<1>12. QED BY <1>2, <1>11

\* What is shared out among G, with at most b for each, comes to at most b for
\* each of G.
LEMMA SumOfShares ==
  ASSUME NEW f, NEW S, IsFiniteSet(S), \A x \in S : f[x] \in Nat,
         NEW G, IsFiniteSet(G), NEW h \in [S -> G], NEW b \in Nat,
         \A o \in G : SumFunctionOnSet(f, {x \in S : h[x] = o}) <= b
  PROVE  SumFunctionOnSet(f, S) <= b * Cardinality(G)
<1> DEFINE Of(T) == {x \in S : h[x] \in T}
           Bad == {T \in SUBSET G : ~(SumFunctionOnSet(f, Of(T)) <= b * Cardinality(T))}
<1>1. ASSUME Bad # {} PROVE FALSE
  <2>1. PICK T \in Bad : \A U \in Bad : U \subseteq T => U = T
    <3> HIDE DEF Bad
    <3>1. Bad \in SUBSET (SUBSET G)
      BY DEF Bad
    <3>2. QED BY <1>1, <3>1, LeastSubset
  <2>2. T \subseteq G /\ IsFiniteSet(T)
    BY FS_Subset
  <2>3. T # {}
    <3>1. ASSUME T = {} PROVE FALSE
      <4>1. Of(T) = {} /\ Cardinality(T) = 0
        BY <3>1, FS_EmptySet
      <4>2. SumFunctionOnSet(f, Of(T)) = 0
        BY <4>1, SumStep, FS_EmptySet
      <4>3. b * Cardinality(T) = 0
        BY <4>1
      <4>4. ~(SumFunctionOnSet(f, Of(T)) <= b * Cardinality(T))
        BY <2>1
      <4> HIDE DEF Of
      <4>5. QED BY <4>2, <4>3, <4>4
    <3>2. QED BY <3>1
  <2>4. PICK o \in T : TRUE
    BY <2>3
  <2> DEFINE R == T \ {o}
             Mine == {x \in S : h[x] = o}
  <2>5. SumFunctionOnSet(f, Of(R)) <= b * Cardinality(R)
    BY <2>1, <2>2
  <2>6. /\ Cardinality(R) \in Nat /\ Cardinality(T) = Cardinality(R) + 1
    <3>1. IsFiniteSet(R) /\ T = R \cup {o} /\ o \notin R
      BY <2>2, FS_Subset
    <3> HIDE DEF R
    <3>2. QED BY <3>1, FS_AddElement, FS_CardinalityType
  <2>7. SumFunctionOnSet(f, Of(T)) = SumFunctionOnSet(f, Of(R)) + SumFunctionOnSet(f, Mine)
    <3>1. Of(R) \cup Mine = Of(T) /\ Of(R) \cap Mine = {} /\ Of(R) \subseteq S /\ Mine \subseteq S
      OBVIOUS
    <3>2. IsFiniteSet(Of(R)) /\ IsFiniteSet(Mine)
      BY <3>1, FS_Subset
    <3>3. \A x \in Of(R) \cup Mine : f[x] \in Nat
      BY <3>1
    <3> HIDE DEF Of, R, Mine
    <3>4. QED BY <3>1, <3>2, <3>3, SumOfUnion
  <2>8. SumFunctionOnSet(f, Of(R)) \in Nat /\ SumFunctionOnSet(f, Mine) \in Nat
    <3>1. ASSUME NEW U \in SUBSET S PROVE SumFunctionOnSet(f, U) \in Nat
      BY FS_Subset, SumIsNatural
    <3>2. Of(R) \in SUBSET S /\ Mine \in SUBSET S
      OBVIOUS
    <3> HIDE DEF Of, R, Mine
    <3>3. QED BY <3>1, <3>2
  <2>9. SumFunctionOnSet(f, Mine) <= b
    BY <2>2
  <2>10. ~(SumFunctionOnSet(f, Of(T)) <= b * Cardinality(T))
    BY <2>1
  <2> HIDE DEF R, Mine, Of, Bad
  <2>11. b * (Cardinality(R) + 1) = b * Cardinality(R) + b /\ b * Cardinality(R) \in Nat
    BY <2>6
  <2>12. QED BY <2>5, <2>6, <2>7, <2>8, <2>9, <2>10, <2>11
<1>2. G \notin Bad
  BY <1>1
<1>3. Of(G) = S
  OBVIOUS
<1> HIDE DEF Of
<1>4. QED BY <1>2, <1>3

\* The sum of nothing.
LEMMA SumStarts ==
  ASSUME NEW f, DOMAIN f = {}
  PROVE  SumFunction(f) = 0
  BY SumStep, FS_EmptySet DEF SumFunction

\* A sum grows by the summand added to it.
LEMMA SumGrows ==
  ASSUME NEW f, IsFiniteSet(DOMAIN f), \A x \in DOMAIN f : f[x] \in Nat,
         NEW g, NEW x, x \notin DOMAIN f, DOMAIN g = DOMAIN f \cup {x}, g[x] \in Nat,
         \A y \in DOMAIN f : g[y] = f[y]
  PROVE  /\ SumFunction(f) \in Nat
         /\ SumFunction(g) = SumFunction(f) + g[x]
<1>1. SumFunctionOnSet(f, DOMAIN f) \in Nat
  BY SumIsNatural
<1>2. IsFiniteSet(DOMAIN g)
  BY FS_AddElement
<1>3. SumFunctionOnSet(g, DOMAIN g) = g[x] + SumFunctionOnSet(g, DOMAIN g \ {x})
  BY <1>2, SumSplits
<1>4. DOMAIN g \ {x} = DOMAIN f
  OBVIOUS
<1>5. SumFunctionOnSet(g, DOMAIN f) = SumFunctionOnSet(f, DOMAIN f)
  BY SumOfEquals
<1>6. QED
  BY <1>1, <1>3, <1>4, <1>5 DEF SumFunction

(***************************************************************************)
(* Counting.                                                               *)
(***************************************************************************)
\* More of the same.
LEMMA Multiples ==
  ASSUME NEW a \in Nat, NEW b \in Nat, NEW m \in Nat, a <= b
  PROVE  /\ a * m \in Nat /\ b * m \in Nat /\ a * m <= b * m
         /\ (a + 1) * m = a * m + m
<1>1. PICK d \in Nat : b = a + d
  <2>1. b - a \in Nat /\ b = a + (b - a)
    OBVIOUS
  <2>2. QED BY <2>1
<1>2. (a + d) * m = a * m + d * m
  OBVIOUS
<1>3. d * m \in Nat /\ a * m \in Nat
  OBVIOUS
<1>4. (a + 1) * m = a * m + m
  OBVIOUS
<1>5. QED BY <1>1, <1>2, <1>3, <1>4

\* As many as there are things to name, at most.
LEMMA NamesCount ==
  ASSUME NEW S, IsFiniteSet(S), NEW f, NEW T \in SUBSET {f[x] : x \in S}
  PROVE  IsFiniteSet(T) /\ Cardinality(T) \in Nat /\ Cardinality(T) <= Cardinality(S)
<1> DEFINE g == [x \in S |-> f[x]]
           All == {f[x] : x \in S}
<1>1. g \in Surjection(S, All)
  BY DEF Surjection
<1>2. T \in SUBSET All
  OBVIOUS
<1> HIDE DEF g, All
<1>3. IsFiniteSet(All) /\ Cardinality(All) <= Cardinality(S)
  BY <1>1, FS_Surjection
<1>4. IsFiniteSet(T) /\ Cardinality(T) <= Cardinality(All)
  BY <1>2, <1>3, FS_Subset
<1>5. Cardinality(T) \in Nat /\ Cardinality(All) \in Nat /\ Cardinality(S) \in Nat
  BY <1>3, <1>4, FS_CardinalityType
<1>6. QED BY <1>3, <1>4, <1>5

(***************************************************************************)
(* Sharing a budget: calls that were each let through by the sum there was *)
(* and add to it later.                                                    *)
(***************************************************************************)
Times(n, most) == n * most

\* Each of the calls in F costs something, up to most.
Costs(F, cost, most) == IsFiniteSet(F) /\ \A k \in F : cost[k] \in 0 .. most

\* With s spent, one call in F spends its cost and the others the most there is:
\* the allowance is enough.
Suffices(F, cost, s, most, allowance) ==
  \/ F = {} /\ s <= allowance
  \/ \E k \in F : s + cost[k] + Times(Cardinality(F) - 1, most) <= allowance

LEMMA TimesMore ==
  ASSUME NEW a \in Nat, NEW b \in Nat, NEW most \in Nat, a <= b
  PROVE  /\ Times(a, most) \in Nat /\ Times(b, most) \in Nat /\ Times(a, most) <= Times(b, most)
         /\ Times(a + 1, most) = Times(a, most) + most
BY Multiples DEF Times

\* A finite set without one of its elements.
LEMMA OneFewer ==
  ASSUME NEW F, IsFiniteSet(F), NEW k \in F
  PROVE  /\ Cardinality(F) \in Nat /\ Cardinality(F) - 1 \in Nat
         /\ IsFiniteSet(F \ {k}) /\ Cardinality(F \ {k}) = Cardinality(F) - 1
<1>1. Cardinality(F) \in Nat /\ Cardinality(F \ {k}) = Cardinality(F) - 1 /\ IsFiniteSet(F \ {k})
  BY FS_CardinalityType, FS_RemoveElement
<1>2. Cardinality(F \ {k}) \in Nat
  BY <1>1, FS_CardinalityType
<1>3. QED BY <1>1, <1>2

\* Whoever was let through last fitted the budget itself; n calls at once need
\* an allowance of n - 1 purchases more.
LEMMA SufficesVerified ==
  ASSUME NEW F, NEW cost, NEW most \in Nat, Costs(F, cost, most), NEW s \in Nat, NEW k \in F,
         NEW n \in Nat, Cardinality(F) <= n, NEW budget \in Nat, s + cost[k] <= budget
  PROVE  Suffices(F, cost, s, most, budget + Times(n - 1, most))
<1>1. Cardinality(F) \in Nat /\ Cardinality(F) - 1 \in Nat /\ cost[k] \in Nat
  <2>1. IsFiniteSet(F) /\ cost[k] \in Nat
    BY DEF Costs
  <2>2. QED BY <2>1, OneFewer
<1>2. n - 1 \in Nat /\ Cardinality(F) - 1 <= n - 1
  <2> DEFINE c == Cardinality(F)
  <2>1. c - 1 \in Nat /\ c \in Nat /\ c <= n
    BY <1>1
  <2> HIDE DEF c
  <2>2. n - 1 \in Nat /\ c - 1 <= n - 1
    BY <2>1
  <2>3. QED BY <2>2 DEF c
<1>3. Times(Cardinality(F) - 1, most) <= Times(n - 1, most)
      /\ Times(Cardinality(F) - 1, most) \in Nat /\ Times(n - 1, most) \in Nat
  BY <1>1, <1>2, TimesMore
<1>4. s + cost[k] + Times(Cardinality(F) - 1, most) <= budget + Times(n - 1, most)
  BY <1>1, <1>3
<1>5. QED BY <1>4 DEF Suffices

\* The allowance is enough for what is spent.
LEMMA SufficesNow ==
  ASSUME NEW F, NEW cost, NEW most \in Nat, Costs(F, cost, most), NEW s \in Nat,
         NEW allowance \in Nat, Suffices(F, cost, s, most, allowance)
  PROVE  s <= allowance
<1>1. CASE F = {} /\ s <= allowance
  BY <1>1
<1>2. ASSUME NEW k \in F, s + cost[k] + Times(Cardinality(F) - 1, most) <= allowance
      PROVE  s <= allowance
  <2>0. IsFiniteSet(F) /\ cost[k] \in Nat
    BY DEF Costs
  <2>1. Cardinality(F) - 1 \in Nat /\ cost[k] \in Nat
    BY <2>0, OneFewer
  <2>2. Times(Cardinality(F) - 1, most) \in Nat
    BY <2>1, TimesMore
  <2>3. QED BY <1>2, <2>1, <2>2
<1>3. QED BY <1>1, <1>2 DEF Suffices

\* One call leaves F, having spent its cost or not.
LEMMA SufficesWithout ==
  ASSUME NEW F, NEW cost, NEW most \in Nat, Costs(F, cost, most), NEW s \in Nat,
         NEW allowance \in Nat, Suffices(F, cost, s, most, allowance),
         NEW j \in F, NEW t \in Nat, t <= s + cost[j]
  PROVE  Suffices(F \ {j}, cost, t, most, allowance)
<1> DEFINE G == F \ {j}
           n == Cardinality(F) - 1
<1>1. PICK k \in F : s + cost[k] + Times(n, most) <= allowance
  BY DEF Suffices
<1>2. /\ n \in Nat /\ Cardinality(G) = n /\ cost[k] \in Nat /\ cost[j] \in Nat /\ cost[k] <= most
      /\ cost[j] <= most /\ IsFiniteSet(G)
  <2>1. IsFiniteSet(F) /\ cost[k] \in 0 .. most /\ cost[j] \in 0 .. most
    BY DEF Costs
  <2>2. n \in Nat /\ Cardinality(G) = n /\ IsFiniteSet(G)
    BY <2>1, OneFewer
  <2>3. QED BY <2>1, <2>2
<1>3. Times(n, most) \in Nat
  BY <1>2, TimesMore
<1>4. CASE G = {}
  <2>1. j = k
    BY <1>4
  <2>2. t <= allowance
    BY <1>1, <1>2, <1>3, <2>1
  <2>3. QED BY <1>4, <2>2 DEF Suffices
<1>5. CASE G # {}
  <2>1. PICK i \in G : (j # k => i = k)
    BY <1>5
  <2>2. i \in F /\ cost[i] \in Nat /\ cost[i] <= most
    BY DEF Costs
  <2>3. n - 1 \in Nat
    <3>1. Cardinality(G) - 1 \in Nat
      BY <1>2, <2>1, OneFewer
    <3>2. QED BY <1>2, <3>1
  <2>4. Times(n - 1, most) \in Nat /\ Times(n, most) = Times(n - 1, most) + most
    <3>1. Times((n - 1) + 1, most) = Times(n - 1, most) + most /\ Times(n - 1, most) \in Nat
      BY <2>3, TimesMore
    <3>2. (n - 1) + 1 = n
      BY <1>2
    <3>3. QED BY <3>1, <3>2
  <2>5. t + cost[i] + Times(n - 1, most) <= allowance
    <3>1. CASE j = k
      BY <1>1, <1>2, <1>3, <2>2, <2>4, <3>1
    <3>2. CASE j # k
      BY <1>1, <1>2, <1>3, <2>1, <2>2, <2>4, <3>2
    <3>3. QED BY <3>1, <3>2
  <2>6. QED BY <1>2, <2>5 DEF Suffices
<1>6. QED BY <1>4, <1>5

\* Any calls leave F, and nothing more is spent.
LEMMA SufficesFewer ==
  ASSUME NEW F, NEW cost, NEW most \in Nat, Costs(F, cost, most), NEW s \in Nat,
         NEW allowance \in Nat, Suffices(F, cost, s, most, allowance),
         NEW G \in SUBSET F, NEW after, \A k \in G : after[k] = cost[k]
  PROVE  Suffices(G, after, s, most, allowance) /\ Costs(G, after, most)
<1>0. IsFiniteSet(F) /\ IsFiniteSet(G)
  BY FS_Subset DEF Costs
<1>1. Suffices(G, cost, s, most, allowance)
  <2>1. CASE G = F
    BY <2>1
  <2>2. CASE G = {}
    <3>1. s <= allowance
      BY SufficesNow
    <3>2. QED BY <2>2, <3>1 DEF Suffices
  <2>3. ASSUME G # F, G # {} PROVE Suffices(G, cost, s, most, allowance)
    <3>1. PICK k \in F : s + cost[k] + Times(Cardinality(F) - 1, most) <= allowance
      BY <2>3 DEF Suffices
    <3>2. PICK i \in G : k \in G => i = k
      BY <2>3
    <3> DEFINE n == (Cardinality(F) - 1) - 1
    <3>3. n \in Nat /\ Cardinality(G) - 1 \in Nat /\ Cardinality(G) - 1 <= n /\ Cardinality(F) - 1 = n + 1
      <4>1. PICK j \in F : j \notin G
        BY <2>3
      <4>2. G \subseteq F \ {j} /\ IsFiniteSet(F \ {j}) /\ Cardinality(F \ {j}) = Cardinality(F) - 1
            /\ Cardinality(F) \in Nat
        BY <1>0, <4>1, OneFewer
      <4>3. Cardinality(G) <= Cardinality(F) - 1
        BY <4>2, FS_Subset
      <4>4. Cardinality(G) - 1 \in Nat /\ Cardinality(G) \in Nat
        BY <1>0, <3>2, OneFewer
      <4>5. QED BY <4>2, <4>3, <4>4
    <3> HIDE DEF n
    <3>4. /\ Times(n, most) \in Nat /\ Times(Cardinality(F) - 1, most) = Times(n, most) + most
          /\ Times(Cardinality(G) - 1, most) \in Nat /\ Times(Cardinality(G) - 1, most) <= Times(n, most)
      BY <3>3, TimesMore
    <3>5. cost[k] \in Nat /\ cost[i] \in Nat /\ cost[i] <= most
      BY DEF Costs
    <3>6. s + cost[i] + Times(Cardinality(G) - 1, most) <= allowance
      BY <3>1, <3>4, <3>5
    <3>7. QED BY <3>6 DEF Suffices
  <2>4. QED BY <2>1, <2>2, <2>3
<1>2. QED BY <1>0, <1>1 DEF Suffices, Costs
=============================================================================

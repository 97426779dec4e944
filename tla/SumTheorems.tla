---------------------------- MODULE SumTheorems ----------------------------
(***************************************************************************)
(* Sums over finite sets: what MapThenSumSet, which adds element after     *)
(* element in an order of its own, gives for the empty set, one more       *)
(* element and a union.  Nothing here is about kese.                       *)
(***************************************************************************)
EXTENDS Integers, FiniteSets, FiniteSetsExt, FiniteSetTheorems, TLAPS

\* The sum of the weights of the elements of a set.
Total(w, S) == MapThenSumSet(LAMBDA x : w[x], S)

Pick(s) == CHOOSE x \in s : TRUE

\* The function by which MapThenSumSet computes the sum of each subset of S.
Iter(w, S, g) ==
    [s \in SUBSET S |-> IF s = {} THEN 0 ELSE w[Pick(s)] + g[s \ {Pick(s)}]]

LEMMA TotalIsIter ==
    ASSUME NEW w, NEW S
    PROVE  Total(w, S) = (CHOOSE g : g = Iter(w, S, g))[S]
BY DEF Total, Iter, Pick, MapThenSumSet, MapThenFoldSet

\* A set of subsets of a finite set has a least one: induction over finite sets.
LEMMA Least ==
    ASSUME NEW S, IsFiniteSet(S), NEW Bad \in SUBSET (SUBSET S), Bad # {}
    PROVE  \E T \in Bad : \A U \in Bad : U \subseteq T => U = T
<1>1. IsWellFoundedOn(StrictSubsetOrdering(S), SUBSET S)
  BY FS_StrictSubsetOrderingWellFounded, FS_FiniteSubsetsOfFinite
<1>2. PICK T \in Bad : \A U \in Bad : ~(<<U, T>> \in StrictSubsetOrdering(S))
  BY <1>1, WFMin
<1> QED BY <1>2 DEF StrictSubsetOrdering

\* A finite set has finitely many images.
LEMMA FiniteImage ==
    ASSUME NEW S, IsFiniteSet(S), NEW f, NEW R, \A y \in R : \E x \in S : y = f[x]
    PROVE  IsFiniteSet(R)
<1> DEFINE g == [x \in S |-> f[x]]
           Q == {f[x] : x \in S}
<1>1. g \in Surjection(S, Q)
  BY DEF Surjection
<1>2. IsFiniteSet(Q)
  BY <1>1, FS_Surjection
<1>3. R \in SUBSET Q
  OBVIOUS
<1> QED BY <1>2, <1>3, FS_Subset

LEMMA PickIsElement == \A s : s # {} => Pick(s) \in s
BY DEF Pick

\* However many elements there are beside those of T, the sum of T is the same.
LEMMA IterIsUnique ==
    ASSUME NEW w, NEW S, NEW R, NEW g, NEW h, IsFiniteSet(S),
           g = Iter(w, S, g), h = Iter(w, R, h)
    PROVE  \A T \in SUBSET (S \cap R) : g[T] = h[T]
<1> DEFINE Bad == {T \in SUBSET (S \cap R) : g[T] # h[T]}
<1> SUFFICES ASSUME Bad # {} PROVE FALSE
  OBVIOUS
<1>1. PICK T \in Bad : \A U \in Bad : U \subseteq T => U = T
  <2>1. Bad \in SUBSET (SUBSET S) /\ Bad # {}
    OBVIOUS
  <2> HIDE DEF Bad
  <2> QED BY <2>1, Least
<1>2. T \in SUBSET S /\ T \in SUBSET R /\ g[T] # h[T]
  BY <1>1
<1>3. /\ g[T] = IF T = {} THEN 0 ELSE w[Pick(T)] + g[T \ {Pick(T)}]
      /\ h[T] = IF T = {} THEN 0 ELSE w[Pick(T)] + h[T \ {Pick(T)}]
  BY <1>2 DEF Iter
<1>4. T # {}
  BY <1>2, <1>3
<1>5. g[T \ {Pick(T)}] = h[T \ {Pick(T)}]
  BY <1>1, <1>2, <1>4, PickIsElement
<1> QED BY <1>2, <1>3, <1>4, <1>5

LEMMA IterExists ==
    ASSUME NEW w, NEW S, IsFiniteSet(S)
    PROVE  \E g : g = Iter(w, S, g)
<1> DEFINE Has(T) == \E g : g = Iter(w, T, g)
           Bad == {T \in SUBSET S : ~Has(T)}
<1> SUFFICES ASSUME Bad # {} PROVE FALSE
  OBVIOUS
<1>1. PICK T \in Bad : \A U \in Bad : U \subseteq T => U = T
  <2>1. Bad \in SUBSET (SUBSET S) /\ Bad # {}
    OBVIOUS
  <2> HIDE DEF Bad
  <2> QED BY <2>1, Least
<1> DEFINE H(U) == CHOOSE g : g = Iter(w, U, g)
           G == [s \in SUBSET T |-> IF s = {} THEN 0
                                    ELSE w[Pick(s)] + H(s \ {Pick(s)})[s \ {Pick(s)}]]
<1>2. T \in SUBSET S /\ ~Has(T)
  BY <1>1
<1>3. ASSUME NEW U \in SUBSET T, U # T PROVE IsFiniteSet(U) /\ H(U) = Iter(w, U, H(U))
  <2>1. Has(U)
    BY <1>1, <1>2, <1>3
  <2>2. IsFiniteSet(U)
    BY <1>2, FS_Subset
  <2> QED BY <2>1, <2>2
<1> HIDE DEF H
<1>4. ASSUME NEW U \in SUBSET T, U # T PROVE G[U] = H(U)[U]
  <2>1. H(U)[U] = IF U = {} THEN 0 ELSE w[Pick(U)] + H(U)[U \ {Pick(U)}]
    BY <1>3, <1>4 DEF Iter
  <2>2. CASE U = {}
    BY <2>1, <2>2
  <2>3. CASE U # {}
    <3> DEFINE V == U \ {Pick(U)}
    <3>1. V \in SUBSET T /\ V # T /\ V \in SUBSET (V \cap U)
      BY <2>3, PickIsElement
    <3>2. H(V)[V] = H(U)[V]
      BY <1>3, <1>4, <3>1, IterIsUnique
    <3> QED BY <2>1, <2>3, <3>2
  <2> QED BY <2>2, <2>3
<1>5. ASSUME NEW s \in SUBSET T, s # {}
      PROVE  G[s \ {Pick(s)}] = H(s \ {Pick(s)})[s \ {Pick(s)}]
  <2>1. s \ {Pick(s)} \in SUBSET T /\ s \ {Pick(s)} # T
    BY <1>5, PickIsElement
  <2> HIDE DEF G
  <2> QED BY <1>4, <2>1
<1>6. G = Iter(w, T, G)
  BY <1>5 DEF Iter
<1> QED BY <1>2, <1>6

\* One step of the sum: the element picked, and the rest.
LEMMA TotalStep ==
    ASSUME NEW w, NEW S, IsFiniteSet(S)
    PROVE  Total(w, S) = IF S = {} THEN 0 ELSE w[Pick(S)] + Total(w, S \ {Pick(S)})
<1> DEFINE H(U) == CHOOSE g : g = Iter(w, U, g)
           V == S \ {Pick(S)}
<1>1. IsFiniteSet(V)
  BY FS_Subset
<1>2. H(S) = Iter(w, S, H(S)) /\ H(V) = Iter(w, V, H(V))
  BY <1>1, IterExists
<1>3. Total(w, S) = H(S)[S] /\ Total(w, V) = H(V)[V]
  BY TotalIsIter
<1> HIDE DEF H
<1>4. H(S)[S] = IF S = {} THEN 0 ELSE w[Pick(S)] + H(S)[V]
  BY <1>2 DEF Iter
<1>5. H(S)[V] = H(V)[V]
  BY <1>2, IterIsUnique, V \in SUBSET (S \cap V)
<1> QED BY <1>3, <1>4, <1>5

THEOREM SumOfNothing == ASSUME NEW w PROVE Total(w, {}) = 0
BY TotalStep, FS_EmptySet

\* Only the weights of the set's own elements count.
THEOREM SumOfEqualWeights ==
    ASSUME NEW v, NEW w, NEW S, \A x \in S : v[x] = w[x]
    PROVE  Total(v, S) = Total(w, S)
<1>1. \A g : Iter(v, S, g) = Iter(w, S, g)
  BY PickIsElement DEF Iter
<1>2. (CHOOSE g : g = Iter(v, S, g)) = (CHOOSE g : g = Iter(w, S, g))
  BY <1>1
<1> QED BY <1>2, TotalIsIter

THEOREM SumType ==
    ASSUME NEW S, IsFiniteSet(S), NEW w, \A x \in S : w[x] \in Int
    PROVE  Total(w, S) \in Int
<1> DEFINE Bad == {T \in SUBSET S : Total(w, T) \notin Int}
<1> SUFFICES ASSUME Bad # {} PROVE FALSE
  OBVIOUS
<1>1. PICK T \in Bad : \A U \in Bad : U \subseteq T => U = T
  <2>1. Bad \in SUBSET (SUBSET S) /\ Bad # {}
    OBVIOUS
  <2> HIDE DEF Bad
  <2> QED BY <2>1, Least
<1>2. IsFiniteSet(T)
  BY <1>1, FS_Subset
<1>3. Total(w, T) = IF T = {} THEN 0 ELSE w[Pick(T)] + Total(w, T \ {Pick(T)})
  BY <1>2, TotalStep
<1>4. CASE T # {}
  <2>1. Pick(T) \in T
    BY <1>4, PickIsElement
  <2>2. Total(w, T \ {Pick(T)}) \in Int /\ w[Pick(T)] \in Int
    BY <1>1, <2>1
  <2> QED BY <1>1, <1>3, <1>4, <2>2
<1> QED BY <1>1, <1>3, <1>4

\* Any element may be taken out of the sum, not only the one picked.
LEMMA SumWithout ==
    ASSUME NEW S, IsFiniteSet(S), NEW w, \A x \in S : w[x] \in Int
    PROVE  \A x \in S : Total(w, S) = w[x] + Total(w, S \ {x})
<1> DEFINE Good(T) == \A x \in T : Total(w, T) = w[x] + Total(w, T \ {x})
           Bad == {T \in SUBSET S : ~Good(T)}
<1> SUFFICES ASSUME Bad # {} PROVE FALSE
  OBVIOUS
<1>1. PICK T \in Bad : \A U \in Bad : U \subseteq T => U = T
  <2>1. Bad \in SUBSET (SUBSET S) /\ Bad # {}
    OBVIOUS
  <2> HIDE DEF Bad
  <2> QED BY <2>1, Least
<1>2. T \in SUBSET S /\ \A U \in SUBSET T : U # T => Good(U)
  BY <1>1
<1>3. PICK x \in T : Total(w, T) # w[x] + Total(w, T \ {x})
  BY <1>1
<1> HIDE DEF Good
<1> DEFINE p == Pick(T)
<1>4. p \in T /\ p \in S /\ x \in S
  BY <1>2, <1>3, PickIsElement
<1>5. \A U \in SUBSET T : IsFiniteSet(U) /\ Total(w, U) \in Int
  <2> SUFFICES ASSUME NEW U \in SUBSET T PROVE IsFiniteSet(U) /\ Total(w, U) \in Int
    OBVIOUS
  <2>1. U \in SUBSET S
    BY <1>2
  <2>2. IsFiniteSet(U)
    BY <2>1, FS_Subset
  <2>3. \A y \in U : w[y] \in Int
    BY <2>1
  <2> QED BY <2>2, <2>3, SumType
<1>6. Total(w, T) = w[p] + Total(w, T \ {p})
  <2>1. IsFiniteSet(T)
    BY <1>5
  <2> QED BY <1>4, <2>1, TotalStep
<1>7. x # p
  BY <1>3, <1>6
<1> HIDE DEF p
<1> DEFINE R == (T \ {p}) \ {x}
<1>8. Total(w, T \ {p}) = w[x] + Total(w, R)
  <2>1. Good(T \ {p}) /\ x \in T \ {p}
    BY <1>2, <1>4, <1>7
  <2> QED BY <2>1 DEF Good
<1>9. Total(w, T \ {x}) = w[p] + Total(w, R)
  <2>1. Good(T \ {x}) /\ p \in T \ {x}
    BY <1>2, <1>3, <1>4, <1>7
  <2>2. (T \ {x}) \ {p} = R
    OBVIOUS
  <2> QED BY <2>1, <2>2 DEF Good
<1>10. w[x] \in Int /\ w[p] \in Int /\ Total(w, R) \in Int
  BY <1>4, <1>5
<1> HIDE DEF R
<1> QED BY <1>3, <1>6, <1>8, <1>9, <1>10

THEOREM SumOfOneMore ==
    ASSUME NEW S, IsFiniteSet(S), NEW y, y \notin S,
           NEW w, \A x \in S \cup {y} : w[x] \in Int
    PROVE  Total(w, S \cup {y}) = Total(w, S) + w[y]
<1>1. IsFiniteSet(S \cup {y})
  BY FS_AddElement
<1> DEFINE R == S \cup {y}
<1>2. IsFiniteSet(R) /\ y \in R /\ R \ {y} = S /\ \A x \in R : w[x] \in Int
  BY <1>1
<1> HIDE DEF R
<1>3. Total(w, R) = w[y] + Total(w, S)
  <2>1. Total(w, R) = w[y] + Total(w, R \ {y})
    BY <1>2, SumWithout
  <2> QED BY <1>2, <2>1
<1>4. Total(w, S) \in Int /\ w[y] \in Int
  BY <1>2, SumType
<1>5. Total(w, R) = Total(w, S) + w[y]
  BY <1>3, <1>4
<1> QED BY <1>5 DEF R

THEOREM SumOfUnion ==
    ASSUME NEW S, NEW R, IsFiniteSet(S), IsFiniteSet(R), S \cap R = {},
           NEW w, \A x \in S \cup R : w[x] \in Int
    PROVE  Total(w, S \cup R) = Total(w, S) + Total(w, R)
<1> DEFINE Good(U) == Total(w, S \cup U) = Total(w, S) + Total(w, U)
           Bad == {U \in SUBSET R : ~Good(U)}
<1> SUFFICES ASSUME Bad # {} PROVE FALSE
  OBVIOUS
<1>1. PICK U \in Bad : \A V \in Bad : V \subseteq U => V = U
  <2>1. Bad \in SUBSET (SUBSET R) /\ Bad # {}
    OBVIOUS
  <2> HIDE DEF Bad
  <2> QED BY <2>1, Least
<1>2. U \in SUBSET R /\ ~Good(U) /\ IsFiniteSet(U)
  BY <1>1, FS_Subset
<1>3. CASE U = {}
  BY <1>2, <1>3, SumOfNothing, SumType
<1>4. CASE U # {}
  <2>1. PICK x : x \in U
    BY <1>4
  <2> DEFINE V == U \ {x}
  <2>2. Good(V) /\ IsFiniteSet(V)
    BY <1>1, <1>2, <2>1, FS_Subset
  <2>3. Total(w, V \cup {x}) = Total(w, V) + w[x]
    BY <1>2, <2>1, <2>2, SumOfOneMore
  <2>4. Total(w, (S \cup V) \cup {x}) = Total(w, S \cup V) + w[x]
    <3>1. IsFiniteSet(S \cup V)
      BY <2>2, FS_Union
    <3>2. x \notin S \cup V /\ \A y \in (S \cup V) \cup {x} : w[y] \in Int
      BY <1>2, <2>1
    <3> QED BY <3>1, <3>2, SumOfOneMore
  <2>5. V \cup {x} = U /\ (S \cup V) \cup {x} = S \cup U
    BY <2>1
  <2>6. Total(w, S) \in Int /\ Total(w, V) \in Int /\ w[x] \in Int
    BY <1>2, <2>1, <2>2, SumType
  <2>7. Total(w, U) = Total(w, V) + w[x] /\ Total(w, S \cup U) = Total(w, S \cup V) + w[x]
    BY <2>3, <2>4, <2>5
  <2>8. Total(w, S \cup V) = Total(w, S) + Total(w, V)
    BY <2>2
  <2> HIDE DEF V
  <2>9. Total(w, S \cup U) = Total(w, S) + Total(w, U)
    BY <2>6, <2>7, <2>8
  <2> QED BY <1>2, <2>9
<1> QED BY <1>3, <1>4

THEOREM SumOfNaturals ==
    ASSUME NEW S, IsFiniteSet(S), NEW w, \A x \in S : w[x] \in Nat
    PROVE  Total(w, S) \in Nat
<1> DEFINE Bad == {T \in SUBSET S : Total(w, T) \notin Nat}
<1> SUFFICES ASSUME Bad # {} PROVE FALSE
  OBVIOUS
<1>1. PICK T \in Bad : \A U \in Bad : U \subseteq T => U = T
  <2>1. Bad \in SUBSET (SUBSET S) /\ Bad # {}
    OBVIOUS
  <2> HIDE DEF Bad
  <2> QED BY <2>1, Least
<1>2. IsFiniteSet(T)
  BY <1>1, FS_Subset
<1>3. Total(w, T) = IF T = {} THEN 0 ELSE w[Pick(T)] + Total(w, T \ {Pick(T)})
  BY <1>2, TotalStep
<1>4. CASE T # {}
  <2>1. Pick(T) \in T
    BY <1>4, PickIsElement
  <2>2. Total(w, T \ {Pick(T)}) \in Nat /\ w[Pick(T)] \in Nat
    BY <1>1, <2>1
  <2> QED BY <1>1, <1>3, <1>4, <2>2
<1> QED BY <1>1, <1>3, <1>4

THEOREM SumOfSubset ==
    ASSUME NEW S, NEW R, IsFiniteSet(R), S \subseteq R,
           NEW w, \A x \in R : w[x] \in Nat
    PROVE  Total(w, S) <= Total(w, R)
<1> DEFINE D == R \ S
<1>1. IsFiniteSet(S) /\ IsFiniteSet(D)
  BY FS_Subset
<1>2. /\ S \cup D = R /\ S \cap D = {}
      /\ \A x \in S \cup D : w[x] \in Int
      /\ \A x \in S : w[x] \in Nat
      /\ \A x \in D : w[x] \in Nat
  OBVIOUS
<1> HIDE DEF D
<1>3. Total(w, R) = Total(w, S) + Total(w, D)
  <2>1. Total(w, S \cup D) = Total(w, S) + Total(w, D)
    BY <1>1, <1>2, SumOfUnion
  <2> QED BY <1>2, <2>1
<1>4. Total(w, S) \in Nat /\ Total(w, D) \in Nat
  BY <1>1, <1>2, SumOfNaturals
<1> QED BY <1>2, <1>3, <1>4

THEOREM SumOfOpposites ==
    ASSUME NEW S, IsFiniteSet(S), NEW v, NEW w,
           \A x \in S : w[x] \in Int /\ v[x] = -w[x]
    PROVE  Total(v, S) = -Total(w, S)
<1> DEFINE Bad == {T \in SUBSET S : Total(v, T) # -Total(w, T)}
<1> SUFFICES ASSUME Bad # {} PROVE FALSE
  OBVIOUS
<1>1. PICK T \in Bad : \A U \in Bad : U \subseteq T => U = T
  <2>1. Bad \in SUBSET (SUBSET S) /\ Bad # {}
    OBVIOUS
  <2> HIDE DEF Bad
  <2> QED BY <2>1, Least
<1>2. T \in SUBSET S /\ IsFiniteSet(T) /\ Total(v, T) # -Total(w, T)
  BY <1>1, FS_Subset
<1>3. /\ Total(v, T) = IF T = {} THEN 0 ELSE v[Pick(T)] + Total(v, T \ {Pick(T)})
      /\ Total(w, T) = IF T = {} THEN 0 ELSE w[Pick(T)] + Total(w, T \ {Pick(T)})
  BY <1>2, TotalStep
<1>4. T # {}
  BY <1>2, <1>3
<1> DEFINE p == Pick(T)
           R == T \ {p}
<1>5. p \in S /\ R \in SUBSET S /\ R # T /\ R \subseteq T
  BY <1>2, <1>4, PickIsElement
<1>6. Total(v, R) = -Total(w, R)
  BY <1>1, <1>5
<1>7. IsFiniteSet(R) /\ \A x \in R : w[x] \in Int
  BY <1>5, FS_Subset
<1>8. Total(w, R) \in Int /\ w[p] \in Int /\ v[p] = -w[p]
  BY <1>5, <1>7, SumType
<1>9. Total(v, T) = v[p] + Total(v, R) /\ Total(w, T) = w[p] + Total(w, R)
  BY <1>3, <1>4
<1> HIDE DEF p, R
<1> QED BY <1>2, <1>6, <1>8, <1>9

\* Adding up group by group: group[c] has the elements of which f is c.
THEOREM SumOfGroups ==
    ASSUME NEW S, IsFiniteSet(S), NEW w, \A x \in S : w[x] \in Int,
           NEW G, IsFiniteSet(G), NEW f, \A x \in S : f[x] \in G,
           NEW group, \A c \in G : \A x : x \in group[c] <=> x \in S /\ f[x] = c,
           NEW v, \A c \in G : v[c] = Total(w, group[c])
    PROVE  Total(v, G) = Total(w, S)
<1> DEFINE Of(H) == {x \in S : f[x] \in H}
           Good(H) == Total(v, H) = Total(w, Of(H))
           Bad == {H \in SUBSET G : ~Good(H)}
<1>1. ASSUME Bad # {} PROVE FALSE
  <2>1. PICK H \in Bad : \A K \in Bad : K \subseteq H => K = H
    <3>1. Bad \in SUBSET (SUBSET G) /\ Bad # {}
      BY <1>1
    <3> HIDE DEF Bad
    <3> QED BY <3>1, Least
  <2>2. H \in SUBSET G /\ IsFiniteSet(H) /\ ~Good(H) /\ \A K \in SUBSET H : K # H => Good(K)
    <3>1. H \in SUBSET G /\ ~Good(H)
      BY <2>1
    <3>2. \A K \in SUBSET H : K # H => Good(K)
      BY <2>1
    <3> QED BY <3>1, <3>2, FS_Subset
  <2>3. Total(v, H) = IF H = {} THEN 0 ELSE v[Pick(H)] + Total(v, H \ {Pick(H)})
    BY <2>2, TotalStep
  <2>4. CASE H = {}
    <3>1. Of(H) = {}
      BY <2>4
    <3>2. Total(w, Of(H)) = 0
      BY <3>1, SumOfNothing
    <3> QED BY <2>2, <2>3, <2>4, <3>2
  <2>5. CASE H # {}
    <3> DEFINE c == Pick(H)
               K == H \ {c}
               C == group[c]
    <3>1. c \in H /\ c \in G
      BY <2>2, <2>5, PickIsElement
    <3>2. K \in SUBSET H /\ K # H
      BY <3>1
    <3>3. Good(K)
      BY <2>2, <3>2
    <3>4. /\ IsFiniteSet(Of(K)) /\ IsFiniteSet(C)
          /\ Of(H) = Of(K) \cup C /\ Of(K) \cap C = {}
          /\ Of(K) \in SUBSET S /\ C \in SUBSET S
      <4>1. Of(K) \in SUBSET S /\ C \in SUBSET S
        BY <3>1
      <4>2. Of(H) = Of(K) \cup C /\ Of(K) \cap C = {}
        BY <3>1
      <4> HIDE DEF Of, K, C
      <4> QED BY <4>1, <4>2, FS_Subset
    <3>5. v[c] = Total(w, C)
      BY <3>1
    <3>6. Total(v, H) = v[c] + Total(v, K)
      BY <2>3, <2>5
    <3>7. Total(v, K) = Total(w, Of(K))
      BY <3>3
    <3> HIDE DEF Of, c, K, C
    <3>8. \A x \in Of(K) \cup C : w[x] \in Int
      BY <3>4
    <3>9. Total(w, Of(K) \cup C) = Total(w, Of(K)) + Total(w, C)
      BY <3>4, <3>8, SumOfUnion
    <3>10. Total(w, Of(K)) \in Int /\ Total(w, C) \in Int
      BY <3>4, <3>8, SumType
    <3>11. Total(v, H) = Total(w, Of(H))
      BY <3>4, <3>5, <3>6, <3>7, <3>9, <3>10
    <3> QED BY <2>2, <3>11
  <2> QED BY <2>4, <2>5
<1>2. Good(G)
  BY <1>1
<1>3. Of(G) = S
  OBVIOUS
<1> HIDE DEF Of
<1> QED BY <1>2, <1>3

\* Elements may be renamed, different ones differently.
THEOREM SumOfImage ==
    ASSUME NEW S, IsFiniteSet(S), NEW R, NEW f \in [S -> R],
           \A x, y \in S : f[x] = f[y] => x = y,
           NEW v, NEW w, \A x \in S : v[x] \in Int /\ w[f[x]] = v[x]
    PROVE  Total(w, {f[x] : x \in S}) = Total(v, S)
<1> DEFINE G == {f[x] : x \in S}
           group == [c \in G |-> {x \in S : f[x] = c}]
<1>1. IsFiniteSet(G)
  <2>1. \A c \in G : \E x \in S : c = f[x]
    OBVIOUS
  <2> HIDE DEF G, group
  <2> QED BY <2>1, FiniteImage
<1>2. \A x \in S : f[x] \in G
  OBVIOUS
<1>3. \A c \in G : \A x : x \in group[c] <=> x \in S /\ f[x] = c
  OBVIOUS
<1>4. ASSUME NEW c \in G PROVE w[c] = Total(v, group[c])
  <2>1. PICK x \in S : c = f[x]
    OBVIOUS
  <2>2. group[c] = {} \cup {x}
    BY <2>1
  <2>3. Total(v, {} \cup {x}) = Total(v, {}) + v[x]
    <3>1. IsFiniteSet({}) /\ x \notin {} /\ \A y \in {} \cup {x} : v[y] \in Int
      BY FS_EmptySet
    <3> QED BY <3>1, SumOfOneMore
  <2>4. Total(v, {}) = 0
    BY SumOfNothing
  <2>5. v[x] \in Int /\ w[c] = v[x]
    BY <2>1
  <2> HIDE DEF group, G
  <2> QED BY <2>2, <2>3, <2>4, <2>5
<1> HIDE DEF G, group
<1>5. Total(w, G) = Total(v, S)
  BY <1>1, <1>2, <1>3, <1>4, SumOfGroups
<1> QED BY <1>5 DEF G
=============================================================================

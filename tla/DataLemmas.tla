----------------------------- MODULE DataLemmas -----------------------------
(* What the proofs need of the data the models compute with: sums over       *)
(* finite sets, sets put in order, values computed along a sequence, and     *)
(* sequences built from their beginnings.                                    *)
(*                                                                           *)
(* Each induction is an argument by the least counterexample: the set of     *)
(* the counterexamples is a set of numbers, or of subsets of a finite set,   *)
(* and has a least member if it has any (Least, MinimalSubset).              *)
EXTENDS Ordered, SequencesExt, SequenceTheorems, FiniteSetTheorems, FunctionTheorems, TLAPS

(* A set of natural numbers has a least one.                                 *)
LEMMA Least ==
  ASSUME NEW B \in SUBSET Nat, B # {}
  PROVE  \E n \in B : \A m \in B : n <= m
<1>1. \E n \in B : \A m \in B : ~ (<<m, n>> \in OpToRel(<, Nat))
  BY NatLessThanWellFounded, WFMin
<1>2. PICK n \in B : \A m \in B : ~ (<<m, n>> \in OpToRel(<, Nat))
  BY <1>1
<1>3. \A m \in B : ~ (m < n)
  BY <1>2 DEF OpToRel
<1> QED BY <1>3

(* Among subsets of a finite set there is one that includes no other.        *)
LEMMA MinimalSubset ==
  ASSUME NEW S, IsFiniteSet(S), NEW B \in SUBSET (SUBSET S), B # {}
  PROVE  \E T \in B : \A U \in B : U \subseteq T => U = T
<1>1. IsWellFoundedOn(StrictSubsetOrdering(S), SUBSET S)
  BY FS_StrictSubsetOrderingWellFounded, FS_FiniteSubsetsOfFinite
<1>2. \E T \in B : \A U \in B : ~ (<<U, T>> \in StrictSubsetOrdering(S))
  BY <1>1, WFMin
<1>3. PICK T \in B : \A U \in B : ~ (<<U, T>> \in StrictSubsetOrdering(S))
  BY <1>2
<1>4. ASSUME NEW U \in B, U \subseteq T PROVE U = T
  BY <1>3, <1>4 DEF StrictSubsetOrdering
<1> QED BY <1>4

-----------------------------------------------------------------------------
(* SumFunctionOnSet is defined by a recursive function on the subsets of a   *)
(* set.  That there is such a function, and that it does not depend on the   *)
(* set it is defined for:                                                    *)
Chosen(s) == CHOOSE x \in s : TRUE

IsSum(h, f, S) ==
  h = [s \in SUBSET S |-> IF s = {} THEN 0 ELSE f[Chosen(s)] + h[s \ {Chosen(s)}]]

LEMMA SumsAgree ==
  ASSUME NEW f, NEW S, NEW T, IsFiniteSet(S), NEW g, NEW h, IsSum(g, f, S), IsSum(h, f, T)
  PROVE  \A s \in SUBSET (S \cap T) : g[s] = h[s]
<1> DEFINE B == {s \in SUBSET (S \cap T) : g[s] # h[s]}
<1>1. SUFFICES ASSUME B # {} PROVE FALSE
  OBVIOUS
<1>2. IsFiniteSet(S \cap T)
  BY FS_Intersection
<1>3. PICK s \in B : \A u \in B : u \subseteq s => u = s
  <2>1. B \in SUBSET (SUBSET (S \cap T))
    OBVIOUS
  <2> HIDE DEF B
  <2> QED BY <1>1, <1>2, <2>1, MinimalSubset
<1>4. s \in SUBSET S /\ s \in SUBSET T /\ g[s] # h[s]
  BY <1>3
<1>5. /\ g[s] = IF s = {} THEN 0 ELSE f[Chosen(s)] + g[s \ {Chosen(s)}]
      /\ h[s] = IF s = {} THEN 0 ELSE f[Chosen(s)] + h[s \ {Chosen(s)}]
  BY <1>4 DEF IsSum
<1>6. s # {}
  BY <1>4, <1>5
<1>7. Chosen(s) \in s
  BY <1>6 DEF Chosen
<1> DEFINE u == s \ {Chosen(s)}
<1>8. u \subseteq s /\ u # s /\ u \in SUBSET (S \cap T)
  BY <1>4, <1>7
<1>9. g[u] = h[u]
  BY <1>3, <1>8
<1> QED BY <1>4, <1>5, <1>6, <1>9

LEMMA SumExists ==
  ASSUME NEW f, NEW S, IsFiniteSet(S)
  PROVE  \E h : IsSum(h, f, S)
<1> DEFINE B == {T \in SUBSET S : ~ \E h : IsSum(h, f, T)}
<1>1. SUFFICES ASSUME S \in B PROVE FALSE
  OBVIOUS
<1>2. PICK T \in B : \A U \in B : U \subseteq T => U = T
  <2>1. B \in SUBSET (SUBSET S)
    OBVIOUS
  <2> HIDE DEF B
  <2> QED BY <1>1, <2>1, MinimalSubset
<1> DEFINE Without(s) == s \ {Chosen(s)}
<1>3. PICK H : \A U \in SUBSET T : U # T => IsSum(H[U], f, U)
  <2> DEFINE K == [U \in SUBSET T |-> CHOOSE k : IsSum(k, f, U)]
  <2>1. ASSUME NEW U \in SUBSET T, U # T PROVE IsSum(K[U], f, U)
    <3>1. \E k : IsSum(k, f, U)
      BY <1>2, <2>1
    <3>2. K[U] = CHOOSE k : IsSum(k, f, U)
      OBVIOUS
    <3> QED BY <3>1, <3>2
  <2> HIDE DEF K
  <2> QED BY <2>1
<1>4. ASSUME NEW s \in SUBSET T, s # {}
      PROVE  Without(s) \in SUBSET T /\ Without(s) # T /\ Without(s) \subseteq s
  BY <1>4 DEF Chosen
<1>5. PICK h : h = [s \in SUBSET T |-> IF s = {} THEN 0
                                      ELSE f[Chosen(s)] + H[Without(s)][Without(s)]]
  OBVIOUS
<1>6. ASSUME NEW V \in SUBSET T, V # T PROVE h[V] = H[V][V]
  <2>1. H[V][V] = IF V = {} THEN 0 ELSE f[Chosen(V)] + H[V][Without(V)]
    BY <1>3, <1>6 DEF IsSum
  <2>2. h[V] = IF V = {} THEN 0 ELSE f[Chosen(V)] + H[Without(V)][Without(V)]
    BY <1>5
  <2>3. ASSUME V # {} PROVE H[V][Without(V)] = H[Without(V)][Without(V)]
    <3>1. Without(V) \in SUBSET T /\ Without(V) # T /\ Without(V) \subseteq V
      BY <1>4, <2>3
    <3>2. IsSum(H[V], f, V) /\ IsSum(H[Without(V)], f, Without(V))
      BY <1>3, <1>6, <3>1
    <3>3. IsFiniteSet(V)
      BY <1>2, FS_Subset
    <3>4. Without(V) \in SUBSET (V \cap Without(V))
      BY <3>1
    <3>5. \A W : IsSum(H[W], f, W) => \A s \in SUBSET (V \cap W) : H[V][s] = H[W][s]
      BY <3>2, <3>3, SumsAgree
    <3>6. \A s \in SUBSET (V \cap Without(V)) : H[V][s] = H[Without(V)][s]
      BY <3>2, <3>5
    <3> QED BY <3>4, <3>6
  <2> QED BY <2>1, <2>2, <2>3
<1>7. h = [s \in SUBSET T |-> IF s = {} THEN 0 ELSE f[Chosen(s)] + h[Without(s)]]
  <2>1. \A s \in SUBSET T : s # {} => h[Without(s)] = H[Without(s)][Without(s)]
    BY <1>4, <1>6
  <2> HIDE DEF Without
  <2> QED BY <1>5, <2>1
<1>8. IsSum(h, f, T)
  BY <1>7 DEF IsSum
<1> QED BY <1>2, <1>8

(* So a sum unfolds.                                                         *)
LEMMA SumDef ==
  ASSUME NEW f, NEW S, IsFiniteSet(S)
  PROVE  SumFunctionOnSet(f, S) =
           IF S = {} THEN 0 ELSE f[Chosen(S)] + SumFunctionOnSet(f, S \ {Chosen(S)})
<1>1. \A T : SumFunctionOnSet(f, T) = (CHOOSE h : IsSum(h, f, T))[T]
  BY DEF SumFunctionOnSet, FoldFunctionOnSet, MapThenFoldSet, IsSum, Chosen
<1>2. PICK g : g = CHOOSE h : IsSum(h, f, S)
  OBVIOUS
<1>3. IsSum(g, f, S)
  BY <1>2, SumExists
<1>4. SumFunctionOnSet(f, S) = g[S]
  BY <1>1, <1>2
<1>5. g[S] = IF S = {} THEN 0 ELSE f[Chosen(S)] + g[S \ {Chosen(S)}]
  BY <1>3 DEF IsSum
<1>6. PICK W : W = S \ {Chosen(S)}
  OBVIOUS
<1>7. PICK k : k = CHOOSE h : IsSum(h, f, W)
  OBVIOUS
<1>8. W \subseteq S /\ IsFiniteSet(W)
  BY <1>6, FS_Subset
<1>9. IsSum(k, f, W)
  BY <1>7, <1>8, SumExists
<1>10. \A s \in SUBSET (S \cap W) : g[s] = k[s]
  BY <1>3, <1>9, SumsAgree
<1>11. g[W] = k[W]
  BY <1>8, <1>10
<1>12. SumFunctionOnSet(f, W) = k[W]
  BY <1>1, <1>7
<1> QED BY <1>4, <1>5, <1>6, <1>11, <1>12

LEMMA SumIsOnDomain ==
  ASSUME NEW f
  PROVE  SumFunction(f) = SumFunctionOnSet(f, DOMAIN f)
BY DEF SumFunction

LEMMA SumEmpty ==
  ASSUME NEW f
  PROVE  SumFunctionOnSet(f, {}) = 0
BY SumDef, FS_EmptySet

LEMMA SumUnfold ==
  ASSUME NEW f, NEW S, IsFiniteSet(S), S # {}
  PROVE  /\ Chosen(S) \in S
         /\ SumFunctionOnSet(f, S) = f[Chosen(S)] + SumFunctionOnSet(f, S \ {Chosen(S)})
BY SumDef DEF Chosen

(* A sum of lengths is a length, ...                                         *)
LEMMA SumIsNat ==
  ASSUME NEW f, NEW S, IsFiniteSet(S), \A x \in S : f[x] \in Nat
  PROVE  SumFunctionOnSet(f, S) \in Nat
<1> DEFINE B == {T \in SUBSET S : SumFunctionOnSet(f, T) \notin Nat}
<1>1. SUFFICES ASSUME S \in B PROVE FALSE
  OBVIOUS
<1>2. PICK T \in B : \A U \in B : U \subseteq T => U = T
  <2>1. B \in SUBSET (SUBSET S)
    OBVIOUS
  <2> HIDE DEF B
  <2> QED BY <1>1, <2>1, MinimalSubset
<1>3. IsFiniteSet(T) /\ T \subseteq S
  BY <1>2, FS_Subset
<1>4. T # {}
  <2>1. SumFunctionOnSet(f, {}) = 0
    BY SumEmpty
  <2>2. SumFunctionOnSet(f, T) \notin Nat
    BY <1>2
  <2> HIDE DEF B
  <2> QED BY <2>1, <2>2
<1>5. PICK c : c = Chosen(T)
  OBVIOUS
<1>6. c \in T /\ SumFunctionOnSet(f, T) = f[c] + SumFunctionOnSet(f, T \ {c})
  BY <1>3, <1>4, <1>5, SumUnfold
<1>7. SumFunctionOnSet(f, T \ {c}) \in Nat
  BY <1>2, <1>3, <1>6
<1> QED BY <1>2, <1>3, <1>6, <1>7

(* ... from which any one can be taken, ...                                  *)
LEMMA SumWithout ==
  ASSUME NEW f, NEW S, IsFiniteSet(S), \A x \in S : f[x] \in Nat, NEW x \in S
  PROVE  SumFunctionOnSet(f, S) = f[x] + SumFunctionOnSet(f, S \ {x})
<1> DEFINE B == {T \in SUBSET S :
                   \E y \in T : SumFunctionOnSet(f, T) # f[y] + SumFunctionOnSet(f, T \ {y})}
<1>1. SUFFICES ASSUME S \in B PROVE FALSE
  OBVIOUS
<1>2. PICK T \in B : \A U \in B : U \subseteq T => U = T
  <2>1. B \in SUBSET (SUBSET S)
    OBVIOUS
  <2> HIDE DEF B
  <2> QED BY <1>1, <2>1, MinimalSubset
<1>3. IsFiniteSet(T) /\ T \subseteq S
  BY <1>2, FS_Subset
<1>4. PICK y \in T : SumFunctionOnSet(f, T) # f[y] + SumFunctionOnSet(f, T \ {y})
  BY <1>2
<1>5. PICK c : c = Chosen(T)
  OBVIOUS
<1>6. c \in T /\ SumFunctionOnSet(f, T) = f[c] + SumFunctionOnSet(f, T \ {c})
  BY <1>3, <1>4, <1>5, SumUnfold
<1>7. c # y
  BY <1>4, <1>6
<1> DEFINE R == (T \ {c}) \ {y}
<1>8. SumFunctionOnSet(f, T \ {c}) = f[y] + SumFunctionOnSet(f, R)
  BY <1>2, <1>3, <1>6, <1>7
<1>9. SumFunctionOnSet(f, T \ {y}) = f[c] + SumFunctionOnSet(f, R)
  <2>1. (T \ {y}) \ {c} = R
    OBVIOUS
  <2>2. T \ {y} \notin B
    BY <1>2
  <2> QED BY <1>3, <1>6, <1>7, <2>1, <2>2
<1>10. f[c] \in Nat /\ f[y] \in Nat /\ SumFunctionOnSet(f, R) \in Nat
  <2>1. R \subseteq S /\ IsFiniteSet(R)
    BY <1>3, FS_Subset
  <2> HIDE DEF R
  <2> QED BY <1>3, <1>6, <2>1, SumIsNat
<1> HIDE DEF R
<1> QED BY <1>4, <1>6, <1>8, <1>9, <1>10

(* ... and which is zero only if all of them are.                            *)
LEMMA SumIsZero ==
  ASSUME NEW f, NEW S, IsFiniteSet(S), \A x \in S : f[x] \in Nat,
         SumFunctionOnSet(f, S) = 0
  PROVE  \A x \in S : f[x] = 0
<1> SUFFICES ASSUME NEW x \in S PROVE f[x] = 0
  OBVIOUS
<1>1. SumFunctionOnSet(f, S) = f[x] + SumFunctionOnSet(f, S \ {x})
  BY SumWithout
<1>2. SumFunctionOnSet(f, S \ {x}) \in Nat
  BY SumIsNat, FS_RemoveElement
<1> QED BY <1>1, <1>2

LEMMA ImageIsFinite ==
  ASSUME NEW S, IsFiniteSet(S), NEW f
  PROVE  IsFiniteSet({f[x] : x \in S})
<1> DEFINE T == {f[x] : x \in S}
           g == [x \in S |-> f[x]]
<1>1. g \in Surjection(S, T)
  BY DEF Surjection
<1> QED BY <1>1, FS_Surjection

(* The same summands under other names have the same sum.                    *)
LEMMA SumRenamed ==
  ASSUME NEW S, IsFiniteSet(S), NEW f, NEW g, NEW name,
         \A x \in S : f[x] \in Nat /\ g[name[x]] = f[x],
         \A x, y \in S : name[x] = name[y] => x = y
  PROVE  SumFunctionOnSet(g, {name[x] : x \in S}) = SumFunctionOnSet(f, S)
<1> DEFINE B == {T \in SUBSET S :
                   SumFunctionOnSet(g, {name[x] : x \in T}) # SumFunctionOnSet(f, T)}
<1>1. SUFFICES ASSUME S \in B PROVE FALSE
  OBVIOUS
<1>2. PICK T \in B : \A U \in B : U \subseteq T => U = T
  <2>1. B \in SUBSET (SUBSET S)
    OBVIOUS
  <2> HIDE DEF B
  <2> QED BY <1>1, <2>1, MinimalSubset
<1>3. IsFiniteSet(T) /\ T \subseteq S
  BY <1>2, FS_Subset
<1> DEFINE N(U) == {name[x] : x \in U}
<1>4. T # {}
  <2>1. SUFFICES ASSUME T = {} PROVE FALSE
    OBVIOUS
  <2>2. SumFunctionOnSet(f, {}) = 0 /\ SumFunctionOnSet(g, {}) = 0
    BY SumEmpty
  <2>3. N(T) = {}
    BY <2>1
  <2> QED BY <1>2, <2>1, <2>2, <2>3
<1>5. PICK c : c \in T
  BY <1>4
<1> DEFINE U == T \ {c}
<1>6. SumFunctionOnSet(f, T) = f[c] + SumFunctionOnSet(f, U)
  BY <1>3, <1>5, SumWithout
<1>7. U \in SUBSET S /\ U \subseteq T /\ U # T
  BY <1>3, <1>5
<1>8. SumFunctionOnSet(g, N(U)) = SumFunctionOnSet(f, U)
  BY <1>2, <1>7
<1>9. N(U) = N(T) \ {name[c]} /\ name[c] \in N(T)
  <2>1. ASSUME NEW x \in U PROVE name[x] # name[c]
    BY <1>3, <1>5
  <2> QED BY <1>5, <2>1
<1>10. IsFiniteSet(N(T)) /\ \A z \in N(T) : g[z] \in Nat
  <2>1. IsFiniteSet(N(T))
    BY <1>3, ImageIsFinite
  <2> QED BY <1>3, <2>1
<1>11. SumFunctionOnSet(g, N(T)) = g[name[c]] + SumFunctionOnSet(g, N(T) \ {name[c]})
  <2> HIDE DEF N
  <2> QED BY <1>9, <1>10, SumWithout
<1>12. SumFunctionOnSet(g, N(T)) = SumFunctionOnSet(f, T)
  <2> HIDE DEF N, U
  <2> QED BY <1>3, <1>5, <1>6, <1>8, <1>9, <1>11
<1> QED BY <1>2, <1>12

-----------------------------------------------------------------------------
(* A strict total order on S.                                                *)
IsOrder(before, S) ==
  /\ \A x \in S : <<x, x>> \notin before
  /\ \A x, y, z \in S : <<x, y>> \in before /\ <<y, z>> \in before => <<x, z>> \in before
  /\ \A x, y \in S : x = y \/ <<x, y>> \in before \/ <<y, x>> \in before

(* A finite set has every element once in order.                             *)
LEMMA InOrderIsSorted ==
  ASSUME NEW S, IsFiniteSet(S), NEW before, IsOrder(before, S)
  PROVE  /\ Cardinality(S) \in Nat
         /\ InOrder(S, before) \in [1..Cardinality(S) -> S]
         /\ \A x \in S : \E i \in 1..Cardinality(S) : InOrder(S, before)[i] = x
         /\ \A i, j \in 1..Cardinality(S) :
              i < j => <<InOrder(S, before)[i], InOrder(S, before)[j]>> \in before
<1> DEFINE n == Cardinality(S)
           Before(x) == {y \in S : <<y, x>> \in before}
           rank == [x \in S |-> Cardinality(Before(x))]
           s == InOrder(S, before)
<1>1. n \in Nat
  BY FS_CardinalityType
<1>2. ASSUME NEW x \in S
      PROVE  IsFiniteSet(Before(x)) /\ rank[x] \in Nat /\ rank[x] < n
  <2>1. Before(x) \in SUBSET S /\ Before(x) # S
    BY DEF IsOrder
  <2>2. IsFiniteSet(Before(x)) /\ Cardinality(Before(x)) <= n /\ Cardinality(Before(x)) # n
    BY <2>1, FS_Subset
  <2>3. Cardinality(Before(x)) \in Nat
    BY <2>2, FS_CardinalityType
  <2> QED BY <1>1, <2>2, <2>3
<1>3. ASSUME NEW x \in S, NEW y \in S, <<x, y>> \in before
      PROVE  rank[x] < rank[y]
  <2>1. Before(x) \in SUBSET Before(y) /\ Before(x) # Before(y)
    BY <1>3 DEF IsOrder
  <2>2. Cardinality(Before(x)) <= Cardinality(Before(y)) /\ Cardinality(Before(x)) # Cardinality(Before(y))
    BY <1>2, <2>1, FS_Subset
  <2>3. Cardinality(Before(x)) \in Nat /\ Cardinality(Before(y)) \in Nat
    BY <1>2
  <2>4. rank[x] = Cardinality(Before(x)) /\ rank[y] = Cardinality(Before(y))
    OBVIOUS
  <2> HIDE DEF Before, rank
  <2> QED BY <2>2, <2>3, <2>4
<1>4. \A x, y \in S : rank[x] = rank[y] => x = y
  <2> SUFFICES ASSUME NEW x \in S, NEW y \in S, rank[x] = rank[y], x # y PROVE FALSE
    OBVIOUS
  <2>1. rank[x] < rank[y] \/ rank[y] < rank[x]
    BY <1>3 DEF IsOrder
  <2>2. rank[x] \in Nat /\ rank[y] \in Nat
    BY <1>2
  <2> HIDE DEF rank
  <2> QED BY <2>1, <2>2
<1>5. rank \in Surjection(S, 0..(n - 1))
  <2>1. rank \in [S -> 0..(n - 1)]
    <3>1. \A x \in S : Cardinality(Before(x)) \in 0..(n - 1)
      BY <1>1, <1>2
    <3> HIDE DEF Before
    <3> QED BY <3>1
  <2> HIDE DEF rank
  <2>2. rank \in Injection(S, 0..(n - 1))
    BY <1>4, <2>1 DEF Injection, IsInjective
  <2>3. IsFiniteSet(0..(n - 1)) /\ Cardinality(0..(n - 1)) = n
    BY <1>1, FS_Interval
  <2> QED BY <2>2, <2>3, FS_Injection
<1>6. ASSUME NEW i \in 1..n PROVE s[i] \in S /\ rank[s[i]] = i - 1
  <2>1. s[i] = CHOOSE x \in S : Cardinality(Before(x)) = i - 1
    BY DEF InOrder
  <2>2. i - 1 \in 0..(n - 1)
    BY <1>1
  <2>3. \E x \in S : rank[x] = i - 1
    BY <1>5, <2>2 DEF Surjection
  <2> HIDE DEF Before, s
  <2> QED BY <2>1, <2>3
<1>7. s \in [1..n -> S]
  <2>1. s = [i \in 1..n |-> s[i]]
    <3> DEFINE At(i) == CHOOSE x \in S : Cardinality({y \in S : <<y, x>> \in before}) = i - 1
    <3>1. s = [i \in 1..n |-> At(i)]
      BY DEF InOrder
    <3> HIDE DEF At, s
    <3> QED BY <3>1
  <2> HIDE DEF s
  <2> QED BY <1>6, <2>1
<1> HIDE DEF s
<1>8. ASSUME NEW x \in S PROVE \E i \in 1..n : s[i] = x
  <2>1. rank[x] + 1 \in 1..n /\ rank[x] \in Nat
    BY <1>1, <1>2
  <2>2. rank[s[rank[x] + 1]] = rank[x] /\ s[rank[x] + 1] \in S
    BY <1>6, <2>1
  <2> QED BY <1>4, <2>1, <2>2
<1>9. ASSUME NEW i \in 1..n, NEW j \in 1..n, i < j PROVE <<s[i], s[j]>> \in before
  <2>1. /\ s[i] \in S /\ rank[s[i]] = i - 1
        /\ s[j] \in S /\ rank[s[j]] = j - 1
    BY <1>6
  <2> HIDE DEF rank
  <2>2. s[i] # s[j] /\ ~ (rank[s[j]] < rank[s[i]])
    BY <1>9, <2>1
  <2> QED BY <1>3, <2>1, <2>2 DEF IsOrder
<1> QED BY <1>1, <1>7, <1>8, <1>9 DEF s

(* SetToSeq has every member of the set, once.                               *)
LEMMA SetToSeqHasAll ==
  ASSUME NEW S, IsFiniteSet(S)
  PROVE  /\ SetToSeq(S) \in Seq(S) /\ Len(SetToSeq(S)) = Cardinality(S)
         /\ \A x \in S : \E i \in DOMAIN SetToSeq(S) : SetToSeq(S)[i] = x
         /\ \A i, j \in DOMAIN SetToSeq(S) : SetToSeq(S)[i] = SetToSeq(S)[j] => i = j
<1>1. PICK n \in Nat : n = Cardinality(S)
  BY FS_CardinalityType
<1>2. ExistsBijection(1..n, S)
  BY <1>1, FS_CardinalityType
<1>3. PICK g : g \in [1..n -> S] /\ IsInjective(g)
  BY <1>2 DEF ExistsBijection, Bijection, Injection
<1>4. PICK f : f = SetToSeq(S)
  OBVIOUS
<1>5. f = CHOOSE h \in [1..n -> S] : IsInjective(h)
  BY <1>1, <1>4 DEF SetToSeq
<1>6. f \in [1..n -> S] /\ IsInjective(f)
  BY <1>3, <1>5
<1>7. f \in Seq(S) /\ Len(f) = n /\ DOMAIN f = 1..n
  BY <1>6, SeqDef, LenProperties
<1>8. Range(f) = S
  <2>1. f \in Injection(1..n, S)
    BY <1>6 DEF Injection
  <2>2. IsFiniteSet(1..n) /\ Cardinality(1..n) = n
    BY FS_Interval
  <2>3. f \in Surjection(1..n, S)
    BY <1>1, <2>1, <2>2, FS_Injection
  <2> QED BY <2>3 DEF Surjection, Range
<1> QED BY <1>1, <1>4, <1>6, <1>7, <1>8 DEF Range, IsInjective

-----------------------------------------------------------------------------
(* A sequence cut into pieces, and FlattenSeq of them.                       *)

IsFlat(h, pieces, n) ==
  h = [i \in 1..n |-> IF i = 1 THEN pieces[i] ELSE h[i - 1] \o pieces[i]]

LEMMA FlatUnfolds ==
  ASSUME NEW h, NEW pieces, NEW n \in Nat, IsFlat(h, pieces, n)
  PROVE  \A i \in 1..n : h[i] = IF i = 1 THEN pieces[i] ELSE h[i - 1] \o pieces[i]
  BY DEF IsFlat

(* Where the cuts are, and that piece i lies between cut i-1 and cut i.      *)
Cuts(c, n, s) ==
  /\ c[0] = 0 /\ c[n] = Len(s)
  /\ \A i \in 1..n : c[i] \in Nat /\ c[i - 1] \in Nat /\ c[i - 1] <= c[i] /\ c[i] <= Len(s)

CutAt(s, c, n, pieces) == \A i \in 1..n : pieces[i] = SubSeq(s, c[i - 1] + 1, c[i])

LEMMA TwoPieces ==
  ASSUME NEW S, NEW s \in Seq(S), NEW a \in Nat, NEW b \in Nat, a <= b, b <= Len(s)
  PROVE  SubSeq(s, 1, a) \o SubSeq(s, a + 1, b) = SubSeq(s, 1, b)
<1>1. PICK top \in Nat : top = Len(s)
  OBVIOUS
<1>2. 1 \in 1..(top + 1) /\ a \in 0..top /\ b \in a..top
  BY <1>1
<1>3. 1 \in 1..(Len(s) + 1) /\ a \in (1 - 1)..Len(s) /\ b \in a..Len(s)
  BY <1>1, <1>2
<1> QED BY <1>3, ConcatAdjacentSubSeq

(* Pieces of a sequence put together give it back.                           *)
LEMMA PiecesTogether ==
  ASSUME NEW S, NEW s \in Seq(S), NEW n \in Nat \ {0}, NEW c, NEW pieces,
         Len(pieces) = n, Cuts(c, n, s), CutAt(s, c, n, pieces)
  PROVE  FlattenSeq(pieces) = s
<1>1. PICK flat : flat = CHOOSE h : IsFlat(h, pieces, n)
  OBVIOUS
<1>2. FlattenSeq(pieces) = flat[n]
  BY <1>1 DEF FlattenSeq, IsFlat
<1>3. pieces[1] = SubSeq(s, 1, c[1])
  <2>1. 1 \in 1..n /\ 1 - 1 = 0 /\ 0 + 1 = 1
    OBVIOUS
  <2> QED BY <2>1 DEF CutAt, Cuts
<1>4. \A i \in 2..n : SubSeq(s, 1, c[i - 1]) \o pieces[i] = SubSeq(s, 1, c[i])
  <2> TAKE i \in 2..n
  <2>1. i \in 1..n
    OBVIOUS
  <2>2. c[i] \in Nat /\ c[i - 1] \in Nat /\ c[i - 1] <= c[i] /\ c[i] <= Len(s)
    BY <2>1 DEF Cuts
  <2>3. pieces[i] = SubSeq(s, c[i - 1] + 1, c[i])
    BY <2>1 DEF CutAt
  <2> QED BY <2>2, <2>3, TwoPieces
<1>5. PICK g : g = [i \in 1..n |-> SubSeq(s, 1, c[i])]
  OBVIOUS
<1>6. IsFlat(g, pieces, n)
  <2>1. ASSUME NEW i \in 1..n PROVE g[i] = IF i = 1 THEN pieces[i] ELSE g[i - 1] \o pieces[i]
    <3>1. CASE i = 1
      BY <1>3, <1>5, <3>1
    <3>2. CASE i # 1
      <4>1. i \in 2..n /\ i - 1 \in 1..n
        BY <3>2
      <4>2. g[i - 1] = SubSeq(s, 1, c[i - 1]) /\ g[i] = SubSeq(s, 1, c[i])
        BY <1>5, <4>1
      <4>3. g[i] = g[i - 1] \o pieces[i]
        BY <1>4, <4>1, <4>2
      <4> QED BY <3>2, <4>3
    <3> QED BY <3>1, <3>2
  <2>2. g = [i \in 1..n |-> g[i]]
    BY <1>5
  <2> QED BY <2>1, <2>2 DEF IsFlat
<1>7. \A i \in 1..n : flat[i] = IF i = 1 THEN pieces[i] ELSE flat[i - 1] \o pieces[i]
  <2>1. IsFlat(flat, pieces, n)
    BY <1>1, <1>6
  <2>2. n \in Nat
    OBVIOUS
  <2> QED BY <2>1, <2>2, FlatUnfolds
<1>8. \A i \in 1..n : flat[i] = SubSeq(s, 1, c[i])
  <2> DEFINE Wrong == {i \in 1..n : flat[i] # SubSeq(s, 1, c[i])}
  <2> SUFFICES ASSUME Wrong # {} PROVE FALSE
    OBVIOUS
  <2>1. PICK m \in Wrong : \A i \in Wrong : m <= i
    <3>1. Wrong \in SUBSET Nat
      BY DEF Wrong
    <3> HIDE DEF Wrong
    <3> QED BY <3>1, Least
  <2>2. m \in 1..n /\ flat[m] # SubSeq(s, 1, c[m])
    OBVIOUS
  <2>3. \A i \in 1..n : i < m => flat[i] = SubSeq(s, 1, c[i])
    <3>1. ASSUME NEW i \in 1..n, i < m PROVE i \notin Wrong
      <4>1. ~(m <= i)
        BY <2>2, <3>1
      <4> QED BY <2>1, <4>1
    <3> QED BY <3>1
  <2> HIDE DEF Wrong
  <2>4. m # 1
    <3>1. flat[1] = pieces[1]
      <4>1. 1 \in 1..n
        OBVIOUS
      <4> QED BY <1>7, <4>1
    <3> QED BY <1>3, <2>2, <3>1
  <2>5. m \in 2..n /\ m - 1 \in 1..n /\ m - 1 < m
    BY <2>2, <2>4
  <2>6. flat[m - 1] = SubSeq(s, 1, c[m - 1])
    BY <2>3, <2>5
  <2>7. flat[m] = flat[m - 1] \o pieces[m]
    BY <1>7, <2>2, <2>4
  <2> QED BY <1>4, <2>2, <2>5, <2>6, <2>7
<1>9. SubSeq(s, 1, Len(s)) = s
  BY SubSeqFull
<1>10. flat[n] = SubSeq(s, 1, Len(s))
  <2>1. n \in 1..n
    OBVIOUS
  <2> QED BY <1>8, <2>1 DEF Cuts
<1> QED BY <1>2, <1>9, <1>10

(* One piece is all there is.                                                *)
LEMMA OnePiece ==
  ASSUME NEW S, NEW s \in Seq(S)
  PROVE  FlattenSeq(<<s>>) = s
<1>0. PICK top \in Nat : top = Len(s)
  OBVIOUS
<1>1. PICK c : c = [i \in 0..1 |-> IF i = 0 THEN 0 ELSE top]
  OBVIOUS
<1>2. Cuts(c, 1, s)
  <2>1. c[0] = 0 /\ c[1] = top
    BY <1>1
  <2>2. \A i \in 1..1 : i = 1 /\ i - 1 = 0
    OBVIOUS
  <2> QED BY <1>0, <2>1, <2>2 DEF Cuts
<1>3. CutAt(s, c, 1, <<s>>)
  <2>1. \A i \in 1..1 : i = 1 /\ i - 1 = 0
    OBVIOUS
  <2>2. c[0] + 1 = 1 /\ c[1] = Len(s)
    BY <1>0, <1>1
  <2>3. <<s>>[1] = s
    OBVIOUS
  <2>4. SubSeq(s, 1, Len(s)) = s
    BY SubSeqFull
  <2> QED BY <2>1, <2>2, <2>3, <2>4 DEF CutAt
<1>4. Len(<<s>>) = 1 /\ 1 \in Nat \ {0}
  OBVIOUS
<1> QED BY <1>2, <1>3, <1>4, PiecesTogether

-----------------------------------------------------------------------------
(* How often a sequence has something.                                       *)
Times(s, x) == Cardinality({i \in DOMAIN s : s[i] = x})

LEMMA TimesConcat ==
  ASSUME NEW S, NEW s \in Seq(S), NEW t \in Seq(S), NEW x
  PROVE  /\ Times(s \o t, x) = Times(s, x) + Times(t, x)
         /\ Times(s, x) \in Nat /\ Times(t, x) \in Nat
<1>1. PICK n, m, st : n = Len(s) /\ m = Len(t) /\ st = s \o t
  OBVIOUS
<1>2. /\ n \in Nat /\ m \in Nat /\ DOMAIN s = 1..n /\ DOMAIN t = 1..m /\ st \in Seq(S)
      /\ Len(st) = n + m /\ \A i \in 1..(n + m) : st[i] = IF i <= n THEN s[i] ELSE t[i - n]
  BY <1>1, ConcatProperties
<1>3. DOMAIN st = 1..(n + m)
  BY <1>2
<1>4. PICK A, B, C, D :
        /\ A = {i \in 1..n : s[i] = x} /\ B = {i \in 1..m : t[i] = x}
        /\ C = {n + j : j \in B} /\ D = {i \in 1..(n + m) : st[i] = x}
  OBVIOUS
<1>5. IsFiniteSet(A) /\ IsFiniteSet(B) /\ IsFiniteSet(C) /\ Cardinality(C) = Cardinality(B)
  <2>1. IsFiniteSet(1..n) /\ IsFiniteSet(1..m)
    BY <1>2, FS_Interval
  <2>2. A \in SUBSET (1..n) /\ B \in SUBSET (1..m)
    BY <1>4
  <2>3. IsFiniteSet(A) /\ IsFiniteSet(B)
    BY <2>1, <2>2, FS_Subset
  <2>4. PICK f : f = [j \in B |-> n + j]
    OBVIOUS
  <2>5. \A i, j \in B : n + i = n + j => i = j
    BY <1>2, <2>2
  <2>6. f \in Bijection(B, C)
    <3>1. f \in [B -> C] /\ \A i, j \in B : f[i] = f[j] => i = j
      BY <1>4, <2>4, <2>5
    <3>2. \A y \in C : \E j \in B : f[j] = y
      BY <1>4, <2>4
    <3> QED BY <3>1, <3>2, Fun_IsInj, Fun_IsSurj, Fun_IsBij
  <2>7. ExistsBijection(B, C)
    BY <2>6 DEF ExistsBijection
  <2> QED BY <2>3, <2>7, FS_Bijection
<1>6. D = A \cup C
  <2>1. ASSUME NEW i \in A PROVE i \in D
    <3>1. i \in 1..n /\ i \in 1..(n + m) /\ i <= n
      BY <1>2, <1>4
    <3> QED BY <1>2, <1>4, <3>1
  <2>2. ASSUME NEW j \in B PROVE n + j \in D
    <3>1. j \in 1..m /\ n + j \in 1..(n + m) /\ ~ (n + j <= n) /\ (n + j) - n = j
      BY <1>2, <1>4
    <3> QED BY <1>2, <1>4, <3>1
  <2>3. ASSUME NEW i \in D PROVE i \in A \cup C
    <3>1. i \in 1..(n + m) /\ st[i] = x
      BY <1>4
    <3>2. CASE i <= n
      <4>1. i \in 1..n
        BY <1>2, <3>1, <3>2
      <4> QED BY <1>2, <1>4, <3>1, <3>2, <4>1
    <3>3. CASE ~ (i <= n)
      <4>1. PICK j : j = i - n
        OBVIOUS
      <4>2. j \in 1..m /\ n + j = i
        BY <1>2, <3>1, <3>3, <4>1
      <4> QED BY <1>2, <1>4, <3>1, <3>3, <4>1, <4>2
    <3> QED BY <3>2, <3>3
  <2> QED BY <1>4, <2>1, <2>2, <2>3
<1>7. A \cap C = {}
  <2>1. \A j \in B : n + j \notin 1..n
    BY <1>2, <1>4
  <2> QED BY <1>4, <2>1
<1>8. Cardinality(A) \in Nat /\ Cardinality(B) \in Nat
  BY <1>5, FS_CardinalityType
<1>9. Cardinality(D) = Cardinality(A) + Cardinality(B)
  <2>1. Cardinality(A \cup C) = Cardinality(A) + Cardinality(C) - Cardinality(A \cap C)
    BY <1>5, FS_Union
  <2>2. Cardinality(A \cap C) = 0
    BY <1>7, FS_EmptySet
  <2>3. Cardinality(A \cup C) = Cardinality(A) + Cardinality(B) - 0
    BY <1>5, <2>1, <2>2
  <2> QED BY <1>6, <1>8, <2>3
<1>10. Times(st, x) = Cardinality(D) /\ Times(s, x) = Cardinality(A) /\ Times(t, x) = Cardinality(B)
  BY <1>2, <1>3, <1>4 DEF Times
<1> QED BY <1>1, <1>8, <1>9, <1>10

LEMMA TimesOfSet ==
  ASSUME NEW S, IsFiniteSet(S), NEW x
  PROVE  Times(SetToSeq(S), x) = IF x \in S THEN 1 ELSE 0
<1>1. PICK s : s = SetToSeq(S)
  OBVIOUS
<1>2. /\ s \in Seq(S) /\ \A i \in DOMAIN s : s[i] \in S
      /\ \A y \in S : \E i \in DOMAIN s : s[i] = y
      /\ \A i, j \in DOMAIN s : s[i] = s[j] => i = j
  <2>1. s \in Seq(S)
    BY <1>1, SetToSeqHasAll
  <2> QED BY <1>1, <2>1, SetToSeqHasAll
<1>3. PICK A : A = {i \in DOMAIN s : s[i] = x}
  OBVIOUS
<1>4. CASE x \in S
  <2>1. PICK i \in DOMAIN s : s[i] = x
    BY <1>2, <1>4
  <2>2. A = {i}
    BY <1>2, <1>3, <2>1
  <2> QED BY <1>1, <1>3, <1>4, <2>2, FS_Singleton DEF Times
<1>5. CASE x \notin S
  <2>1. A = {}
    BY <1>2, <1>3, <1>5
  <2> QED BY <1>1, <1>3, <1>5, <2>1, FS_EmptySet DEF Times
<1> QED BY <1>4, <1>5

LEMMA TimesAppend ==
  ASSUME NEW S, NEW s \in Seq(S), NEW y \in S, NEW x
  PROVE  /\ Times(Append(s, y), x) = Times(s, x) + IF y = x THEN 1 ELSE 0
         /\ Times(s, x) \in Nat /\ Times(<<>>, x) = 0
<1>0. <<y>> \in Seq(S) /\ Len(<<y>>) = 1 /\ <<y>>[1] = y /\ DOMAIN <<y>> = {1}
  <2>1. Len(<<y>>) = 1 /\ <<y>>[1] = y
    OBVIOUS
  <2>2. <<y>> \in Seq(S)
    OBVIOUS
  <2>3. DOMAIN <<y>> = 1..1
    BY <2>1, <2>2
  <2> QED BY <2>1, <2>2, <2>3
<1>1. PICK t : t = <<y>> /\ t \in Seq(S) /\ Len(t) = 1 /\ t[1] = y /\ DOMAIN t = {1}
  BY <1>0
<1>2. Append(s, y) = s \o t
  BY <1>1, AppendIsConcat
<1>3. Times(t, x) = IF y = x THEN 1 ELSE 0
  <2>1. CASE y = x
    <3>1. {i \in DOMAIN t : t[i] = x} = {1}
      BY <1>1, <2>1
    <3> QED BY <2>1, <3>1, FS_Singleton DEF Times
  <2>2. CASE y # x
    <3>1. {i \in DOMAIN t : t[i] = x} = {}
      BY <1>1, <2>2
    <3> QED BY <2>2, <3>1, FS_EmptySet DEF Times
  <2> QED BY <2>1, <2>2
<1>4. Times(<<>>, x) = 0
  <2>1. DOMAIN <<>> = {}
    OBVIOUS
  <2>2. {i \in DOMAIN <<>> : <<>>[i] = x} = {}
    BY <2>1
  <2> QED BY <2>2, FS_EmptySet DEF Times
<1>5. Times(s \o t, x) = Times(s, x) + Times(t, x) /\ Times(s, x) \in Nat
  BY <1>1, TimesConcat
<1>6. Times(s \o t, x) = Times(s, x) + IF y = x THEN 1 ELSE 0
  BY <1>3, <1>5
<1>7. Times(Append(s, y), x) = Times(s \o t, x)
  BY <1>2
<1> QED BY <1>4, <1>5, <1>6, <1>7

-----------------------------------------------------------------------------
(* Sequences, their beginnings and their ends.                               *)

(* A set that has 0 and with every number the next one has all up to N.      *)
LEMMA AllUpTo ==
  ASSUME NEW N \in Nat, NEW P, 0 \in P, \A n \in 1..N : n - 1 \in P => n \in P
  PROVE  \A n \in 0..N : n \in P
<1> DEFINE B == {n \in 0..N : n \notin P}
<1> SUFFICES ASSUME B # {} PROVE FALSE
  OBVIOUS
<1>1. PICK n \in B : \A m \in B : n <= m
  <2>1. B \in SUBSET Nat
    OBVIOUS
  <2> QED BY <2>1, Least
<1>2. n \in 1..N /\ n - 1 \in 0..N /\ n - 1 \notin B
  BY <1>1
<1> QED BY <1>1, <1>2

(* Prefixes.                                                                 *)
LEMMA PrefixByPlace ==
  ASSUME NEW E, NEW s \in Seq(E), NEW t \in Seq(E)
  PROVE  IsPrefix(s, t) <=> Len(s) <= Len(t) /\ \A k \in 1..Len(s) : s[k] = t[k]
<1>1. CASE Len(s) <= Len(t)
  <2>1. SubSeq(s, 1, Len(s)) = s
    OBVIOUS
  <2>2. /\ SubSeq(t, 1, Len(s)) \in Seq(E) /\ Len(SubSeq(t, 1, Len(s))) = Len(s)
        /\ \A k \in 1..Len(s) : SubSeq(t, 1, Len(s))[k] = t[k]
    BY <1>1
  <2>3. s = SubSeq(t, 1, Len(s)) <=> \A k \in 1..Len(s) : s[k] = SubSeq(t, 1, Len(s))[k]
    BY <2>2, SeqEqual
  <2> QED BY <1>1, <2>1, <2>2, <2>3 DEF IsPrefix
<1>2. CASE ~(Len(s) <= Len(t))
  BY <1>2 DEF IsPrefix
<1> QED BY <1>1, <1>2

(* IsPrefix orders sequences, and the prefixes of one sequence are prefixes  *)
(* of each other.                                                            *)
LEMMA PrefixOrder ==
  ASSUME NEW E, NEW s \in Seq(E), NEW t \in Seq(E), NEW u \in Seq(E)
  PROVE  /\ IsPrefix(s, s)
         /\ IsPrefix(s, t) /\ IsPrefix(t, u) => IsPrefix(s, u)
         /\ IsPrefix(s, t) /\ Len(t) <= Len(s) => s = t
         /\ IsPrefix(s, u) /\ IsPrefix(t, u) /\ Len(s) <= Len(t) => IsPrefix(s, t)
<1>1. IsPrefix(s, s)
  BY PrefixByPlace
<1>2. ASSUME IsPrefix(s, t), IsPrefix(t, u) PROVE IsPrefix(s, u)
  <2>1. Len(s) <= Len(t) /\ \A k \in 1..Len(s) : s[k] = t[k]
    BY <1>2, PrefixByPlace
  <2>2. Len(t) <= Len(u) /\ \A k \in 1..Len(t) : t[k] = u[k]
    BY <1>2, PrefixByPlace
  <2>3. Len(s) <= Len(u) /\ \A k \in 1..Len(s) : s[k] = u[k]
    BY <2>1, <2>2
  <2> QED BY <2>3, PrefixByPlace
<1>3. ASSUME IsPrefix(s, t), Len(t) <= Len(s) PROVE s = t
  <2>1. Len(s) = Len(t) /\ \A k \in 1..Len(s) : s[k] = t[k]
    BY <1>3, PrefixByPlace
  <2> QED BY <2>1, SeqEqual
<1>4. ASSUME IsPrefix(s, u), IsPrefix(t, u), Len(s) <= Len(t) PROVE IsPrefix(s, t)
  <2>1. \A k \in 1..Len(s) : s[k] = u[k]
    BY <1>4, PrefixByPlace
  <2>2. \A k \in 1..Len(t) : t[k] = u[k]
    BY <1>4, PrefixByPlace
  <2>3. \A k \in 1..Len(s) : s[k] = t[k]
    BY <1>4, <2>1, <2>2
  <2> QED BY <1>4, <2>3, PrefixByPlace
<1> QED BY <1>1, <1>2, <1>3, <1>4

(* A sequence that is not empty is its Front and its Last.                   *)
LEMMA FrontAndLast ==
  ASSUME NEW E, NEW t \in Seq(E), t # <<>>
  PROVE  /\ Front(t) \in Seq(E) /\ Len(Front(t)) = Len(t) - 1 /\ Last(t) \in E
         /\ Len(t) \in Nat \ {0} /\ \A k \in 1..(Len(t) - 1) : Front(t)[k] = t[k]
         /\ t = Append(Front(t), Last(t))
<1>1. Len(t) \in Nat \ {0}
  OBVIOUS
<1>2. /\ Front(t) \in Seq(E) /\ Len(Front(t)) = Len(t) - 1 /\ Last(t) \in E
      /\ \A k \in 1..(Len(t) - 1) : Front(t)[k] = t[k]
  <2>1. Last(t) \in E
    BY <1>1 DEF Last
  <2>2. PICK n \in Nat : n = Len(t) - 1
    BY <1>1
  <2>3. /\ SubSeq(t, 1, n) \in Seq(E) /\ Len(SubSeq(t, 1, n)) = n
        /\ \A k \in 1..n : SubSeq(t, 1, n)[k] = t[k]
    BY <1>1, <2>2
  <2> QED BY <2>1, <2>2, <2>3 DEF Front
<1>3. PICK f \in Seq(E), x \in E : f = Front(t) /\ x = Last(t)
  BY <1>2
<1>4. PICK a : a = Append(f, x)
  OBVIOUS
<1>5. a \in Seq(E) /\ Len(a) = Len(f) + 1 /\ a[Len(f) + 1] = x /\ \A k \in 1..Len(f) : a[k] = f[k]
  BY <1>3, <1>4, AppendProperties
<1>6. Len(f) = Len(t) - 1 /\ x = t[Len(t)] /\ \A k \in 1..(Len(t) - 1) : f[k] = t[k]
  BY <1>2, <1>3 DEF Last
<1>7. Len(a) = Len(t) /\ \A k \in 1..Len(t) : a[k] = t[k]
  BY <1>1, <1>5, <1>6
<1>8. t = Append(Front(t), Last(t))
  BY <1>3, <1>4, <1>5, <1>7, SeqEqual
<1> QED BY <1>1, <1>2, <1>8

(* Append is undone by Front and Last.                                       *)
LEMMA FrontOfAppend ==
  ASSUME NEW E, NEW t \in Seq(E), NEW x \in E
  PROVE  /\ Append(t, x) \in Seq(E) /\ Append(t, x) # <<>> /\ Len(Append(t, x)) = Len(t) + 1
         /\ Front(Append(t, x)) = t /\ Last(Append(t, x)) = x
         /\ \A k \in 1..Len(t) : Append(t, x)[k] = t[k]
<1>1. PICK a : a = Append(t, x)
  OBVIOUS
<1>2. /\ a \in Seq(E) /\ a # <<>> /\ Len(a) = Len(t) + 1 /\ a[Len(t) + 1] = x
      /\ \A k \in 1..Len(t) : a[k] = t[k]
  BY <1>1, AppendProperties
<1>3. /\ Front(a) \in Seq(E) /\ Len(Front(a)) = Len(t) /\ \A k \in 1..Len(t) : Front(a)[k] = t[k]
  BY <1>2, FrontAndLast
<1>4. Front(a) = t
  BY <1>3, SeqEqual
<1>5. Last(a) = x
  BY <1>2 DEF Last
<1> QED BY <1>1, <1>2, <1>4, <1>5

(* The prefixes of a sequence are the sequence and those of its Front.       *)
LEMMA PrefixOfFront ==
  ASSUME NEW E, NEW s \in Seq(E), NEW t \in Seq(E), t # <<>>
  PROVE  IsPrefix(s, t) <=> s = t \/ IsPrefix(s, Front(t))
<1>1. /\ Front(t) \in Seq(E) /\ Len(Front(t)) = Len(t) - 1 /\ Len(t) \in Nat \ {0}
      /\ \A k \in 1..(Len(t) - 1) : Front(t)[k] = t[k]
  BY FrontAndLast
<1>2. IsPrefix(Front(t), t) /\ IsPrefix(t, t)
  BY <1>1, PrefixByPlace
<1>3. ASSUME IsPrefix(s, t), s # t PROVE IsPrefix(s, Front(t))
  <2>1. Len(s) < Len(t)
    BY <1>3, PrefixOrder, PrefixByPlace
  <2> QED BY <1>1, <1>2, <1>3, <2>1, PrefixOrder
<1> QED BY <1>1, <1>2, <1>3, PrefixOrder

(* Between a sequence and one it is a strict prefix of there is one that is  *)
(* longer by one.                                                            *)
LEMMA NextPrefix ==
  ASSUME NEW E, NEW s \in Seq(E), NEW t \in Seq(E), IsPrefix(s, t), s # t
  PROVE  \E c \in Seq(E) : c # <<>> /\ Front(c) = s /\ IsPrefix(c, t)
<1>1. Len(s) < Len(t) /\ \A k \in 1..Len(s) : s[k] = t[k]
  BY PrefixOrder, PrefixByPlace
<1>2. PICK n \in E : n = t[Len(s) + 1]
  BY <1>1
<1>3. PICK c : c = Append(s, n)
  OBVIOUS
<1>4. c \in Seq(E) /\ c # <<>> /\ Front(c) = s /\ Len(c) = Len(s) + 1 /\ Last(c) = n
      /\ \A k \in 1..Len(s) : c[k] = s[k]
  BY <1>3, FrontOfAppend
<1>5. \A k \in 1..Len(c) : c[k] = t[k]
  BY <1>1, <1>2, <1>4 DEF Last
<1> QED BY <1>1, <1>4, <1>5, PrefixByPlace

(* Min and Max of a set of numbers up to n that is not empty.                *)
LEMMA MinAndMax ==
  ASSUME NEW n \in Nat, NEW S \in SUBSET (1..n), S # {}
  PROVE  /\ Min(S) \in S /\ \A x \in S : Min(S) <= x
         /\ Max(S) \in S /\ \A x \in S : Max(S) >= x
<1>1. \E x \in S : \A y \in S : x <= y
  <2>1. S \in SUBSET Nat
    OBVIOUS
  <2> QED BY <2>1, Least
<1>2. \E x \in S : \A y \in S : x >= y
  <2>1. PICK B : B = {n - x : x \in S}
    OBVIOUS
  <2>2. B \in SUBSET Nat /\ B # {}
    <3>1. \A x \in S : n - x \in Nat
      OBVIOUS
    <3> QED BY <2>1, <3>1
  <2>3. PICK b \in B : \A c \in B : b <= c
    BY <2>2, Least
  <2>4. PICK x \in S : b = n - x
    BY <2>1
  <2>5. ASSUME NEW y \in S PROVE x >= y
    <3>1. n - y \in B
      BY <2>1
    <3> QED BY <2>3, <2>4, <3>1
  <2> QED BY <2>5
<1> QED BY <1>1, <1>2 DEF Min, Max

(* A concatenation grows with its second part.                               *)
LEMMA ConcatAppend ==
  ASSUME NEW E, NEW s \in Seq(E), NEW t \in Seq(E), NEW e \in E
  PROVE  /\ s \o t \in Seq(E) /\ s \o Append(t, e) = Append(s \o t, e)
         /\ Append(s \o t, e) \in Seq(E) /\ IsPrefix(s \o t, Append(s \o t, e))
<1>1. PICK u \in Seq(E) : u = s \o t
  <2>1. s \o t \in Seq(E)
    BY ConcatProperties
  <2> QED BY <2>1
<1>2. Append(t, e) = t \o <<e>> /\ Append(u, e) = u \o <<e>> /\ <<e>> \in Seq(E)
  BY AppendIsConcat
<1>3. (s \o t) \o <<e>> = s \o (t \o <<e>>)
  BY <1>2, ConcatAssociative
<1>4. s \o Append(t, e) = Append(u, e)
  BY <1>1, <1>2, <1>3
<1>5. PICK a : a = Append(u, e)
  OBVIOUS
<1>6. a \in Seq(E) /\ a # <<>> /\ Front(a) = u
  BY <1>5, FrontOfAppend
<1>7. IsPrefix(u, a)
  BY <1>6, PrefixOfFront, PrefixOrder
<1> QED BY <1>1, <1>4, <1>5, <1>6, <1>7

(* A concatenation that is empty has an empty second part.                   *)
LEMMA EmptyConcat ==
  ASSUME NEW E, NEW s \in Seq(E), NEW t \in Seq(E), s \o t = <<>>
  PROVE  t = <<>>
<1>1. Len(s \o t) = Len(s) + Len(t) /\ Len(s) \in Nat /\ Len(t) \in Nat
  OBVIOUS
<1>2. Len(t) = 0
  <2>1. Len(s \o t) = 0
    OBVIOUS
  <2> QED BY <1>1, <2>1
<1> QED BY <1>2

(* What follows the same beginning is the same.                              *)
LEMMA ConcatCancels ==
  ASSUME NEW E, NEW s \in Seq(E), NEW a \in Seq(E), NEW b \in Seq(E), s \o a = s \o b
  PROVE  a = b
<1>1. PICK u : u = s \o a /\ u = s \o b
  OBVIOUS
<1>2. Len(u) = Len(s) + Len(a) /\ Len(u) = Len(s) + Len(b)
  BY <1>1
<1>3. Len(a) \in Nat /\ Len(b) \in Nat /\ Len(s) \in Nat
  OBVIOUS
<1>4. Len(a) = Len(b)
  BY <1>2, <1>3
<1>5. \A k \in 1..Len(a) : u[Len(s) + k] = a[k]
  BY <1>1
<1>6. \A k \in 1..Len(b) : u[Len(s) + k] = b[k]
  BY <1>1
<1>7. \A k \in 1..Len(a) : a[k] = b[k]
  BY <1>4, <1>5, <1>6
<1> QED BY <1>4, <1>7

(* The elements of a sequence that is longer by one.                         *)
LEMMA SetOfAppend ==
  ASSUME NEW E, NEW s \in Seq(E), NEW e
  PROVE  ToSet(Append(s, e)) = ToSet(s) \cup {e}
<1>1. PICK t : t = Append(s, e)
  OBVIOUS
<1>2. PICK n \in Nat : n = Len(s) /\ DOMAIN s = 1..n
  OBVIOUS
<1>3. DOMAIN t = 1..(n + 1) /\ t[n + 1] = e /\ \A k \in 1..n : t[k] = s[k]
  BY <1>1, <1>2
<1>4. ASSUME NEW x PROVE (\E k \in 1..(n + 1) : t[k] = x) <=> x = e \/ \E k \in 1..n : s[k] = x
  <2>1. n + 1 \in 1..(n + 1) /\ \A k \in 1..n : k \in 1..(n + 1)
    OBVIOUS
  <2>2. \A k \in 1..(n + 1) : k = n + 1 \/ k \in 1..n
    OBVIOUS
  <2> QED BY <1>3, <2>1, <2>2
<1> QED BY <1>1, <1>2, <1>3, <1>4 DEF ToSet

(* A set of sequences that has the empty one, and with every sequence all    *)
(* that are longer by one, has all.                                          *)
LEMMA SeqInduct ==
  ASSUME NEW E, NEW S, <<>> \in S, \A s \in Seq(E) : s \in S => \A e \in E : Append(s, e) \in S
  PROVE  \A s \in Seq(E) : s \in S
<1> DEFINE B == {n \in Nat : \E s \in Seq(E) : s \notin S /\ Len(s) = n}
<1> SUFFICES ASSUME B # {} PROVE FALSE
  <2>1. \A s \in Seq(E) : Len(s) \in Nat
    OBVIOUS
  <2> QED BY <2>1
<1>1. PICK n \in B : \A m \in B : n <= m
  <2>1. B \in SUBSET Nat
    OBVIOUS
  <2> QED BY <2>1, Least
<1>2. PICK s \in Seq(E) : s \notin S /\ Len(s) = n
  OBVIOUS
<1>3. s # <<>>
  BY <1>2
<1>4. PICK f \in Seq(E), e \in E : s = Append(f, e) /\ Len(f) = Len(s) - 1
  BY <1>3, FrontAndLast
<1>5. Len(f) \in Nat /\ n \in Nat /\ Len(f) < n
  BY <1>2, <1>4
<1>6. Len(f) \notin B
  <2> HIDE DEF B
  <2> QED BY <1>1, <1>5
<1>7. f \in S
  BY <1>5, <1>6
<1> QED BY <1>2, <1>4, <1>7
=============================================================================

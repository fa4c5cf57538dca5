------------------------------- MODULE SumProofs -------------------------------
(***************************************************************************)
(* What SumFunctionOnSet, the sum of the values of a function over a       *)
(* finite set of its arguments, returns.  The library defines it by a      *)
(* recursive function that takes the elements of the set in the order      *)
(* CHOOSE gives them; the lemmas show that this function exists, and that  *)
(* the order does not matter.  Induction on a finite set is stated as a    *)
(* minimal counterexample, WFMin of WellFoundedInduction.                  *)
(***************************************************************************)
EXTENDS Functions, FiniteSetTheorems, TLAPS

\* A set of subsets of a finite set has a smallest one.
LEMMA SmallestSubset ==
    ASSUME NEW S, IsFiniteSet(S), NEW Bad, Bad \subseteq SUBSET S, Bad # {}
    PROVE  \E T \in Bad : \A U \in Bad : U \subseteq T => U = T
<1>1. IsWellFoundedOn(StrictSubsetOrdering(S), SUBSET S)
  BY FS_StrictSubsetOrderingWellFounded, FS_FiniteSubsetsOfFinite
<1>2. PICK T \in Bad : \A U \in Bad : <<U, T>> \notin StrictSubsetOrdering(S)
  BY <1>1, WFMin
<1> QED
  BY <1>2 DEF StrictSubsetOrdering

First(s) == CHOOSE x \in s : TRUE

\* "sum" is the sum of f over every subset of S, taking the elements of a set in
\* the order First gives them.
Sums(sum, f, S) ==
    sum = [s \in SUBSET S |-> IF s = {} THEN 0 ELSE f[First(s)] + sum[s \ {First(s)}]]

LEMMA SumUnfolded ==
    ASSUME NEW f, NEW S
    PROVE  SumFunctionOnSet(f, S) = (CHOOSE sum : Sums(sum, f, S))[S]
BY DEF SumFunctionOnSet, FoldFunctionOnSet, MapThenFoldSet, Sums, First

\* Two functions that sum f agree on the sets that both know.
LEMMA SumsAgree ==
    ASSUME NEW f, NEW S, NEW T, IsFiniteSet(S), NEW g, NEW h, Sums(g, f, S), Sums(h, f, T)
    PROVE  \A U \in SUBSET S : U \subseteq T => g[U] = h[U]
<1> DEFINE Bad == {U \in SUBSET S : U \subseteq T /\ g[U] # h[U]}
<1> SUFFICES ASSUME Bad # {} PROVE FALSE
  OBVIOUS
<1>1. PICK U \in Bad : \A V \in Bad : V \subseteq U => V = U
  <2> Bad \subseteq SUBSET S
    OBVIOUS
  <2> HIDE DEF Bad
  <2> QED
    BY SmallestSubset
<1>2. /\ g[U] = IF U = {} THEN 0 ELSE f[First(U)] + g[U \ {First(U)}]
      /\ h[U] = IF U = {} THEN 0 ELSE f[First(U)] + h[U \ {First(U)}]
  BY <1>1 DEF Sums
<1>3. CASE U = {}
  BY <1>1, <1>2, <1>3
<1>4. CASE U # {}
  <2>1. First(U) \in U
    BY <1>4 DEF First
  <2>2. U \ {First(U)} \notin Bad
    BY <1>1, <2>1
  <2>3. g[U \ {First(U)}] = h[U \ {First(U)}]
    BY <1>1, <2>2
  <2> QED
    BY <1>1, <1>2, <1>4, <2>3
<1> QED
  BY <1>3, <1>4

\* There is a function that sums f over the subsets of a finite set.
LEMMA SumsExist ==
    ASSUME NEW f, NEW S, IsFiniteSet(S)
    PROVE  \E sum : Sums(sum, f, S)
<1> DEFINE Bad == {T \in SUBSET S : ~ \E sum : Sums(sum, f, T)}
<1> SUFFICES ASSUME Bad # {} PROVE FALSE
  OBVIOUS
<1>1. PICK T \in Bad : \A U \in Bad : U \subseteq T => U = T
  <2> Bad \subseteq SUBSET S
    OBVIOUS
  <2> HIDE DEF Bad
  <2> QED
    BY SmallestSubset
<1> DEFINE Below(U) == CHOOSE sum : Sums(sum, f, U)
           Rest(U) == U \ {First(U)}
           all == [U \in SUBSET T |-> IF U = {} THEN 0 ELSE f[First(U)] + Below(Rest(U))[Rest(U)]]
<1>2. ASSUME NEW U \in SUBSET T, U # {}
      PROVE  First(U) \in U /\ Rest(U) \in SUBSET T /\ Rest(U) # T /\ Rest(U) \subseteq U
  BY <1>2 DEF First
<1>3. ASSUME NEW U \in SUBSET T, U # T
      PROVE  Sums(Below(U), f, U)
  <2>1. U \notin Bad /\ U \in SUBSET S
    BY <1>1, <1>3
  <2>2. \E sum : Sums(sum, f, U)
    BY <2>1
  <2> QED
    BY <2>2
<1>4. ASSUME NEW U \in SUBSET T, U # T
      PROVE  all[U] = Below(U)[U]
  <2>1. Below(U)[U] = IF U = {} THEN 0 ELSE f[First(U)] + Below(U)[Rest(U)]
    <3>1. Sums(Below(U), f, U)
      BY <1>3, <1>4
    <3> HIDE DEF Below
    <3> QED
      BY <3>1 DEF Sums
  <2>2. CASE U = {}
    BY <2>1, <2>2
  <2>3. CASE U # {}
    <3>1. Sums(Below(U), f, U) /\ Sums(Below(Rest(U)), f, Rest(U))
      BY <1>2, <1>3, <1>4, <2>3
    <3>2. IsFiniteSet(U)
      BY <1>1, FS_Subset
    <3> HIDE DEF Below
    <3>3. Below(U)[Rest(U)] = Below(Rest(U))[Rest(U)]
      BY <1>2, <2>3, <3>1, <3>2, SumsAgree
    <3> QED
      BY <2>1, <2>3, <3>3
  <2> QED
    BY <2>2, <2>3
<1>5. Sums(all, f, T)
  <2>1. ASSUME NEW U \in SUBSET T
        PROVE  all[U] = IF U = {} THEN 0 ELSE f[First(U)] + all[Rest(U)]
    <3>1. CASE U = {}
      BY <3>1
    <3>2. CASE U # {}
      <4>1. all[Rest(U)] = Below(Rest(U))[Rest(U)]
        BY <1>2, <1>4, <3>2
      <4> HIDE DEF Below, Rest
      <4>2. all[U] = f[First(U)] + Below(Rest(U))[Rest(U)]
        BY <3>2
      <4> QED
        BY <3>2, <4>1, <4>2
    <3> QED
      BY <3>1, <3>2
  <2>2. all = [U \in SUBSET T |-> all[U]]
    OBVIOUS
  <2> HIDE DEF all
  <2> QED
    BY <2>1, <2>2 DEF Sums
<1> QED
  BY <1>1, <1>5

\* The equation that the sum satisfies, and its two cases.
LEMMA SumEquation ==
    ASSUME NEW f, NEW S, IsFiniteSet(S)
    PROVE  SumFunctionOnSet(f, S) =
              IF S = {} THEN 0 ELSE f[First(S)] + SumFunctionOnSet(f, S \ {First(S)})
<1> DEFINE R == S \ {First(S)}
           Sum(T) == CHOOSE sum : Sums(sum, f, T)
<1>1. IsFiniteSet(R)
  BY FS_Subset
<1>2. Sums(Sum(S), f, S) /\ Sums(Sum(R), f, R)
  BY <1>1, SumsExist
<1>3. SumFunctionOnSet(f, S) = Sum(S)[S] /\ SumFunctionOnSet(f, R) = Sum(R)[R]
  BY SumUnfolded
<1> HIDE DEF Sum
<1>4. Sum(S)[R] = Sum(R)[R]
  BY <1>2, SumsAgree
<1>5. Sum(S)[S] = IF S = {} THEN 0 ELSE f[First(S)] + Sum(S)[R]
  BY <1>2 DEF Sums
<1> QED
  BY <1>3, <1>4, <1>5

LEMMA SumEmpty ==
    ASSUME NEW f
    PROVE  SumFunctionOnSet(f, {}) = 0
BY SumEquation, FS_EmptySet

LEMMA SumInt ==
    ASSUME NEW f, NEW S, IsFiniteSet(S), \A x \in S : f[x] \in Int
    PROVE  SumFunctionOnSet(f, S) \in Int
<1> DEFINE Bad == {T \in SUBSET S : SumFunctionOnSet(f, T) \notin Int}
<1> SUFFICES ASSUME Bad # {} PROVE FALSE
  OBVIOUS
<1>1. PICK T \in Bad : \A U \in Bad : U \subseteq T => U = T
  <2> Bad \subseteq SUBSET S
    OBVIOUS
  <2> HIDE DEF Bad
  <2> QED
    BY SmallestSubset
<1>2. IsFiniteSet(T)
  BY <1>1, FS_Subset
<1>3. T # {}
  <2>1. SumFunctionOnSet(f, {}) \in Int
    BY SumEmpty
  <2> QED
    BY <1>1, <2>1
<1>4. First(T) \in T
  BY <1>3 DEF First
<1>5. SumFunctionOnSet(f, T \ {First(T)}) \in Int
  BY <1>1, <1>4
<1>6. SumFunctionOnSet(f, T) = f[First(T)] + SumFunctionOnSet(f, T \ {First(T)})
  BY <1>2, <1>3, SumEquation
<1> QED
  BY <1>1, <1>4, <1>5, <1>6

\* The order does not matter: any element can be taken first.
LEMMA SumRemove ==
    ASSUME NEW f, NEW S, IsFiniteSet(S), \A x \in S : f[x] \in Int, NEW x \in S
    PROVE  SumFunctionOnSet(f, S) = f[x] + SumFunctionOnSet(f, S \ {x})
<1> DEFINE Sum(T) == SumFunctionOnSet(f, T)
           Bad == {T \in SUBSET S : \E y \in T : Sum(T) # f[y] + Sum(T \ {y})}
<1> SUFFICES ASSUME Bad # {} PROVE FALSE
  OBVIOUS
<1>1. PICK T \in Bad : \A U \in Bad : U \subseteq T => U = T
  <2> Bad \subseteq SUBSET S
    OBVIOUS
  <2> HIDE DEF Bad
  <2> QED
    BY SmallestSubset
<1>2. PICK y \in T : Sum(T) # f[y] + Sum(T \ {y})
  BY <1>1
<1> DEFINE z == First(T)
<1>3. z \in T
  BY <1>2 DEF First
<1>4. Sum(T) = f[z] + Sum(T \ {z})
  <2>1. IsFiniteSet(T)
    BY <1>1, FS_Subset
  <2> QED
    BY <1>3, <2>1, SumEquation
<1>5. y # z
  BY <1>2, <1>4
<1>6. T \ {z} \notin Bad /\ T \ {y} \notin Bad
  BY <1>1, <1>2, <1>3
<1>7. /\ Sum(T \ {z}) = f[y] + Sum((T \ {z}) \ {y})
      /\ Sum(T \ {y}) = f[z] + Sum((T \ {y}) \ {z})
  <2> HIDE DEF Sum, z
  <2> QED
    BY <1>1, <1>2, <1>3, <1>5, <1>6
<1>8. (T \ {z}) \ {y} = (T \ {y}) \ {z}
  OBVIOUS
<1>9. Sum((T \ {z}) \ {y}) \in Int
  <2>1. IsFiniteSet((T \ {z}) \ {y})
    BY <1>1, FS_Subset
  <2> QED
    BY <1>1, <2>1, SumInt
<1>10. f[y] \in Int /\ f[z] \in Int
  BY <1>1, <1>2, <1>3
<1>11. f[y] + (f[z] + Sum((T \ {z}) \ {y})) = f[z] + (f[y] + Sum((T \ {z}) \ {y}))
  <2> HIDE DEF Sum, z
  <2> QED
    BY <1>9, <1>10
<1>12. Sum(T) = f[y] + Sum(T \ {y})
  <2> HIDE DEF Sum, z
  <2> QED
    BY <1>4, <1>7, <1>8, <1>11
<1> QED
  BY <1>2, <1>12

LEMMA SumAdd ==
    ASSUME NEW f, NEW S, IsFiniteSet(S), NEW x, x \notin S,
           \A y \in S \cup {x} : f[y] \in Int
    PROVE  SumFunctionOnSet(f, S \cup {x}) = SumFunctionOnSet(f, S) + f[x]
<1>1. IsFiniteSet(S \cup {x})
  BY FS_AddElement
<1>2. (S \cup {x}) \ {x} = S
  OBVIOUS
<1>3. SumFunctionOnSet(f, S \cup {x}) = f[x] + SumFunctionOnSet(f, S)
  BY <1>1, <1>2, SumRemove
<1>4. SumFunctionOnSet(f, S) \in Int /\ f[x] \in Int
  BY SumInt
<1> QED
  BY <1>3, <1>4

\* Only the values on the set matter.
LEMMA SumSame ==
    ASSUME NEW f, NEW g, NEW S, IsFiniteSet(S), \A x \in S : f[x] = g[x]
    PROVE  SumFunctionOnSet(f, S) = SumFunctionOnSet(g, S)
<1> DEFINE Bad == {T \in SUBSET S : SumFunctionOnSet(f, T) # SumFunctionOnSet(g, T)}
<1> SUFFICES ASSUME Bad # {} PROVE FALSE
  OBVIOUS
<1>1. PICK T \in Bad : \A U \in Bad : U \subseteq T => U = T
  <2> Bad \subseteq SUBSET S
    OBVIOUS
  <2> HIDE DEF Bad
  <2> QED
    BY SmallestSubset
<1>2. IsFiniteSet(T)
  BY <1>1, FS_Subset
<1>3. T # {}
  BY <1>1, SumEmpty
<1>4. First(T) \in T
  BY <1>3 DEF First
<1>5. SumFunctionOnSet(f, T \ {First(T)}) = SumFunctionOnSet(g, T \ {First(T)})
  BY <1>1, <1>4
<1>6. /\ SumFunctionOnSet(f, T) = f[First(T)] + SumFunctionOnSet(f, T \ {First(T)})
      /\ SumFunctionOnSet(g, T) = g[First(T)] + SumFunctionOnSet(g, T \ {First(T)})
  BY <1>2, <1>3, SumEquation
<1> QED
  BY <1>1, <1>4, <1>5, <1>6

\* A sum is the same under other names for its elements.
LEMMA SumRenamed ==
    ASSUME NEW f, NEW g, NEW h, NEW S, IsFiniteSet(S),
           \A x, y \in S : h[x] = h[y] => x = y,
           \A x \in S : f[x] \in Int /\ g[h[x]] = f[x]
    PROVE  SumFunctionOnSet(f, S) = SumFunctionOnSet(g, {h[x] : x \in S})
<1> DEFINE Named(T) == {h[x] : x \in T}
           Renamed(T) == /\ IsFiniteSet(Named(T))
                         /\ SumFunctionOnSet(f, T) = SumFunctionOnSet(g, Named(T))
           Bad == {T \in SUBSET S : ~Renamed(T)}
<1> SUFFICES ASSUME Bad # {} PROVE FALSE
  OBVIOUS
<1>1. PICK T \in Bad : \A U \in Bad : U \subseteq T => U = T
  <2> Bad \subseteq SUBSET S
    OBVIOUS
  <2> HIDE DEF Bad
  <2> QED
    BY SmallestSubset
<1>2. T # {}
  <2>1. Named({}) = {}
    OBVIOUS
  <2>2. SumFunctionOnSet(f, {}) = SumFunctionOnSet(g, {})
    BY SumEmpty
  <2> QED
    BY <1>1, <2>1, <2>2, FS_EmptySet
<1>3. PICK x \in T : TRUE
  BY <1>2
<1> DEFINE R == T \ {x}
<1>4. T \subseteq S /\ R \subseteq S /\ x \in S /\ x \notin R
  BY <1>1, <1>3
<1>5. IsFiniteSet(T) /\ IsFiniteSet(R)
  BY <1>4, FS_Subset
<1>6. IsFiniteSet(Named(R)) /\ SumFunctionOnSet(f, R) = SumFunctionOnSet(g, Named(R))
  BY <1>1, <1>3, <1>4
<1>7. SumFunctionOnSet(f, T) = f[x] + SumFunctionOnSet(f, R)
  BY <1>3, <1>4, <1>5, SumRemove
<1>8. Named(T) = Named(R) \cup {h[x]} /\ h[x] \notin Named(R)
  BY <1>3, <1>4
<1>9. \A y \in Named(R) \cup {h[x]} : g[y] \in Int
  BY <1>4
<1>10. SumFunctionOnSet(g, Named(R) \cup {h[x]}) = SumFunctionOnSet(g, Named(R)) + g[h[x]]
  <2> DEFINE N == Named(R)
             y == h[x]
  <2>1. IsFiniteSet(N) /\ y \notin N /\ \A z \in N \cup {y} : g[z] \in Int
    BY <1>6, <1>8, <1>9
  <2> HIDE DEF N, y
  <2>2. SumFunctionOnSet(g, N \cup {y}) = SumFunctionOnSet(g, N) + g[y]
    BY <2>1, SumAdd
  <2> QED
    BY <2>2 DEF N, y
<1>11. SumFunctionOnSet(f, R) \in Int /\ f[x] \in Int /\ g[h[x]] = f[x]
  BY <1>4, <1>5, SumInt
<1>12. IsFiniteSet(Named(T))
  <2> HIDE DEF Named, R
  <2> QED
    BY <1>6, <1>8, FS_AddElement
<1>13. SumFunctionOnSet(f, T) = SumFunctionOnSet(g, Named(T))
  <2> HIDE DEF Named, R
  <2> QED
    BY <1>6, <1>7, <1>8, <1>10, <1>11
<1> QED
  BY <1>1, <1>12, <1>13
===============================================================================

---------------------------- MODULE SumTheorems ----------------------------
(***************************************************************************)
(* Facts about SumFunctionOnSet, the finite sums the models are built      *)
(* from: the sum of f[x] for x in a finite set, whatever the order.        *)
(*                                                                         *)
(* Induction is stated over a SET of naturals or of subsets, so that it    *)
(* can be cited like any other fact: the least element of the complement   *)
(* comes from the well-foundedness of < on Nat.                            *)
(***************************************************************************)
EXTENDS Integers, FiniteSets, Functions, FiniteSetTheorems, WellFoundedInduction, TLAPS

\* A set of naturals with 0 and all successors has every natural.
LEMMA NatSetInduction ==
  ASSUME NEW K, 0 \in K, \A n \in Nat : n \in K => n + 1 \in K
  PROVE  \A n \in Nat : n \in K
<1> DEFINE T == Nat \ K
<1> SUFFICES ASSUME T # {} PROVE FALSE
  OBVIOUS
<1>1. PICK x \in T : \A y \in T : ~(<<y, x>> \in OpToRel(<, Nat))
  <2>1. IsWellFoundedOn(OpToRel(<, Nat), Nat)
    BY NatLessThanWellFounded, Zenon
  <2>2. T \subseteq Nat
    OBVIOUS
  <2> HIDE DEF T
  <2> QED
    BY <2>1, <2>2, WFMin, Zenon
<1>2. x \in Nat /\ x # 0 /\ x \notin K
  OBVIOUS
<1>3. x - 1 \in Nat /\ x - 1 < x /\ x - 1 + 1 = x
  BY <1>2
<1>4. x - 1 \in T
  BY <1>2, <1>3
<1>5. <<x - 1, x>> \in OpToRel(<, Nat)
  BY <1>2, <1>3 DEF OpToRel
<1> QED
  BY <1>1, <1>4, <1>5, Zenon

\* A finite set with a successor's cardinality loses one with an element.
LEMMA CardinalityRemove ==
  ASSUME NEW T, IsFiniteSet(T), NEW n \in Nat, Cardinality(T) = n + 1
  PROVE  /\ T # {}
         /\ \A x \in T : Cardinality(T \ {x}) = n
<1>1. Cardinality(T) # 0
  OBVIOUS
<1>2. T # {}
  BY <1>1, FS_EmptySet
<1>3. ASSUME NEW x \in T PROVE Cardinality(T \ {x}) = n
  <2>1. Cardinality(T \ {x}) = Cardinality(T) - 1
    BY FS_RemoveElement
  <2> QED
    BY <2>1
<1> QED
  BY <1>2, <1>3

\* A family of subsets of a finite set that has the empty set and is closed
\* under adding one element has the set itself.
LEMMA SubsetInduction ==
  ASSUME NEW S, IsFiniteSet(S), NEW K, {} \in K,
         \A T \in SUBSET S : \A x \in S \ T : T \in K => T \cup {x} \in K
  PROVE  S \in K
<1> DEFINE N == {n \in Nat : \A T \in SUBSET S : Cardinality(T) = n => T \in K}
<1>0. \A T \in SUBSET S : IsFiniteSet(T) /\ Cardinality(T) \in Nat
  BY FS_Subset, FS_CardinalityType
<1>1. 0 \in N
  BY <1>0, FS_EmptySet, Zenon
<1>2. ASSUME NEW n \in Nat, n \in N PROVE n + 1 \in N
  <2> SUFFICES ASSUME NEW T \in SUBSET S, Cardinality(T) = n + 1 PROVE T \in K
    OBVIOUS
  <2>1. PICK x \in T : TRUE
    BY <1>0, CardinalityRemove
  <2>2. Cardinality(T \ {x}) = n
    BY <1>0, CardinalityRemove
  <2>3. T \ {x} \in SUBSET S /\ x \in S \ (T \ {x}) /\ (T \ {x}) \cup {x} = T
    OBVIOUS
  <2>4. T \ {x} \in K
    BY <1>2, <2>2, <2>3
  <2> QED
    BY <2>3, <2>4
<1>3. \A n \in Nat : n \in N
  <2> HIDE DEF N
  <2> QED
    BY <1>1, <1>2, NatSetInduction
<1> QED
  BY <1>0, <1>3

-----------------------------------------------------------------------------
(* The recursive function behind the sum *)

Pick(s) == CHOOSE x \in s : TRUE

IsSum(g, f, S) ==
  g = [s \in SUBSET S |-> IF s = {} THEN 0 ELSE f[Pick(s)] + g[s \ {Pick(s)}]]

\* The sum over S is the value at S of the function its recursion defines.
LEMMA SumIsChosen ==
  ASSUME NEW f, NEW S
  PROVE  SumFunctionOnSet(f, S) = (CHOOSE g : IsSum(g, f, S))[S]
BY DEF SumFunctionOnSet, FoldFunctionOnSet, MapThenFoldSet, IsSum, Pick

\* Such a function exists when S is finite and f is integer valued on it.
LEMMA SumExists ==
  ASSUME NEW S, IsFiniteSet(S), NEW f, \A x \in S : f[x] \in Int
  PROVE  \E g \in [SUBSET S -> Int] : IsSum(g, f, S)
<1> DEFINE D(g, s) == IF s = {} THEN 0 ELSE f[Pick(s)] + g[s \ {Pick(s)}]
           K == {n \in Nat : \E g \in [SUBSET S -> Int] :
                              \A s \in SUBSET S : Cardinality(s) <= n => g[s] = D(g, s)}
<1>0. ASSUME NEW s \in SUBSET S
      PROVE  /\ IsFiniteSet(s) /\ Cardinality(s) \in Nat
             /\ s # {} => /\ Pick(s) \in s /\ s \ {Pick(s)} \in SUBSET S
                         /\ Cardinality(s \ {Pick(s)}) = Cardinality(s) - 1
             /\ Cardinality(s) = 0 <=> s = {}
  <2>1. IsFiniteSet(s) /\ Cardinality(s) \in Nat
    BY FS_Subset, FS_CardinalityType
  <2>2. s # {} => Pick(s) \in s
    BY DEF Pick
  <2> QED
    BY <2>1, <2>2, FS_RemoveElement, FS_EmptySet, Zenon
<1>1. ASSUME NEW g \in [SUBSET S -> Int], NEW s \in SUBSET S PROVE D(g, s) \in Int
  <2>1. CASE s = {}
    BY <2>1
  <2>2. CASE s # {}
    <3>1. f[Pick(s)] \in Int /\ g[s \ {Pick(s)}] \in Int
      BY <1>0, <2>2, Zenon
    <3> QED
      BY <2>2, <3>1
  <2> QED
    BY <2>1, <2>2
<1>2. 0 \in K
  <2> DEFINE g == [s \in SUBSET S |-> 0]
  <2>1. ASSUME NEW s \in SUBSET S, Cardinality(s) <= 0 PROVE g[s] = D(g, s)
    <3>1. s = {}
      <4>1. IsFiniteSet(s) /\ Cardinality(s) \in Nat
        BY <1>0, Zenon
      <4>2. Cardinality(s) = 0
        BY <2>1, <4>1
      <4> QED
        BY <4>1, <4>2, FS_EmptySet
    <3> QED
      BY <3>1
  <2>2. g \in [SUBSET S -> Int]
    OBVIOUS
  <2> HIDE DEF g, D
  <2> QED
    BY <2>1, <2>2
<1>3. ASSUME NEW n \in Nat, n \in K PROVE n + 1 \in K
  <2>1. PICK g \in [SUBSET S -> Int] : \A s \in SUBSET S : Cardinality(s) <= n => g[s] = D(g, s)
    BY <1>3, Zenon
  <2> DEFINE h == [s \in SUBSET S |-> IF Cardinality(s) <= n THEN g[s] ELSE D(g, s)]
  <2>2. h \in [SUBSET S -> Int]
    BY <1>1, Zenon
  <2>3. \A s \in SUBSET S : h[s] = D(g, s)
    BY <2>1
  <2>4. ASSUME NEW s \in SUBSET S, Cardinality(s) <= n + 1 PROVE h[s] = D(h, s)
    <3>1. CASE s = {}
      BY <2>3, <3>1, Zenon
    <3>2. CASE s # {}
      <4>1. Cardinality(s \ {Pick(s)}) <= n /\ s \ {Pick(s)} \in SUBSET S
        BY <1>0, <2>4, <3>2
      <4>2. h[s \ {Pick(s)}] = g[s \ {Pick(s)}]
        BY <4>1
      <4> QED
        BY <2>3, <3>2, <4>2, Zenon
    <3> QED
      BY <3>1, <3>2
  <2> HIDE DEF h, D
  <2> QED
    BY <2>2, <2>4
<1>4. Cardinality(S) \in K
  <2>1. \A n \in Nat : n \in K
    <3> HIDE DEF K
    <3> QED
      BY <1>2, <1>3, NatSetInduction
  <2> QED
    BY <1>0, <2>1, Zenon
<1>5. PICK g \in [SUBSET S -> Int] : \A s \in SUBSET S : Cardinality(s) <= Cardinality(S) => g[s] = D(g, s)
  BY <1>4, Zenon
<1>6. \A s \in SUBSET S : g[s] = D(g, s)
  BY <1>5, FS_Subset, Zenon
<1> QED
  BY <1>6, Zenon DEF IsSum

\* Whatever set it was built for, the function has one value at a finite set.
LEMMA SumUnique ==
  ASSUME NEW S, NEW T, NEW f, NEW g, NEW h, IsSum(g, f, S), IsSum(h, f, T),
         NEW U \in SUBSET (S \cap T), IsFiniteSet(U)
  PROVE  g[U] = h[U]
<1> DEFINE K == {n \in Nat : \A s \in SUBSET U : Cardinality(s) = n => g[s] = h[s]}
<1>0. \A s \in SUBSET U : IsFiniteSet(s) /\ Cardinality(s) \in Nat
  BY FS_Subset, FS_CardinalityType
<1>1. \A s \in SUBSET U : /\ g[s] = IF s = {} THEN 0 ELSE f[Pick(s)] + g[s \ {Pick(s)}]
                          /\ h[s] = IF s = {} THEN 0 ELSE f[Pick(s)] + h[s \ {Pick(s)}]
  BY Zenon DEF IsSum
<1>2. 0 \in K
  BY <1>0, <1>1, FS_EmptySet
<1>3. ASSUME NEW n \in Nat, n \in K PROVE n + 1 \in K
  <2> SUFFICES ASSUME NEW s \in SUBSET U, Cardinality(s) = n + 1 PROVE g[s] = h[s]
    OBVIOUS
  <2>1. s # {}
    BY <1>0, CardinalityRemove
  <2>2. Pick(s) \in s
    BY <2>1 DEF Pick
  <2>3. s \ {Pick(s)} \in SUBSET U /\ Cardinality(s \ {Pick(s)}) = n
    BY <1>0, <2>2, CardinalityRemove
  <2>4. g[s \ {Pick(s)}] = h[s \ {Pick(s)}]
    BY <1>3, <2>3
  <2> QED
    BY <1>1, <2>1, <2>4
<1>4. \A n \in Nat : n \in K
  <2> HIDE DEF K
  <2> QED
    BY <1>2, <1>3, NatSetInduction
<1> QED
  BY <1>0, <1>4

\* Any element may be taken first, not only the one the recursion picks.
AnyOrder(g, f, S) == \A s \in SUBSET S : \A y \in s : g[s] = f[y] + g[s \ {y}]

\* A function the recursion defines may be unfolded at any element.
LEMMA SumAnyOrder ==
  ASSUME NEW S, IsFiniteSet(S), NEW f, \A x \in S : f[x] \in Int,
         NEW g, IsSum(g, f, S), \A s \in SUBSET S : g[s] \in Int
  PROVE  AnyOrder(g, f, S)
<1> DEFINE K == {n \in Nat : \A t \in SUBSET S : \A x \in t :
                              Cardinality(t) = n => g[t] = f[x] + g[t \ {x}]}
<1>0. \A t \in SUBSET S : IsFiniteSet(t) /\ Cardinality(t) \in Nat
  BY FS_Subset, FS_CardinalityType
<1>1. 0 \in K
  BY <1>0, FS_EmptySet
<1>2. ASSUME NEW n \in Nat, n \in K PROVE n + 1 \in K
  <2> SUFFICES ASSUME NEW t \in SUBSET S, NEW x \in t, Cardinality(t) = n + 1
               PROVE  g[t] = f[x] + g[t \ {x}]
    OBVIOUS
  <2> DEFINE c == Pick(t)
  <2>1. c \in t
    BY DEF Pick
  <2>2. g[t] = f[c] + g[t \ {c}]
    BY <2>1, Zenon DEF IsSum
  <2>3. CASE c = x
    BY <2>2, <2>3
  <2>4. CASE c # x
    <3> HIDE DEF c
    <3>1. /\ t \ {c} \in SUBSET S /\ t \ {x} \in SUBSET S /\ x \in t \ {c} /\ c \in t \ {x}
          /\ (t \ {c}) \ {x} \in SUBSET S
          /\ (t \ {c}) \ {x} = (t \ {x}) \ {c}
      BY <2>1, <2>4
    <3>2. Cardinality(t \ {c}) = n /\ Cardinality(t \ {x}) = n
      BY <1>0, <2>1, CardinalityRemove
    <3>3. g[t \ {c}] = f[x] + g[(t \ {c}) \ {x}]
      BY <1>2, <3>1, <3>2
    <3>4. g[t \ {x}] = f[c] + g[(t \ {x}) \ {c}]
      BY <1>2, <3>1, <3>2
    <3>5. f[x] \in Int /\ f[c] \in Int /\ g[(t \ {c}) \ {x}] \in Int
      BY <2>1, <3>1
    <3>6. g[(t \ {x}) \ {c}] = g[(t \ {c}) \ {x}]
      BY <3>1, Zenon
    <3> QED
      BY <2>2, <3>3, <3>4, <3>5, <3>6
  <2> QED
    BY <2>3, <2>4
<1>3. \A n \in Nat : n \in K
  <2> HIDE DEF K
  <2> QED
    BY <1>1, <1>2, NatSetInduction
<1> QED
  BY <1>0, <1>3, Zenon DEF AnyOrder

-----------------------------------------------------------------------------
(* What the models use *)

\* The sum is the value of an integer function that satisfies the recursion.
LEMMA SumFunctionOf ==
  ASSUME NEW S, IsFiniteSet(S), NEW f, \A x \in S : f[x] \in Int
  PROVE  \E g \in [SUBSET S -> Int] : IsSum(g, f, S) /\ SumFunctionOnSet(f, S) = g[S]
<1> DEFINE c == CHOOSE g : IsSum(g, f, S)
<1>1. PICK g \in [SUBSET S -> Int] : IsSum(g, f, S)
  BY SumExists, Zenon
<1>2. IsSum(c, f, S)
  BY <1>1
<1> HIDE DEF c
<1>3. \A s \in SUBSET S : c[s] = g[s]
  <2> SUFFICES ASSUME NEW s \in SUBSET S PROVE c[s] = g[s]
    OBVIOUS
  <2>1. IsFiniteSet(s) /\ s \in SUBSET (S \cap S)
    BY FS_Subset
  <2> QED
    BY <1>1, <1>2, <2>1, SumUnique
<1>4. SumFunctionOnSet(f, S) = c[S]
  BY SumIsChosen DEF c
<1> QED
  BY <1>1, <1>3, <1>4

\* A finite sum of integers is an integer.
THEOREM SumType ==
  ASSUME NEW S, IsFiniteSet(S), NEW f, \A x \in S : f[x] \in Int
  PROVE  SumFunctionOnSet(f, S) \in Int
<1>1. PICK g \in [SUBSET S -> Int] : IsSum(g, f, S) /\ SumFunctionOnSet(f, S) = g[S]
  BY SumFunctionOf, Zenon
<1>2. g[S] \in Int
  OBVIOUS
<1> QED
  BY <1>1, <1>2

\* An empty sum is 0.
THEOREM SumEmpty ==
  ASSUME NEW f
  PROVE  SumFunctionOnSet(f, {}) = 0
<1>1. PICK g \in [SUBSET {} -> Int] : IsSum(g, f, {}) /\ SumFunctionOnSet(f, {}) = g[{}]
  BY SumFunctionOf, FS_EmptySet, Zenon
<1> QED
  BY <1>1 DEF IsSum

\* One element may be taken out of a sum.
THEOREM SumRemove ==
  ASSUME NEW S, IsFiniteSet(S), NEW f, \A x \in S : f[x] \in Int, NEW y \in S
  PROVE  SumFunctionOnSet(f, S) = f[y] + SumFunctionOnSet(f, S \ {y})
<1>1. PICK g \in [SUBSET S -> Int] : IsSum(g, f, S) /\ SumFunctionOnSet(f, S) = g[S]
  BY SumFunctionOf, Zenon
<1>2. g[S] = f[y] + g[S \ {y}]
  <2>1. IsSum(g, f, S) /\ \A s \in SUBSET S : g[s] \in Int
    BY <1>1
  <2>2. AnyOrder(g, f, S)
    BY <2>1, SumAnyOrder
  <2> QED
    BY <2>2 DEF AnyOrder
<1> DEFINE T == S \ {y}
<1>3. IsFiniteSet(T) /\ T \in SUBSET S /\ \A x \in T : f[x] \in Int
  BY FS_RemoveElement
<1>4. PICK h \in [SUBSET T -> Int] : IsSum(h, f, T) /\ SumFunctionOnSet(f, T) = h[T]
  <2> HIDE DEF T
  <2> QED
    BY <1>3, SumFunctionOf, Zenon
<1>5. g[T] = h[T]
  <2>1. T \in SUBSET (S \cap T)
    OBVIOUS
  <2> HIDE DEF T
  <2> QED
    BY <1>1, <1>3, <1>4, <2>1, SumUnique
<1> QED
  BY <1>1, <1>2, <1>4, <1>5

\* One element may be added to a sum.
THEOREM SumInsert ==
  ASSUME NEW S, IsFiniteSet(S), NEW y, y \notin S, NEW f, \A x \in S \cup {y} : f[x] \in Int
  PROVE  SumFunctionOnSet(f, S \cup {y}) = SumFunctionOnSet(f, S) + f[y]
<1> DEFINE T == S \cup {y}
<1>1. IsFiniteSet(T) /\ y \in T /\ T \ {y} = S /\ \A x \in T : f[x] \in Int
  BY FS_AddElement
<1>2. SumFunctionOnSet(f, T) = f[y] + SumFunctionOnSet(f, T \ {y})
  <2> HIDE DEF T
  <2> QED
    BY <1>1, SumRemove
<1>3. SumFunctionOnSet(f, S) \in Int /\ f[y] \in Int
  <2>1. f[y] \in Int /\ \A x \in S : f[x] \in Int
    OBVIOUS
  <2> QED
    BY <2>1, SumType
<1>4. SumFunctionOnSet(f, S \cup {y}) = f[y] + SumFunctionOnSet(f, S)
  BY <1>1, <1>2
<1> QED
  BY <1>3, <1>4

\* The sum depends on the values on the set only.
THEOREM SumCongruence ==
  ASSUME NEW S, IsFiniteSet(S), NEW f, NEW g, \A x \in S : f[x] \in Int /\ f[x] = g[x]
  PROVE  SumFunctionOnSet(f, S) = SumFunctionOnSet(g, S)
<1> DEFINE K == {T \in SUBSET S : SumFunctionOnSet(f, T) = SumFunctionOnSet(g, T)}
<1>1. {} \in K
  BY SumEmpty
<1>2. ASSUME NEW T \in SUBSET S, NEW x \in S \ T, T \in K PROVE T \cup {x} \in K
  <2>1. IsFiniteSet(T)
    BY FS_Subset
  <2>2. /\ SumFunctionOnSet(f, T \cup {x}) = SumFunctionOnSet(f, T) + f[x]
        /\ SumFunctionOnSet(g, T \cup {x}) = SumFunctionOnSet(g, T) + g[x]
    BY <2>1, SumInsert, Zenon
  <2> QED
    BY <1>2, <2>2
<1>3. S \in K
  <2> HIDE DEF K
  <2> QED
    BY <1>1, <1>2, SubsetInduction, Zenon
<1> QED
  BY <1>3

\* Changing the value at one element changes the sum by the difference.
THEOREM SumUpdate ==
  ASSUME NEW S, IsFiniteSet(S), NEW f, NEW g, NEW y \in S,
         \A x \in S : f[x] \in Int /\ g[x] \in Int,
         \A x \in S \ {y} : g[x] = f[x]
  PROVE  SumFunctionOnSet(g, S) = SumFunctionOnSet(f, S) - f[y] + g[y]
<1> DEFINE T == S \ {y}
<1>1. IsFiniteSet(T) /\ \A x \in T : f[x] \in Int /\ f[x] = g[x]
  BY FS_RemoveElement
<1>2. SumFunctionOnSet(f, T) = SumFunctionOnSet(g, T) /\ SumFunctionOnSet(f, T) \in Int
  <2> HIDE DEF T
  <2> QED
    BY <1>1, SumCongruence, SumType
<1>3. /\ SumFunctionOnSet(f, S) = f[y] + SumFunctionOnSet(f, T)
      /\ SumFunctionOnSet(g, S) = g[y] + SumFunctionOnSet(g, T)
  BY SumRemove
<1>4. f[y] \in Int /\ g[y] \in Int
  OBVIOUS
<1> HIDE DEF T
<1> QED
  BY <1>2, <1>3, <1>4

\* A sum of naturals is a natural and bounds each of them.
THEOREM SumNat ==
  ASSUME NEW S, IsFiniteSet(S), NEW f, \A x \in S : f[x] \in Nat
  PROVE  /\ SumFunctionOnSet(f, S) \in Nat
         /\ \A x \in S : f[x] <= SumFunctionOnSet(f, S)
<1> DEFINE K == {T \in SUBSET S : SumFunctionOnSet(f, T) \in Nat}
<1>1. {} \in K
  BY SumEmpty
<1>2. ASSUME NEW T \in SUBSET S, NEW x \in S \ T, T \in K PROVE T \cup {x} \in K
  <2>1. IsFiniteSet(T)
    BY FS_Subset
  <2>2. \A z \in T \cup {x} : f[z] \in Int
    OBVIOUS
  <2>3. SumFunctionOnSet(f, T \cup {x}) = SumFunctionOnSet(f, T) + f[x]
    BY <2>1, <2>2, SumInsert, Zenon
  <2> QED
    BY <1>2, <2>3
<1>3. ASSUME NEW T \in SUBSET S PROVE SumFunctionOnSet(f, T) \in Nat
  <2>1. IsFiniteSet(T)
    BY FS_Subset
  <2>2. \A U \in SUBSET T : \A x \in T \ U : U \in K => U \cup {x} \in K
    BY <1>2
  <2>3. T \in K
    <3> HIDE DEF K
    <3> QED
      BY <1>1, <2>1, <2>2, SubsetInduction, Zenon
  <2> QED
    BY <2>3
<1>4. ASSUME NEW x \in S PROVE f[x] <= SumFunctionOnSet(f, S)
  <2>1. SumFunctionOnSet(f, S) = f[x] + SumFunctionOnSet(f, S \ {x})
    BY SumRemove
  <2>2. SumFunctionOnSet(f, S \ {x}) \in Nat /\ f[x] \in Nat
    BY <1>3
  <2> QED
    BY <2>1, <2>2
<1> QED
  BY <1>3, <1>4

\* The sum of a pointwise sum is the sum of the sums.
THEOREM SumPointwise ==
  ASSUME NEW S, IsFiniteSet(S), NEW f, NEW g, NEW h,
         \A x \in S : f[x] \in Int /\ g[x] \in Int /\ h[x] = f[x] + g[x]
  PROVE  SumFunctionOnSet(h, S) = SumFunctionOnSet(f, S) + SumFunctionOnSet(g, S)
<1> DEFINE K == {T \in SUBSET S : SumFunctionOnSet(h, T) = SumFunctionOnSet(f, T) + SumFunctionOnSet(g, T)}
<1>1. {} \in K
  BY SumEmpty
<1>2. ASSUME NEW T \in SUBSET S, NEW x \in S \ T, T \in K PROVE T \cup {x} \in K
  <2>1. IsFiniteSet(T)
    BY FS_Subset
  <2>2. \A z \in T \cup {x} : f[z] \in Int /\ g[z] \in Int /\ h[z] \in Int
    OBVIOUS
  <2>3. /\ SumFunctionOnSet(f, T \cup {x}) = SumFunctionOnSet(f, T) + f[x]
        /\ SumFunctionOnSet(g, T \cup {x}) = SumFunctionOnSet(g, T) + g[x]
        /\ SumFunctionOnSet(h, T \cup {x}) = SumFunctionOnSet(h, T) + h[x]
    BY <2>1, <2>2, SumInsert, Zenon
  <2>4. SumFunctionOnSet(f, T) \in Int /\ SumFunctionOnSet(g, T) \in Int
    BY <2>1, <2>2, SumType, Zenon
  <2>5. h[x] = f[x] + g[x] /\ f[x] \in Int /\ g[x] \in Int
    OBVIOUS
  <2> QED
    BY <1>2, <2>3, <2>4, <2>5
<1>3. S \in K
  <2> HIDE DEF K
  <2> QED
    BY <1>1, <1>2, SubsetInduction, Zenon
<1> QED
  BY <1>3

\* A constant factor may be taken out of a sum.
THEOREM SumScale ==
  ASSUME NEW S, IsFiniteSet(S), NEW f, NEW k \in Int, NEW h,
         \A x \in S : f[x] \in Int /\ h[x] = k * f[x]
  PROVE  SumFunctionOnSet(h, S) = k * SumFunctionOnSet(f, S)
<1> DEFINE K == {T \in SUBSET S : SumFunctionOnSet(h, T) = k * SumFunctionOnSet(f, T)}
<1>1. {} \in K
  BY SumEmpty
<1>2. ASSUME NEW T \in SUBSET S, NEW x \in S \ T, T \in K PROVE T \cup {x} \in K
  <2>1. IsFiniteSet(T)
    BY FS_Subset
  <2>2. \A z \in T \cup {x} : f[z] \in Int /\ h[z] \in Int
    OBVIOUS
  <2>3. /\ SumFunctionOnSet(f, T \cup {x}) = SumFunctionOnSet(f, T) + f[x]
        /\ SumFunctionOnSet(h, T \cup {x}) = SumFunctionOnSet(h, T) + h[x]
    BY <2>1, <2>2, SumInsert, Zenon
  <2>4. SumFunctionOnSet(f, T) \in Int
    BY <2>1, <2>2, SumType, Zenon
  <2>5. h[x] = k * f[x] /\ f[x] \in Int
    OBVIOUS
  <2>6. k * (SumFunctionOnSet(f, T) + f[x]) = k * SumFunctionOnSet(f, T) + k * f[x]
    BY <2>4, <2>5
  <2> QED
    BY <1>2, <2>3, <2>5, <2>6
<1>3. S \in K
  <2> HIDE DEF K
  <2> QED
    BY <1>1, <1>2, SubsetInduction, Zenon
<1> QED
  BY <1>3

\* Two disjoint sets are summed one after the other.
THEOREM SumDisjoint ==
  ASSUME NEW S, IsFiniteSet(S), NEW T, IsFiniteSet(T), S \cap T = {},
         NEW f, \A x \in S \cup T : f[x] \in Int
  PROVE  SumFunctionOnSet(f, S \cup T) = SumFunctionOnSet(f, S) + SumFunctionOnSet(f, T)
<1> DEFINE K == {U \in SUBSET T :
                   SumFunctionOnSet(f, S \cup U) = SumFunctionOnSet(f, S) + SumFunctionOnSet(f, U)}
<1>0. SumFunctionOnSet(f, S) \in Int
  BY SumType
<1>1. {} \in K
  <2>1. S \cup {} = S
    OBVIOUS
  <2> QED
    BY <1>0, <2>1, SumEmpty
<1>2. ASSUME NEW U \in SUBSET T, NEW x \in T \ U, U \in K PROVE U \cup {x} \in K
  <2> DEFINE V == S \cup U
  <2>1. /\ IsFiniteSet(U)
        /\ IsFiniteSet(V)
    BY FS_Subset, FS_Union, Zenon
  <2>2. /\ \A z \in U \cup {x} : f[z] \in Int
        /\ \A z \in V \cup {x} : f[z] \in Int
        /\ x \notin U /\ x \notin V
        /\ S \cup (U \cup {x}) = V \cup {x}
    OBVIOUS
  <2>3. SumFunctionOnSet(f, V) = SumFunctionOnSet(f, S) + SumFunctionOnSet(f, U)
    BY <1>2
  <2> HIDE DEF V
  <2>4. /\ SumFunctionOnSet(f, U \cup {x}) = SumFunctionOnSet(f, U) + f[x]
        /\ SumFunctionOnSet(f, V \cup {x}) = SumFunctionOnSet(f, V) + f[x]
    BY <2>1, <2>2, SumInsert, Zenon
  <2>5. SumFunctionOnSet(f, U) \in Int /\ f[x] \in Int
    BY <2>1, <2>2, SumType, Zenon
  <2>6. SumFunctionOnSet(f, V \cup {x}) = SumFunctionOnSet(f, S) + SumFunctionOnSet(f, U \cup {x})
    BY <1>0, <2>3, <2>4, <2>5
  <2>7. SumFunctionOnSet(f, S \cup (U \cup {x})) = SumFunctionOnSet(f, V \cup {x})
    BY <2>2, Zenon
  <2> QED
    BY <2>6, <2>7
<1>3. T \in K
  <2> HIDE DEF K
  <2>1. \A U \in SUBSET T : \A x \in T \ U : U \in K => U \cup {x} \in K
    BY <1>2
  <2> QED
    BY <1>1, <2>1, SubsetInduction, Zenon
<1> QED
  BY <1>3

\* Elements of value 0 add nothing, and fewer naturals sum to no more.
THEOREM SumSubset ==
  ASSUME NEW T, IsFiniteSet(T), NEW S \in SUBSET T, NEW f, \A x \in T : f[x] \in Nat
  PROVE  /\ SumFunctionOnSet(f, S) <= SumFunctionOnSet(f, T)
         /\ (\A x \in T \ S : f[x] = 0) => SumFunctionOnSet(f, S) = SumFunctionOnSet(f, T)
<1> DEFINE U == T \ S
<1>1. /\ IsFiniteSet(S) /\ IsFiniteSet(U)
      /\ S \cap U = {} /\ S \cup U = T
      /\ \A x \in S \cup U : f[x] \in Int
      /\ \A x \in S : f[x] \in Nat
      /\ \A x \in U : f[x] \in Nat
  BY FS_Subset
<1>2. SumFunctionOnSet(f, T) = SumFunctionOnSet(f, S) + SumFunctionOnSet(f, U)
  <2> HIDE DEF U
  <2>1. SumFunctionOnSet(f, S \cup U) = SumFunctionOnSet(f, S) + SumFunctionOnSet(f, U)
    BY <1>1, SumDisjoint, Zenon
  <2> QED
    BY <1>1, <2>1, Zenon
<1>3. SumFunctionOnSet(f, S) \in Nat /\ SumFunctionOnSet(f, U) \in Nat
  <2> HIDE DEF U
  <2> QED
    BY <1>1, SumNat, Zenon
<1>4. ASSUME \A x \in U : f[x] = 0 PROVE SumFunctionOnSet(f, U) = 0
  <2> HIDE DEF U
  <2> DEFINE K == {V \in SUBSET U : SumFunctionOnSet(f, V) = 0}
  <2>1. {} \in K
    BY SumEmpty
  <2>2. ASSUME NEW V \in SUBSET U, NEW x \in U \ V, V \in K PROVE V \cup {x} \in K
    <3>1. IsFiniteSet(V) /\ \A y \in V \cup {x} : f[y] \in Int
      BY <1>1, FS_Subset
    <3>2. SumFunctionOnSet(f, V \cup {x}) = SumFunctionOnSet(f, V) + f[x]
      BY <3>1, SumInsert, Zenon
    <3> QED
      BY <1>4, <2>2, <3>2
  <2>3. U \in K
    <3> HIDE DEF K
    <3> QED
      BY <1>1, <2>1, <2>2, SubsetInduction, Zenon
  <2> QED
    BY <2>3
<1> QED
  BY <1>2, <1>3, <1>4
=============================================================================

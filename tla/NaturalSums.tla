---------------------------- MODULE NaturalSums ----------------------------
(***************************************************************************)
(* Bounds and sums of naturals, for every set and function.  A nonempty    *)
(* set of naturals has a least element and, when bounded, a greatest one:  *)
(* the least of the counterexamples to a claim about every natural number  *)
(* is how the other proof modules argue by induction.  SumFunctionOnSet    *)
(* on a finite set of naturals does not depend on the order in which its   *)
(* fold chooses elements: a least counterexample in cardinality.           *)
(***************************************************************************)
EXTENDS Integers, FiniteSetTheorems, WellFoundedInduction, Functions, TLAPS

\* Every nonempty set of naturals has a least element: the intervals 0 .. n
\* of its elements are finite sets, which strict inclusion well-orders.
LEMMA LeastNatural ==
    ASSUME NEW S \in SUBSET Nat, S # {}
    PROVE  \E n \in S : \A m \in S : n <= m
<1> DEFINE F == FiniteSubsetsOf(Nat)
           R == StrictSubsetOrdering(Nat)
           T == {0 .. n : n \in S}
<1>1. IsWellFoundedOn(R, F)
  BY FS_StrictSubsetOrderingWellFounded
<1>2. T \subseteq F /\ T # {}
  <2>1. ASSUME NEW n \in S PROVE 0 .. n \in F
    <3>1. IsFiniteSet(0 .. n)
      BY FS_Interval
    <3>2. 0 .. n \in SUBSET Nat
      OBVIOUS
    <3>3. QED
      BY <3>1, <3>2 DEF FiniteSubsetsOf
  <2>2. QED
    BY <2>1
<1>3. PICK x \in T : \A y \in T : <<y, x>> \notin R
  <2> HIDE DEF T, F, R
  <2> QED
    BY <1>1, <1>2, WFMin
<1>4. PICK n \in S : x = 0 .. n
  OBVIOUS
<1>5. ASSUME NEW m \in S, m < n
      PROVE  FALSE
  <2>1. 0 .. m \subseteq 0 .. n /\ 0 .. m # 0 .. n
    BY <1>5
  <2>2. 0 .. m \in SUBSET Nat /\ 0 .. n \in SUBSET Nat
    OBVIOUS
  <2>3. <<0 .. m, 0 .. n>> \in R
    BY <2>1, <2>2 DEF StrictSubsetOrdering
  <2>4. QED
    BY <2>3, <1>3, <1>4
<1>6. QED
  BY <1>5

\* Every nonempty bounded set of naturals has a greatest element: the least
\* distance to the bound.
LEMMA GreatestNatural ==
    ASSUME NEW S \in SUBSET Nat, S # {}, NEW h \in Nat, \A m \in S : m <= h
    PROVE  \E n \in S : \A m \in S : m <= n
<1> DEFINE T == {d \in Nat : \E m \in S : d = h - m}
<1>1. PICK s \in S : TRUE
  OBVIOUS
<1>2. h - s \in T
  OBVIOUS
<1>3. T \in SUBSET Nat /\ T # {}
  BY <1>2
<1>4. PICK d \in T : \A e \in T : d <= e
  <2> HIDE DEF T
  <2> QED
    BY <1>3, LeastNatural
<1>5. PICK n \in S : d = h - n
  OBVIOUS
<1>6. ASSUME NEW m \in S
      PROVE  m <= n
  <2>1. h - m \in T
    OBVIOUS
  <2>2. d <= h - m
    BY <2>1, <1>4
  <2>3. m \in Nat /\ n \in Nat /\ h \in Nat
    OBVIOUS
  <2>4. QED
    BY <2>2, <2>3, <1>5
<1>7. QED
  BY <1>6

-----------------------------------------------------------------------------
\* The element the fold removes from a set, and what it then computes.
Chosen1(s) == CHOOSE x \in s : TRUE

Adds(f, s, g) == IF s = {} THEN 0 ELSE f[Chosen1(s)] + g[s \ {Chosen1(s)}]

\* The recursive function of the fold, on the subsets of S.
IsFold(g, f, S) == g = [s \in SUBSET S |-> Adds(f, s, g)]

FoldOf(f, S) == CHOOSE g : IsFold(g, f, S)

\* The sum is the recursive function at the whole set.
LEMMA SumIsFold ==
    ASSUME NEW f, NEW S
    PROVE  SumFunctionOnSet(f, S) = FoldOf(f, S)[S]
BY DEF SumFunctionOnSet, FoldFunctionOnSet, MapThenFoldSet, FoldOf, IsFold, Adds, Chosen1

\* Every nonempty set of finite sets has one of least cardinality.
LEMMA SmallestSet ==
    ASSUME NEW C, C # {}, \A s \in C : IsFiniteSet(s)
    PROVE  \E s \in C : \A r \in C : Cardinality(s) <= Cardinality(r)
<1> DEFINE N == {Cardinality(s) : s \in C}
<1>1. N \in SUBSET Nat /\ N # {}
  BY FS_CardinalityType
<1>2. PICK n \in N : \A m \in N : n <= m
  <2> HIDE DEF N
  <2> QED
    BY <1>1, LeastNatural
<1>3. QED
  BY <1>2

\* The recursion has a solution on the subsets of a finite set: one on the
\* subsets of n elements gives one on those of n + 1.
LEMMA FoldExists ==
    ASSUME NEW f, NEW S, IsFiniteSet(S)
    PROVE  \E g : IsFold(g, f, S)
<1> DEFINE Small(n) == {s \in SUBSET S : Cardinality(s) <= n}
           Solves(g, n) == g = [s \in Small(n) |-> Adds(f, s, g)]
           Bad == {n \in Nat : ~\E g : Solves(g, n)}
<1>0. \A s \in SUBSET S : IsFiniteSet(s) /\ Cardinality(s) \in Nat
  BY FS_Subset, FS_CardinalityType
<1>1. ASSUME Bad # {}
      PROVE  FALSE
  <2>1. PICK n \in Bad : \A m \in Bad : n <= m
    <3>1. Bad \in SUBSET Nat
      OBVIOUS
    <3> HIDE DEF Bad
    <3>2. QED
      BY <1>1, <3>1, LeastNatural
  <2>2. CASE n = 0
    <3> DEFINE g == [s \in Small(n) |-> 0]
    <3>1. ASSUME NEW s \in Small(n)
          PROVE  s = {}
      <4>1. IsFiniteSet(s) /\ Cardinality(s) \in Nat /\ Cardinality(s) <= 0
        BY <1>0, <2>2
      <4>2. Cardinality(s) = 0
        BY <4>1
      <4>3. QED
        BY <4>1, <4>2, FS_EmptySet
    <3>2. Solves(g, n)
      BY <3>1 DEF Adds
    <3>3. QED
      BY <3>2
  <2>3. CASE n # 0
    <3>1. n - 1 \in Nat /\ n - 1 < n
      BY <2>3
    <3>2. PICK g : Solves(g, n - 1)
      <4>1. n - 1 \notin Bad
        <5>1. ASSUME n - 1 \in Bad PROVE FALSE
          <6>1. n <= n - 1
            BY <2>1, <5>1
          <6>2. QED
            BY <6>1, <3>1
        <5>2. QED
          BY <5>1
      <4>2. QED
        BY <3>1, <4>1
    <3> DEFINE h == [s \in Small(n) |-> Adds(f, s, g)]
    <3>3. ASSUME NEW s \in Small(n)
          PROVE  Adds(f, s, g) = Adds(f, s, h)
      <4>1. CASE s = {}
        BY <4>1 DEF Adds
      <4>2. CASE s # {}
        <5> DEFINE r == s \ {Chosen1(s)}
        <5>1. Chosen1(s) \in s
          BY <4>2 DEF Chosen1
        <5>2. Cardinality(r) = Cardinality(s) - 1
          BY <1>0, <5>1, FS_RemoveElement
        <5>3. r \in Small(n) /\ r \in Small(n - 1)
          BY <1>0, <5>2
        <5>4. g[r] = h[r]
          <6>1. h[r] = Adds(f, r, g)
            BY <5>3
          <6>2. g[r] = Adds(f, r, g)
            <7> HIDE DEF r, Small
            <7> QED
              BY <3>2, <5>3
          <6>3. QED
            BY <6>1, <6>2
        <5>5. QED
          BY <5>4, <4>2 DEF Adds
      <4>3. QED
        BY <4>1, <4>2
    <3>4. Solves(h, n)
      BY <3>3
    <3>5. QED
      BY <3>4
  <2>4. QED
    BY <2>2, <2>3
<1>2. PICK g : Solves(g, Cardinality(S))
  BY <1>0, <1>1
<1>3. Small(Cardinality(S)) = SUBSET S
  BY FS_Subset
<1>4. QED
  BY <1>2, <1>3 DEF IsFold

\* Solutions on two sets agree on their common subsets.
LEMMA FoldsAgree ==
    ASSUME NEW f, NEW S, IsFiniteSet(S), NEW T \in SUBSET S,
           NEW g, IsFold(g, f, S), NEW h, IsFold(h, f, T)
    PROVE  \A s \in SUBSET T : g[s] = h[s]
<1> DEFINE Wrong == {s \in SUBSET T : g[s] # h[s]}
<1>1. SUFFICES ASSUME Wrong # {} PROVE FALSE
  OBVIOUS
<1>2. \A s \in SUBSET T : IsFiniteSet(s) /\ Cardinality(s) \in Nat
  BY FS_Subset, FS_CardinalityType
<1>3. PICK s \in Wrong : \A r \in Wrong : Cardinality(s) <= Cardinality(r)
  <2>1. \A s \in Wrong : IsFiniteSet(s)
    BY <1>2
  <2> HIDE DEF Wrong
  <2>2. QED
    BY <1>1, <2>1, SmallestSet
<1>4. g[s] = Adds(f, s, g) /\ h[s] = Adds(f, s, h)
  BY DEF IsFold
<1>5. CASE s = {}
  BY <1>4, <1>5 DEF Adds
<1>6. CASE s # {}
  <2> DEFINE r == s \ {Chosen1(s)}
  <2>1. Chosen1(s) \in s
    BY <1>6 DEF Chosen1
  <2>2. Cardinality(r) = Cardinality(s) - 1
    BY <1>2, <2>1, FS_RemoveElement
  <2>3. r \in SUBSET T /\ r \notin Wrong
    BY <1>2, <1>3, <2>2
  <2>4. g[r] = h[r]
    BY <2>3
  <2>5. QED
    BY <1>4, <1>6, <2>4 DEF Adds
<1>7. QED
  BY <1>5, <1>6

\* On a finite set the recursion is what CHOOSE finds.
LEMMA FoldOfIsFold ==
    ASSUME NEW f, NEW S, IsFiniteSet(S)
    PROVE  IsFold(FoldOf(f, S), f, S)
BY FoldExists DEF FoldOf

\* A sum over a subset is the same value of the recursion on the whole set.
LEMMA FoldOnSubset ==
    ASSUME NEW f, NEW S, IsFiniteSet(S), NEW T \in SUBSET S
    PROVE  FoldOf(f, S)[T] = FoldOf(f, T)[T]
<1>1. IsFiniteSet(T)
  BY FS_Subset
<1>2. PICK g : g = FoldOf(f, S)
  OBVIOUS
<1>3. PICK h : h = FoldOf(f, T)
  OBVIOUS
<1>4. IsFold(g, f, S) /\ IsFold(h, f, T)
  BY <1>1, <1>2, <1>3, FoldOfIsFold
<1>5. \A s \in SUBSET T : g[s] = h[s]
  BY <1>4, FoldsAgree
<1>6. g[T] = h[T]
  BY <1>5
<1>7. QED
  BY <1>2, <1>3, <1>6

\* The sum over no elements is zero.
LEMMA SumEmpty ==
    ASSUME NEW f
    PROVE  SumFunctionOnSet(f, {}) = 0
<1>1. IsFold(FoldOf(f, {}), f, {})
  BY FoldOfIsFold, FS_EmptySet
<1>2. FoldOf(f, {})[{}] = Adds(f, {}, FoldOf(f, {}))
  BY <1>1 DEF IsFold
<1>3. QED
  BY <1>2, SumIsFold DEF Adds

\* The sum takes some element out of a nonempty set.
LEMMA SumStep ==
    ASSUME NEW f, NEW S, IsFiniteSet(S), S # {}
    PROVE  \E x \in S : SumFunctionOnSet(f, S) = f[x] + SumFunctionOnSet(f, S \ {x})
<1> DEFINE x == Chosen1(S)
           T == S \ {x}
<1>1. x \in S
  BY DEF Chosen1
<1>2. IsFiniteSet(T) /\ T \in SUBSET S
  BY FS_Subset
<1>3. IsFold(FoldOf(f, S), f, S) /\ IsFold(FoldOf(f, T), f, T)
  BY <1>2, FoldOfIsFold
<1>4. FoldOf(f, S)[T] = FoldOf(f, T)[T]
  BY <1>2, FoldOnSubset
<1>5. FoldOf(f, S)[S] = Adds(f, S, FoldOf(f, S))
  BY <1>3 DEF IsFold
<1>6. QED
  BY <1>1, <1>4, <1>5, SumIsFold DEF Adds

-----------------------------------------------------------------------------
\* A sum of naturals is a natural.
LEMMA SumType ==
    ASSUME NEW f, NEW S, IsFiniteSet(S), \A x \in S : f[x] \in Nat
    PROVE  SumFunctionOnSet(f, S) \in Nat
<1> DEFINE Bad == {s \in SUBSET S : SumFunctionOnSet(f, s) \notin Nat}
<1>1. SUFFICES ASSUME Bad # {} PROVE FALSE
  OBVIOUS
<1>2. \A s \in SUBSET S : IsFiniteSet(s) /\ Cardinality(s) \in Nat
  BY FS_Subset, FS_CardinalityType
<1>3. PICK s \in Bad : \A r \in Bad : Cardinality(s) <= Cardinality(r)
  <2>1. \A s \in Bad : IsFiniteSet(s)
    BY <1>2
  <2> HIDE DEF Bad
  <2>2. QED
    BY <1>1, <2>1, SmallestSet
<1>4. s # {}
  BY SumEmpty
<1>5. PICK x \in s : SumFunctionOnSet(f, s) = f[x] + SumFunctionOnSet(f, s \ {x})
  BY <1>2, <1>4, SumStep
<1>6. Cardinality(s \ {x}) = Cardinality(s) - 1
  BY <1>2, FS_RemoveElement
<1>7. s \ {x} \notin Bad /\ s \ {x} \in SUBSET S
  BY <1>2, <1>3, <1>6
<1>8. QED
  BY <1>5, <1>7

\* Any element may be taken out first: the order of a sum does not matter.
LEMMA SumRemove ==
    ASSUME NEW f, NEW S, IsFiniteSet(S), \A y \in S : f[y] \in Nat, NEW x \in S
    PROVE  SumFunctionOnSet(f, S) = f[x] + SumFunctionOnSet(f, S \ {x})
<1> DEFINE Sum(s) == SumFunctionOnSet(f, s)
           Bad == {s \in SUBSET S : \E y \in s : Sum(s) # f[y] + Sum(s \ {y})}
<1>1. SUFFICES ASSUME Bad # {} PROVE FALSE
  OBVIOUS
<1>2. ASSUME NEW s \in SUBSET S
      PROVE  IsFiniteSet(s) /\ Cardinality(s) \in Nat /\ Sum(s) \in Nat
  BY FS_Subset, FS_CardinalityType, SumType
<1>3. PICK s \in Bad : \A r \in Bad : Cardinality(s) <= Cardinality(r)
  <2>1. \A s \in Bad : IsFiniteSet(s)
    BY <1>2
  <2> HIDE DEF Bad
  <2>2. QED
    BY <1>1, <2>1, SmallestSet
<1>4. PICK z \in s : Sum(s) # f[z] + Sum(s \ {z})
  OBVIOUS
<1>5. PICK y \in s : Sum(s) = f[y] + Sum(s \ {y})
  BY <1>2, SumStep
<1> DEFINE r == s \ {y}
           t == s \ {z}
<1>6. ASSUME NEW u \in s
      PROVE  s \ {u} \in SUBSET S /\ s \ {u} \notin Bad
  <2>1. Cardinality(s \ {u}) = Cardinality(s) - 1
    BY <1>2, FS_RemoveElement
  <2>2. QED
    BY <1>2, <1>3, <2>1
<1>7. y # z
  BY <1>4, <1>5
<1>8. Sum(r) = f[z] + Sum(r \ {z})
  <2>1. z \in r /\ r \in SUBSET S /\ r \notin Bad
    BY <1>6, <1>7
  <2> HIDE DEF r, Sum
  <2>2. QED
    BY <2>1
<1>9. Sum(t) = f[y] + Sum(t \ {y})
  <2>1. y \in t /\ t \in SUBSET S /\ t \notin Bad
    BY <1>6, <1>7
  <2> HIDE DEF t, Sum
  <2>2. QED
    BY <2>1
<1>10. r \ {z} = t \ {y}
  OBVIOUS
<1>11. Sum(r \ {z}) \in Nat /\ f[y] \in Nat /\ f[z] \in Nat
  BY <1>2
<1>12. QED
  <2> HIDE DEF Sum, Bad
  <2>1. Sum(s) = f[y] + (f[z] + Sum(r \ {z}))
    BY <1>5, <1>8
  <2>2. Sum(t) = f[y] + Sum(r \ {z})
    BY <1>9, <1>10
  <2>3. Sum(s) = f[z] + Sum(t)
    <3> HIDE DEF r, t
    <3> QED
      BY <1>11, <2>1, <2>2
  <2>4. QED
    BY <2>3, <1>4

\* Adding an element adds its value.
LEMMA SumAdd ==
    ASSUME NEW f, NEW S, IsFiniteSet(S), \A y \in S : f[y] \in Nat,
           NEW x, x \notin S, f[x] \in Nat
    PROVE  SumFunctionOnSet(f, S \cup {x}) = f[x] + SumFunctionOnSet(f, S)
<1>1. IsFiniteSet(S \cup {x})
  BY FS_AddElement
<1>2. (S \cup {x}) \ {x} = S
  OBVIOUS
<1>3. SumFunctionOnSet(f, S \cup {x}) = f[x] + SumFunctionOnSet(f, (S \cup {x}) \ {x})
  BY <1>1, SumRemove
<1>4. QED
  BY <1>2, <1>3

\* The sums of functions ordered pointwise are ordered.
LEMMA SumMonotone ==
    ASSUME NEW f, NEW g, NEW S, IsFiniteSet(S),
           \A x \in S : f[x] \in Nat /\ g[x] \in Nat /\ f[x] <= g[x]
    PROVE  SumFunctionOnSet(f, S) <= SumFunctionOnSet(g, S)
<1> DEFINE SumF(s) == SumFunctionOnSet(f, s)
           SumG(s) == SumFunctionOnSet(g, s)
           Bad == {s \in SUBSET S : ~(SumF(s) <= SumG(s))}
<1>1. SUFFICES ASSUME Bad # {} PROVE FALSE
  OBVIOUS
<1>2. ASSUME NEW s \in SUBSET S
      PROVE  IsFiniteSet(s) /\ Cardinality(s) \in Nat /\ SumF(s) \in Nat /\ SumG(s) \in Nat
  BY FS_Subset, FS_CardinalityType, SumType
<1>3. PICK s \in Bad : \A r \in Bad : Cardinality(s) <= Cardinality(r)
  <2>1. \A s \in Bad : IsFiniteSet(s)
    BY <1>2
  <2> HIDE DEF Bad
  <2>2. QED
    BY <1>1, <2>1, SmallestSet
<1>4. s # {}
  BY SumEmpty
<1>5. PICK x \in s : TRUE
  BY <1>4
<1>6. s \ {x} \in SUBSET S /\ s \ {x} \notin Bad
  <2>1. Cardinality(s \ {x}) = Cardinality(s) - 1
    BY <1>2, FS_RemoveElement
  <2>2. QED
    BY <1>2, <1>3, <2>1
<1>7. SumF(s) = f[x] + SumF(s \ {x}) /\ SumG(s) = g[x] + SumG(s \ {x})
  BY <1>2, SumRemove
<1>8. QED
  <2>1. SumF(s \ {x}) <= SumG(s \ {x})
    BY <1>6
  <2> HIDE DEF SumF, SumG
  <2>2. SumF(s) <= SumG(s)
    BY <1>2, <1>6, <1>7, <2>1
  <2>3. QED
    BY <2>2

\* Functions that agree on a set have one sum on it.
LEMMA SumEqual ==
    ASSUME NEW f, NEW g, NEW S, IsFiniteSet(S), \A x \in S : f[x] \in Nat /\ f[x] = g[x]
    PROVE  SumFunctionOnSet(f, S) = SumFunctionOnSet(g, S)
BY SumType, SumMonotone

\* A subset has the smaller sum.
LEMMA SumSubset ==
    ASSUME NEW f, NEW S, IsFiniteSet(S), \A x \in S : f[x] \in Nat, NEW T \in SUBSET S
    PROVE  SumFunctionOnSet(f, T) <= SumFunctionOnSet(f, S)
<1> DEFINE Sum(s) == SumFunctionOnSet(f, s)
           Bad == {s \in SUBSET S : T \subseteq s /\ ~(Sum(T) <= Sum(s))}
<1>1. SUFFICES ASSUME Bad # {} PROVE FALSE
  OBVIOUS
<1>2. ASSUME NEW s \in SUBSET S
      PROVE  IsFiniteSet(s) /\ Cardinality(s) \in Nat /\ Sum(s) \in Nat
  BY FS_Subset, FS_CardinalityType, SumType
<1>3. PICK s \in Bad : \A r \in Bad : Cardinality(s) <= Cardinality(r)
  <2>1. \A s \in Bad : IsFiniteSet(s)
    BY <1>2
  <2> HIDE DEF Bad
  <2>2. QED
    BY <1>1, <2>1, SmallestSet
<1>4. s # T
  BY <1>2
<1>5. PICK x \in s \ T : TRUE
  BY <1>4
<1>6. s \ {x} \in SUBSET S /\ s \ {x} \notin Bad
  <2>1. Cardinality(s \ {x}) = Cardinality(s) - 1
    BY <1>2, FS_RemoveElement
  <2>2. QED
    BY <1>2, <1>3, <2>1
<1>7. Sum(s) = f[x] + Sum(s \ {x})
  BY <1>2, SumRemove
<1>8. QED
  <2>1. Sum(T) <= Sum(s \ {x})
    BY <1>6, <1>5
  <2>2. f[x] \in Nat /\ Sum(s \ {x}) \in Nat /\ Sum(T) \in Nat
    BY <1>2, <1>6
  <2> HIDE DEF Sum
  <2>3. Sum(T) <= Sum(s)
    BY <1>7, <2>1, <2>2
  <2>4. QED
    BY <2>3

\* An element is no larger than the sum.
LEMMA SumElement ==
    ASSUME NEW f, NEW S, IsFiniteSet(S), \A x \in S : f[x] \in Nat, NEW x \in S
    PROVE  f[x] <= SumFunctionOnSet(f, S)
<1>1. SumFunctionOnSet(f, S) = f[x] + SumFunctionOnSet(f, S \ {x})
  BY SumRemove
<1>2. SumFunctionOnSet(f, S \ {x}) \in Nat
  BY SumType, FS_Subset
<1>3. QED
  BY <1>1, <1>2

\* Only the elements where a function is not zero count.
LEMMA SumSupport ==
    ASSUME NEW f, NEW S, IsFiniteSet(S), \A x \in S : f[x] \in Nat,
           NEW T \in SUBSET S, \A x \in S \ T : f[x] = 0
    PROVE  SumFunctionOnSet(f, S) = SumFunctionOnSet(f, T)
<1> DEFINE Sum(s) == SumFunctionOnSet(f, s)
           Bad == {s \in SUBSET S : T \subseteq s /\ Sum(s) # Sum(T)}
<1>1. SUFFICES ASSUME Bad # {} PROVE FALSE
  OBVIOUS
<1>2. ASSUME NEW s \in SUBSET S
      PROVE  IsFiniteSet(s) /\ Cardinality(s) \in Nat /\ Sum(s) \in Nat
  BY FS_Subset, FS_CardinalityType, SumType
<1>3. PICK s \in Bad : \A r \in Bad : Cardinality(s) <= Cardinality(r)
  <2>1. \A s \in Bad : IsFiniteSet(s)
    BY <1>2
  <2> HIDE DEF Bad
  <2>2. QED
    BY <1>1, <2>1, SmallestSet
<1>4. PICK x \in s \ T : TRUE
  OBVIOUS
<1>5. s \ {x} \in SUBSET S /\ s \ {x} \notin Bad
  <2>1. Cardinality(s \ {x}) = Cardinality(s) - 1
    BY <1>2, FS_RemoveElement
  <2>2. QED
    BY <1>2, <1>3, <2>1
<1>6. Sum(s) = f[x] + Sum(s \ {x})
  BY <1>2, SumRemove
<1>7. f[x] = 0 /\ Sum(s \ {x}) \in Nat /\ Sum(s \ {x}) = Sum(T)
  BY <1>2, <1>4, <1>5
<1>8. QED
  <2> HIDE DEF Sum
  <2> QED
    BY <1>6, <1>7

\* The sum of zeros is zero.
LEMMA SumZero ==
    ASSUME NEW f, NEW S, IsFiniteSet(S), \A x \in S : f[x] = 0
    PROVE  SumFunctionOnSet(f, S) = 0
<1>1. SumFunctionOnSet(f, S) = SumFunctionOnSet(f, {})
  BY SumSupport
<1>2. QED
  BY <1>1, SumEmpty

\* A change at one element changes the sum by as much.
LEMMA SumChange ==
    ASSUME NEW f, NEW g, NEW S, IsFiniteSet(S),
           \A y \in S : f[y] \in Nat /\ g[y] \in Nat,
           NEW x \in S, \A y \in S \ {x} : f[y] = g[y]
    PROVE  SumFunctionOnSet(g, S) = SumFunctionOnSet(f, S) - f[x] + g[x]
<1>1. IsFiniteSet(S \ {x})
  BY FS_Subset
<1>2. SumFunctionOnSet(f, S \ {x}) = SumFunctionOnSet(g, S \ {x})
  BY <1>1, SumEqual
<1>3. SumFunctionOnSet(f, S) = f[x] + SumFunctionOnSet(f, S \ {x})
  BY SumRemove
<1>4. SumFunctionOnSet(g, S) = g[x] + SumFunctionOnSet(g, S \ {x})
  BY SumRemove
<1>5. SumFunctionOnSet(g, S \ {x}) \in Nat
  BY <1>1, SumType
<1>6. QED
  BY <1>2, <1>3, <1>4, <1>5

\* The sum of two functions is the sum of their sums.
LEMMA SumPlus ==
    ASSUME NEW f, NEW g, NEW h, NEW S, IsFiniteSet(S),
           \A x \in S : f[x] \in Nat /\ g[x] \in Nat /\ h[x] = f[x] + g[x]
    PROVE  SumFunctionOnSet(h, S) = SumFunctionOnSet(f, S) + SumFunctionOnSet(g, S)
<1> DEFINE SumF(s) == SumFunctionOnSet(f, s)
           SumG(s) == SumFunctionOnSet(g, s)
           SumH(s) == SumFunctionOnSet(h, s)
           Bad == {s \in SUBSET S : SumH(s) # SumF(s) + SumG(s)}
<1>1. SUFFICES ASSUME Bad # {} PROVE FALSE
  OBVIOUS
<1>2. ASSUME NEW s \in SUBSET S
      PROVE  /\ IsFiniteSet(s) /\ Cardinality(s) \in Nat
             /\ SumF(s) \in Nat /\ SumG(s) \in Nat /\ SumH(s) \in Nat
  BY FS_Subset, FS_CardinalityType, SumType
<1>3. PICK s \in Bad : \A r \in Bad : Cardinality(s) <= Cardinality(r)
  <2>1. \A s \in Bad : IsFiniteSet(s)
    BY <1>2
  <2> HIDE DEF Bad
  <2>2. QED
    BY <1>1, <2>1, SmallestSet
<1>4. s # {}
  <2>1. SumF({}) = 0 /\ SumG({}) = 0 /\ SumH({}) = 0
    BY SumEmpty
  <2>2. SumH(s) # SumF(s) + SumG(s)
    OBVIOUS
  <2> HIDE DEF SumF, SumG, SumH, Bad
  <2>3. ASSUME s = {} PROVE FALSE
    BY <2>1, <2>2, <2>3
  <2>4. QED
    BY <2>3
<1>5. PICK x \in s : TRUE
  BY <1>4
<1>6. s \ {x} \in SUBSET S /\ s \ {x} \notin Bad
  <2>1. Cardinality(s \ {x}) = Cardinality(s) - 1
    BY <1>2, FS_RemoveElement
  <2>2. QED
    BY <1>2, <1>3, <2>1
<1>7. /\ SumF(s) = f[x] + SumF(s \ {x}) /\ SumG(s) = g[x] + SumG(s \ {x})
      /\ SumH(s) = h[x] + SumH(s \ {x})
  BY <1>2, SumRemove
<1>8. QED
  <2>1. SumH(s \ {x}) = SumF(s \ {x}) + SumG(s \ {x})
    BY <1>6
  <2> HIDE DEF SumF, SumG, SumH
  <2>2. SumH(s) = SumF(s) + SumG(s)
    BY <1>2, <1>6, <1>7, <2>1
  <2>3. QED
    BY <2>2

\* Multiples distribute over sums.
LEMMA Distribute ==
    ASSUME NEW a \in Int, NEW b \in Int, NEW x \in Int, NEW y \in Int, NEW u \in Int, NEW v \in Int
    PROVE  (a * x + b * y) + (a * u + b * v) = a * (x + u) + b * (y + v)
OBVIOUS

\* One function is made of multiples of two functions of naturals.
Combines(h, a, f, b, g, S) ==
    \A x \in S : f[x] \in Nat /\ g[x] \in Nat /\ h[x] = a * f[x] + b * g[x]

\* Its sum is made of the same multiples of their sums.
LEMMA SumLinear ==
    ASSUME NEW f, NEW g, NEW h, NEW S, IsFiniteSet(S), NEW a \in Int, NEW b \in Int,
           Combines(h, a, f, b, g, S)
    PROVE  SumFunctionOnSet(h, S) = a * SumFunctionOnSet(f, S) + b * SumFunctionOnSet(g, S)
<1> DEFINE SumF(s) == SumFunctionOnSet(f, s)
           SumG(s) == SumFunctionOnSet(g, s)
           SumH(s) == SumFunctionOnSet(h, s)
           Bad == {s \in SUBSET S : SumH(s) # a * SumF(s) + b * SumG(s)}
<1>0. \A x \in S : f[x] \in Nat /\ g[x] \in Nat /\ h[x] = a * f[x] + b * g[x]
  BY DEF Combines
<1>1. SUFFICES ASSUME Bad # {} PROVE FALSE
  OBVIOUS
<1>2. ASSUME NEW s \in SUBSET S
      PROVE  /\ IsFiniteSet(s) /\ Cardinality(s) \in Nat
             /\ SumF(s) \in Nat /\ SumG(s) \in Nat
  BY <1>0, FS_Subset, FS_CardinalityType, SumType
<1>3. PICK s \in Bad : \A r \in Bad : Cardinality(s) <= Cardinality(r)
  <2>1. \A s \in Bad : IsFiniteSet(s)
    BY <1>2
  <2> HIDE DEF Bad
  <2>2. QED
    BY <1>1, <2>1, SmallestSet
<1>4. s # {}
  <2>1. SumF({}) = 0 /\ SumG({}) = 0 /\ SumH({}) = 0
    BY SumEmpty
  <2>2. SumH(s) # a * SumF(s) + b * SumG(s)
    OBVIOUS
  <2>3. a * 0 + b * 0 = 0
    OBVIOUS
  <2> HIDE DEF SumF, SumG, SumH, Bad
  <2>4. ASSUME s = {} PROVE FALSE
    BY <2>1, <2>2, <2>3, <2>4
  <2>5. QED
    BY <2>4
<1>5. PICK x \in s : SumH(s) = h[x] + SumH(s \ {x})
  BY <1>2, <1>4, SumStep
<1>6. s \ {x} \in SUBSET S /\ s \ {x} \notin Bad
  <2>1. Cardinality(s \ {x}) = Cardinality(s) - 1
    BY <1>2, FS_RemoveElement
  <2>2. QED
    BY <1>2, <1>3, <2>1
<1>7. SumF(s) = f[x] + SumF(s \ {x}) /\ SumG(s) = g[x] + SumG(s \ {x})
  <2>1. IsFiniteSet(s) /\ x \in s /\ \A y \in s : f[y] \in Nat /\ g[y] \in Nat
    BY <1>0, <1>2
  <2> HIDE <1>0 DEF Bad
  <2>2. QED
    BY ONLY <2>1, SumRemove
<1>8. QED
  <2>1. SumH(s \ {x}) = a * SumF(s \ {x}) + b * SumG(s \ {x})
    BY <1>6
  <2>2. f[x] \in Nat /\ g[x] \in Nat /\ h[x] = a * f[x] + b * g[x]
    BY <1>0
  <2>3. SumF(s \ {x}) \in Nat /\ SumG(s \ {x}) \in Nat
    BY <1>2, <1>6
  <2> HIDE DEF SumF, SumG, SumH, Bad
  <2>4. SumH(s) = (a * f[x] + b * g[x]) + (a * SumF(s \ {x}) + b * SumG(s \ {x}))
    BY <1>5, <2>1, <2>2
  <2>5. SumH(s) = a * SumF(s) + b * SumG(s)
    BY <1>7, <2>2, <2>3, <2>4, Distribute
  <2>6. SumH(s) # a * SumF(s) + b * SumG(s)
    BY DEF Bad
  <2>7. QED
    BY <2>5, <2>6

\* A nonempty finite set of naturals has a greatest element: its sum bounds it.
LEMMA GreatestOfFinite ==
    ASSUME NEW S \in SUBSET Nat, S # {}, IsFiniteSet(S)
    PROVE  \E n \in S : \A m \in S : m <= n
<1> DEFINE id == [x \in S |-> x]
           h == SumFunctionOnSet(id, S)
<1>1. h \in Nat
  BY SumType
<1>2. \A m \in S : m <= h
  <2>1. \A m \in S : id[m] <= h
    BY SumElement
  <2>2. QED
    BY <2>1
<1>3. QED
  <2> HIDE DEF h
  <2> QED
    BY <1>1, <1>2, GreatestNatural

=============================================================================

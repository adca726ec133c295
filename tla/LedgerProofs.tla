---------------------------- MODULE LedgerProofs ----------------------------
(***************************************************************************)
(* What the operators of Ledger, KnownOrders and Schedule compute, for     *)
(* every finite price grid, depth and list of children: how much a child   *)
(* takes and from where, how an operation changes the sums of _build, what *)
(* _rebuild leaves of a depth, and the ticks of the schedule.              *)
(***************************************************************************)
EXTENDS KnownOrders, Schedule, NaturalSums

\* The side that is consumed is a side of the book.
LEMMA OppositeKeys == \A p \in Prices : <<Opposite, p>> \in Keys
BY ParentAssumption DEF Opposite, Keys, Sides

\* The total of fills is a natural number.
LEMMA TotalType ==
    ASSUME NEW f \in [Prices -> Nat]
    PROVE  Total(f) \in Nat
BY SumType, ParentAssumption DEF Total

\* The sums of the ledger as folds; an instance of the ledger has the same.
LEMMA TotalIsFold == ASSUME NEW f PROVE Total(f) = FoldOf(f, Prices)[Prices]
BY SumIsFold DEF Total

\* What comes first at a price, as a fold.
LEMMA AheadIsFold ==
    ASSUME NEW depth, NEW limit, NEW p
    PROVE  LET S == {b \in Prices : Eligible(limit, b) /\ Better(b, p)}
           IN  Ahead(depth, limit, p) = FoldOf(Offered(depth), S)[S]
BY SumIsFold DEF Ahead

\* filled, as a fold.
LEMMA FilledIsFold ==
    ASSUME NEW children
    PROVE  Filled(children) =
               FoldOf([i \in DOMAIN children |-> Total(children[i].fills)],
                      DOMAIN children)[DOMAIN children]
BY SumIsFold DEF Filled

\* reserved, as a fold.
LEMMA ReservedIsFold ==
    ASSUME NEW children
    PROVE  Reserved(children) =
               FoldOf([i \in DOMAIN children |-> Held(children[i])],
                      DOMAIN children)[DOMAIN children]
BY SumIsFold DEF Reserved

\* Nothing is filled by no fills.
LEMMA TotalNoFills == NoFills \in [Prices -> Nat] /\ Total(NoFills) = 0
BY SumZero, ParentAssumption DEF Total, NoFills

\* What is offered is a natural number at every price, and so is what comes
\* first at a price.
LEMMA OfferedType ==
    ASSUME NEW depth \in Depth
    PROVE  Offered(depth) \in [Prices -> Nat]
BY OppositeKeys DEF Offered, Depth

\* Any set of prices is finite and offers a natural number of lots.
LEMMA SumOffered ==
    ASSUME NEW depth \in Depth, NEW T \in SUBSET Prices
    PROVE  IsFiniteSet(T) /\ SumFunctionOnSet(Offered(depth), T) \in Nat
<1>1. IsFiniteSet(T)
  BY ParentAssumption, FS_Subset
<1>2. QED
  BY <1>1, OfferedType, SumType

\* What comes first at a price is a natural number.
LEMMA AheadType ==
    ASSUME NEW depth \in Depth, NEW limit, NEW p
    PROVE  Ahead(depth, limit, p) \in Nat
<1>1. {b \in Prices : Eligible(limit, b) /\ Better(b, p)} \in SUBSET Prices
  OBVIOUS
<1>2. QED
  BY <1>1, SumOffered DEF Ahead

\* A child takes a natural number of lots at every price, no more than is
\* offered and nothing beyond its limit.
LEMMA FillsBounded ==
    ASSUME NEW depth \in Depth, NEW qty \in Nat, NEW limit
    PROVE  /\ FillsOf(depth, qty, limit) \in [Prices -> Nat]
           /\ \A p \in Prices :
                  /\ FillsOf(depth, qty, limit)[p] <= depth[<<Opposite, p>>]
                  /\ ~Eligible(limit, p) => FillsOf(depth, qty, limit)[p] = 0
<1>1. ASSUME NEW p \in Prices
      PROVE  /\ FillsOf(depth, qty, limit)[p] \in Nat
             /\ FillsOf(depth, qty, limit)[p] <= depth[<<Opposite, p>>]
             /\ ~Eligible(limit, p) => FillsOf(depth, qty, limit)[p] = 0
  <2>1. depth[<<Opposite, p>>] \in Nat /\ Ahead(depth, limit, p) \in Nat
    BY AheadType, OppositeKeys DEF Depth
  <2>2. QED
    BY <2>1 DEF FillsOf, Smaller, Larger
<1>2. QED
  BY <1>1 DEF FillsOf

\* The best prices of a limit: with a price, every better eligible one.
Front(limit, T) ==
    /\ T \subseteq {p \in Prices : Eligible(limit, p)}
    /\ \A p \in T, b \in Prices : Eligible(limit, b) /\ Better(b, p) => b \in T

\* Every nonempty set of prices has a worst one.
LEMMA WorstPrice ==
    ASSUME NEW T \in SUBSET Prices, T # {}
    PROVE  \E w \in T : \A p \in T \ {w} : Better(p, w)
<1>1. T \in SUBSET Nat /\ IsFiniteSet(T)
  BY PricesAssumption, ParentAssumption, FS_Subset
<1>2. CASE Side = "BUY"
  <2>1. PICK w \in T : \A p \in T : p <= w
    BY <1>1, GreatestOfFinite
  <2>2. QED
    BY <1>1, <1>2, <2>1 DEF Better
<1>3. CASE Side = "SELL"
  <2>1. PICK w \in T : \A p \in T : w <= p
    BY <1>1, LeastNatural
  <2>2. QED
    BY <1>1, <1>3, <2>1 DEF Better
<1>4. QED
  BY <1>2, <1>3, ParentAssumption

\* A child takes from the best prices what they offer, up to its quantity.
\* By induction on the number of those prices: the worst of them gives what
\* all the others have left.
LEMMA FrontTotal ==
    ASSUME NEW depth \in Depth, NEW qty \in Nat, NEW limit, NEW S, Front(limit, S)
    PROVE  SumFunctionOnSet(FillsOf(depth, qty, limit), S)
               = Smaller(qty, SumFunctionOnSet(Offered(depth), S))
<1> DEFINE fills == FillsOf(depth, qty, limit)
           Got(s) == SumFunctionOnSet(fills, s)
           Had(s) == SumFunctionOnSet(Offered(depth), s)
           Bad == {s \in SUBSET S : Front(limit, s) /\ Got(s) # Smaller(qty, Had(s))}
<1>1. SUFFICES ASSUME Bad # {} PROVE FALSE
  OBVIOUS
<1>2. S \subseteq Prices
  BY DEF Front
<1>3. ASSUME NEW s \in SUBSET S
      PROVE  IsFiniteSet(s) /\ Cardinality(s) \in Nat /\ Had(s) \in Nat
  BY <1>2, SumOffered, FS_CardinalityType
<1>4. \A x \in Prices : fills[x] \in Nat /\ Offered(depth)[x] \in Nat
  BY FillsBounded, OfferedType
<1>5. PICK s \in Bad : \A r \in Bad : Cardinality(s) <= Cardinality(r)
  <2>1. \A s \in Bad : IsFiniteSet(s)
    BY <1>3
  <2> HIDE DEF Bad
  <2>2. QED
    BY <1>1, <2>1, SmallestSet
<1>6. CASE s = {}
  <2>1. Got(s) = 0 /\ Had(s) = 0
    BY <1>6, SumEmpty
  <2>2. QED
    BY <2>1, <1>5 DEF Smaller
<1>7. CASE s # {}
  <2>1. PICK w \in s : \A p \in s \ {w} : Better(p, w)
    BY <1>2, <1>7, WorstPrice
  <2> DEFINE r == s \ {w}
  <2>2. w \in Prices /\ Eligible(limit, w)
    BY <1>5 DEF Front
  <2>3. r = {b \in Prices : Eligible(limit, b) /\ Better(b, w)}
    <3>1. ~Better(w, w)
      BY <2>2, PricesAssumption DEF Better
    <3>2. QED
      BY <1>5, <2>1, <3>1 DEF Front
  <2>4. Front(limit, r)
    <3>1. ASSUME NEW p \in r, NEW b \in Prices, Eligible(limit, b), Better(b, p)
          PROVE  b \in r
      <4>1. Better(p, w)
        BY <2>1
      <4>2. p \in Nat /\ b \in Nat /\ w \in Nat
        BY <1>2, <2>2, PricesAssumption
      <4>3. Better(b, w)
        BY <4>1, <4>2, <3>1 DEF Better
      <4>4. QED
        BY <2>3, <3>1, <4>3
    <3>2. QED
      BY <2>3, <3>1 DEF Front
  <2>5. Got(r) = Smaller(qty, Had(r))
    <3>1. Cardinality(r) = Cardinality(s) - 1
      BY <1>3, FS_RemoveElement
    <3>2. r \notin Bad
      BY <1>3, <1>5, <3>1
    <3>3. QED
      BY <2>4, <3>2
  <2>6. Got(s) = fills[w] + Got(r)
    <3>1. IsFiniteSet(s) /\ \A y \in s : fills[y] \in Nat
      BY <1>2, <1>3, <1>4
    <3> HIDE DEF fills
    <3>2. QED
      BY <3>1, SumRemove
  <2>7. Had(s) = Offered(depth)[w] + Had(r)
    <3>1. IsFiniteSet(s) /\ \A y \in s : Offered(depth)[y] \in Nat
      BY <1>2, <1>3, <1>4
    <3>2. QED
      BY <3>1, SumRemove
  <2>8. fills[w] = Smaller(Offered(depth)[w], Larger(0, qty - Had(r)))
    BY <2>2, <2>3 DEF FillsOf, Ahead, Offered
  <2>9. Offered(depth)[w] \in Nat /\ Had(r) \in Nat
    BY <1>3, <1>4, <2>2
  <2>10. Got(s) = Smaller(qty, Had(s))
    <3> HIDE DEF fills, Got, Had, r
    <3> QED
      BY <2>5, <2>6, <2>7, <2>8, <2>9 DEF Smaller, Larger
  <2>11. QED
    BY <2>10, <1>5
<1>8. QED
  BY <1>6, <1>7

\* In all a child takes what the eligible prices offer, up to its quantity.
LEMMA FillsTotal ==
    ASSUME NEW depth \in Depth, NEW qty \in Nat, NEW limit
    PROVE  Total(FillsOf(depth, qty, limit))
               = Smaller(qty, SumFunctionOnSet(Offered(depth), {p \in Prices : Eligible(limit, p)}))
<1> DEFINE E == {p \in Prices : Eligible(limit, p)}
           fills == FillsOf(depth, qty, limit)
<1>1. Front(limit, E)
  BY DEF Front
<1>2. SumFunctionOnSet(fills, E) = Smaller(qty, SumFunctionOnSet(Offered(depth), E))
  BY <1>1, FrontTotal
<1>3. SumFunctionOnSet(fills, Prices) = SumFunctionOnSet(fills, E)
  <2>1. /\ \A x \in Prices : fills[x] \in Nat
        /\ \A x \in Prices \ E : fills[x] = 0
    BY FillsBounded
  <2> HIDE DEF fills
  <2>2. E \in SUBSET Prices
    OBVIOUS
  <2> HIDE DEF E
  <2>3. QED
    BY <2>1, <2>2, SumSupport, ParentAssumption
<1>4. QED
  BY <1>2, <1>3 DEF Total

\* A price that is better than an eligible one is eligible.
LEMMA BetterEligible ==
    ASSUME NEW limit \in Prices \cup {NoLimit}, NEW p \in Prices, NEW b \in Prices,
           Eligible(limit, p), Better(b, p)
    PROVE  Eligible(limit, b)
BY PricesAssumption DEF Eligible, Better

\* What a price offers comes first at every worse one.
LEMMA AheadIncludes ==
    ASSUME NEW depth \in Depth, NEW limit \in Prices \cup {NoLimit},
           NEW p \in Prices, NEW b \in Prices, Eligible(limit, b), Better(b, p)
    PROVE  Ahead(depth, limit, b) + depth[<<Opposite, b>>] <= Ahead(depth, limit, p)
<1> DEFINE A(q) == {c \in Prices : Eligible(limit, c) /\ Better(c, q)}
           Had(s) == SumFunctionOnSet(Offered(depth), s)
<1>1. b \notin A(b) /\ A(b) \cup {b} \subseteq A(p)
  <2>1. p \in Nat /\ b \in Nat /\ ~Better(b, b)
    BY PricesAssumption DEF Better
  <2>2. ASSUME NEW c \in Prices, Better(c, b)
        PROVE  Better(c, p)
    <3>1. c \in Nat
      BY PricesAssumption
    <3>2. QED
      BY <2>1, <2>2, <3>1 DEF Better
  <2>3. QED
    BY <2>1, <2>2
<1>2. IsFiniteSet(A(b)) /\ IsFiniteSet(A(p)) /\ \A x \in Prices : Offered(depth)[x] \in Nat
  BY SumOffered, OfferedType
<1>3. Had(A(b) \cup {b}) = Offered(depth)[b] + Had(A(b))
  <2> HIDE DEF A
  <2>1. \A x \in A(b) : Offered(depth)[x] \in Nat
    BY <1>2 DEF A
  <2>2. QED
    BY <1>1, <1>2, <2>1, SumAdd
<1>4. Had(A(b) \cup {b}) <= Had(A(p))
  <2>1. \A x \in A(p) : Offered(depth)[x] \in Nat
    BY <1>2
  <2> HIDE DEF A
  <2>2. QED
    BY <1>1, <1>2, <2>1, SumSubset
<1>5. Had(A(b)) = Ahead(depth, limit, b) /\ Had(A(p)) = Ahead(depth, limit, p)
  BY DEF Ahead
<1>6. Offered(depth)[b] = depth[<<Opposite, b>>] /\ Offered(depth)[b] \in Nat
  BY <1>2 DEF Offered
<1>7. QED
  <2> HIDE DEF Had
  <2> QED
    BY <1>3, <1>4, <1>5, <1>6, AheadType

\* Best price first: a child that takes from a price takes all that every
\* better one offers.
LEMMA BestFirst ==
    ASSUME NEW depth \in Depth, NEW qty \in Nat, NEW limit \in Prices \cup {NoLimit},
           NEW p \in Prices, FillsOf(depth, qty, limit)[p] > 0,
           NEW b \in Prices, Better(b, p)
    PROVE  FillsOf(depth, qty, limit)[b] = depth[<<Opposite, b>>]
<1>1. Eligible(limit, p) /\ Eligible(limit, b)
  <2>1. Eligible(limit, p)
    <3>1. ~Eligible(limit, p) => FillsOf(depth, qty, limit)[p] = 0
      BY FillsBounded
    <3>2. QED
      BY <3>1
  <2>2. QED
    BY <2>1, BetterEligible
<1>2. Ahead(depth, limit, b) + depth[<<Opposite, b>>] <= Ahead(depth, limit, p)
  BY <1>1, AheadIncludes
<1>3. /\ depth[<<Opposite, b>>] \in Nat /\ depth[<<Opposite, p>>] \in Nat
      /\ Ahead(depth, limit, b) \in Nat /\ Ahead(depth, limit, p) \in Nat
  BY AheadType, OppositeKeys DEF Depth
<1>4. Ahead(depth, limit, p) < qty
  BY <1>1, <1>3 DEF FillsOf, Smaller, Larger
<1>5. QED
  BY <1>1, <1>2, <1>3, <1>4 DEF FillsOf, Smaller, Larger

\* A child that is left short takes all that is offered within its limit.
LEMMA ShortTakesAll ==
    ASSUME NEW depth \in Depth, NEW qty \in Nat, NEW limit,
           Total(FillsOf(depth, qty, limit)) # qty,
           NEW p \in Prices, Eligible(limit, p)
    PROVE  FillsOf(depth, qty, limit)[p] = depth[<<Opposite, p>>]
<1> DEFINE E == {c \in Prices : Eligible(limit, c)}
           A == {c \in Prices : Eligible(limit, c) /\ Better(c, p)}
           Had(s) == SumFunctionOnSet(Offered(depth), s)
<1>1. Had(E) \in Nat /\ Had(A) \in Nat /\ IsFiniteSet(A) /\ IsFiniteSet(E)
  BY SumOffered
<1>2. Had(E) < qty
  <2>1. Total(FillsOf(depth, qty, limit)) = Smaller(qty, Had(E))
    BY FillsTotal
  <2> HIDE DEF Had, E
  <2>2. QED
    BY <1>1, <2>1 DEF Smaller
<1>3. Had(A \cup {p}) = Offered(depth)[p] + Had(A)
  <2>1. p \notin A
    BY PricesAssumption DEF Better
  <2>2. \A x \in A \cup {p} : Offered(depth)[x] \in Nat
    BY OfferedType
  <2> HIDE DEF A
  <2>3. QED
    BY <1>1, <2>1, <2>2, SumAdd
<1>4. Had(A \cup {p}) <= Had(E)
  <2>1. \A x \in E : Offered(depth)[x] \in Nat
    BY OfferedType
  <2>2. A \cup {p} \in SUBSET E
    OBVIOUS
  <2> HIDE DEF A, E
  <2>3. QED
    BY <1>1, <2>1, <2>2, SumSubset
<1>5. Had(A) = Ahead(depth, limit, p)
  BY DEF Ahead
<1>6. Offered(depth)[p] = depth[<<Opposite, p>>] /\ depth[<<Opposite, p>>] \in Nat
  BY OppositeKeys DEF Offered, Depth
<1>7. FillsOf(depth, qty, limit)[p] = Smaller(depth[<<Opposite, p>>], Larger(0, qty - Had(A)))
  BY <1>5 DEF FillsOf
<1>8. QED
  <2> HIDE DEF Had
  <2> QED
    BY <1>1, <1>2, <1>3, <1>4, <1>6, <1>7 DEF Smaller, Larger

-----------------------------------------------------------------------------
\* The children of a ledger: a list of which what is not reserved any more
\* has filled no more than its quantity, and what is reserved nothing yet.
Children(children) ==
    /\ children \in Seq(Child)
    /\ \A i \in DOMAIN children :
           /\ Total(children[i].fills) <= children[i].qty
           /\ children[i].status = "reserved" => children[i].fills = NoFills

\* The sums of _build are natural numbers.
LEMMA ChildSums ==
    ASSUME NEW children \in Seq(Child)
    PROVE  /\ IsFiniteSet(DOMAIN children)
           /\ \A i \in DOMAIN children :
                  Total(children[i].fills) \in Nat /\ Held(children[i]) \in Nat
           /\ Filled(children) \in Nat /\ Reserved(children) \in Nat
<1>1. DOMAIN children = 1 .. Len(children) /\ Len(children) \in Nat
  OBVIOUS
<1>2. IsFiniteSet(DOMAIN children)
  BY <1>1, FS_Interval
<1>3. ASSUME NEW i \in DOMAIN children
      PROVE  Total(children[i].fills) \in Nat /\ Held(children[i]) \in Nat
  <2>1. children[i] \in Child
    BY <1>1
  <2>2. children[i].fills \in [Prices -> Nat] /\ children[i].qty \in Nat
    BY <2>1 DEF Child
  <2>3. QED
    BY <2>2, TotalType DEF Held
<1>4. Filled(children) \in Nat
  BY <1>2, <1>3, SumType DEF Filled
<1>5. Reserved(children) \in Nat
  BY <1>2, <1>3, SumType DEF Reserved
<1>6. QED
  BY <1>2, <1>3, <1>4, <1>5

\* Without a reserved child nothing is reserved.
LEMMA NothingReserved ==
    ASSUME NEW children \in Seq(Child),
           \A i \in DOMAIN children : children[i].status # "reserved"
    PROVE  Reserved(children) = 0
<1> DEFINE f == [i \in DOMAIN children |-> Held(children[i])]
<1>1. IsFiniteSet(DOMAIN children)
  BY ChildSums
<1>2. \A i \in DOMAIN children : f[i] = 0
  BY DEF Held
<1>3. SumFunctionOnSet(f, DOMAIN children) = 0
  <2> HIDE DEF f
  <2> QED
    BY <1>1, <1>2, SumZero
<1>4. QED
  BY <1>3 DEF Reserved

\* A new child reserves its quantity and fills nothing.
LEMMA AppendSums ==
    ASSUME NEW children \in Seq(Child), NEW qty \in Nat, NEW limit \in Prices \cup {NoLimit}
    PROVE  LET more == Append(children, NewChild(qty, limit))
           IN  /\ more \in Seq(Child)
               /\ Filled(more) = Filled(children)
               /\ Reserved(more) = Reserved(children) + qty
<1> DEFINE child == NewChild(qty, limit)
           more == Append(children, child)
           n == Len(children) + 1
<1>1. child \in Child /\ Total(child.fills) = 0 /\ Held(child) = qty
  BY TotalNoFills DEF NewChild, Child, Statuses, Held
<1>2. /\ more \in Seq(Child) /\ DOMAIN more = DOMAIN children \cup {n} /\ n \notin DOMAIN children
      /\ more[n] = child /\ \A i \in DOMAIN children : more[i] = children[i]
  <2> HIDE DEF child
  <2> QED
    BY <1>1
<1>3. IsFiniteSet(DOMAIN children)
  BY ChildSums
<1>4. Filled(more) = Filled(children)
  <2> DEFINE f == [i \in DOMAIN children |-> Total(children[i].fills)]
             g == [i \in DOMAIN more |-> Total(more[i].fills)]
  <2>1. \A i \in DOMAIN children : f[i] = g[i] /\ f[i] \in Nat
    BY <1>2, ChildSums
  <2>2. g[n] = 0
    BY <1>1, <1>2
  <2>3. SumFunctionOnSet(g, DOMAIN children \cup {n}) = g[n] + SumFunctionOnSet(g, DOMAIN children)
    <3> HIDE DEF g, f, n
    <3> QED
      BY <1>2, <1>3, <2>1, <2>2, SumAdd
  <2>4. SumFunctionOnSet(f, DOMAIN children) = SumFunctionOnSet(g, DOMAIN children)
    <3> HIDE DEF f, g
    <3> QED
      BY <1>3, <2>1, SumEqual
  <2>5. Filled(children) = SumFunctionOnSet(f, DOMAIN children) /\ Filled(children) \in Nat
    BY ChildSums DEF Filled
  <2>6. Filled(more) = SumFunctionOnSet(g, DOMAIN children \cup {n})
    BY <1>2 DEF Filled
  <2>7. QED
    <3> HIDE DEF f, g, more, n
    <3> QED
      BY <2>2, <2>3, <2>4, <2>5, <2>6
<1>5. Reserved(more) = Reserved(children) + qty
  <2> DEFINE f == [i \in DOMAIN children |-> Held(children[i])]
             g == [i \in DOMAIN more |-> Held(more[i])]
  <2>1. \A i \in DOMAIN children : f[i] = g[i] /\ f[i] \in Nat
    BY <1>2, ChildSums
  <2>2. g[n] = qty
    BY <1>1, <1>2
  <2>3. SumFunctionOnSet(g, DOMAIN children \cup {n}) = g[n] + SumFunctionOnSet(g, DOMAIN children)
    <3> HIDE DEF g, f, n
    <3> QED
      BY <1>2, <1>3, <2>1, <2>2, SumAdd
  <2>4. SumFunctionOnSet(f, DOMAIN children) = SumFunctionOnSet(g, DOMAIN children)
    <3> HIDE DEF f, g
    <3> QED
      BY <1>3, <2>1, SumEqual
  <2>5. Reserved(children) = SumFunctionOnSet(f, DOMAIN children) /\ Reserved(children) \in Nat
    BY ChildSums DEF Reserved
  <2>6. Reserved(more) = SumFunctionOnSet(g, DOMAIN children \cup {n})
    BY <1>2 DEF Reserved
  <2>7. QED
    <3> HIDE DEF f, g, more, n
    <3> QED
      BY <2>2, <2>3, <2>4, <2>5, <2>6
<1>6. QED
  BY <1>2, <1>4, <1>5

\* Another child in the place of one changes the sums by the difference.
LEMMA ReplaceSums ==
    ASSUME NEW children \in Seq(Child), NEW i \in DOMAIN children, NEW child \in Child
    PROVE  LET other == [children EXCEPT ![i] = child]
           IN  /\ other \in Seq(Child)
               /\ Filled(other)
                      = Filled(children) - Total(children[i].fills) + Total(child.fills)
               /\ Reserved(other) = Reserved(children) - Held(children[i]) + Held(child)
<1> DEFINE other == [children EXCEPT ![i] = child]
<1>1. /\ other \in Seq(Child) /\ DOMAIN other = DOMAIN children /\ other[i] = child
      /\ \A j \in DOMAIN children \ {i} : other[j] = children[j]
  OBVIOUS
<1>2. IsFiniteSet(DOMAIN children)
  BY ChildSums
<1>3. Filled(other) = Filled(children) - Total(children[i].fills) + Total(child.fills)
  <2> DEFINE f == [j \in DOMAIN children |-> Total(children[j].fills)]
             g == [j \in DOMAIN other |-> Total(other[j].fills)]
  <2>1. \A j \in DOMAIN children : f[j] \in Nat /\ g[j] \in Nat
    BY <1>1, ChildSums
  <2>2. \A j \in DOMAIN children \ {i} : f[j] = g[j]
    BY <1>1
  <2>3. SumFunctionOnSet(g, DOMAIN children) = SumFunctionOnSet(f, DOMAIN children) - f[i] + g[i]
    <3> HIDE DEF f, g
    <3> QED
      BY <1>2, <2>1, <2>2, SumChange
  <2>4. QED
    BY <1>1, <2>3 DEF Filled
<1>4. Reserved(other) = Reserved(children) - Held(children[i]) + Held(child)
  <2> DEFINE f == [j \in DOMAIN children |-> Held(children[j])]
             g == [j \in DOMAIN other |-> Held(other[j])]
  <2>1. \A j \in DOMAIN children : f[j] \in Nat /\ g[j] \in Nat
    BY <1>1, ChildSums
  <2>2. \A j \in DOMAIN children \ {i} : f[j] = g[j]
    BY <1>1
  <2>3. SumFunctionOnSet(g, DOMAIN children) = SumFunctionOnSet(f, DOMAIN children) - f[i] + g[i]
    <3> HIDE DEF f, g
    <3> QED
      BY <1>2, <2>1, <2>2, SumChange
  <2>4. QED
    BY <1>1, <2>3 DEF Reserved
<1>5. QED
  BY <1>1, <1>3, <1>4

-----------------------------------------------------------------------------
\* The operations.

\* A sound ledger has the types of its parts and never oversells the parent.
\* That what a child fills fits what it reserved needs to know that a
\* reserved child has filled nothing yet.
Sound(ledger) ==
    /\ ledger \in [depth : Depth, children : Seq(Child), debits : [Keys -> Nat]]
    /\ Children(ledger.children)
    /\ Filled(ledger.children) + Reserved(ledger.children) <= Quantity

\* The ledger of a new parent is sound.
LEMMA EmptySound ==
    /\ Sound(EmptyLedger) /\ EmptyDepth \in Depth /\ NoDebits \in [Keys -> Nat]
    /\ EmptyDepth = Residual(EmptyDepth, NoDebits)
<1>1. EmptyDepth \in Depth /\ NoDebits \in [Keys -> Nat]
  BY DEF EmptyDepth, NoDebits, Depth
<1>2. <<>> \in Seq(Child) /\ Children(<<>>)
  BY DEF Children
<1>3. Filled(<<>>) = 0 /\ Reserved(<<>>) = 0
  BY SumEmpty DEF Filled, Reserved
<1>4. EmptyDepth = Residual(EmptyDepth, NoDebits)
  BY DEF Residual, EmptyDepth, NoDebits, Larger
<1>5. QED
  BY <1>1, <1>2, <1>3, <1>4, ParentAssumption DEF Sound, EmptyLedger

\* A submission within what is available keeps a ledger sound.
LEMMA SubmittedSound ==
    ASSUME NEW ledger, Sound(ledger), NEW qty \in Nat, NEW limit \in Prices \cup {NoLimit},
           qty <= Available(ledger.children)
    PROVE  LET after == Submitted(ledger, qty, limit)
           IN  /\ Sound(after)
               /\ after.children = Append(ledger.children, NewChild(qty, limit))
               /\ after.depth = ledger.depth /\ after.debits = ledger.debits
<1> DEFINE more == Append(ledger.children, NewChild(qty, limit))
           after == Submitted(ledger, qty, limit)
<1>1. /\ ledger \in [depth : Depth, children : Seq(Child), debits : [Keys -> Nat]]
      /\ Children(ledger.children)
      /\ Filled(ledger.children) + Reserved(ledger.children) <= Quantity
  BY DEF Sound
<1>2. /\ more \in Seq(Child) /\ Filled(more) = Filled(ledger.children)
      /\ Reserved(more) = Reserved(ledger.children) + qty
  BY <1>1, AppendSums
<1>3. /\ after.children = more /\ after.depth = ledger.depth /\ after.debits = ledger.debits
      /\ after \in [depth : Depth, children : Seq(Child), debits : [Keys -> Nat]]
  BY <1>1, <1>2 DEF Submitted
<1>4. Filled(more) + Reserved(more) <= Quantity
  <2>1. Filled(ledger.children) \in Nat /\ Reserved(ledger.children) \in Nat
    BY <1>1, ChildSums
  <2>2. qty <= Quantity - Filled(ledger.children) - Reserved(ledger.children)
    BY DEF Available
  <2> HIDE DEF more
  <2>3. QED
    BY <1>2, <2>1, <2>2, ParentAssumption
<1>5. Children(more)
  <2>1. \A i \in DOMAIN more :
            IF i \in DOMAIN ledger.children THEN more[i] = ledger.children[i]
            ELSE more[i] = NewChild(qty, limit)
    BY <1>1
  <2>2. /\ Total(NewChild(qty, limit).fills) <= NewChild(qty, limit).qty
        /\ NewChild(qty, limit).fills = NoFills
    BY TotalNoFills DEF NewChild
  <2> HIDE DEF more
  <2>3. QED
    BY <1>1, <1>2, <2>1, <2>2 DEF Children
<1>6. QED
  <2> HIDE DEF more, after
  <2> QED
    BY <1>3, <1>4, <1>5 DEF Sound, more, after

\* So does a cancellation.
LEMMA CancelledSound ==
    ASSUME NEW ledger, Sound(ledger), NEW i \in DOMAIN ledger.children
    PROVE  LET after == Cancelled(ledger, i)
               child == after.children[i]
           IN  /\ Sound(after)
               /\ after.children = [ledger.children EXCEPT ![i] = child]
               /\ after.depth = ledger.depth /\ after.debits = ledger.debits
               /\ child \in Child /\ child.status = "cancelled"
               /\ child.fills = ledger.children[i].fills
               /\ child.qty = ledger.children[i].qty
               /\ child.limit = ledger.children[i].limit
<1> DEFINE child == [ledger.children[i] EXCEPT !.status = "cancelled"]
           other == [ledger.children EXCEPT ![i] = child]
           after == Cancelled(ledger, i)
<1>0. /\ ledger \in [depth : Depth, children : Seq(Child), debits : [Keys -> Nat]]
      /\ Children(ledger.children)
      /\ Filled(ledger.children) + Reserved(ledger.children) <= Quantity
  BY DEF Sound
<1>1. /\ child \in Child /\ child.fills = ledger.children[i].fills
      /\ child.qty = ledger.children[i].qty /\ child.status = "cancelled"
      /\ child.limit = ledger.children[i].limit
  <2>1. ledger.children[i] \in Child
    BY <1>0
  <2>2. QED
    BY <2>1 DEF Child, Statuses
<1>2. /\ other \in Seq(Child)
      /\ Filled(other) = Filled(ledger.children)
      /\ Reserved(other) <= Reserved(ledger.children)
      /\ Reserved(other) \in Nat
      /\ Filled(ledger.children) \in Nat /\ Reserved(ledger.children) \in Nat
  <2>1. /\ other \in Seq(Child)
        /\ Filled(other) = Filled(ledger.children) - Total(ledger.children[i].fills)
                               + Total(child.fills)
        /\ Reserved(other) = Reserved(ledger.children) - Held(ledger.children[i]) + Held(child)
    <3> HIDE DEF child
    <3> QED
      BY <1>0, <1>1, ReplaceSums
  <2>2. /\ Total(ledger.children[i].fills) \in Nat /\ Held(ledger.children[i]) \in Nat
        /\ Filled(ledger.children) \in Nat /\ Reserved(ledger.children) \in Nat
    BY <1>0, ChildSums
  <2>3. Held(child) = 0 /\ Total(child.fills) = Total(ledger.children[i].fills)
    BY <1>1 DEF Held
  <2> HIDE DEF child, other
  <2>4. Reserved(other) \in Nat
    BY <2>1, ChildSums
  <2>5. QED
    BY <2>1, <2>2, <2>3, <2>4
<1>3. /\ after.children = other /\ after.depth = ledger.depth /\ after.debits = ledger.debits
      /\ after \in [depth : Depth, children : Seq(Child), debits : [Keys -> Nat]]
  BY <1>0, <1>2 DEF Cancelled
<1>4. Filled(other) + Reserved(other) <= Quantity
  <2> HIDE DEF other
  <2> QED
    BY <1>0, <1>2, ParentAssumption
<1>5. Children(other)
  <2>1. \A j \in DOMAIN other :
            j \in DOMAIN ledger.children /\ other[j] = IF j = i THEN child ELSE ledger.children[j]
    OBVIOUS
  <2> HIDE DEF other, child
  <2>2. QED
    BY <1>0, <1>1, <1>2, <2>1 DEF Children
<1>6. QED
  <2>1. after.children[i] = child
    BY <1>0, <1>3
  <2>2. Sound(after)
    <3> HIDE DEF other, child, after
    <3> QED
      BY <1>3, <1>4, <1>5 DEF Sound
  <2> HIDE DEF child, after
  <2>3. QED
    BY <1>1, <1>3, <2>1, <2>2 DEF after

\* A key on the consumed side names its price.
LEMMA KeyOfOpposite ==
    ASSUME NEW k \in Keys, k[1] = Opposite
    PROVE  k[2] \in Prices /\ k = <<Opposite, k[2]>>
BY DEF Keys

\* What an execution takes: no more than its quantity, nor than a level has.
LEMMA ExecutedFills ==
    ASSUME NEW ledger, Sound(ledger), NEW i \in DOMAIN ledger.children
    PROVE  LET child == ledger.children[i]
               fills == FillsOf(ledger.depth, child.qty, child.limit)
           IN  /\ child \in Child /\ fills \in [Prices -> Nat]
               /\ Total(fills) \in Nat /\ Total(fills) <= child.qty
               /\ \A k \in Keys : Taken(fills, k) \in Nat /\ Taken(fills, k) <= ledger.depth[k]
<1> DEFINE child == ledger.children[i]
           fills == FillsOf(ledger.depth, child.qty, child.limit)
<1>1. child \in Child /\ ledger.depth \in Depth
  BY DEF Sound
<1>2. child.qty \in Nat
  BY <1>1 DEF Child
<1>3. /\ fills \in [Prices -> Nat]
      /\ \A p \in Prices : fills[p] <= ledger.depth[<<Opposite, p>>]
  BY <1>1, <1>2, FillsBounded
<1>4. Total(fills) \in Nat /\ Total(fills) <= child.qty
  <2> DEFINE E == {p \in Prices : Eligible(child.limit, p)}
             had == SumFunctionOnSet(Offered(ledger.depth), E)
  <2>1. had \in Nat
    BY <1>1, SumOffered
  <2>2. Total(fills) = Smaller(child.qty, had)
    BY <1>1, <1>2, FillsTotal
  <2> HIDE DEF had, fills, child
  <2>3. QED
    BY <1>2, <2>1, <2>2 DEF Smaller
<1>5. ASSUME NEW k \in Keys
      PROVE  Taken(fills, k) \in Nat /\ Taken(fills, k) <= ledger.depth[k]
  <2>1. ledger.depth[k] \in Nat
    BY <1>1 DEF Depth
  <2> HIDE DEF fills
  <2>2. CASE k[1] = Opposite
    BY <1>3, <2>1, <2>2, KeyOfOpposite DEF Taken
  <2>3. CASE k[1] # Opposite
    BY <2>1, <2>3 DEF Taken
  <2>4. QED
    BY <2>2, <2>3
<1>6. QED
  BY <1>1, <1>3, <1>4, <1>5

\* An execution keeps a ledger sound, and its depth what the debits leave of
\* any external depth.
LEMMA ExecutedSound ==
    ASSUME NEW ledger, Sound(ledger), NEW i \in DOMAIN ledger.children,
           ledger.children[i].status = "reserved"
    PROVE  LET child == ledger.children[i]
               fills == FillsOf(ledger.depth, child.qty, child.limit)
               done == Outcome(child, fills)
               after == Executed(ledger, i)
           IN  /\ Sound(after)
               /\ after.children = [ledger.children EXCEPT ![i] = done]
               /\ after.depth = Less(ledger.depth, fills)
               /\ after.debits = [k \in Keys |-> ledger.debits[k] + Taken(fills, k)]
               /\ done \in Child /\ done.fills = fills
               /\ done.qty = child.qty /\ done.limit = child.limit
               /\ done.status = IF Total(fills) = child.qty THEN "filled"
                                ELSE IF Total(fills) = 0 THEN "unfilled" ELSE "partial"
               /\ Filled(after.children) = Filled(ledger.children) + Total(fills)
               /\ Reserved(after.children) = Reserved(ledger.children) - child.qty
               /\ \A raw \in Depth : ledger.depth = Residual(raw, ledger.debits) =>
                      after.depth = Residual(raw, after.debits)
<1> DEFINE child == ledger.children[i]
           fills == FillsOf(ledger.depth, child.qty, child.limit)
           done == Outcome(child, fills)
           other == [ledger.children EXCEPT ![i] = done]
           depth == Less(ledger.depth, fills)
           debits == [k \in Keys |-> ledger.debits[k] + Taken(fills, k)]
           after == Executed(ledger, i)
<1>1. /\ child \in Child /\ fills \in [Prices -> Nat]
      /\ Total(fills) \in Nat /\ Total(fills) <= child.qty
      /\ \A k \in Keys : Taken(fills, k) \in Nat /\ Taken(fills, k) <= ledger.depth[k]
  BY ExecutedFills
<1>2. /\ ledger \in [depth : Depth, children : Seq(Child), debits : [Keys -> Nat]]
      /\ Children(ledger.children)
      /\ Filled(ledger.children) + Reserved(ledger.children) <= Quantity
  BY DEF Sound
<1>3. child.fills = NoFills /\ after = [depth |-> depth, children |-> other, debits |-> debits]
  BY <1>2 DEF Executed, Children
<1>4. /\ done \in Child /\ done.qty = child.qty /\ done.fills = fills
      /\ done.limit = child.limit
      /\ done.status = IF Total(fills) = child.qty THEN "filled"
                       ELSE IF Total(fills) = 0 THEN "unfilled" ELSE "partial"
  <2> HIDE DEF fills, child
  <2>1. QED
    BY <1>1 DEF Outcome, Child, Statuses
<1>5. depth \in Depth /\ debits \in [Keys -> Nat]
  <2> HIDE DEF fills
  <2>1. \A k \in Keys : ledger.depth[k] \in Nat /\ ledger.debits[k] \in Nat
    BY <1>2 DEF Depth
  <2>2. \A k \in Keys : depth[k] \in Nat /\ debits[k] \in Nat
    BY <1>1, <2>1 DEF Less
  <2>3. QED
    BY <2>2 DEF Less, Depth
<1>6. /\ other \in Seq(Child)
      /\ Filled(other) = Filled(ledger.children) + Total(fills)
      /\ Reserved(other) = Reserved(ledger.children) - child.qty
      /\ Filled(ledger.children) \in Nat /\ Reserved(ledger.children) \in Nat
  <2>1. /\ other \in Seq(Child)
        /\ Filled(other) = Filled(ledger.children) - Total(child.fills) + Total(done.fills)
        /\ Reserved(other) = Reserved(ledger.children) - Held(child) + Held(done)
    <3> HIDE DEF done
    <3> QED
      BY <1>2, <1>4, ReplaceSums
  <2>2. /\ Held(child) = child.qty /\ child.qty \in Nat /\ Held(done) = 0
        /\ Total(child.fills) = 0 /\ done.fills = fills
    <3> HIDE DEF done, child, fills
    <3> QED
      BY <1>1, <1>3, <1>4, TotalNoFills DEF Held, Child, child
  <2>3. Filled(ledger.children) \in Nat /\ Reserved(ledger.children) \in Nat
    BY <1>2, ChildSums
  <2> HIDE DEF done, other, fills, child
  <2>4. QED
    BY <1>1, <2>1, <2>2, <2>3
<1>7. Filled(other) + Reserved(other) <= Quantity
  <2>1. child.qty \in Nat
    BY <1>1 DEF Child
  <2> HIDE DEF other, fills, child
  <2>2. QED
    BY <1>1, <1>2, <1>6, <2>1, ParentAssumption
<1>8. Children(other)
  <2>1. \A j \in DOMAIN other :
            j \in DOMAIN ledger.children /\ other[j] = IF j = i THEN done ELSE ledger.children[j]
    OBVIOUS
  <2> HIDE DEF other, done, fills, child
  <2>2. QED
    BY <1>1, <1>2, <1>4, <1>6, <2>1 DEF Children
<1>9. ASSUME NEW raw \in Depth, ledger.depth = Residual(raw, ledger.debits)
      PROVE  depth = Residual(raw, debits)
  <2> HIDE DEF fills
  <2>1. ASSUME NEW k \in Keys
        PROVE  depth[k] = Larger(0, raw[k] - debits[k])
    <3>1. ledger.depth[k] = Larger(0, raw[k] - ledger.debits[k])
      BY <1>9 DEF Residual
    <3>2. raw[k] \in Nat /\ ledger.debits[k] \in Nat
      BY <1>2 DEF Depth
    <3>3. Taken(fills, k) \in Nat /\ Taken(fills, k) <= ledger.depth[k]
      BY <1>1
    <3>4. depth[k] = ledger.depth[k] - Taken(fills, k)
          /\ debits[k] = ledger.debits[k] + Taken(fills, k)
      BY DEF Less
    <3> HIDE DEF depth, debits
    <3>5. QED
      BY <3>1, <3>2, <3>3, <3>4 DEF Larger
  <2>2. depth = [k \in Keys |-> depth[k]]
    BY DEF Less
  <2> HIDE DEF depth, debits
  <2>3. QED
    BY <2>1, <2>2 DEF Residual
<1>10. Sound(after) /\ after.depth = depth /\ after.debits = debits /\ after.children = other
  <2> HIDE DEF depth, debits, other, after
  <2> QED
    BY <1>3, <1>5, <1>6, <1>7, <1>8 DEF Sound
<1>11. QED
  <2> HIDE DEF depth, debits, other, after, done, fills, child
  <2> QED
    BY <1>4, <1>6, <1>9, <1>10 DEF depth, debits, other, after, done, fills, child

\* Debits are debits after a message, and leave a depth of a depth.
LEMMA RefreshType ==
    ASSUME NEW debits \in [Keys -> Nat], NEW m, NEW lm \in Models
    PROVE  Refresh(lm, debits, m) \in [Keys -> Nat]
BY DEF Refresh, NoDebits

\* What debits leave of a depth is a depth.
LEMMA ResidualType ==
    ASSUME NEW depth \in Depth, NEW debits \in [Keys -> Nat]
    PROVE  Residual(depth, debits) \in Depth
BY DEF Residual, Depth, Larger

\* An observation keeps a ledger sound.
LEMMA ObservedSound ==
    ASSUME NEW ledger, Sound(ledger), NEW raw \in Depth, NEW m, NEW lm \in Models
    PROVE  LET after == Observed(ledger, lm, raw, m)
           IN  /\ Sound(after)
               /\ after.children = ledger.children
               /\ after.debits = Refresh(lm, ledger.debits, m)
               /\ after.depth = Residual(raw, after.debits)
<1> DEFINE debits == Refresh(lm, ledger.debits, m)
           after == Observed(ledger, lm, raw, m)
<1>1. /\ ledger \in [depth : Depth, children : Seq(Child), debits : [Keys -> Nat]]
      /\ Children(ledger.children)
      /\ Filled(ledger.children) + Reserved(ledger.children) <= Quantity
  BY DEF Sound
<1>2. debits \in [Keys -> Nat]
  BY <1>1, RefreshType
<1>3. Residual(raw, debits) \in Depth
  BY <1>2, ResidualType
<1>4. after = [ledger EXCEPT !.depth = Residual(raw, debits), !.debits = debits]
  BY DEF Observed
<1>5. /\ after.children = ledger.children
      /\ after.debits = debits /\ after.depth = Residual(raw, debits)
      /\ after \in [depth : Depth, children : Seq(Child), debits : [Keys -> Nat]]
  <2> HIDE DEF after, debits
  <2> QED
    BY <1>1, <1>2, <1>3, <1>4
<1>6. QED
  <2> HIDE DEF after, debits
  <2> QED
    BY <1>1, <1>5 DEF Sound, after, debits

\* What a message makes of a depth is a depth.
LEMMA DepthAfterType ==
    ASSUME NEW depth \in Depth, NEW m,
           IF m.kind = "snapshot" THEN m.levels \in Depth ELSE IsBatch(m.levels)
    PROVE  DepthAfter([depth |-> depth], m) \in Depth
BY DEF DepthAfter, Overlay, IsBatch, Depth

-----------------------------------------------------------------------------
\* What the operators of KnownOrders compute.

\* What the children took of level k, and those whose fills weigh on it by the
\* reports of a known ledger.
Took(children, k) == [i \in DOMAIN children |-> Taken(children[i].fills, k)]

Weighty(kn, md, k) ==
    {i \in DOMAIN kn.children : kn.receipts[i] # NoSeq /\ InForce(kn, md, i, k)}

\* The debits _rebuild finds in a known ledger.
Owed(kn, md) ==
    [k \in Keys |-> SumFunctionOnSet(Took(kn.children, k), Weighty(kn, md, k))]

Numbers == Nat \cup {NoSeq}

KnownLedgers ==
    [children : Seq(Child), receipts : Seq(Numbers),
     refreshAll : Numbers, refreshLevels : [Keys -> Numbers],
     raw : Depth, depth : Depth]

\* The greatest of bounded naturals and of a number that may be NoSeq.
LEMMA MaxBound ==
    ASSUME NEW T \in SUBSET Nat, NEW h \in Nat, \A t \in T : t <= h,
           NEW x \in Numbers, x <= h
    PROVE  /\ Max(T \cup {x}) \in T \cup {x} /\ Max(T \cup {x}) \in Numbers
           /\ \A y \in T \cup {x} : y <= Max(T \cup {x})
<1>1. \E g \in T \cup {x} : \A y \in T \cup {x} : g >= y
  <2>1. CASE T = {}
    BY <2>1 DEF Numbers, NoSeq
  <2>2. CASE T # {}
    <3>1. PICK n \in T : \A m \in T : m <= n
      BY <2>2, GreatestNatural
    <3>2. CASE x <= n
      BY <3>1, <3>2
    <3>3. CASE ~(x <= n)
      BY <3>1, <3>3 DEF Numbers, NoSeq
    <3>4. QED
      BY <3>2, <3>3
  <2>3. QED
    BY <2>1, <2>2
<1>2. Max(T \cup {x}) \in T \cup {x} /\ \A y \in T \cup {x} : Max(T \cup {x}) >= y
  BY <1>1 DEF Max
<1>3. QED
  BY <1>2 DEF Numbers, NoSeq

\* What is taken of a level is a natural number.
LEMMA TookType ==
    ASSUME NEW children \in Seq(Child), NEW k \in Keys
    PROVE  /\ IsFiniteSet(DOMAIN children)
           /\ DOMAIN Took(children, k) = DOMAIN children
           /\ \A i \in DOMAIN children : Took(children, k)[i] \in Nat
<1>1. ASSUME NEW i \in DOMAIN children
      PROVE  Taken(children[i].fills, k) \in Nat
  <2>1. children[i] \in Child /\ children[i].fills \in [Prices -> Nat]
    <3>1. children[i] \in Child
      OBVIOUS
    <3>2. QED
      BY <3>1 DEF Child
  <2>2. QED
    BY <2>1, KeyOfOpposite DEF Taken
<1>2. QED
  BY <1>1, ChildSums DEF Took

\* Debits are natural numbers.
LEMMA OwedType ==
    ASSUME NEW kn, kn.children \in Seq(Child), NEW md
    PROVE  Owed(kn, md) \in [Keys -> Nat]
<1>1. ASSUME NEW k \in Keys
      PROVE  SumFunctionOnSet(Took(kn.children, k), Weighty(kn, md, k)) \in Nat
  <2>1. Weighty(kn, md, k) \subseteq DOMAIN kn.children
    BY DEF Weighty
  <2>2. IsFiniteSet(Weighty(kn, md, k))
    BY <2>1, TookType, FS_Subset
  <2>3. QED
    BY <2>1, <2>2, TookType, SumType
<1>2. QED
  BY <1>1 DEF Owed

\* The debits depend on the children whose fills weigh, and on nothing else.
LEMMA OwedEqual ==
    ASSUME NEW kn, NEW ln, NEW md, kn.children \in Seq(Child), ln.children \in Seq(Child),
           \A k \in Keys : Weighty(kn, md, k) = Weighty(ln, md, k),
           \A i \in DOMAIN kn.children : kn.receipts[i] # NoSeq =>
               i \in DOMAIN ln.children /\ kn.children[i] = ln.children[i]
    PROVE  Owed(kn, md) = Owed(ln, md)
<1>1. ASSUME NEW k \in Keys
      PROVE  SumFunctionOnSet(Took(kn.children, k), Weighty(kn, md, k))
                 = SumFunctionOnSet(Took(ln.children, k), Weighty(ln, md, k))
  <2>1. Weighty(kn, md, k) \subseteq DOMAIN kn.children
    BY DEF Weighty
  <2>2. IsFiniteSet(Weighty(kn, md, k))
    BY <2>1, TookType, FS_Subset
  <2>3. \A i \in Weighty(kn, md, k) :
            i \in DOMAIN ln.children /\ kn.children[i] = ln.children[i]
    BY DEF Weighty
  <2>4. \A i \in Weighty(kn, md, k) :
            Took(kn.children, k)[i] \in Nat
            /\ Took(kn.children, k)[i] = Took(ln.children, k)[i]
    <3>1. \A i \in DOMAIN kn.children : Took(kn.children, k)[i] \in Nat
      BY TookType
    <3>2. QED
      BY <2>1, <2>3, <3>1 DEF Took
  <2>5. QED
    BY <2>2, <2>4, SumEqual
<1>2. QED
  BY <1>1 DEF Owed

\* _rebuild changes the depth belief only, to what the debits leave.
LEMMA RebuiltIs ==
    ASSUME NEW kn \in KnownLedgers, NEW md
    PROVE  LET after == Rebuilt(kn, md)
           IN  /\ after \in KnownLedgers
               /\ after.children = kn.children /\ after.receipts = kn.receipts
               /\ after.refreshAll = kn.refreshAll /\ after.refreshLevels = kn.refreshLevels
               /\ after.raw = kn.raw /\ after.depth = Residual(after.raw, Owed(after, md))
<1> DEFINE after == Rebuilt(kn, md)
           left == Residual(kn.raw, Owed(kn, md))
<1>1. after = [kn EXCEPT !.depth = left]
  BY DEF Rebuilt, Owed, Took, Weighty
<1>2. left \in Depth
  BY OwedType, ResidualType DEF KnownLedgers
<1>3. /\ after \in KnownLedgers
      /\ after.children = kn.children /\ after.receipts = kn.receipts
      /\ after.refreshAll = kn.refreshAll /\ after.refreshLevels = kn.refreshLevels
      /\ after.raw = kn.raw /\ after.depth = left
  <2> HIDE DEF left, after
  <2> QED
    BY <1>1, <1>2 DEF KnownLedgers
<1>4. Owed(after, md) = Owed(kn, md)
  <2> HIDE DEF after
  <2> QED
    BY <1>3 DEF Owed, Weighty, InForce
<1>5. QED
  <2> HIDE DEF after
  <2> QED
    BY <1>3, <1>4 DEF after

\* The last applied of some sequence numbers and the one recorded before.
LatestSnapshot(kn, applied) ==
    Max({m.seq : m \in {n \in applied : n.kind = "snapshot"}} \cup {kn.refreshAll})
LatestUpdate(kn, applied, k) ==
    Max({m.seq : m \in {n \in applied : n.kind = "update" /\ k \in DOMAIN n.levels}}
            \cup {kn.refreshLevels[k]})

\* The snapshot refresh recorded is the latest of those applied and the old one.
LEMMA ObservedSnapshots ==
    ASSUME NEW kn \in KnownLedgers, NEW md, NEW raw \in Depth, NEW applied, NEW h \in Nat,
           kn.refreshAll <= h, \A k \in Keys : kn.refreshLevels[k] <= h,
           \A m \in applied : m.seq \in Nat /\ m.seq <= h
    PROVE  LET all == LatestSnapshot(kn, applied)
           IN  /\ all \in Numbers /\ all <= h /\ kn.refreshAll <= all
               /\ \A m \in applied : m.kind = "snapshot" => m.seq <= all
               /\ \/ all = kn.refreshAll
                  \/ \E m \in applied : m.kind = "snapshot" /\ m.seq = all
<1> DEFINE snapshots == {m.seq : m \in {n \in applied : n.kind = "snapshot"}}
           all == LatestSnapshot(kn, applied)
<1>1. kn.refreshAll \in Numbers
  BY DEF KnownLedgers
<1>2. snapshots \in SUBSET Nat /\ \A n \in snapshots : n <= h
  OBVIOUS
<1>3. all = Max(snapshots \cup {kn.refreshAll})
  BY DEF LatestSnapshot
<1> HIDE DEF snapshots, all
<1>4. /\ all \in snapshots \cup {kn.refreshAll} /\ all \in Numbers
      /\ \A n \in snapshots \cup {kn.refreshAll} : n <= all
  BY <1>1, <1>2, <1>3, MaxBound
<1>5. all \in Numbers /\ all <= h /\ kn.refreshAll <= all
  BY <1>2, <1>4
<1>6. \A m \in applied : m.kind = "snapshot" => m.seq <= all
  BY <1>4 DEF snapshots
<1>7. all = kn.refreshAll \/ \E m \in applied : m.kind = "snapshot" /\ m.seq = all
  BY <1>4 DEF snapshots
<1>8. QED
  BY <1>5, <1>6, <1>7 DEF all

\* And so for the updates of a level.
LEMMA ObservedUpdates ==
    ASSUME NEW kn \in KnownLedgers, NEW md, NEW raw \in Depth, NEW applied, NEW h \in Nat,
           kn.refreshAll <= h, \A k \in Keys : kn.refreshLevels[k] <= h,
           \A m \in applied : m.seq \in Nat /\ m.seq <= h,
           NEW k \in Keys
    PROVE  LET level == LatestUpdate(kn, applied, k)
           IN  /\ level \in Numbers /\ level <= h /\ kn.refreshLevels[k] <= level
               /\ \A m \in applied : m.kind = "update" /\ k \in DOMAIN m.levels =>
                      m.seq <= level
               /\ \/ level = kn.refreshLevels[k]
                  \/ \E m \in applied :
                         m.kind = "update" /\ k \in DOMAIN m.levels /\ m.seq = level
<1> DEFINE touching == {m.seq : m \in {n \in applied :
                                         n.kind = "update" /\ k \in DOMAIN n.levels}}
           level == LatestUpdate(kn, applied, k)
<1>1. kn.refreshLevels[k] \in Numbers
  BY DEF KnownLedgers
<1>2. touching \in SUBSET Nat /\ \A n \in touching : n <= h
  OBVIOUS
<1>3. level = Max(touching \cup {kn.refreshLevels[k]})
  BY DEF LatestUpdate
<1> HIDE DEF touching, level
<1>4. /\ level \in touching \cup {kn.refreshLevels[k]} /\ level \in Numbers
      /\ \A n \in touching \cup {kn.refreshLevels[k]} : n <= level
  BY <1>1, <1>2, <1>3, MaxBound
<1>5. level \in Numbers /\ level <= h /\ kn.refreshLevels[k] <= level
  BY <1>2, <1>4
<1>6. \A m \in applied : m.kind = "update" /\ k \in DOMAIN m.levels => m.seq <= level
  BY <1>4 DEF touching
<1>7. \/ level = kn.refreshLevels[k]
      \/ \E m \in applied : m.kind = "update" /\ k \in DOMAIN m.levels /\ m.seq = level
  BY <1>4 DEF touching
<1>8. QED
  BY <1>5, <1>6, <1>7 DEF level

\* What observe_view leaves: children and reports as they were, the book it was
\* given, and the refreshes of the messages that led to it.
LEMMA ObservedParts ==
    ASSUME NEW kn \in KnownLedgers, NEW md, NEW raw \in Depth, NEW applied, NEW h \in Nat,
           kn.refreshAll <= h, \A k \in Keys : kn.refreshLevels[k] <= h,
           \A m \in applied : m.seq \in Nat /\ m.seq <= h
    PROVE  LET after == ObserveView(kn, md, raw, applied)
           IN  /\ after \in KnownLedgers
               /\ after.children = kn.children /\ after.receipts = kn.receipts
               /\ after.raw = raw /\ after.depth = Residual(raw, Owed(after, md))
               /\ after.refreshAll = LatestSnapshot(kn, applied)
               /\ after.refreshLevels = [k \in Keys |-> LatestUpdate(kn, applied, k)]
<1> DEFINE all == LatestSnapshot(kn, applied)
           levels == [k \in Keys |-> LatestUpdate(kn, applied, k)]
           told == [kn EXCEPT !.raw = raw, !.refreshAll = all, !.refreshLevels = levels]
           after == ObserveView(kn, md, raw, applied)
<1>1. after = Rebuilt(told, md)
  BY DEF ObserveView, LatestSnapshot, LatestUpdate
<1>2. all \in Numbers
  BY ObservedSnapshots
<1>3. levels \in [Keys -> Numbers]
  BY ObservedUpdates
<1> HIDE DEF all, levels
<1>4. /\ told \in KnownLedgers /\ told.children = kn.children /\ told.raw = raw
      /\ told.receipts = kn.receipts /\ told.refreshAll = all /\ told.refreshLevels = levels
  BY <1>2, <1>3 DEF KnownLedgers
<1> HIDE DEF told
<1>5. /\ after \in KnownLedgers /\ after.children = kn.children /\ after.receipts = kn.receipts
      /\ after.refreshAll = all /\ after.refreshLevels = levels
      /\ after.raw = raw /\ after.depth = Residual(raw, Owed(after, md))
  <2> HIDE DEF after
  <2> QED
    BY <1>1, <1>4, RebuiltIs
<1>6. QED
  BY <1>5 DEF all, levels

\* In particular no refresh recorded is later than the messages seen.
LEMMA ObservedView ==
    ASSUME NEW kn \in KnownLedgers, NEW md, NEW raw \in Depth, NEW applied, NEW h \in Nat,
           kn.refreshAll <= h, \A k \in Keys : kn.refreshLevels[k] <= h,
           \A m \in applied : m.seq \in Nat /\ m.seq <= h
    PROVE  LET after == ObserveView(kn, md, raw, applied)
           IN  /\ after \in KnownLedgers
               /\ after.children = kn.children /\ after.receipts = kn.receipts
               /\ after.raw = raw /\ after.depth = Residual(raw, Owed(after, md))
               /\ after.refreshAll <= h /\ \A k \in Keys : after.refreshLevels[k] <= h
<1> DEFINE after == ObserveView(kn, md, raw, applied)
<1>1. /\ after \in KnownLedgers /\ after.children = kn.children
      /\ after.receipts = kn.receipts
      /\ after.raw = raw /\ after.depth = Residual(raw, Owed(after, md))
      /\ after.refreshAll = LatestSnapshot(kn, applied)
      /\ after.refreshLevels = [k \in Keys |-> LatestUpdate(kn, applied, k)]
  BY ObservedParts
<1>2. LatestSnapshot(kn, applied) <= h
  BY ObservedSnapshots
<1>3. \A k \in Keys : LatestUpdate(kn, applied, k) <= h
  BY ObservedUpdates
<1> HIDE DEF after
<1>4. QED
  BY <1>1, <1>2, <1>3 DEF after

\* What is available falls with what the children use, child by child.
LEMMA AvailableOrdered ==
    ASSUME NEW a \in Seq(Child), NEW b \in Seq(Child), Len(a) = Len(b),
           \A i \in DOMAIN a :
               Total(a[i].fills) + Held(a[i]) <= Total(b[i].fills) + Held(b[i])
    PROVE  Available(b) <= Available(a)
<1> DEFINE FilledBy(c) == [i \in DOMAIN c |-> Total(c[i].fills)]
           HeldBy(c) == [i \in DOMAIN c |-> Held(c[i])]
           UsedBy(c) == [i \in DOMAIN c |-> Total(c[i].fills) + Held(c[i])]
<1>1. ASSUME NEW c \in Seq(Child)
      PROVE  /\ IsFiniteSet(DOMAIN c)
             /\ \A i \in DOMAIN c : FilledBy(c)[i] \in Nat /\ HeldBy(c)[i] \in Nat
                                    /\ UsedBy(c)[i] = FilledBy(c)[i] + HeldBy(c)[i]
                                    /\ UsedBy(c)[i] \in Nat
             /\ Filled(c) \in Nat /\ Reserved(c) \in Nat
  BY ChildSums
<1>2. ASSUME NEW c \in Seq(Child)
      PROVE  SumFunctionOnSet(UsedBy(c), DOMAIN c) = Filled(c) + Reserved(c)
  <2>1. SumFunctionOnSet(UsedBy(c), DOMAIN c)
            = SumFunctionOnSet(FilledBy(c), DOMAIN c) + SumFunctionOnSet(HeldBy(c), DOMAIN c)
    <3> HIDE DEF FilledBy, HeldBy, UsedBy
    <3> QED
      BY <1>1, SumPlus
  <2>2. QED
    BY <2>1 DEF Filled, Reserved
<1>3. DOMAIN a = DOMAIN b
  OBVIOUS
<1>4. \A i \in DOMAIN a : UsedBy(a)[i] <= UsedBy(b)[i]
  BY <1>3
<1>5. SumFunctionOnSet(UsedBy(a), DOMAIN a) <= SumFunctionOnSet(UsedBy(b), DOMAIN a)
  <2> HIDE DEF UsedBy
  <2> QED
    BY <1>1, <1>3, <1>4, SumMonotone
<1>6. Filled(a) + Reserved(a) <= Filled(b) + Reserved(b)
  BY <1>2, <1>3, <1>5
<1>7. QED
  <2>1. /\ Filled(a) \in Nat /\ Reserved(a) \in Nat
        /\ Filled(b) \in Nat /\ Reserved(b) \in Nat
    BY <1>1
  <2>2. QED
    BY <1>6, <2>1, ParentAssumption DEF Available

\* What Append makes of a sequence.
LEMMA AppendParts ==
    ASSUME NEW S, NEW s \in Seq(S), NEW x \in S
    PROVE  LET t == Append(s, x)
               j == Len(s) + 1
           IN  /\ DOMAIN t = DOMAIN s \cup {j} /\ j \notin DOMAIN s
               /\ t[j] = x /\ \A i \in DOMAIN s : t[i] = s[i]
OBVIOUS

-----------------------------------------------------------------------------
\* The schedule.

\* Slices come at natural times with natural targets.
LEMMA TickTypes ==
    \A k \in Ticks : /\ k[1] \in Nat /\ k[2][1] \in Nat
                     /\ k = <<k[1], k[2]>>
<1>1. \A i, q \in Nat : (i * q) \div Slices \in Nat
  <2>1. \A a \in Nat : a \div Slices \in Nat
    BY ScheduleAssumption
  <2>2. \A i, q \in Nat : i * q \in Nat
    OBVIOUS
  <2>3. QED
    BY <2>1, <2>2
<1>2. \A i \in 0 .. Slices - 1 : SliceTime(i) \in Nat /\ ((i + 1) * Quantity) \div Slices \in Nat
  <2>1. Deadline - StartTime \in Nat /\ StartTime \in Nat /\ Quantity \in Nat
    BY ScheduleAssumption, ParentAssumption
  <2>2. QED
    BY <1>1, <2>1, ScheduleAssumption DEF SliceTime
<1>3. CatchesUp => CatchTime \in Nat
  BY ScheduleAssumption DEF CatchesUp, CatchTime
<1>4. ASSUME NEW k \in SliceTicks
      PROVE  k[1] \in Nat /\ k[2][1] \in Nat /\ k = <<k[1], k[2]>>
  <2>1. PICK i \in 0 .. Slices - 1 :
            k = <<SliceTime(i), <<((i + 1) * Quantity) \div Slices, FALSE>>>>
    BY DEF SliceTicks
  <2>2. QED
    BY <1>2, <2>1
<1>5. ASSUME NEW k \in Ticks
      PROVE  k \in SliceTicks \/ (CatchesUp /\ k = <<CatchTime, <<Quantity, TRUE>>>>)
  BY DEF Ticks
<1>6. ASSUME NEW k \in Ticks
      PROVE  k[1] \in Nat /\ k[2][1] \in Nat /\ k = <<k[1], k[2]>>
  <2>1. CASE k \in SliceTicks
    BY <1>4, <2>1
  <2>2. CASE CatchesUp /\ k = <<CatchTime, <<Quantity, TRUE>>>>
    BY <1>3, <2>2, ParentAssumption
  <2>3. QED
    BY <1>5, <2>1, <2>2
<1>7. QED
  BY <1>6

\* There are at most as many as slices, and the catch-up.
LEMMA TickCount == IsFiniteSet(Ticks) /\ Cardinality(Ticks) <= Slices + 1
<1> DEFINE I == 0 .. Slices - 1
           catch == <<CatchTime, <<Quantity, TRUE>>>>
<1>1. IsFiniteSet(I) /\ Cardinality(I) = Slices
  <2>1. 0 \in Int /\ Slices - 1 \in Int /\ Slices \in Nat \ {0}
    BY ScheduleAssumption
  <2>2. /\ IsFiniteSet(0 .. Slices - 1)
        /\ Cardinality(0 .. Slices - 1) =
               IF 0 > Slices - 1 THEN 0 ELSE (Slices - 1) - 0 + 1
    BY <2>1, FS_Interval
  <2>3. QED
    BY <2>1, <2>2
<1>2. IsFiniteSet(SliceTicks) /\ Cardinality(SliceTicks) <= Slices
  <2> DEFINE f == [i \in I |-> <<SliceTime(i), <<((i + 1) * Quantity) \div Slices, FALSE>>>>]
  <2>1. SliceTicks = {f[i] : i \in I}
    BY DEF SliceTicks
  <2>2. f \in Surjection(I, SliceTicks)
    BY <2>1 DEF Surjection
  <2> HIDE DEF f, I
  <2>3. QED
    BY <1>1, <2>2, FS_Surjection
<1>3. CASE ~CatchesUp
  BY <1>2, <1>3, FS_CardinalityType, ScheduleAssumption DEF Ticks
<1>4. CASE CatchesUp
  <2> DEFINE S == {k \in SliceTicks : k[1] # CatchTime}
  <2>1. IsFiniteSet(S) /\ Cardinality(S) <= Cardinality(SliceTicks)
    BY <1>2, FS_Subset
  <2>2. Ticks = S \cup {catch}
    BY <1>4 DEF Ticks
  <2>3. IsFiniteSet(S \cup {catch}) /\ Cardinality(S \cup {catch}) <= Cardinality(S) + 1
    <3> HIDE DEF S, catch
    <3>1. /\ IsFiniteSet(S \cup {catch})
          /\ Cardinality(S \cup {catch}) =
                 IF catch \in S THEN Cardinality(S) ELSE Cardinality(S) + 1
      BY <2>1, FS_AddElement
    <3>2. Cardinality(S) \in Nat
      BY <2>1, FS_CardinalityType
    <3>3. QED
      BY <3>1, <3>2
  <2>4. Cardinality(S) \in Nat /\ Cardinality(SliceTicks) \in Nat /\ Cardinality(Ticks) \in Nat
    BY <1>2, <2>1, <2>2, <2>3, FS_CardinalityType
  <2>5. QED
    BY <1>2, <2>1, <2>2, <2>3, <2>4, ScheduleAssumption
<1>5. QED
  BY <1>3, <1>4

=============================================================================

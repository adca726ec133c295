--------------------------- MODULE ExecutionProofs ---------------------------
(***************************************************************************)
(* The ledger under any legal sequence of calls: its types, that it never  *)
(* oversells the parent, that its depth is the market's less its debits,   *)
(* that it takes the best prices first, and that no level is overdrawn.    *)
(* Then the two walks an execution really is: they are together one        *)
(* execution, and the costs they book add up to the reported shortfall.    *)
(***************************************************************************)
EXTENDS ExecutionHistory, ChildExecution, LedgerProofs

\* The inductive invariant: the ledger is sound, and its depth exact.
IInv ==
    /\ Sound(ledger)
    /\ model \in Models /\ raw \in Depth
    /\ DepthIsRawLessDebits

\* A new ledger satisfies the invariant.
LEMMA InitHolds == Init => IInv
BY EmptySound DEF Init, IInv, DepthIsRawLessDebits, EmptyLedger

\* Every operation keeps it.
LEMMA SubmitPreserves ==
    ASSUME IInv, NEW qty \in Sizes, NEW limit \in Limits, Submit(qty, limit)
    PROVE  IInv'
<1>1. qty \in Nat /\ limit \in Prices \cup {NoLimit} /\ qty <= Available(ledger.children)
  BY CallerAssumption DEF Submit
<1>2. /\ Sound(ledger') /\ ledger'.depth = ledger.depth /\ ledger'.debits = ledger.debits
  BY <1>1, SubmittedSound DEF Submit, IInv
<1>3. QED
  BY <1>2 DEF Submit, IInv, DepthIsRawLessDebits

\* A cancellation keeps the invariant: it releases what the child reserved.
LEMMA CancelPreserves ==
    ASSUME IInv, NEW i \in DOMAIN ledger.children, Cancel(i)
    PROVE  IInv'
<1> DEFINE after == Cancelled(ledger, i)
<1>1. Sound(after) /\ after.depth = ledger.depth /\ after.debits = ledger.debits
  BY CancelledSound DEF IInv
<1>2. QED
  <2> HIDE DEF after
  <2> QED
    BY <1>1 DEF after, Cancel, IInv, DepthIsRawLessDebits

\* An execution keeps it: what is filled was reserved and was in the depth.
LEMMA ExecutePreserves ==
    ASSUME IInv, NEW i \in DOMAIN ledger.children, Execute(i)
    PROVE  IInv'
<1>1. Sound(ledger') /\ ledger'.depth = Residual(raw, ledger'.debits)
  BY ExecutedSound DEF Execute, IInv, DepthIsRawLessDebits
<1>2. QED
  BY <1>1 DEF Execute, IInv, DepthIsRawLessDebits

\* What is observed is a depth.
LEMMA ObservedType ==
    ASSUME NEW depth \in Depth, NEW m \in Changes
    PROVE  DepthAfter([depth |-> depth], m) \in Depth
BY ChangesAssumption, DepthAfterType

\* An observation keeps it: the depth is computed afresh from the debits.
LEMMA ObservePreserves ==
    ASSUME IInv, NEW m \in Changes, Observe(m)
    PROVE  IInv'
<1>1. raw' \in Depth
  BY ObservedType DEF Observe, IInv
<1>2. Sound(ledger') /\ ledger'.depth = Residual(raw', ledger'.debits)
  BY <1>1, ObservedSound DEF Observe, IInv
<1>3. QED
  BY <1>1, <1>2 DEF Observe, IInv, DepthIsRawLessDebits

\* Every step keeps the invariant.
LEMMA NextPreserves == IInv /\ [Next]_vars => IInv'
<1> SUFFICES ASSUME IInv, [Next]_vars PROVE IInv'
  OBVIOUS
<1>1. CASE \E qty \in Sizes, limit \in Limits : Submit(qty, limit)
  BY <1>1, SubmitPreserves
<1>2. CASE \E i \in DOMAIN ledger.children : Cancel(i) \/ Execute(i)
  BY <1>2, CancelPreserves, ExecutePreserves
<1>3. CASE \E m \in Changes : Observe(m)
  BY <1>3, ObservePreserves
<1>4. CASE UNCHANGED vars
  BY <1>4 DEF vars, IInv, DepthIsRawLessDebits
<1>5. QED
  BY <1>1, <1>2, <1>3, <1>4 DEF Next

\* Every reachable state satisfies the inductive invariant.
THEOREM Invariant == Spec => []IInv
BY InitHolds, NextPreserves, PTL DEF Spec

\* The types of the ledger.
THEOREM TypeCorrect == Spec => []TypeOK
<1>1. IInv => TypeOK
  BY DEF IInv, Sound, TypeOK
<1>2. QED
  BY <1>1, Invariant, PTL

\* Whatever is submitted, cancelled, filled or observed, in whatever order,
\* what is filled and what is reserved fit the parent.
THEOREM ParentNeverOversold == Spec => []NeverOversold
<1>1. IInv => NeverOversold
  BY DEF IInv, Sound, NeverOversold
<1>2. QED
  BY <1>1, Invariant, PTL

\* The depth execute shrinks and the depth observe computes are the same:
\* the market's, less the debits in force.
THEOREM DepthIsExact == Spec => []DepthIsRawLessDebits
<1>1. IInv => DepthIsRawLessDebits
  BY DEF IInv
<1>2. QED
  BY <1>1, Invariant, PTL

\* Executing a child takes the best prices first.
LEMMA ExecuteTakesBest ==
    ASSUME IInv, NEW i \in DOMAIN ledger.children, Execute(i)
    PROVE  TookBest(ledger'.children[i])
<1> DEFINE child == ledger.children[i]
           fills == FillsOf(ledger.depth, child.qty, child.limit)
           done == Outcome(child, fills)
<1>1. /\ child \in Child /\ fills \in [Prices -> Nat] /\ Total(fills) \in Nat
      /\ ledger.depth \in Depth /\ ledger.children \in Seq(Child)
  BY ExecutedFills DEF IInv, Sound
<1>2. /\ ledger'.children[i] = done /\ ledger'.depth = Less(ledger.depth, fills)
  BY <1>1 DEF Execute, Executed
<1>3. /\ child.qty \in Nat /\ child.limit \in Prices \cup {NoLimit}
      /\ done.fills = fills /\ done.limit = child.limit
      /\ done.status # "filled" => Total(fills) # child.qty
  <2> HIDE DEF fills, child
  <2>1. QED
    BY <1>1 DEF Outcome, Child
<1>4. \A p \in Prices : Left(p) = ledger.depth[<<Opposite, p>>] - fills[p]
                            /\ ledger.depth[<<Opposite, p>>] \in Nat
  <2> HIDE DEF fills
  <2>1. QED
    BY <1>1, <1>2, OppositeKeys DEF Left, Less, Taken, Depth
<1>5. \A p \in Prices : Inside(done, p) <=> Eligible(child.limit, p)
  <2> HIDE DEF done, child
  <2>1. QED
    BY <1>3, ParentAssumption DEF Inside, Eligible
<1>6. ASSUME NEW p \in Prices, fills[p] > 0
      PROVE  Inside(done, p) /\ \A b \in Prices : Better(b, p) => Left(b) = 0
  <2>1. Eligible(child.limit, p)
    <3>1. ~Eligible(child.limit, p) => fills[p] = 0
      BY <1>1, <1>3, FillsBounded
    <3>2. QED
      BY <3>1, <1>6
  <2>2. ASSUME NEW b \in Prices, Better(b, p)
        PROVE  fills[b] = ledger.depth[<<Opposite, b>>]
    BY <1>1, <1>3, <1>6, <2>2, BestFirst
  <2>3. Inside(done, p)
    BY <1>5, <2>1
  <2>4. ASSUME NEW b \in Prices, Better(b, p)
        PROVE  Left(b) = 0
    <3>1. fills[b] = ledger.depth[<<Opposite, b>>]
      BY <2>2, <2>4
    <3>2. /\ Left(b) = ledger.depth[<<Opposite, b>>] - fills[b]
          /\ ledger.depth[<<Opposite, b>>] \in Nat
      BY <1>4
    <3> HIDE DEF fills
    <3>3. QED
      BY <3>1, <3>2
  <2>5. QED
    BY <2>3, <2>4
<1>7. ASSUME done.status # "filled", NEW p \in Prices, Inside(done, p)
      PROVE  Left(p) = 0
  <2>1. Eligible(child.limit, p) /\ Total(fills) # child.qty
    BY <1>3, <1>5, <1>7
  <2>2. fills[p] = ledger.depth[<<Opposite, p>>]
    BY <1>1, <1>3, <2>1, ShortTakesAll
  <2> HIDE DEF fills
  <2>3. QED
    BY <1>4, <2>2
<1>8. StatusTells(done)
  <2>1. Total(fills) <= child.qty
    BY <1>1, ExecutedFills DEF IInv, Sound
  <2> HIDE DEF fills, child
  <2>2. done.qty = child.qty
        /\ done.status = IF Total(fills) = child.qty THEN "filled"
                         ELSE IF Total(fills) = 0 THEN "unfilled" ELSE "partial"
    BY <1>1 DEF Outcome, Child
  <2> HIDE DEF done
  <2>3. QED
    BY <1>1, <1>3, <2>1, <2>2 DEF StatusTells
<1>9. QED
  <2> HIDE DEF fills, done
  <2> QED
    BY <1>2, <1>3, <1>6, <1>7, <1>8 DEF TookBest

\* Only Execute fills a child, so every child is filled best price first, and
\* has the status its fills come to.
THEOREM TakesBestPricesFirst == Spec => BestPriceFirst
<1>1. ASSUME IInv, [Next]_vars, NEW i \in DOMAIN ledger.children, Fresh(i)
      PROVE  TookBest(ledger'.children[i])
  <2>1. ledger.children[i].status = "reserved" /\ ledger'.children[i].status # "reserved"
        /\ ledger'.children[i].status # "cancelled" /\ ledger.children \in Seq(Child)
        /\ ledger \in [depth : Depth, children : Seq(Child), debits : [Keys -> Nat]]
    BY <1>1 DEF Fresh, IInv, Sound
  <2>2. CASE \E qty \in Sizes, limit \in Limits : Submit(qty, limit)
    <3>1. ledger'.children[i] = ledger.children[i]
      BY <2>1, <2>2 DEF Submit, Submitted
    <3>2. QED
      BY <2>1, <3>1
  <2>3. ASSUME NEW j \in DOMAIN ledger.children, Cancel(j)
        PROVE  FALSE
    <3>1. ledger'.children = [ledger.children EXCEPT ![j] =
                                  [ledger.children[j] EXCEPT !.status = "cancelled"]]
      BY <2>1, <2>3 DEF Cancel, Cancelled
    <3>2. ledger.children[j] \in Child
      BY <2>1
    <3>3. j = i => ledger'.children[i].status = "cancelled"
      BY <2>1, <3>1, <3>2 DEF Child
    <3>4. j # i => ledger'.children[i] = ledger.children[i]
      BY <2>1, <3>1
    <3>5. QED
      BY <2>1, <3>3, <3>4
  <2>4. ASSUME NEW j \in DOMAIN ledger.children, Execute(j)
        PROVE  TookBest(ledger'.children[i])
    <3>1. j # i => ledger'.children[i] = ledger.children[i]
      BY <2>1, <2>4 DEF Execute, Executed
    <3>2. j = i
      BY <2>1, <3>1
    <3>3. QED
      BY <1>1, <2>4, <3>2, ExecuteTakesBest
  <2>5. CASE \E m \in Changes : Observe(m)
    <3>1. ledger'.children[i] = ledger.children[i]
      BY <2>1, <2>5 DEF Observe, Observed
    <3>2. QED
      BY <2>1, <3>1
  <2>6. CASE UNCHANGED vars
    BY <2>1, <2>6 DEF vars
  <2>7. QED
    BY <1>1, <2>2, <2>3, <2>4, <2>5, <2>6 DEF Next
<1>2. IInv /\ [Next]_vars =>
          [\A i \in DOMAIN ledger.children : Fresh(i) => TookBest(ledger'.children[i])]_vars
  BY <1>1
<1>3. QED
  BY <1>2, Invariant, PTL DEF Spec, BestPriceFirst

-----------------------------------------------------------------------------
\* The history variables only watch.
LEMMA HistoryOnlyWatches == HistorySpec => Spec
<1>1. HistoryInit => Init
  BY DEF HistoryInit
<1>2. [HistoryNext]_<<vars, peak, taken>> => [Next]_vars
  BY DEF HistoryNext, Next, vars
<1>3. QED
  BY <1>1, <1>2, PTL DEF HistorySpec, Spec

\* What was taken since a level was last superseded is what it is debited,
\* and a level never shows more than its peak.
HistoryInv ==
    /\ taken = ledger.debits
    /\ peak \in Depth
    /\ \A k \in Keys : raw[k] <= peak[k]
    /\ NoLevelOverdrawn

\* Nothing has been taken from any level at first.
LEMMA HistoryStarts == HistoryInit => HistoryInv
<1> SUFFICES ASSUME HistoryInit PROVE HistoryInv
  OBVIOUS
<1>1. taken = ledger.debits
  BY DEF HistoryInit, Init, EmptyLedger, EmptyDepth, NoDebits
<1>2. /\ peak = EmptyDepth /\ raw = EmptyDepth /\ taken = EmptyDepth
      /\ EmptyDepth \in Depth /\ \A k \in Keys : EmptyDepth[k] <= EmptyDepth[k]
  BY DEF HistoryInit, Init, EmptyDepth, Depth
<1>3. QED
  BY <1>1, <1>2 DEF HistoryInv, NoLevelOverdrawn

\* Every step keeps account of what was taken since a level was set.
LEMMA HistoryPreserves ==
    ASSUME IInv, HistoryInv, [HistoryNext]_<<vars, peak, taken>>
    PROVE  HistoryInv'
<1>0. /\ ledger \in [depth : Depth, children : Seq(Child), debits : [Keys -> Nat]]
      /\ raw \in Depth /\ model \in Models
      /\ taken = ledger.debits /\ peak \in Depth
      /\ \A k \in Keys : raw[k] <= peak[k] /\ taken[k] <= peak[k]
      /\ DepthIsRawLessDebits
  BY DEF IInv, Sound, HistoryInv, NoLevelOverdrawn
<1>1. CASE /\ \/ \E qty \in Sizes, limit \in Limits : Submit(qty, limit)
              \/ \E i \in DOMAIN ledger.children : Cancel(i)
           /\ UNCHANGED <<peak, taken>>
  <2>1. ledger'.debits = ledger.debits /\ raw' = raw
    BY <1>0, <1>1 DEF Submit, Submitted, Cancel, Cancelled
  <2>2. QED
    BY <1>0, <1>1, <2>1 DEF HistoryInv, NoLevelOverdrawn
<1>2. ASSUME NEW i \in DOMAIN ledger.children, Execute(i), UNCHANGED peak,
             taken' = [k \in Keys |-> taken[k] + Taken(ledger'.children[i].fills, k)]
      PROVE  HistoryInv'
  <2> DEFINE child == ledger.children[i]
             fills == FillsOf(ledger.depth, child.qty, child.limit)
  <2>1. /\ child \in Child
        /\ \A k \in Keys : Taken(fills, k) \in Nat /\ Taken(fills, k) <= ledger.depth[k]
    BY ExecutedFills DEF IInv
  <2>2. /\ ledger'.children[i].fills = fills /\ raw' = raw
        /\ ledger'.debits = [k \in Keys |-> ledger.debits[k] + Taken(fills, k)]
    <3>1. /\ ledger'.children[i] = Outcome(child, fills) /\ raw' = raw
          /\ ledger'.debits = [k \in Keys |-> ledger.debits[k] + Taken(fills, k)]
      BY <1>0, <1>2 DEF Execute, Executed
    <3> HIDE DEF fills, child
    <3>2. QED
      BY <2>1, <3>1 DEF Outcome, Child
  <2>3. taken' = ledger'.debits
    <3> HIDE DEF fills
    <3> QED
      BY <1>0, <1>2, <2>2
  <2>4. ASSUME NEW k \in Keys
        PROVE  taken'[k] <= peak'[k]
    <3>1. taken'[k] = taken[k] + Taken(fills, k) /\ peak'[k] = peak[k]
      BY <1>2, <2>2
    <3>2. ledger.depth[k] = Larger(0, raw[k] - taken[k])
      BY <1>0 DEF DepthIsRawLessDebits, Residual
    <3>3. raw[k] \in Nat /\ taken[k] \in Nat /\ peak[k] \in Nat
      BY <1>0 DEF Depth
    <3>4. Taken(fills, k) \in Nat /\ Taken(fills, k) <= ledger.depth[k]
      BY <2>1
    <3>5. raw[k] <= peak[k] /\ taken[k] <= peak[k]
      BY <1>0
    <3> HIDE DEF fills
    <3>6. QED
      BY <3>1, <3>2, <3>3, <3>4, <3>5 DEF Larger
  <2>5. QED
    BY <1>0, <1>2, <2>2, <2>3, <2>4 DEF HistoryInv, NoLevelOverdrawn
<1>3. ASSUME NEW m \in Changes, Observe(m),
             peak' = [k \in Keys |->
                  IF Supersedes(m, k) THEN raw'[k] ELSE Larger(peak[k], raw'[k])],
             taken' = [k \in Keys |-> IF Supersedes(m, k) THEN 0 ELSE taken[k]]
      PROVE  HistoryInv'
  <2>1. ledger'.debits = Refresh(model, ledger.debits, m)
    BY <1>0, <1>3 DEF Observe, Observed
  <2>2. raw' \in Depth
    BY <1>0, <1>3, ObservedType DEF Observe
  <2>3. taken' = ledger'.debits
    BY <1>0, <1>3, <2>1 DEF Refresh, NoDebits, Supersedes, Models
  <2>4. ASSUME NEW k \in Keys
        PROVE  peak'[k] \in Nat /\ raw'[k] <= peak'[k] /\ taken'[k] <= peak'[k]
    <3>1. raw'[k] \in Nat /\ peak[k] \in Nat /\ taken[k] \in Nat /\ taken[k] <= peak[k]
      BY <1>0, <2>2 DEF Depth
    <3>2. peak'[k] = IF Supersedes(m, k) THEN raw'[k] ELSE Larger(peak[k], raw'[k])
      BY <1>3
    <3>3. taken'[k] = IF Supersedes(m, k) THEN 0 ELSE taken[k]
      BY <1>3
    <3>4. QED
      BY <3>1, <3>2, <3>3 DEF Larger
  <2>5. peak' \in Depth
    BY <1>3, <2>4 DEF Depth
  <2>6. QED
    BY <2>3, <2>4, <2>5 DEF HistoryInv, NoLevelOverdrawn
<1>4. CASE UNCHANGED <<vars, peak, taken>>
  BY <1>4 DEF vars, HistoryInv, NoLevelOverdrawn
<1>5. QED
  BY <1>1, <1>2, <1>3, <1>4 DEF HistoryNext

\* Own orders never take more of a level than the market showed there since
\* a message last superseded them.
THEOREM LevelsNotOverdrawn == HistorySpec => []NoLevelOverdrawn
<1>1. HistorySpec => []IInv
  BY HistoryOnlyWatches, Invariant, PTL
<1>2. HistoryInv => NoLevelOverdrawn
  BY DEF HistoryInv
<1>3. QED
  BY <1>1, <1>2, HistoryStarts, HistoryPreserves, PTL DEF HistorySpec

-----------------------------------------------------------------------------
\* The two walks of an execution.

\* Every nonempty set of prices has a best one.
LEMMA BestPrice ==
    ASSUME NEW T \in SUBSET Prices, T # {}
    PROVE  \E w \in T : \A p \in T \ {w} : Better(w, p)
<1>1. T \in SUBSET Nat /\ IsFiniteSet(T)
  BY PricesAssumption, ParentAssumption, FS_Subset
<1>2. CASE Side = "BUY"
  <2>1. PICK w \in T : \A p \in T : w <= p
    BY <1>1, LeastNatural
  <2>2. QED
    BY <1>1, <1>2, <2>1 DEF Better
<1>3. CASE Side = "SELL"
  <2>1. PICK w \in T : \A p \in T : p <= w
    BY <1>1, GreatestOfFinite
  <2>2. QED
    BY <1>1, <1>3, <2>1 DEF Better
<1>4. QED
  BY <1>2, <1>3, ParentAssumption

\* A walk has the best levels behind it.
InOrder(depth, limit, levels) ==
    /\ levels \subseteq Levels(depth, limit)
    /\ \A p \in Levels(depth, limit) \ levels, q \in levels : Better(p, q)

\* What a walk has behind it is at any moment what a child takes there.
LEMMA WalkTotal ==
    ASSUME NEW depth \in Depth, NEW qty \in Nat, NEW limit, NEW levels, levels # {},
           InOrder(depth, limit, levels), NEW w \in levels, \A q \in levels \ {w} : Better(w, q)
    PROVE  LET fills == FillsOf(depth, qty, limit)
           IN  SumFunctionOnSet(fills, Levels(depth, limit) \ levels)
                   = Smaller(qty, Ahead(depth, limit, w))
<1> DEFINE fills == FillsOf(depth, qty, limit)
           seen == Levels(depth, limit) \ levels
           A == {b \in Prices : Eligible(limit, b) /\ Better(b, w)}
<1>1. w \in Prices /\ Prices \subseteq Nat /\ levels \subseteq Prices
  BY PricesAssumption DEF InOrder, Levels
<1>2. Front(limit, A)
  BY <1>1 DEF Front, Better
<1>3. SumFunctionOnSet(fills, A) = Smaller(qty, SumFunctionOnSet(Offered(depth), A))
  BY <1>2, FrontTotal
<1>4. fills \in [Prices -> Nat] /\ \A p \in Prices : fills[p] <= depth[<<Opposite, p>>]
  BY FillsBounded
<1>5. seen \in SUBSET A
  BY <1>1 DEF InOrder, Levels
<1>6. \A p \in A \ seen : fills[p] = 0
  <2> SUFFICES ASSUME NEW p \in A \ seen PROVE fills[p] = 0
    OBVIOUS
  <2>1. p \notin levels
    <3>1. p # w
      BY <1>1 DEF Better
    <3>2. p \in levels \ {w} => FALSE
      BY <1>1 DEF Better
    <3>3. QED
      BY <3>1, <3>2
  <2>2. depth[<<Opposite, p>>] \in Nat /\ ~(depth[<<Opposite, p>>] > 0)
    BY <2>1, OppositeKeys DEF Depth, Levels
  <2> HIDE DEF fills, seen
  <2>3. QED
    BY <1>4, <2>2
<1>7. SumFunctionOnSet(fills, A) = SumFunctionOnSet(fills, seen)
  <2>1. IsFiniteSet(A) /\ A \subseteq Prices
    BY SumOffered
  <2> HIDE DEF fills, seen, A
  <2>2. QED
    BY <1>4, <1>5, <1>6, <2>1, SumSupport
<1>8. QED
  BY <1>3, <1>7 DEF Ahead

\* So the level it comes to next gives what the child takes there.
LEMMA WalkStep ==
    ASSUME NEW depth \in Depth, NEW qty \in Nat, NEW limit, NEW levels, levels # {},
           InOrder(depth, limit, levels), NEW w \in levels, \A q \in levels \ {w} : Better(w, q)
    PROVE  /\ FillsOf(depth, qty, limit)[w] \in Nat
           /\ FillsOf(depth, qty, limit)[w]
                  = Smaller(depth[<<Opposite, w>>],
                            qty - SumFunctionOnSet(FillsOf(depth, qty, limit),
                                                   Levels(depth, limit) \ levels))
<1> DEFINE fills == FillsOf(depth, qty, limit)
           seen == Levels(depth, limit) \ levels
           got == SumFunctionOnSet(fills, seen)
<1>1. w \in Prices /\ Eligible(limit, w)
  BY DEF InOrder, Levels
<1>2. got = Smaller(qty, Ahead(depth, limit, w))
  BY WalkTotal
<1>3. Ahead(depth, limit, w) \in Nat /\ depth[<<Opposite, w>>] \in Nat
  BY <1>1, AheadType, OppositeKeys DEF Depth
<1>4. qty - got = Larger(0, qty - Ahead(depth, limit, w))
  BY <1>2, <1>3 DEF Smaller, Larger
<1>5. fills[w] = Smaller(depth[<<Opposite, w>>], qty - got)
  BY <1>1, <1>4 DEF FillsOf
<1>6. fills[w] \in Nat
  BY <1>1, FillsBounded
<1>7. QED
  BY <1>5, <1>6

\* It is then behind the walk.
LEMMA WalkOn ==
    ASSUME NEW f \in [Prices -> Nat], NEW S \in SUBSET Prices, NEW levels \in SUBSET S,
           NEW w \in levels
    PROVE  /\ S \ (levels \ {w}) = (S \ levels) \cup {w}
           /\ SumFunctionOnSet(f, S \ (levels \ {w})) = SumFunctionOnSet(f, S \ levels) + f[w]
           /\ SumFunctionOnSet(f, S \ levels) \in Nat
<1> DEFINE seen == S \ levels
<1>1. IsFiniteSet(seen) /\ seen \in SUBSET Prices /\ w \notin seen /\ w \in Prices
  <2>1. seen \in SUBSET Prices /\ w \notin seen /\ w \in Prices
    OBVIOUS
  <2>2. QED
    BY <2>1, ParentAssumption, FS_Subset
<1>2. S \ (levels \ {w}) = seen \cup {w}
  OBVIOUS
<1> HIDE DEF seen
<1>3. SumFunctionOnSet(f, seen \cup {w}) = f[w] + SumFunctionOnSet(f, seen)
  BY <1>1, SumAdd
<1>4. SumFunctionOnSet(f, seen) \in Nat /\ f[w] \in Nat
  BY <1>1, SumType
<1>5. SumFunctionOnSet(f, seen \cup {w}) = SumFunctionOnSet(f, seen) + f[w]
  BY <1>3, <1>4
<1>6. QED
  BY <1>2, <1>4, <1>5 DEF seen

\* And the rest is still in order.
LEMMA WalkInOrder ==
    ASSUME NEW depth, NEW limit, NEW levels, InOrder(depth, limit, levels),
           NEW w \in levels, \A q \in levels \ {w} : Better(w, q)
    PROVE  InOrder(depth, limit, levels \ {w})
BY DEF InOrder

\* The second walk, which knows no limit, takes what the first one found.
LEMMA SecondWalk ==
    ASSUME NEW depth \in Depth, NEW qty \in Nat, NEW limit \in Prices \cup {NoLimit}
    PROVE  LET fills == FillsOf(depth, qty, limit)
           IN  FillsOf(depth, Total(fills), NoLimit) = fills
<1> DEFINE E == {p \in Prices : Eligible(limit, p)}
           T == SumFunctionOnSet(Offered(depth), E)
           fills == FillsOf(depth, qty, limit)
           found == Total(fills)
<1>1. found = Smaller(qty, T)
  BY FillsTotal
<1>2. E \in SUBSET Prices /\ T \in Nat /\ IsFiniteSet(E) /\ \A x \in E : Offered(depth)[x] \in Nat
  BY SumOffered, OfferedType
<1>0. \A b : Eligible(NoLimit, b)
  BY DEF Eligible
<1>3. ASSUME NEW p \in Prices
      PROVE  FillsOf(depth, found, NoLimit)[p] = fills[p]
  <2> DEFINE A == {b \in Prices : Eligible(limit, b) /\ Better(b, p)}
             Z == {b \in Prices : Eligible(NoLimit, b) /\ Better(b, p)}
             size == depth[<<Opposite, p>>]
             had == SumFunctionOnSet(Offered(depth), A)
             all == SumFunctionOnSet(Offered(depth), Z)
  <2>1. /\ size \in Nat /\ had \in Nat /\ all \in Nat /\ had = Ahead(depth, limit, p)
        /\ all = Ahead(depth, NoLimit, p)
    BY SumOffered, OppositeKeys DEF Depth, Ahead
  <2>2. FillsOf(depth, found, NoLimit)[p] = Smaller(size, Larger(0, found - all))
    BY <2>1 DEF FillsOf, Eligible
  <2>3. CASE Eligible(limit, p)
    <3>1. A = Z
      <4>1. ASSUME NEW b \in Prices, Better(b, p) PROVE Eligible(limit, b)
        BY <4>1, <2>3, BetterEligible
      <4>2. QED
        BY <1>0, <4>1
    <3>2. had + size <= T
      <4>1. /\ A \cup {p} \in SUBSET E /\ p \notin A /\ IsFiniteSet(A)
            /\ \A x \in A \cup {p} : Offered(depth)[x] \in Nat /\ Offered(depth)[p] = size
        <5>1. A \cup {p} \in SUBSET E
          BY <2>3
        <5>2. p \notin A
          BY PricesAssumption DEF Better
        <5>3. IsFiniteSet(A)
          BY SumOffered
        <5>4. Offered(depth)[p] = size /\ \A x \in Prices : Offered(depth)[x] \in Nat
          BY OfferedType DEF Offered
        <5>5. QED
          BY <5>1, <5>2, <5>3, <5>4
      <4>2. SumFunctionOnSet(Offered(depth), A \cup {p}) = size + had
        BY <4>1, SumAdd
      <4>3. SumFunctionOnSet(Offered(depth), A \cup {p}) <= T
        BY <1>2, <4>1, SumSubset
      <4>4. QED
        BY <2>1, <4>2, <4>3
    <3>3. fills[p] = Smaller(size, Larger(0, qty - had))
      BY <2>1, <2>3 DEF FillsOf
    <3>4. all = had
      BY <3>1
    <3> HIDE DEF fills, found, T, had, all, size
    <3>5. QED
      BY <1>1, <1>2, <2>1, <2>2, <3>2, <3>3, <3>4 DEF Smaller, Larger
  <2>4. CASE ~Eligible(limit, p)
    <3>1. E \in SUBSET Z
      <4>1. ASSUME NEW b \in Prices, Eligible(limit, b) PROVE Better(b, p)
        BY <4>1, <2>4, PricesAssumption DEF Eligible, Better
      <4>2. QED
        BY <1>0, <4>1
    <3>2. T <= all
      <4>1. IsFiniteSet(Z) /\ \A x \in Z : Offered(depth)[x] \in Nat
        BY SumOffered, OfferedType
      <4>2. QED
        BY <3>1, <4>1, SumSubset
    <3>3. fills[p] = 0
      BY <2>4 DEF FillsOf
    <3> HIDE DEF fills, found, T, all, size
    <3>4. QED
      BY <1>1, <1>2, <2>1, <2>2, <3>2, <3>3 DEF Smaller, Larger
  <2>5. QED
    BY <2>3, <2>4
<1>4. QED
  <2>1. FillsOf(depth, found, NoLimit) = [p \in Prices |-> FillsOf(depth, found, NoLimit)[p]]
    BY DEF FillsOf
  <2>2. fills = [p \in Prices |-> fills[p]]
    BY DEF FillsOf
  <2> HIDE DEF fills, found
  <2>3. QED
    BY <1>3, <2>1, <2>2 DEF fills, found

\* Best first is a choice: a walk goes on to the best level left.
LEMMA NextIsBest ==
    ASSUME NEW T \in SUBSET Prices, walk.levels = T, T # {}
    PROVE  NextLevel \in walk.levels /\ \A q \in walk.levels \ {NextLevel} : Better(NextLevel, q)
<1>1. \E w \in T : \A q \in T \ {w} : Better(w, q)
  BY BestPrice
<1>2. QED
  BY <1>1 DEF NextLevel

\* The child being executed, what it takes at every price, and what that costs.
Working == ledger.children[walk.child]

Due == FillsOf(ledger.depth, Working.qty, Working.limit)

Paid(fills) == [p \in Prices |-> p * fills[p]]

\* The types of a walk.
Walks ==
    [phase : {"idle", "quote", "consume"}, child : Nat, levels : SUBSET Prices,
     remaining : Nat, filled : Nat, notional : Nat, unfilled : Nat,
     fills : [Prices -> Nat], residual : [Prices -> Nat]]

\* The first walk has found so far what the child takes at the levels behind.
Quoting ==
    LET seen == Levels(ledger.depth, Working.limit) \ walk.levels
    IN  /\ InOrder(ledger.depth, Working.limit, walk.levels)
        /\ walk.filled = SumFunctionOnSet(Due, seen)
        /\ walk.notional = SumFunctionOnSet(Paid(Due), seen)
        /\ walk.remaining = Working.qty - walk.filled
        /\ walk.fills = NoFills /\ walk.residual = NoFills

\* The second walk has all of the first one's answer, and the fills so far.
Consuming ==
    LET seen == Levels(ledger.depth, NoLimit) \ walk.levels
    IN  /\ InOrder(ledger.depth, NoLimit, walk.levels)
        /\ walk.filled = Total(Due) /\ walk.notional = Notional(Due)
        /\ walk.unfilled = Working.qty - walk.filled
        /\ walk.remaining = walk.filled - SumFunctionOnSet(Due, seen)
        /\ walk.fills = [p \in Prices |-> IF p \in seen THEN Due[p] ELSE 0]
        /\ walk.residual = [p \in Prices |-> IF p \in seen THEN Size(p) - Due[p] ELSE 0]

\* The inductive invariant of the walks, beside that of the ledger.
WalkInv ==
    /\ walk \in Walks
    /\ walk.phase = "idle" => walk = NoWalk
    /\ walk.phase # "idle" =>
           walk.child \in DOMAIN ledger.children /\ Working.status = "reserved"
    /\ walk.phase = "quote" => Quoting
    /\ walk.phase = "consume" => Consuming

\* The child being executed, and what it takes.
LEMMA WorkingFacts ==
    ASSUME IInv, WalkInv, walk.phase # "idle"
    PROVE  /\ Working \in Child /\ Working.qty \in Nat
           /\ Working.limit \in Prices \cup {NoLimit}
           /\ ledger.depth \in Depth
           /\ Due \in [Prices -> Nat] /\ Total(Due) \in Nat /\ Total(Due) <= Working.qty
           /\ \A p \in Prices : Due[p] <= ledger.depth[<<Opposite, p>>]
           /\ \A p \in Prices : ~Eligible(Working.limit, p) => Due[p] = 0
<1>1. walk.child \in DOMAIN ledger.children
  BY DEF WalkInv
<1>2. Working \in Child /\ Total(Due) \in Nat /\ Total(Due) <= Working.qty
  BY <1>1, ExecutedFills DEF IInv, Working, Due
<1>3. ledger.depth \in Depth
  BY DEF IInv, Sound
<1>4. Working.qty \in Nat /\ Working.limit \in Prices \cup {NoLimit}
  BY <1>2 DEF Child
<1>5. /\ Due \in [Prices -> Nat]
      /\ \A p \in Prices : Due[p] <= ledger.depth[<<Opposite, p>>]
      /\ \A p \in Prices : ~Eligible(Working.limit, p) => Due[p] = 0
  BY <1>3, <1>4, FillsBounded DEF Due
<1>6. QED
  BY <1>2, <1>3, <1>4, <1>5

\* What is paid at every price.
LEMMA PaidType ==
    ASSUME NEW fills \in [Prices -> Nat]
    PROVE  Paid(fills) \in [Prices -> Nat]
<1>1. ASSUME NEW p \in Prices PROVE p * fills[p] \in Nat
  <2>1. p \in Nat /\ fills[p] \in Nat
    BY PricesAssumption
  <2>2. QED
    BY <2>1
<1>2. QED
  BY <1>1 DEF Paid

\* When the levels are all behind, or nothing is left to look for, a walk has
\* found all the child takes.
LEMMA QuoteComplete ==
    ASSUME IInv, WalkInv, walk.phase = "quote", walk.levels = {} \/ walk.remaining = 0
    PROVE  walk.filled = Total(Due) /\ walk.notional = Notional(Due)
<1> DEFINE seen == Levels(ledger.depth, Working.limit) \ walk.levels
<1>1. /\ Working \in Child /\ Working.qty \in Nat
      /\ ledger.depth \in Depth
      /\ Due \in [Prices -> Nat] /\ Total(Due) \in Nat /\ Total(Due) <= Working.qty
      /\ \A p \in Prices : Due[p] <= ledger.depth[<<Opposite, p>>]
      /\ \A p \in Prices : ~Eligible(Working.limit, p) => Due[p] = 0
  BY WorkingFacts
<1>2. /\ walk.filled = SumFunctionOnSet(Due, seen)
      /\ walk.notional = SumFunctionOnSet(Paid(Due), seen)
      /\ walk.remaining = Working.qty - walk.filled /\ walk.filled \in Nat
  BY DEF WalkInv, Quoting, Walks
<1>3. seen \in SUBSET Prices /\ IsFiniteSet(Prices) /\ IsFiniteSet(seen)
  BY ParentAssumption, FS_Subset DEF Levels
<1>4. \A p \in Prices \ seen : Due[p] = 0
  <2> SUFFICES ASSUME NEW p \in Prices \ seen PROVE Due[p] = 0
    OBVIOUS
  <2>1. Due[p] \in Nat /\ ledger.depth[<<Opposite, p>>] \in Nat
    BY <1>1, OppositeKeys DEF Depth
  <2>2. CASE ~(ledger.depth[<<Opposite, p>>] > 0) \/ ~Eligible(Working.limit, p)
    BY <1>1, <2>1, <2>2
  <2>3. CASE ledger.depth[<<Opposite, p>>] > 0 /\ Eligible(Working.limit, p)
    <3>1. walk.levels # {} /\ p \notin seen
      BY <2>3 DEF Levels
    <3>2. SumFunctionOnSet(Due, seen) = Working.qty
      BY <1>1, <1>2, <3>1
    <3>3. SumFunctionOnSet(Due, seen \cup {p}) = Due[p] + SumFunctionOnSet(Due, seen)
      <4> HIDE DEF seen
      <4> QED
        BY <1>1, <1>3, <3>1, SumAdd
    <3>4. SumFunctionOnSet(Due, seen \cup {p}) <= Total(Due)
      <4> HIDE DEF seen
      <4> QED
        BY <1>1, <1>3, SumSubset DEF Total
    <3> HIDE DEF seen
    <3>5. QED
      BY <1>1, <2>1, <3>2, <3>3, <3>4
  <2>4. QED
    BY <2>2, <2>3
<1>5. Paid(Due) \in [Prices -> Nat] /\ \A p \in Prices \ seen : Paid(Due)[p] = 0
  <2>1. Paid(Due) \in [Prices -> Nat]
    BY <1>1, PaidType
  <2>2. ASSUME NEW p \in Prices \ seen PROVE Paid(Due)[p] = 0
    <3>1. Due[p] = 0 /\ p \in Nat
      BY <1>4, PricesAssumption
    <3>2. QED
      BY <3>1 DEF Paid
  <2>3. QED
    BY <2>1, <2>2
<1> HIDE DEF seen
<1>6. Total(Due) = SumFunctionOnSet(Due, seen)
  BY <1>1, <1>3, <1>4, SumSupport DEF Total
<1>7. Notional(Due) = SumFunctionOnSet(Paid(Due), Prices)
  BY DEF Notional, Paid
<1>8. Notional(Due) = SumFunctionOnSet(Paid(Due), seen)
  BY <1>3, <1>5, <1>7, SumSupport
<1>9. QED
  BY <1>2, <1>6, <1>8

\* Nothing else moves while a walk goes on.
LEMMA WorkingStays ==
    ASSUME UNCHANGED vars, walk'.child = walk.child
    PROVE  /\ Working' = Working /\ Due' = Due
           /\ \A p \in Prices : Size(p)' = Size(p)
  BY DEF vars, Working, Due, Size

\* The first walk starts with nothing behind it.
LEMMA StartQuoteWalks ==
    ASSUME IInv, WalkInv, NEW i \in DOMAIN ledger.children, StartQuote(i)
    PROVE  WalkInv'
<1> DEFINE child == ledger.children[i]
<1>1. /\ walk'.phase = "quote" /\ walk'.child = i
      /\ walk'.levels = Levels(ledger.depth, child.limit)
      /\ walk'.remaining = child.qty /\ walk'.filled = 0 /\ walk'.notional = 0
      /\ walk'.unfilled = 0 /\ walk'.fills = NoFills /\ walk'.residual = NoFills
      /\ walk' = [NoWalk EXCEPT !.phase = "quote", !.child = i,
                                !.levels = Levels(ledger.depth, child.limit),
                                !.remaining = child.qty]
      /\ child.status = "reserved" /\ UNCHANGED vars
  BY DEF StartQuote, NoWalk
<1>2. child \in Child /\ child.qty \in Nat /\ i \in Nat
  <2>1. ledger.children \in Seq(Child)
    BY DEF IInv, Sound
  <2>2. child \in Child /\ i \in Nat
    BY <2>1
  <2> HIDE DEF child
  <2>3. QED
    BY <2>2 DEF Child
<1>3. ledger' = ledger /\ Working' = child
  BY <1>1 DEF vars, Working
<1>4. NoFills \in [Prices -> Nat] /\ Levels(ledger.depth, child.limit) \in SUBSET Prices
  BY TotalNoFills DEF Levels
<1>5. walk' \in Walks
  <2> HIDE DEF child
  <2>1. walk' = [phase |-> "quote", child |-> i, levels |-> walk'.levels,
                 remaining |-> child.qty, filled |-> 0, notional |-> 0, unfilled |-> 0,
                 fills |-> NoFills, residual |-> NoFills]
    BY <1>1 DEF NoWalk
  <2>2. walk'.levels \in SUBSET Prices
    BY <1>1, <1>4
  <2>3. QED
    BY <1>2, <1>4, <2>1, <2>2 DEF Walks
<1>6. Quoting'
  <2> DEFINE seen == Levels(ledger.depth, child.limit) \ Levels(ledger.depth, child.limit)
  <2>1. seen = {}
    OBVIOUS
  <2>2. SumFunctionOnSet(Due', seen) = 0 /\ SumFunctionOnSet(Paid(Due)', seen) = 0
    BY <2>1, SumEmpty
  <2>3. InOrder(ledger.depth, child.limit, Levels(ledger.depth, child.limit))
    BY DEF InOrder
  <2> HIDE DEF child
  <2>4. QED
    BY <1>1, <1>2, <1>3, <2>2, <2>3 DEF Quoting
<1>7. QED
  <2> HIDE DEF child
  <2> QED
    BY <1>1, <1>3, <1>5, <1>6 DEF WalkInv, child

\* At every level it finds what the child takes there.
LEMMA QuoteLevelWalks ==
    ASSUME IInv, WalkInv, QuoteLevel
    PROVE  WalkInv'
<1> DEFINE w == NextLevel
           seen == Levels(ledger.depth, Working.limit) \ walk.levels
           after == Levels(ledger.depth, Working.limit) \ (walk.levels \ {w})
<1>1. /\ walk.phase = "quote" /\ walk.levels # {} /\ UNCHANGED vars
      /\ walk' = [walk EXCEPT !.filled = @ + Take, !.notional = @ + w * Take,
                              !.remaining = @ - Take, !.levels = @ \ {w}]
  BY DEF QuoteLevel
<1>2. /\ walk \in Walks /\ Quoting /\ Working.status = "reserved"
      /\ walk.child \in DOMAIN ledger.children /\ walk.levels \in SUBSET Prices
      /\ walk.filled \in Nat /\ walk.remaining \in Nat /\ walk.notional \in Nat
  BY <1>1 DEF WalkInv, Walks
<1>3. w \in walk.levels /\ w \in Prices /\ \A q \in walk.levels \ {w} : Better(w, q)
  BY <1>1, <1>2, NextIsBest
<1>4. /\ Working.qty \in Nat /\ Working.limit \in Prices \cup {NoLimit}
      /\ ledger.depth \in Depth /\ Due \in [Prices -> Nat]
  BY <1>1, WorkingFacts
<1>5. /\ InOrder(ledger.depth, Working.limit, walk.levels)
      /\ walk.filled = SumFunctionOnSet(Due, seen)
      /\ walk.notional = SumFunctionOnSet(Paid(Due), seen)
      /\ walk.remaining = Working.qty - walk.filled
      /\ walk.fills = NoFills /\ walk.residual = NoFills
  BY <1>2 DEF Quoting
<1>6. /\ Due[w] \in Nat
      /\ Due[w] = Smaller(ledger.depth[<<Opposite, w>>], Working.qty - SumFunctionOnSet(Due, seen))
      /\ SumFunctionOnSet(Due, after) = SumFunctionOnSet(Due, seen) + Due[w]
      /\ InOrder(ledger.depth, Working.limit, walk.levels \ {w})
      /\ after = seen \cup {w} /\ w \notin seen
  <2> HIDE DEF w
  <2>1. /\ Due[w] \in Nat
        /\ Due[w] = Smaller(ledger.depth[<<Opposite, w>>],
                            Working.qty - SumFunctionOnSet(Due, seen))
    BY <1>1, <1>3, <1>4, <1>5, WalkStep DEF Due
  <2>2. InOrder(ledger.depth, Working.limit, walk.levels \ {w})
    BY <1>3, <1>5, WalkInOrder
  <2>3. /\ Levels(ledger.depth, Working.limit) \in SUBSET Prices
        /\ walk.levels \in SUBSET Levels(ledger.depth, Working.limit)
    BY <1>5 DEF InOrder, Levels
  <2>4. /\ after = seen \cup {w}
        /\ SumFunctionOnSet(Due, after) = SumFunctionOnSet(Due, seen) + Due[w]
    BY <1>3, <1>4, <2>3, WalkOn
  <2>5. QED
    BY <1>3, <2>1, <2>2, <2>4
<1>7. Take = Due[w]
  BY <1>5, <1>6 DEF Take, Size
<1>8. /\ walk'.filled = walk.filled + Due[w] /\ walk'.notional = walk.notional + w * Due[w]
      /\ walk'.remaining = walk.remaining - Due[w] /\ walk'.levels = walk.levels \ {w}
      /\ walk'.phase = "quote" /\ walk'.child = walk.child
      /\ walk'.fills = NoFills /\ walk'.residual = NoFills /\ walk'.unfilled = walk.unfilled
      /\ DOMAIN walk' = DOMAIN walk
  <2> HIDE DEF w
  <2> QED
    BY <1>1, <1>2, <1>5, <1>7 DEF Walks
<1>9. Working' = Working /\ Due' = Due /\ ledger' = ledger
  BY <1>1, <1>8, WorkingStays DEF vars
<1>10. SumFunctionOnSet(Paid(Due), after) = walk.notional + w * Due[w]
  <2>1. Paid(Due) \in [Prices -> Nat] /\ Paid(Due)[w] = w * Due[w]
    <3> HIDE DEF w
    <3> QED
      BY <1>3, <1>4, PaidType DEF Paid
  <2>2. /\ Levels(ledger.depth, Working.limit) \in SUBSET Prices
        /\ walk.levels \in SUBSET Levels(ledger.depth, Working.limit)
    BY <1>5 DEF InOrder, Levels
  <2>3. SumFunctionOnSet(Paid(Due), after)
            = SumFunctionOnSet(Paid(Due), seen) + Paid(Due)[w]
    <3> HIDE DEF w
    <3> QED
      BY <1>3, <2>1, <2>2, WalkOn
  <2> HIDE DEF w, seen, after
  <2>4. QED
    BY <1>5, <2>1, <2>3
<1>11. walk'.remaining \in Nat /\ walk'.filled \in Nat /\ walk'.notional \in Nat
  <2>1. w * Due[w] \in Nat
    BY <1>3, <1>6, PricesAssumption
  <2>2. Due[w] <= walk.remaining
    <3>1. ledger.depth[<<Opposite, w>>] \in Nat
      BY <1>3, <1>4, OppositeKeys DEF Depth
    <3> HIDE DEF w, seen
    <3>2. QED
      BY <1>2, <1>5, <1>6, <3>1 DEF Smaller
  <2> HIDE DEF w
  <2>3. QED
    BY <1>2, <1>6, <1>8, <2>1, <2>2
<1>12. walk' \in Walks
  <2> HIDE DEF w
  <2> QED
    BY <1>1, <1>2, <1>8, <1>11, <1>7 DEF Walks
<1>13. Quoting'
  <2>1. /\ walk'.filled = SumFunctionOnSet(Due, after)
        /\ walk'.notional = SumFunctionOnSet(Paid(Due), after)
    <3> HIDE DEF w, seen, after
    <3> QED
      BY <1>5, <1>6, <1>8, <1>10
  <2>2. walk'.remaining = Working.qty - walk'.filled
    <3> HIDE DEF w
    <3> QED
      BY <1>2, <1>4, <1>5, <1>6, <1>8
  <2>3. Paid(Due)' = Paid(Due)
    BY <1>9 DEF Paid
  <2>4. after = Levels(ledger'.depth, Working'.limit) \ walk'.levels
    BY <1>8, <1>9
  <2>5. InOrder(ledger'.depth, Working'.limit, walk'.levels)
    BY <1>6, <1>8, <1>9
  <2> HIDE DEF w, seen, after
  <2>6. QED
    BY <1>8, <1>9, <2>1, <2>2, <2>3, <2>4, <2>5 DEF Quoting
<1>14. QED
  BY <1>2, <1>8, <1>9, <1>12, <1>13 DEF WalkInv

\* When the first walk ends it has found all the child takes.
LEMMA StartConsumeWalks ==
    ASSUME IInv, WalkInv, StartConsume
    PROVE  WalkInv'
<1> DEFINE all == Levels(ledger.depth, NoLimit)
<1>1. /\ walk.phase = "quote" /\ (walk.levels = {} \/ walk.remaining = 0) /\ UNCHANGED vars
      /\ walk' = [walk EXCEPT !.phase = "consume", !.unfilled = walk.remaining,
                              !.levels = all, !.remaining = walk.filled]
  BY DEF StartConsume
<1>2. /\ walk \in Walks /\ Working.status = "reserved"
      /\ walk.child \in DOMAIN ledger.children
      /\ walk.remaining = Working.qty - walk.filled
      /\ walk.fills = NoFills /\ walk.residual = NoFills
      /\ walk.filled \in Nat /\ walk.remaining \in Nat
  BY <1>1 DEF WalkInv, Walks, Quoting
<1>3. walk.filled = Total(Due) /\ walk.notional = Notional(Due)
  BY <1>1, QuoteComplete
<1>4. all \in SUBSET Prices
  BY DEF Levels
<1>5. /\ walk'.phase = "consume" /\ walk'.child = walk.child /\ walk'.levels = all
      /\ walk'.unfilled = walk.remaining /\ walk'.remaining = walk.filled
      /\ walk'.filled = walk.filled /\ walk'.notional = walk.notional
      /\ walk'.fills = walk.fills /\ walk'.residual = walk.residual
      /\ walk' \in Walks
  <2> HIDE DEF all
  <2> QED
    BY <1>1, <1>2, <1>4 DEF Walks
<1>6. /\ Working' = Working /\ Due' = Due /\ ledger' = ledger
      /\ \A p \in Prices : Size(p)' = Size(p)
  BY <1>1, <1>5, WorkingStays DEF vars
<1>7. Consuming'
  <2>1. all \ all = {} /\ SumFunctionOnSet(Due, all \ all) = 0
    <3>1. all \ all = {}
      OBVIOUS
    <3>2. QED
      BY <3>1, SumEmpty
  <2>2. /\ NoFills = [p \in Prices |-> IF p \in all \ all THEN Due[p] ELSE 0]
        /\ NoFills = [p \in Prices |-> IF p \in all \ all THEN Size(p)' - Due[p] ELSE 0]
    BY DEF NoFills
  <2>3. InOrder(ledger.depth, NoLimit, all)
    BY DEF InOrder
  <2>4. Levels(ledger'.depth, NoLimit) = all
    BY <1>6
  <2>5. Total(Due') = Total(Due) /\ Notional(Due') = Notional(Due)
    BY <1>6
  <2> HIDE DEF all
  <2>6. QED
    BY <1>2, <1>3, <1>5, <1>6, <2>1, <2>2, <2>3, <2>4, <2>5 DEF Consuming
<1>8. QED
  <2> HIDE DEF all
  <2> QED
    BY <1>2, <1>5, <1>6, <1>7 DEF WalkInv

\* The second walk takes at every level what the child takes there.
LEMMA ConsumeLevelWalks ==
    ASSUME IInv, WalkInv, ConsumeLevel
    PROVE  WalkInv'
<1> DEFINE w == NextLevel
           seen == Levels(ledger.depth, NoLimit) \ walk.levels
           after == Levels(ledger.depth, NoLimit) \ (walk.levels \ {w})
<1>1. /\ walk.phase = "consume" /\ walk.levels # {} /\ UNCHANGED vars
      /\ walk' = [walk EXCEPT !.fills[w] = Take, !.residual[w] = Size(w) - Take,
                              !.remaining = @ - Take, !.levels = @ \ {w}]
  BY DEF ConsumeLevel
<1>2. /\ walk \in Walks /\ Consuming /\ Working.status = "reserved"
      /\ walk.child \in DOMAIN ledger.children /\ walk.levels \in SUBSET Prices
      /\ walk.filled \in Nat /\ walk.remaining \in Nat
      /\ walk.fills \in [Prices -> Nat] /\ walk.residual \in [Prices -> Nat]
  BY <1>1 DEF WalkInv, Walks
<1>3. w \in walk.levels /\ w \in Prices /\ \A q \in walk.levels \ {w} : Better(w, q)
  BY <1>1, <1>2, NextIsBest
<1>4. /\ Working.qty \in Nat /\ Working.limit \in Prices \cup {NoLimit}
      /\ ledger.depth \in Depth /\ Due \in [Prices -> Nat] /\ Total(Due) \in Nat
      /\ Due[w] <= ledger.depth[<<Opposite, w>>] /\ ledger.depth[<<Opposite, w>>] \in Nat
  BY <1>1, <1>3, WorkingFacts, OppositeKeys DEF Depth
<1>5. /\ InOrder(ledger.depth, NoLimit, walk.levels)
      /\ walk.filled = Total(Due) /\ walk.notional = Notional(Due)
      /\ walk.unfilled = Working.qty - walk.filled
      /\ walk.remaining = walk.filled - SumFunctionOnSet(Due, seen)
      /\ walk.fills = [p \in Prices |-> IF p \in seen THEN Due[p] ELSE 0]
      /\ walk.residual = [p \in Prices |-> IF p \in seen THEN Size(p) - Due[p] ELSE 0]
  BY <1>2 DEF Consuming
<1>6. Due = FillsOf(ledger.depth, Total(Due), NoLimit)
  BY <1>4, SecondWalk DEF Due
<1>7. /\ Due[w] \in Nat
      /\ Due[w] = Smaller(ledger.depth[<<Opposite, w>>], Total(Due) - SumFunctionOnSet(Due, seen))
      /\ SumFunctionOnSet(Due, after) = SumFunctionOnSet(Due, seen) + Due[w]
      /\ SumFunctionOnSet(Due, seen) \in Nat
      /\ InOrder(ledger.depth, NoLimit, walk.levels \ {w})
      /\ after = seen \cup {w} /\ w \notin seen
  <2> HIDE DEF w
  <2>1. /\ Due[w] \in Nat
        /\ Due[w] = Smaller(ledger.depth[<<Opposite, w>>],
                            Total(Due) - SumFunctionOnSet(Due, seen))
    <3>1. /\ FillsOf(ledger.depth, Total(Due), NoLimit)[w]
                 = Smaller(ledger.depth[<<Opposite, w>>],
                           Total(Due) - SumFunctionOnSet(FillsOf(ledger.depth, Total(Due), NoLimit), seen))
      BY <1>1, <1>3, <1>4, <1>5, WalkStep
    <3>2. QED
      BY <1>3, <1>4, <1>6, <3>1
  <2>2. InOrder(ledger.depth, NoLimit, walk.levels \ {w})
    BY <1>3, <1>5, WalkInOrder
  <2>3. /\ Levels(ledger.depth, NoLimit) \in SUBSET Prices
        /\ walk.levels \in SUBSET Levels(ledger.depth, NoLimit)
    BY <1>5 DEF InOrder, Levels
  <2>4. /\ after = seen \cup {w}
        /\ SumFunctionOnSet(Due, after) = SumFunctionOnSet(Due, seen) + Due[w]
    BY <1>3, <1>4, <2>3, WalkOn
  <2>5. SumFunctionOnSet(Due, seen) \in Nat
    BY <1>3, <1>4, <2>3, WalkOn
  <2>6. QED
    BY <1>3, <2>1, <2>2, <2>4, <2>5
<1>8. Take = Due[w] /\ Size(w) = ledger.depth[<<Opposite, w>>]
  BY <1>5, <1>7 DEF Take, Size
<1>9. /\ walk'.remaining = walk.remaining - Due[w] /\ walk'.levels = walk.levels \ {w}
      /\ walk'.fills = [walk.fills EXCEPT ![w] = Due[w]]
      /\ walk'.residual = [walk.residual EXCEPT ![w] = Size(w) - Due[w]]
      /\ walk'.phase = "consume" /\ walk'.child = walk.child /\ walk'.unfilled = walk.unfilled
      /\ walk'.filled = walk.filled /\ walk'.notional = walk.notional
  <2> HIDE DEF w
  <2> QED
    BY <1>1, <1>2, <1>8 DEF Walks
<1>10. /\ Working' = Working /\ Due' = Due /\ ledger' = ledger
       /\ \A p \in Prices : Size(p)' = Size(p)
  BY <1>1, <1>9, WorkingStays DEF vars
<1>11. /\ walk'.remaining \in Nat /\ Size(w) - Due[w] \in Nat
       /\ walk'.remaining = walk'.filled - SumFunctionOnSet(Due, after)
  <2> HIDE DEF w, seen, after
  <2> QED
    BY <1>2, <1>4, <1>5, <1>7, <1>8, <1>9 DEF Smaller
<1>12. /\ walk'.fills = [p \in Prices |-> IF p \in after THEN Due[p] ELSE 0]
       /\ walk'.residual = [p \in Prices |-> IF p \in after THEN Size(p) - Due[p] ELSE 0]
  <2> HIDE DEF w, seen, after
  <2>1. /\ walk.fills = [p \in Prices |-> IF p \in seen THEN Due[p] ELSE 0]
        /\ walk.residual = [p \in Prices |-> IF p \in seen THEN Size(p) - Due[p] ELSE 0]
        /\ after = seen \cup {w} /\ w \in Prices
    BY <1>3, <1>5, <1>7
  <2>2. walk'.fills = [p \in Prices |-> IF p \in after THEN Due[p] ELSE 0]
    BY <1>9, <2>1
  <2>3. walk'.residual = [p \in Prices |-> IF p \in after THEN Size(p) - Due[p] ELSE 0]
    BY <1>9, <2>1
  <2>4. QED
    BY <2>2, <2>3
<1>13. walk' \in Walks
  <2>1. walk'.fills \in [Prices -> Nat] /\ walk'.residual \in [Prices -> Nat]
    <3> HIDE DEF w
    <3> QED
      BY <1>2, <1>3, <1>7, <1>9, <1>11
  <2>2. walk'.levels \in SUBSET Prices
    BY <1>2, <1>9
  <2>3. walk' = [walk EXCEPT !.fills = walk'.fills, !.residual = walk'.residual,
                             !.remaining = walk'.remaining, !.levels = walk'.levels]
    <3> HIDE DEF w
    <3> QED
      BY <1>1, <1>2, <1>9 DEF Walks
  <2> HIDE DEF w
  <2>4. QED
    BY <1>2, <1>11, <2>1, <2>2, <2>3 DEF Walks
<1>14. Consuming'
  <2>1. /\ after = Levels(ledger'.depth, NoLimit) \ walk'.levels
        /\ InOrder(ledger'.depth, NoLimit, walk'.levels)
    BY <1>7, <1>9, <1>10
  <2>2. Total(Due') = Total(Due) /\ Notional(Due') = Notional(Due)
    BY <1>10
  <2>3. walk'.residual = [p \in Prices |-> IF p \in after THEN Size(p)' - Due[p] ELSE 0]
    <3> HIDE DEF w, seen, after
    <3> QED
      BY <1>10, <1>12
  <2> HIDE DEF w, seen, after
  <2>4. QED
    BY <1>5, <1>9, <1>10, <1>11, <1>12, <2>1, <2>2, <2>3 DEF Consuming
<1>15. QED
  <2> HIDE DEF w
  <2> QED
    BY <1>2, <1>9, <1>10, <1>13, <1>14 DEF WalkInv

\* The two walks together are one execution of the child.
LEMMA PublishExecutes ==
    ASSUME IInv, WalkInv, Publish
    PROVE  /\ walk.child \in DOMAIN ledger.children /\ Execute(walk.child)
           /\ ledger'.children = [ledger.children EXCEPT ![walk.child] = Outcome(Working, Due)]
           /\ Outcome(Working, Due).fills = Due
           /\ walk.filled = Total(Due) /\ walk.notional = Notional(Due)
<1> DEFINE all == Levels(ledger.depth, NoLimit)
           left == [k \in Keys |-> IF k[1] = Opposite THEN walk.residual[k[2]]
                                   ELSE ledger.depth[k]]
           paid == [k \in Keys |-> ledger.debits[k] + Taken(walk.fills, k)]
<1>1. /\ walk.phase = "consume" /\ walk.levels = {}
      /\ ledger' = [depth |-> left, debits |-> paid,
                    children |-> [ledger.children EXCEPT ![walk.child] = Executing]]
      /\ UNCHANGED <<model, raw>>
  BY DEF Publish
<1>2. /\ Consuming /\ Working.status = "reserved"
      /\ walk.child \in DOMAIN ledger.children
  BY <1>1 DEF WalkInv
<1>3. /\ Working \in Child /\ Working.qty \in Nat
      /\ ledger.depth \in Depth
      /\ Due \in [Prices -> Nat] /\ Total(Due) \in Nat /\ Total(Due) <= Working.qty
      /\ \A p \in Prices : Due[p] <= ledger.depth[<<Opposite, p>>]
  BY <1>1, WorkingFacts
<1>4. /\ walk.filled = Total(Due) /\ walk.notional = Notional(Due)
      /\ walk.unfilled = Working.qty - walk.filled
      /\ walk.fills = [p \in Prices |-> IF p \in all THEN Due[p] ELSE 0]
      /\ walk.residual = [p \in Prices |-> IF p \in all THEN Size(p) - Due[p] ELSE 0]
  BY <1>1, <1>2 DEF Consuming
<1>5. \A p \in Prices : /\ Due[p] \in Nat /\ ledger.depth[<<Opposite, p>>] \in Nat
                        /\ p \notin all => Due[p] = 0 /\ ledger.depth[<<Opposite, p>>] = 0
  <2> SUFFICES ASSUME NEW p \in Prices
               PROVE  /\ Due[p] \in Nat /\ ledger.depth[<<Opposite, p>>] \in Nat
                      /\ p \notin all => Due[p] = 0 /\ ledger.depth[<<Opposite, p>>] = 0
    OBVIOUS
  <2>1. Due[p] \in Nat /\ ledger.depth[<<Opposite, p>>] \in Nat
    BY <1>3, OppositeKeys DEF Depth
  <2>2. p \notin all => ~(ledger.depth[<<Opposite, p>>] > 0)
    BY DEF Levels, Eligible
  <2> HIDE DEF all
  <2>3. QED
    BY <1>3, <2>1, <2>2
<1>6. walk.fills = Due
  <2> HIDE DEF all
  <2> QED
    BY <1>3, <1>4, <1>5
<1>7. ASSUME NEW p \in Prices
      PROVE  walk.residual[p] = ledger.depth[<<Opposite, p>>] - Due[p]
  <2> HIDE DEF all
  <2>1. walk.residual[p]
            = IF p \in all THEN ledger.depth[<<Opposite, p>>] - Due[p] ELSE 0
    BY <1>4 DEF Size
  <2>2. QED
    BY <1>5, <2>1
<1>8. left = Less(ledger.depth, Due)
  <2>1. ASSUME NEW k \in Keys
        PROVE  left[k] = ledger.depth[k] - Taken(Due, k)
    <3>1. CASE k[1] = Opposite
      <4>1. k[2] \in Prices /\ k = <<Opposite, k[2]>>
        BY <3>1, KeyOfOpposite
      <4>2. left[k] = walk.residual[k[2]] /\ Taken(Due, k) = Due[k[2]]
        BY <3>1 DEF Taken
      <4> HIDE DEF left
      <4>3. QED
        BY <1>7, <4>1, <4>2
    <3>2. CASE k[1] # Opposite
      <4>1. left[k] = ledger.depth[k] /\ Taken(Due, k) = 0 /\ ledger.depth[k] \in Nat
        BY <1>3, <3>2 DEF Taken, Depth
      <4> HIDE DEF left
      <4>2. QED
        BY <4>1
    <3>3. QED
      BY <3>1, <3>2
  <2>2. QED
    BY <2>1 DEF Less
<1>9. Executing = Outcome(Working, Due)
  <2>1. /\ walk.unfilled = 0 <=> Total(Due) = Working.qty
        /\ walk.filled > 0 <=> Total(Due) # 0
    BY <1>3, <1>4
  <2>2. Executing = [Working EXCEPT
            !.fills = Due,
            !.status = IF walk.unfilled = 0 THEN "filled"
                       ELSE IF walk.filled > 0 THEN "partial" ELSE "unfilled"]
    BY <1>6 DEF Executing, Working
  <2>3. QED
    BY <2>1, <2>2 DEF Outcome
<1>10. ledger' = Executed(ledger, walk.child)
  <2>1. Executed(ledger, walk.child)
            = [depth |-> Less(ledger.depth, Due),
               children |-> [ledger.children EXCEPT ![walk.child] = Outcome(Working, Due)],
               debits |-> [k \in Keys |-> ledger.debits[k] + Taken(Due, k)]]
    BY DEF Executed, Due, Working
  <2> HIDE DEF left
  <2>2. QED
    BY <1>1, <1>6, <1>8, <1>9, <2>1
<1>11. Outcome(Working, Due).fills = Due
  BY <1>3 DEF Outcome, Child
<1>12. Execute(walk.child)
  BY <1>1, <1>2, <1>10 DEF Execute, Working
<1>13. QED
  BY <1>1, <1>2, <1>4, <1>9, <1>11, <1>12

\* Every step of the walks keeps what is said of them.
LEMMA WalksKeep ==
    ASSUME IInv, WalkInv, [ChildNext]_allVars
    PROVE  WalkInv'
<1>1. ASSUME walk = NoWalk, walk' = walk PROVE WalkInv'
  <2>1. walk'.phase = "idle" /\ walk' = NoWalk /\ walk' \in Walks
    BY <1>1 DEF NoWalk, WalkInv
  <2>2. QED
    BY <2>1 DEF WalkInv
<1>2. CASE Idle
  BY <1>1, <1>2 DEF Idle
<1>3. CASE \E i \in DOMAIN ledger.children : StartQuote(i)
  BY <1>3, StartQuoteWalks
<1>4. CASE QuoteLevel
  BY <1>4, QuoteLevelWalks
<1>5. CASE StartConsume
  BY <1>5, StartConsumeWalks
<1>6. CASE ConsumeLevel
  BY <1>6, ConsumeLevelWalks
<1>7. CASE Publish
  <2>1. walk' = NoWalk /\ NoWalk \in Walks /\ NoWalk.phase = "idle"
    BY <1>7, TotalNoFills DEF Publish, NoWalk, Walks
  <2>2. QED
    BY <2>1 DEF WalkInv
<1>8. CASE UNCHANGED allVars
  <2>1. walk' = walk /\ UNCHANGED vars
    BY <1>8 DEF allVars
  <2>2. /\ Working' = Working /\ Due' = Due /\ ledger' = ledger
        /\ \A p \in Prices : Size(p)' = Size(p)
    BY <2>1, WorkingStays DEF vars
  <2>3. Quoting' <=> Quoting
    BY <2>1, <2>2 DEF Quoting, Paid
  <2>4. Consuming' <=> Consuming
    BY <2>1, <2>2 DEF Consuming, Size
  <2>5. QED
    BY <2>1, <2>2, <2>3, <2>4 DEF WalkInv
<1>9. QED
  BY <1>2, <1>3, <1>4, <1>5, <1>6, <1>7, <1>8 DEF ChildNext

\* A step of the walks is one of the ledger's, or none.
LEMMA WalksImplement ==
    ASSUME IInv, WalkInv, [ChildNext]_allVars
    PROVE  [Next]_vars
<1>1. CASE Idle
  BY <1>1 DEF Idle, Next
<1>2. CASE Publish
  BY <1>2, PublishExecutes DEF Next
<1>3. CASE \/ \E i \in DOMAIN ledger.children : StartQuote(i)
           \/ QuoteLevel \/ StartConsume \/ ConsumeLevel \/ UNCHANGED allVars
  BY <1>3 DEF StartQuote, QuoteLevel, StartConsume, ConsumeLevel, allVars
<1>4. QED
  BY <1>1, <1>2, <1>3 DEF ChildNext

\* No walk is going on at first.
LEMMA WalksStart == ChildInit => IInv /\ WalkInv
<1> SUFFICES ASSUME ChildInit PROVE IInv /\ WalkInv
  OBVIOUS
<1>1. walk = NoWalk /\ NoWalk \in Walks /\ NoWalk.phase = "idle"
  BY TotalNoFills DEF ChildInit, NoWalk, Walks
<1>2. QED
  BY <1>1, InitHolds DEF ChildInit, WalkInv

\* The walks keep both invariants, the ledger's because they implement it.
LEMMA WalksInvariant == ChildSpec => [](IInv /\ WalkInv)
<1>1. IInv /\ WalkInv /\ [ChildNext]_allVars => (IInv /\ WalkInv)'
  BY WalksKeep, WalksImplement, NextPreserves
<1>2. QED
  BY <1>1, WalksStart, PTL DEF ChildSpec

\* The two walks of an execution are together one execution as Execution has
\* it (StaticExecution.execute, estimate_fill, _consume): the second takes
\* exactly what the first has found, beyond no limit, although it knows none,
\* and nothing shows before all of it is done.
THEOREM WalksAreAtomic == ChildSpec => ExecutesAtomically
<1>1. ChildInit => Init
  BY DEF ChildInit
<1>2. IInv /\ WalkInv /\ [ChildNext]_allVars => [Next]_vars
  BY WalksImplement
<1>3. QED
  BY <1>1, <1>2, WalksInvariant, PTL DEF ChildSpec, ExecutesAtomically, Spec

-----------------------------------------------------------------------------
\* The money booked for it.

\* What fills cost is a whole number, and so is what is booked for them.
LEMMA MoneyType ==
    ASSUME NEW fills \in [Prices -> Nat]
    PROVE  /\ Notional(fills) \in Nat /\ Total(fills) \in Nat
           /\ CoveredCost(Notional(fills), Total(fills), 2 * ReferencePrice) \in Int
<1>1. Notional(fills) = SumFunctionOnSet(Paid(fills), Prices)
  BY DEF Notional, Paid
<1>2. Notional(fills) \in Nat /\ Total(fills) \in Nat
  BY <1>1, PaidType, SumType, ParentAssumption, TotalType
<1>3. Sign \in Int /\ FeeBps \in Int /\ ReferencePrice \in Int
  BY CostAssumption DEF Sign
<1>4. QED
  BY <1>2, <1>3 DEF CoveredCost

\* Without fills nothing is booked.
LEMMA NothingBooked == CoveredCost(Notional(NoFills), Total(NoFills), 2 * ReferencePrice) = 0
<1>1. Paid(NoFills) = NoFills
  <2>1. \A p \in Prices : p * 0 = 0
    BY PricesAssumption
  <2>2. QED
    BY <2>1 DEF Paid, NoFills
<1>2. Notional(NoFills) = SumFunctionOnSet(Paid(NoFills), Prices)
  BY DEF Notional, Paid
<1>3. Notional(NoFills) = 0 /\ Total(NoFills) = 0
  BY <1>1, <1>2, TotalNoFills DEF Total
<1>4. Sign \in Int /\ FeeBps \in Int /\ ReferencePrice \in Int
  BY CostAssumption DEF Sign
<1>5. QED
  BY <1>3, <1>4 DEF CoveredCost

\* What a child is booked: its quote, at the prices of its fills.
Cost(child) == CoveredCost(Notional(child.fills), Total(child.fills), 2 * ReferencePrice)

\* Every child has been booked for its fills.
Books(children) ==
    /\ booked \in Seq(Int) /\ Len(booked) = Len(children)
    /\ \A i \in DOMAIN children : booked[i] = Cost(children[i])

\* The inductive invariant of the money.
BookedInv == Books(ledger.children)

\* A new ledger has nothing to book.
LEMMA BooksStart == ChildInit => BookedInv
BY DEF ChildInit, Init, EmptyLedger, BookedInv, Books

\* Every step books what it has to: a publication what the quote found, a
\* submission nothing, and the others change no fills.
LEMMA BooksKeep ==
    ASSUME IInv, WalkInv, BookedInv, [ChildNext]_allVars
    PROVE  BookedInv'
<1>1. /\ ledger.children \in Seq(Child)
      /\ booked \in Seq(Int) /\ Len(booked) = Len(ledger.children)
      /\ \A i \in DOMAIN ledger.children : booked[i] = Cost(ledger.children[i])
  BY DEF IInv, Sound, BookedInv, Books
<1>2. ASSUME NEW qty \in Sizes, NEW limit \in Limits, Submit(qty, limit),
             booked' = Append(booked, 0)
      PROVE  BookedInv'
  <2> DEFINE child == NewChild(qty, limit)
             n == Len(ledger.children) + 1
  <2>1. ledger'.children = Append(ledger.children, child)
    <3>1. ledger' = [ledger EXCEPT !.children = Append(@, child)]
      BY <1>2 DEF Submit, Submitted
    <3>2. ledger \in [depth : Depth, children : Seq(Child), debits : [Keys -> Nat]]
      BY DEF IInv, Sound
    <3> HIDE DEF child
    <3>3. QED
      BY <3>1, <3>2
  <2>2. Cost(child) = 0
    BY NothingBooked DEF Cost, NewChild
  <2>3. child \in Child
    BY <1>2, CallerAssumption, TotalNoFills DEF NewChild, Child, Statuses
  <2> HIDE DEF child
  <2>4. /\ booked' \in Seq(Int) /\ Len(booked') = n /\ Len(ledger'.children) = n
        /\ booked'[n] = 0 /\ ledger'.children[n] = child
        /\ \A i \in DOMAIN ledger.children :
               booked'[i] = booked[i] /\ ledger'.children[i] = ledger.children[i]
        /\ DOMAIN ledger'.children = DOMAIN ledger.children \cup {n}
    BY <1>1, <1>2, <2>1, <2>3
  <2> HIDE DEF n
  <2>5. \A i \in DOMAIN ledger'.children : booked'[i] = Cost(ledger'.children[i])
    BY <1>1, <2>2, <2>4
  <2>6. QED
    BY <2>4, <2>5 DEF BookedInv, Books, Cost
<1>3. ASSUME NEW i \in DOMAIN ledger.children, Cancel(i), UNCHANGED booked
      PROVE  BookedInv'
  <2> DEFINE child == Cancelled(ledger, i).children[i]
  <2>1. /\ ledger'.children = [ledger.children EXCEPT ![i] = child]
        /\ child.fills = ledger.children[i].fills
    BY <1>3, CancelledSound DEF Cancel, IInv
  <2> HIDE DEF child
  <2>2. Cost(child) = Cost(ledger.children[i])
    BY <2>1 DEF Cost
  <2>3. /\ DOMAIN ledger'.children = DOMAIN ledger.children
        /\ Len(ledger'.children) = Len(ledger.children)
        /\ ledger'.children[i] = child
        /\ \A j \in DOMAIN ledger.children \ {i} : ledger'.children[j] = ledger.children[j]
    BY <1>1, <2>1
  <2>4. \A j \in DOMAIN ledger'.children : booked'[j] = Cost(ledger'.children[j])
    BY <1>1, <1>3, <2>2, <2>3
  <2>5. QED
    BY <1>1, <1>3, <2>3, <2>4 DEF BookedInv, Books, Cost
<1>4. ASSUME NEW m \in Changes, Observe(m), UNCHANGED booked
      PROVE  BookedInv'
  <2>1. ledger'.children = ledger.children
    <3>1. ledger \in [depth : Depth, children : Seq(Child), debits : [Keys -> Nat]]
      BY DEF IInv, Sound
    <3>2. QED
      BY <1>4, <3>1 DEF Observe, Observed
  <2>2. QED
    BY <1>1, <1>4, <2>1 DEF BookedInv, Books, Cost
<1>5. CASE Publish
  <2> DEFINE c == walk.child
             done == Outcome(Working, Due)
  <2>1. /\ c \in DOMAIN ledger.children /\ done.fills = Due
        /\ ledger'.children = [ledger.children EXCEPT ![c] = done]
        /\ walk.filled = Total(Due) /\ walk.notional = Notional(Due)
    BY <1>5, PublishExecutes
  <2>2. booked' = [booked EXCEPT ![c] = CoveredCost(Notional(Due), Total(Due), 2 * ReferencePrice)]
    BY <1>5, <2>1 DEF Publish
  <2>3. Due \in [Prices -> Nat]
    BY <1>5, WorkingFacts DEF Publish
  <2> HIDE DEF c, done
  <2>4. Cost(done) \in Int /\ booked' = [booked EXCEPT ![c] = Cost(done)]
    BY <2>1, <2>2, <2>3, MoneyType DEF Cost
  <2>5. /\ DOMAIN ledger'.children = DOMAIN ledger.children
        /\ Len(ledger'.children) = Len(ledger.children)
        /\ ledger'.children[c] = done
        /\ \A j \in DOMAIN ledger.children \ {c} : ledger'.children[j] = ledger.children[j]
    BY <1>1, <2>1
  <2>6. /\ booked' \in Seq(Int) /\ Len(booked') = Len(booked) /\ booked'[c] = Cost(done)
        /\ \A j \in DOMAIN ledger.children \ {c} : booked'[j] = booked[j]
    BY <1>1, <2>1, <2>4
  <2>7. \A j \in DOMAIN ledger'.children : booked'[j] = Cost(ledger'.children[j])
    BY <1>1, <2>5, <2>6
  <2>8. QED
    BY <1>1, <2>5, <2>6, <2>7 DEF BookedInv, Books, Cost
<1>6. ASSUME UNCHANGED <<vars, booked>> PROVE BookedInv'
  BY <1>6 DEF vars, BookedInv, Books, Cost
<1>7. CASE Idle
  BY <1>2, <1>3, <1>4, <1>7 DEF Idle
<1>8. CASE \/ \E i \in DOMAIN ledger.children : StartQuote(i)
           \/ QuoteLevel \/ StartConsume \/ ConsumeLevel \/ UNCHANGED allVars
  BY <1>6, <1>8 DEF StartQuote, QuoteLevel, StartConsume, ConsumeLevel, allVars
<1>9. QED
  BY <1>5, <1>7, <1>8 DEF ChildNext

\* A covered cost is linear in what was paid and in what was bought.
LEMMA CostIsLinear ==
    ASSUME NEW n \in Nat, NEW q \in Nat
    PROVE  CoveredCost(n, q, 2 * ReferencePrice)
               = (20000 * Sign + 2 * FeeBps) * n + (-20000 * Sign * ReferencePrice) * q
<1>1. Sign \in Int /\ FeeBps \in Int /\ ReferencePrice \in Int
  BY CostAssumption DEF Sign
<1>2. QED
  BY <1>1 DEF CoveredCost

\* What the children were booked together.
LEMMA BookedTogether ==
    ASSUME IInv, BookedInv
    PROVE  LET traded == SumOver([i \in DOMAIN ledger.children |->
                                      Notional(ledger.children[i].fills)])
           IN  /\ traded \in Nat /\ Filled(ledger.children) \in Nat
               /\ SumOver(booked) = (20000 * Sign + 2 * FeeBps) * traded
                                        + (-20000 * Sign * ReferencePrice) * Filled(ledger.children)
<1> DEFINE D == DOMAIN ledger.children
           f == [i \in D |-> Notional(ledger.children[i].fills)]
           g == [i \in D |-> Total(ledger.children[i].fills)]
           a == 20000 * Sign + 2 * FeeBps
           b == -20000 * Sign * ReferencePrice
<1>1. ledger.children \in Seq(Child) /\ IsFiniteSet(D) /\ Filled(ledger.children) \in Nat
  BY ChildSums DEF IInv, Sound
<1>2. DOMAIN booked = D /\ \A i \in D : booked[i] = Cost(ledger.children[i])
  BY <1>1 DEF BookedInv, Books
<1>3. ASSUME NEW i \in D
      PROVE  f[i] \in Nat /\ g[i] \in Nat /\ booked[i] = a * f[i] + b * g[i]
  <2>1. ledger.children[i].fills \in [Prices -> Nat]
    <3>1. ledger.children[i] \in Child
      BY <1>1
    <3>2. QED
      BY <3>1 DEF Child
  <2>2. f[i] \in Nat /\ g[i] \in Nat
    BY <2>1, MoneyType
  <2>3. booked[i] = CoveredCost(f[i], g[i], 2 * ReferencePrice)
    BY <1>2 DEF Cost
  <2> HIDE DEF f, g
  <2>4. QED
    BY <2>2, <2>3, CostIsLinear
<1>4. a \in Int /\ b \in Int
  BY CostAssumption DEF Sign
<1>5. SumFunctionOnSet(booked, D) = a * SumFunctionOnSet(f, D) + b * SumFunctionOnSet(g, D)
  <2> HIDE DEF D, f, g, a, b
  <2>1. Combines(booked, a, f, b, g, D)
    BY <1>3 DEF Combines
  <2>2. QED
    BY <1>1, <1>4, <2>1, SumLinear
<1>6. SumFunctionOnSet(f, D) \in Nat
  <2> HIDE DEF D, f
  <2> QED
    BY <1>1, <1>3, SumType
<1>7. SumOver(f) = SumFunctionOnSet(f, D) /\ SumOver(booked) = SumFunctionOnSet(booked, D)
  BY <1>2 DEF SumOver
<1>8. Filled(ledger.children) = SumFunctionOnSet(g, D)
  BY DEF Filled
<1>9. QED
  BY <1>1, <1>5, <1>6, <1>7, <1>8

\* A market with two sides has a midpoint.
LEMMA MidType ==
    ASSUME NEW depth \in Depth, ~OneSided(depth)
    PROVE  TwiceMid(depth) \in Int
<1> DEFINE B == {p \in Prices : depth[<<"BID", p>>] > 0}
           A == {p \in Prices : depth[<<"ASK", p>>] > 0}
<1>1. \A side \in Sides : \E p \in Prices : depth[<<side, p>>] > 0
  <2> SUFFICES ASSUME NEW side \in Sides PROVE \E p \in Prices : depth[<<side, p>>] > 0
    OBVIOUS
  <2>1. PICK p \in Prices : depth[<<side, p>>] # 0
    BY DEF OneSided
  <2>2. depth[<<side, p>>] \in Nat
    BY DEF Depth, Keys
  <2>3. QED
    BY <2>1, <2>2
<1>2. B # {} /\ A # {} /\ B \in SUBSET Nat /\ A \in SUBSET Nat /\ IsFiniteSet(B)
  <2>1. B # {} /\ A # {}
    BY <1>1 DEF Sides
  <2>2. B \in SUBSET Prices /\ A \in SUBSET Prices
    OBVIOUS
  <2> HIDE DEF A, B
  <2>3. QED
    BY <2>1, <2>2, PricesAssumption, ParentAssumption, FS_Subset
<1>3. Max(B) \in Nat
  <2> HIDE DEF B
  <2>1. \E n \in B : \A m \in B : m <= n
    BY <1>2, GreatestOfFinite
  <2>2. \E n \in B : \A m \in B : n >= m
    BY <1>2, <2>1
  <2>3. Max(B) \in B
    BY <2>2 DEF Max
  <2>4. QED
    BY <1>2, <2>3
<1>4. Min(A) \in Nat
  <2> HIDE DEF A
  <2>1. \E n \in A : \A m \in A : n <= m
    BY <1>2, LeastNatural
  <2>2. Min(A) \in A
    BY <2>1 DEF Min
  <2>3. QED
    BY <1>2, <2>2
<1>5. QED
  BY <1>3, <1>4 DEF TwiceMid

\* The same money counted both ways.
LEMMA SameMoney ==
    ASSUME NEW s \in Int, NEW t \in Int, NEW q \in Int, NEW u \in Int, NEW m \in Int,
           NEW r \in Int, NEW fee \in Int
    PROVE  ((20000 * s + 2 * fee) * t + (-20000 * s * r) * (q - u)) + s * u * (m - 2 * r) * 10000
               = s * (2 * t + u * m - q * 2 * r) * 10000 + 2 * t * fee
OBVIOUS

\* What _metrics reports as the shortfall, from the costs booked walk by walk
\* and the market's midpoint, is what the fills of the other walk really cost
\* above the parent's reference, whatever was filled, at whatever prices.
THEOREM ShortfallIsExact == ChildSpec => []ShortfallAddsUp
<1>1. IInv /\ BookedInv => ShortfallAddsUp
  <2> SUFFICES ASSUME IInv, BookedInv PROVE ShortfallAddsUp
    OBVIOUS
  <2> DEFINE open == Quantity - Filled(ledger.children)
             traded == SumOver([i \in DOMAIN ledger.children |->
                                    Notional(ledger.children[i].fills)])
             rest == IF open = 0 THEN 0 ELSE open * TwiceMid(raw)
             paper == Quantity * 2 * ReferencePrice
             a == 20000 * Sign + 2 * FeeBps
             b == -20000 * Sign * ReferencePrice
  <2>1. /\ traded \in Nat /\ Filled(ledger.children) \in Nat
        /\ SumOver(booked) = a * traded + b * Filled(ledger.children)
    BY BookedTogether
  <2>2. /\ Sign \in Int /\ FeeBps \in Int /\ ReferencePrice \in Int /\ Quantity \in Int
        /\ open \in Int /\ Filled(ledger.children) = Quantity - open
    BY <2>1, CostAssumption, ParentAssumption DEF Sign
  <2>3. ASSUME Evaluable(open, raw, TRUE)
        PROVE  ShortfallCash(SumOver(booked), open, raw)
                   = Sign * (2 * traded + rest - paper) * 10000 + 2 * traded * FeeBps
    <3>1. CASE open = 0
      <4>1. ShortfallCash(SumOver(booked), open, raw) = SumOver(booked) + 0 /\ rest = 0
        BY <3>1 DEF ShortfallCash, Opportunity
      <4>2. (a * traded + b * (Quantity - 0)) + Sign * 0 * (0 - 2 * ReferencePrice) * 10000
                = Sign * (2 * traded + 0 * 0 - Quantity * 2 * ReferencePrice) * 10000
                      + 2 * traded * FeeBps
        BY <2>1, <2>2, SameMoney
      <4> HIDE DEF open, traded, rest
      <4>3. QED
        BY <2>1, <2>2, <3>1, <4>1, <4>2
    <3>2. CASE open # 0
      <4>1. TwiceMid(raw) \in Int
        BY <2>3, <3>2, MidType DEF Evaluable, IInv
      <4>2. /\ ShortfallCash(SumOver(booked), open, raw)
                   = SumOver(booked) + Sign * open * (TwiceMid(raw) - 2 * ReferencePrice) * 10000
            /\ rest = open * TwiceMid(raw)
        BY <3>2 DEF ShortfallCash, Opportunity
      <4> HIDE DEF open, traded, rest
      <4>3. (a * traded + b * (Quantity - open))
                    + Sign * open * (TwiceMid(raw) - 2 * ReferencePrice) * 10000
                = Sign * (2 * traded + open * TwiceMid(raw) - Quantity * 2 * ReferencePrice) * 10000
                      + 2 * traded * FeeBps
        BY <2>1, <2>2, <4>1, SameMoney
      <4>4. QED
        BY <2>1, <2>2, <4>2, <4>3
    <3>3. QED
      BY <3>1, <3>2
  <2>4. QED
    BY <2>3 DEF ShortfallAddsUp
<1>2. ChildInit => BookedInv
  BY BooksStart
<1>3. IInv /\ WalkInv /\ BookedInv /\ [ChildNext]_allVars => BookedInv'
  BY BooksKeep
<1>4. QED
  BY <1>1, <1>2, <1>3, WalksInvariant, PTL DEF ChildSpec

=============================================================================

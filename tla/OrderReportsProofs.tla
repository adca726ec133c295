------------------------- MODULE OrderReportsProofs -------------------------
(***************************************************************************)
(* The theorems of OrderReports, for every stream of messages, either      *)
(* liquidity model and every loss, repetition and reordering of reports.   *)
(* The inductive invariant IInv says for both ledgers whose fills weigh on *)
(* a level: in the market those executed since the level was refreshed, by *)
(* the strategy's reckoning those reported at or after the last refresh it *)
(* was shown.  The properties compare the two.                             *)
(***************************************************************************)
EXTENDS OrderReports, LedgerProofs

-----------------------------------------------------------------------------
\* Message m refreshes level k.
Refreshes(m, k) == m.kind = "snapshot" \/ k \in DOMAIN m.levels

\* A fill at level k and sequence q still weighs at sequence n.
InForceAt(md, q, k, n) ==
    \/ md = "persistent_debit"
    \/ \A j \in q + 1 .. n : ~Refreshes(Stream[j], k)

\* The children whose fills weigh on level k in the market.
Weighing(k) == {r.child : r \in {s \in sent : InForceAt(model, s.seq, k, position)}}

Report(i) == [child |-> i, outcome |-> known.children[i], seq |-> known.receipts[i]]

-----------------------------------------------------------------------------
Typed ==
    /\ model \in Models
    /\ depths \in Seq(Depth) /\ position <= Len(Stream)
    /\ shown \in 0 .. position
    /\ Sound(actual)
    /\ known \in KnownLedgers
    /\ Len(known.children) = Len(actual.children)
    /\ Len(known.receipts) = Len(actual.children)

\* What is sent of a child is its execution, and there is one.
Reported ==
    /\ \A r \in sent :
           /\ r.child \in DOMAIN actual.children /\ r.seq \in 0 .. position
           /\ r = [child |-> r.child, outcome |-> actual.children[r.child], seq |-> r.seq]
           /\ actual.children[r.child].status # "reserved"
    /\ \A r, s \in sent : r.child = s.child => r = s
    /\ \A i \in DOMAIN actual.children :
           actual.children[i].status = "reserved" =>
               actual.children[i] = NewChild(actual.children[i].qty, actual.children[i].limit)

Believed ==
    \A i \in DOMAIN known.children :
        \/ /\ known.receipts[i] = NoSeq
           /\ known.children[i] = NewChild(actual.children[i].qty, actual.children[i].limit)
        \/ Report(i) \in sent

\* The refreshes kept are of messages shown, and none of those is later.
Refreshed ==
    /\ known.refreshAll # NoSeq =>
           known.refreshAll \in 1 .. shown /\ Stream[known.refreshAll].kind = "snapshot"
    /\ \A k \in Keys :
           /\ known.refreshLevels[k] # NoSeq =>
                  /\ known.refreshLevels[k] \in 1 .. shown
                  /\ Refreshes(Stream[known.refreshLevels[k]], k)
           /\ \A j \in 1 .. shown :
                  Refreshes(Stream[j], k) =>
                      j <= Larger(known.refreshAll, known.refreshLevels[k])

\* Each depth is what the fills that weigh leave of the market's.
Weighed ==
    /\ \A k \in Keys :
           actual.debits[k] = SumFunctionOnSet(Took(actual.children, k), Weighing(k))
    /\ actual.depth = Residual(DepthAt(position), actual.debits)
    /\ known.raw = DepthAt(shown)
    /\ known.depth = Residual(known.raw, Owed(known, model))

IInv == Typed /\ Reported /\ Believed /\ Refreshed /\ Weighed

-----------------------------------------------------------------------------
\* The parts of a known ledger, and the types of both ledgers' children.
LEMMA TypesOf ==
    ASSUME Typed
    PROVE  /\ known.children \in Seq(Child) /\ known.receipts \in Seq(Numbers)
           /\ known.refreshAll \in Numbers /\ known.refreshLevels \in [Keys -> Numbers]
           /\ known.raw \in Depth /\ known.depth \in Depth
           /\ actual.children \in Seq(Child) /\ Children(actual.children)
           /\ actual.depth \in Depth /\ actual.debits \in [Keys -> Nat]
           /\ position \in Nat /\ shown \in Nat /\ Len(Stream) \in Nat
           /\ DOMAIN Stream = 1 .. Len(Stream)
           /\ DOMAIN known.children = DOMAIN actual.children
           /\ DOMAIN known.receipts = DOMAIN actual.children
           /\ \A n \in 0 .. position : DepthAt(n) \in Depth
<1>1. known \in KnownLedgers /\ Sound(actual) /\ depths \in Seq(Depth)
  BY DEF Typed
<1>2. /\ known.children \in Seq(Child) /\ known.receipts \in Seq(Numbers)
      /\ known.refreshAll \in Numbers /\ known.refreshLevels \in [Keys -> Numbers]
      /\ known.raw \in Depth /\ known.depth \in Depth
  BY <1>1 DEF KnownLedgers
<1>3. /\ actual.children \in Seq(Child) /\ Children(actual.children)
      /\ actual.depth \in Depth /\ actual.debits \in [Keys -> Nat]
  BY <1>1 DEF Sound
<1>4. position \in Nat /\ Len(Stream) \in Nat /\ DOMAIN Stream = 1 .. Len(Stream)
  BY <1>1, StreamAssumption DEF position
<1>5. shown \in Nat
  BY <1>4 DEF Typed
<1>6. DOMAIN known.children = DOMAIN actual.children
      /\ DOMAIN known.receipts = DOMAIN actual.children
  BY <1>2, <1>3 DEF Typed
<1>7. ASSUME NEW n \in 0 .. position
      PROVE  DepthAt(n) \in Depth
  BY <1>1, EmptySound DEF DepthAt, position
<1>8. QED
  BY <1>2, <1>3, <1>4, <1>5, <1>6, <1>7

\* A child of which nothing was reported weighs on nothing.
LEMMA InitHolds == Init => IInv
<1> SUFFICES ASSUME Init PROVE IInv
  OBVIOUS
<1>1. /\ model \in Models /\ depths = <<>> /\ actual = EmptyLedger
      /\ shown = 0 /\ known = UnknownOrders /\ sent = {} /\ position = 0
  BY DEF Init, position
<1>2. EmptyDepth \in Depth /\ Sound(actual)
  BY <1>1, EmptySound
<1>3. /\ known.children = <<>> /\ known.receipts = <<>> /\ known.refreshAll = NoSeq
      /\ known.refreshLevels = [k \in Keys |-> NoSeq]
      /\ known.raw = EmptyDepth /\ known.depth = EmptyDepth
      /\ actual.children = <<>> /\ actual.debits = NoDebits /\ actual.depth = EmptyDepth
  BY <1>1 DEF UnknownOrders, EmptyLedger
<1>4. known \in KnownLedgers
  BY <1>1, <1>2 DEF UnknownOrders, KnownLedgers, Numbers
<1>5. Typed
  <2>1. depths \in Seq(Depth) /\ position <= Len(Stream)
    BY <1>1, StreamAssumption
  <2>2. QED
    BY <1>1, <1>2, <1>3, <1>4, <2>1 DEF Typed
<1>6. Reported /\ Believed
  BY <1>1, <1>3 DEF Reported, Believed
<1>7. Refreshed
  BY <1>1, <1>3 DEF Refreshed
<1>8. Weighed
  <2>1. Owed(known, model) = NoDebits
    <3>1. \A k \in Keys : Weighty(known, model, k) = {}
      BY <1>3 DEF Weighty
    <3>2. QED
      BY <3>1, SumEmpty DEF Owed, NoDebits
  <2>2. \A k \in Keys : Weighing(k) = {}
    BY <1>1 DEF Weighing
  <2>3. \A k \in Keys :
            actual.debits[k] = SumFunctionOnSet(Took(actual.children, k), Weighing(k))
    BY <1>3, <2>2, SumEmpty DEF NoDebits
  <2>4. DepthAt(0) = EmptyDepth
    BY DEF DepthAt
  <2>5. QED
    BY <1>1, <1>3, <2>1, <2>3, <2>4, EmptySound DEF Weighed
<1>9. QED
  BY <1>5, <1>6, <1>7, <1>8 DEF IInv

\* A message moves the market: what it does not refresh weighs as before, and
\* no fill is later than it.
LEMMA MarketPreserves == IInv /\ MarketMoves => IInv'
<1> SUFFICES ASSUME IInv, MarketMoves PROVE IInv'
  OBVIOUS
<1> DEFINE n == position + 1
           m == Stream[n]
           after == DepthAfter([depth |-> DepthAt(position)], m)
<1>1. Typed /\ Reported /\ Believed /\ Refreshed /\ Weighed
  BY DEF IInv
<1>2. /\ position < Len(Stream) /\ depths' = Append(depths, after)
      /\ actual' = Observed(actual, model, after, m)
      /\ UNCHANGED <<model, shown, known, sent>>
  BY DEF MarketMoves
<1>3. /\ position \in Nat /\ n \in DOMAIN Stream /\ n \in Nat
      /\ depths \in Seq(Depth) /\ DepthAt(position) \in Depth
      /\ model \in Models /\ Sound(actual) /\ shown \in 0 .. position
  BY <1>1, <1>2, TypesOf DEF Typed
<1>4. after \in Depth
  <2>1. IF m.kind = "snapshot" THEN m.levels \in Depth ELSE IsBatch(m.levels)
    BY <1>3, StreamAssumption
  <2> HIDE DEF m, n
  <2>2. QED
    BY <1>3, <2>1, DepthAfterType
<1>5. /\ depths' \in Seq(Depth) /\ position' = n
      /\ DepthAt(position)' = after /\ \A i \in 0 .. position : DepthAt(i)' = DepthAt(i)
  <2> HIDE DEF after
  <2>1. depths' \in Seq(Depth) /\ Len(depths') = Len(depths) + 1
    BY <1>2, <1>3, <1>4
  <2>2. position' = n
    BY <2>1 DEF position
  <2>3. depths'[Len(depths) + 1] = after
    BY <1>2, <1>3, <1>4
  <2>4. DepthAt(position)' = after
    BY <2>1, <2>3, <1>3 DEF DepthAt, position
  <2>5. ASSUME NEW i \in 0 .. position
        PROVE  DepthAt(i)' = DepthAt(i)
    <3>1. i # 0 => depths'[i] = depths[i]
      BY <1>2, <1>3, <1>4 DEF position
    <3>2. QED
      BY <3>1 DEF DepthAt
  <2>6. QED
    BY <2>1, <2>2, <2>4, <2>5
<1>6. /\ Sound(actual') /\ actual'.children = actual.children
      /\ actual'.debits = Refresh(model, actual.debits, m)
      /\ actual'.depth = Residual(after, actual'.debits)
  <2> HIDE DEF after, m, n
  <2> QED
    BY <1>2, <1>3, <1>4, ObservedSound
<1>7. Typed'
  <2> HIDE DEF after, m
  <2> QED
    BY <1>1, <1>2, <1>3, <1>5, <1>6 DEF Typed
<1>8. Reported'
  <2> HIDE DEF after, m
  <2>1. \A q \in 0 .. position : q \in 0 .. position'
    BY <1>3, <1>5
  <2> HIDE DEF n
  <2>2. QED
    BY <1>1, <1>2, <1>6, <2>1 DEF Reported
<1>9. Believed'
  BY <1>1, <1>2, <1>6 DEF Believed, Report
<1>10. Refreshed'
  BY <1>1, <1>2 DEF Refreshed
<1>11. ASSUME NEW k \in Keys
       PROVE  actual'.debits[k] = SumFunctionOnSet(Took(actual.children, k), Weighing(k)')
  <2>1. actual.debits[k] = SumFunctionOnSet(Took(actual.children, k), Weighing(k))
    BY <1>1 DEF Weighed
  <2>2. \A r \in sent : r.seq \in 0 .. position
    BY <1>1 DEF Reported
  <2>3. CASE model # "persistent_debit" /\ Refreshes(m, k)
    <3>1. \A r \in sent : ~InForceAt(model, r.seq, k, position)'
      <4>1. \A r \in sent : n \in r.seq + 1 .. n
        BY <1>3, <2>2
      <4>2. QED
        BY <1>2, <1>5, <2>3, <4>1 DEF InForceAt
    <3>2. Weighing(k)' = {}
      BY <1>2, <3>1 DEF Weighing
    <3>3. Refresh(model, actual.debits, m)[k] = 0
      <4> HIDE DEF m
      <4> QED
        BY <2>3 DEF Refresh, NoDebits, Refreshes
    <3>4. QED
      BY <1>6, <3>2, <3>3, SumEmpty
  <2>4. CASE ~(model # "persistent_debit" /\ Refreshes(m, k))
    <3>1. \A r \in sent : InForceAt(model, r.seq, k, position)' <=> InForceAt(model, r.seq, k, position)
      <4>1. \A r \in sent, j \in Nat :
                j \in r.seq + 1 .. n <=> j \in r.seq + 1 .. position \/ j = n
        BY <1>3, <2>2
      <4>2. \A r \in sent :
                /\ \A j \in r.seq + 1 .. n : j \in Nat
                /\ \A j \in r.seq + 1 .. position : j \in Nat
        BY <1>3, <2>2
      <4> HIDE DEF n
      <4>3. QED
        BY <1>2, <1>5, <2>4, <4>1, <4>2 DEF InForceAt, m
    <3>2. Weighing(k)' = Weighing(k)
      BY <1>2, <3>1 DEF Weighing
    <3>3. Refresh(model, actual.debits, m)[k] = actual.debits[k]
      <4> HIDE DEF m
      <4> QED
        BY <2>4 DEF Refresh, Refreshes
    <3>4. QED
      BY <1>6, <2>1, <3>2, <3>3
  <2>5. QED
    BY <2>3, <2>4
<1>12. Weighed'
  <2> HIDE DEF after, m
  <2>1. DepthAt(shown)' = DepthAt(shown)
    BY <1>2, <1>3, <1>5
  <2>2. DepthAt(position)' = after
    BY <1>5
  <2>3. \A k \in Keys :
            actual'.debits[k] = SumFunctionOnSet(Took(actual'.children, k), Weighing(k)')
    BY <1>6, <1>11
  <2>4. known.raw = DepthAt(shown) /\ known.depth = Residual(known.raw, Owed(known, model))
    BY <1>1 DEF Weighed
  <2>5. Owed(known, model)' = Owed(known, model)
    BY <1>2
  <2> HIDE DEF n
  <2>6. QED
    BY <1>2, <1>6, <2>1, <2>2, <2>3, <2>4, <2>5 DEF Weighed
<1>13. QED
  BY <1>7, <1>8, <1>9, <1>10, <1>12 DEF IInv

\* A child is believed to use its whole quantity or what it really uses.
LEMMA BelievesLess ==
    ASSUME Typed, Reported, Believed
    PROVE  Available(known.children) <= Available(actual.children)
<1>1. /\ known.children \in Seq(Child) /\ actual.children \in Seq(Child)
      /\ Children(actual.children)
      /\ Len(actual.children) = Len(known.children)
      /\ DOMAIN known.children = DOMAIN actual.children
  BY TypesOf DEF Typed
<1>2. ASSUME NEW i \in DOMAIN actual.children
      PROVE  Total(actual.children[i].fills) + Held(actual.children[i])
                 <= Total(known.children[i].fills) + Held(known.children[i])
  <2> DEFINE a == actual.children[i]
             b == known.children[i]
  <2>1. a \in Child /\ Total(a.fills) \in Nat /\ Held(a) \in Nat
    BY <1>1, ChildSums
  <2>2. CASE b = NewChild(a.qty, a.limit)
    <3>1. Total(b.fills) = 0 /\ Held(b) = a.qty /\ a.qty \in Nat
      BY <2>1, <2>2, TotalNoFills DEF NewChild, Held, Child
    <3>2. Total(a.fills) <= a.qty
      BY <1>1 DEF Children
    <3>3. a.status = "reserved" => Total(a.fills) = 0
      BY <1>1, TotalNoFills DEF Children
    <3>4. Held(a) = IF a.status = "reserved" THEN a.qty ELSE 0
      BY DEF Held
    <3> HIDE DEF a, b
    <3>5. QED
      BY <2>1, <3>1, <3>2, <3>3, <3>4 DEF a, b
  <2>3. CASE Report(i) \in sent
    <3>1. b = a
      BY <2>3 DEF Reported, Report
    <3> HIDE DEF a, b
    <3>2. QED
      BY <2>1, <3>1 DEF a, b
  <2>4. QED
    BY <1>1, <2>2, <2>3 DEF Believed
<1>3. QED
  BY <1>1, <1>2, AvailableOrdered

\* A submission enters both ledgers, and weighs on neither depth.
LEMMA SubmitPreserves ==
    ASSUME IInv, NEW qty \in Sizes, Submit(qty)
    PROVE  IInv'
<1> DEFINE child == NewChild(qty, LimitPrice)
           j == Len(actual.children) + 1
<1>1. Typed /\ Reported /\ Believed /\ Refreshed /\ Weighed
  BY DEF IInv
<1>2. /\ qty <= Available(known.children)
      /\ known' = Reserve(known, qty, LimitPrice)
      /\ actual' = Submitted(actual, qty, LimitPrice)
      /\ UNCHANGED <<model, depths, shown, sent>>
  BY DEF Submit
<1>3. /\ qty \in Nat /\ LimitPrice \in Prices \cup {NoLimit}
      /\ child \in Child /\ child.qty = qty /\ child.limit = LimitPrice
      /\ child.status = "reserved"
  BY StreamAssumption, TotalNoFills DEF NewChild, Child, Statuses
<1>4. /\ known \in KnownLedgers /\ Sound(actual) /\ actual.children \in Seq(Child)
      /\ known.children \in Seq(Child) /\ known.receipts \in Seq(Numbers)
      /\ Len(known.children) = Len(actual.children)
      /\ Len(known.receipts) = Len(actual.children)
      /\ DOMAIN known.children = DOMAIN actual.children
      /\ DOMAIN known.receipts = DOMAIN actual.children
  BY <1>1, TypesOf DEF Typed
<1>5. qty <= Available(actual.children)
  <2>1. Available(known.children) <= Available(actual.children)
    BY <1>1, BelievesLess
  <2>2. /\ Filled(known.children) \in Nat /\ Reserved(known.children) \in Nat
        /\ Filled(actual.children) \in Nat /\ Reserved(actual.children) \in Nat
    BY <1>4, ChildSums
  <2>3. Available(known.children) \in Int /\ Available(actual.children) \in Int
    BY <2>2, ParentAssumption DEF Available
  <2>4. QED
    BY <1>2, <1>3, <2>1, <2>3
<1>6. /\ Sound(actual') /\ actual'.children = Append(actual.children, child)
      /\ actual'.depth = actual.depth /\ actual'.debits = actual.debits
  BY <1>2, <1>3, <1>4, <1>5, SubmittedSound
<1>7. /\ known' \in KnownLedgers
      /\ known'.children = Append(known.children, child)
      /\ known'.receipts = Append(known.receipts, NoSeq)
      /\ known'.refreshAll = known.refreshAll /\ known'.refreshLevels = known.refreshLevels
      /\ known'.raw = known.raw /\ known'.depth = known.depth
  <2> HIDE DEF child
  <2>1. NoSeq \in Numbers
    BY DEF Numbers
  <2>2. known' = [known EXCEPT !.children = Append(known.children, child),
                               !.receipts = Append(known.receipts, NoSeq)]
    BY <1>2 DEF Reserve, child
  <2>3. Append(known.children, child) \in Seq(Child)
        /\ Append(known.receipts, NoSeq) \in Seq(Numbers)
    BY <1>3, <1>4, <2>1
  <2>4. QED
    BY <1>4, <2>2, <2>3 DEF KnownLedgers
<1>8. /\ j \in DOMAIN actual'.children /\ j \notin DOMAIN actual.children
      /\ DOMAIN actual'.children = DOMAIN actual.children \cup {j}
      /\ DOMAIN known'.children = DOMAIN actual.children \cup {j}
      /\ actual'.children[j] = child /\ known'.children[j] = child
      /\ known'.receipts[j] = NoSeq
      /\ \A i \in DOMAIN actual.children :
             /\ actual'.children[i] = actual.children[i]
             /\ known'.children[i] = known.children[i]
             /\ known'.receipts[i] = known.receipts[i]
  <2>1. NoSeq \in Numbers
    BY DEF Numbers
  <2> HIDE DEF child
  <2>2. /\ DOMAIN actual'.children = DOMAIN actual.children \cup {j}
        /\ actual'.children[j] = child /\ j \notin DOMAIN actual.children
        /\ \A i \in DOMAIN actual.children : actual'.children[i] = actual.children[i]
    BY <1>3, <1>4, <1>6, AppendParts
  <2>3. /\ DOMAIN known'.children = DOMAIN actual.children \cup {j}
        /\ known'.children[j] = child
        /\ \A i \in DOMAIN actual.children : known'.children[i] = known.children[i]
    BY <1>3, <1>4, <1>7, AppendParts
  <2>4. /\ known'.receipts[j] = NoSeq
        /\ \A i \in DOMAIN actual.children : known'.receipts[i] = known.receipts[i]
    BY <1>4, <1>7, <2>1, AppendParts
  <2>5. QED
    BY <2>2, <2>3, <2>4
<1>9. Typed'
  <2>1. Len(known'.children) = Len(actual'.children)
        /\ Len(known'.receipts) = Len(actual'.children)
    <3> HIDE DEF child
    <3> QED
      BY <1>4, <1>6, <1>7
  <2> HIDE DEF child
  <2>2. position' = position
    BY <1>2 DEF position
  <2>3. QED
    BY <1>1, <1>2, <1>6, <1>7, <2>1, <2>2 DEF Typed
<1> HIDE DEF j
<1>10. Reported'
  <2>1. position' = position
    BY <1>2 DEF position
  <2>2. \A r \in sent : r.child \in DOMAIN actual.children
    BY <1>1 DEF Reported
  <2>3. child = NewChild(child.qty, child.limit)
    BY <1>3
  <2> HIDE DEF child
  <2>4. ASSUME NEW i \in DOMAIN actual'.children, actual'.children[i].status = "reserved"
        PROVE  actual'.children[i]
                   = NewChild(actual'.children[i].qty, actual'.children[i].limit)
    <3>1. CASE i = j
      BY <1>8, <2>3, <3>1
    <3>2. CASE i # j
      BY <1>1, <1>8, <2>4, <3>2 DEF Reported
    <3>3. QED
      BY <3>1, <3>2
  <2>5. QED
    BY <1>1, <1>2, <1>8, <2>1, <2>2, <2>4 DEF Reported
<1>11. Believed'
  <2>1. child = NewChild(child.qty, child.limit)
    BY <1>3
  <2> HIDE DEF child
  <2>2. ASSUME NEW i \in DOMAIN known'.children
        PROVE  \/ /\ known'.receipts[i] = NoSeq
                  /\ known'.children[i]
                         = NewChild(actual'.children[i].qty, actual'.children[i].limit)
               \/ Report(i)' \in sent'
    <3>1. CASE i = j
      BY <1>8, <2>1, <3>1
    <3>2. CASE i # j
      <4>1. i \in DOMAIN known.children
        BY <1>4, <1>8, <3>2
      <4>2. Report(i)' = Report(i)
        BY <1>4, <1>8, <4>1 DEF Report
      <4>3. QED
        BY <1>1, <1>2, <1>4, <1>8, <4>1, <4>2 DEF Believed
    <3>3. QED
      BY <3>1, <3>2
  <2>3. QED
    BY <2>2 DEF Believed
<1>12. Refreshed'
  BY <1>1, <1>2, <1>7 DEF Refreshed
<1>13. Owed(known', model) = Owed(known, model)
  <2>1. ASSUME NEW k \in Keys
        PROVE  Weighty(known, model, k) = Weighty(known', model, k)
    <3>1. \A i \in DOMAIN known.children :
              InForce(known', model, i, k) <=> InForce(known, model, i, k)
      BY <1>4, <1>7, <1>8 DEF InForce
    <3>2. QED
      BY <1>4, <1>8, <3>1 DEF Weighty
  <2>2. known'.children \in Seq(Child)
    BY <1>7 DEF KnownLedgers
  <2>3. \A i \in DOMAIN known.children :
            i \in DOMAIN known'.children /\ known.children[i] = known'.children[i]
    BY <1>4, <1>8
  <2>4. QED
    BY <1>4, <2>1, <2>2, <2>3, OwedEqual
<1>14. Weighed'
  <2>1. DepthAt(position)' = DepthAt(position) /\ DepthAt(shown)' = DepthAt(shown)
    BY <1>2 DEF position, DepthAt
  <2>2. ASSUME NEW k \in Keys
        PROVE  actual'.debits[k]
                   = SumFunctionOnSet(Took(actual'.children, k), Weighing(k)')
    <3>1. Weighing(k)' = Weighing(k)
      BY <1>2 DEF position, Weighing, InForceAt
    <3>2. Weighing(k) \subseteq DOMAIN actual.children
      BY <1>1 DEF Weighing, Reported
    <3>3. IsFiniteSet(Weighing(k))
      BY <1>4, <3>2, TookType, FS_Subset
    <3>4. \A i \in Weighing(k) : Took(actual.children, k)[i] \in Nat
                                 /\ Took(actual.children, k)[i] = Took(actual'.children, k)[i]
      <4>1. \A i \in DOMAIN actual.children : Took(actual.children, k)[i] \in Nat
        BY <1>4, TookType
      <4>2. \A i \in DOMAIN actual.children :
                Took(actual.children, k)[i] = Took(actual'.children, k)[i]
        BY <1>8 DEF Took
      <4>3. QED
        BY <3>2, <4>1, <4>2
    <3>5. SumFunctionOnSet(Took(actual.children, k), Weighing(k))
              = SumFunctionOnSet(Took(actual'.children, k), Weighing(k))
      BY <3>3, <3>4, SumEqual
    <3>6. QED
      BY <1>1, <1>6, <3>1, <3>5 DEF Weighed
  <2>3. QED
    BY <1>1, <1>2, <1>6, <1>7, <1>13, <2>1, <2>2 DEF Weighed
<1>15. QED
  BY <1>9, <1>10, <1>11, <1>12, <1>14 DEF IInv

\* An execution is reported as it was, and its fills weigh from now on.
LEMMA ExecutePreserves ==
    ASSUME IInv, NEW i \in DOMAIN actual.children, Execute(i)
    PROVE  IInv'
<1> DEFINE child == actual.children[i]
           fills == FillsOf(actual.depth, child.qty, child.limit)
           done == Outcome(child, fills)
           report == [child |-> i, outcome |-> done, seq |-> position]
<1>1. Typed /\ Reported /\ Believed /\ Refreshed /\ Weighed
  BY DEF IInv
<1>2. /\ child.status = "reserved"
      /\ actual' = Executed(actual, i)
      /\ sent' = sent \cup {[child |-> i, outcome |-> actual'.children[i], seq |-> position]}
      /\ UNCHANGED <<model, depths, shown, known>>
  BY DEF Execute
<1>3. /\ Sound(actual) /\ actual.children \in Seq(Child) /\ position \in Nat
      /\ DepthAt(position) \in Depth
  BY <1>1, TypesOf DEF Typed
<1>4. /\ Sound(actual')
      /\ actual'.children = [actual.children EXCEPT ![i] = done]
      /\ actual'.debits = [k \in Keys |-> actual.debits[k] + Taken(fills, k)]
      /\ done.fills = fills /\ done.qty = child.qty /\ done.limit = child.limit
      /\ done.status = IF Total(fills) = child.qty THEN "filled"
                       ELSE IF Total(fills) = 0 THEN "unfilled" ELSE "partial"
      /\ \A raw \in Depth : actual.depth = Residual(raw, actual.debits) =>
             actual'.depth = Residual(raw, actual'.debits)
  BY <1>2, <1>3, ExecutedSound
<1> HIDE DEF done, fills
<1>5. /\ DOMAIN actual'.children = DOMAIN actual.children
      /\ Len(actual'.children) = Len(actual.children)
      /\ actual'.children[i] = done /\ done.status # "reserved"
      /\ \A j \in DOMAIN actual.children \ {i} : actual'.children[j] = actual.children[j]
  BY <1>3, <1>4
<1>6. /\ sent' = sent \cup {report} /\ position' = position
      /\ \A r \in sent : r.child \in DOMAIN actual.children /\ r.child # i
  BY <1>1, <1>2, <1>5 DEF position, Reported
<1>7. Typed'
  BY <1>1, <1>2, <1>4, <1>5, <1>6 DEF Typed
<1>8. Reported'
  <2>1. ASSUME NEW r \in sent'
        PROVE  /\ r.child \in DOMAIN actual'.children /\ r.seq \in 0 .. position'
               /\ r = [child |-> r.child, outcome |-> actual'.children[r.child],
                       seq |-> r.seq]
               /\ actual'.children[r.child].status # "reserved"
    <3>1. CASE r = report
      BY <1>3, <1>5, <1>6, <3>1
    <3>2. CASE r \in sent
      BY <1>1, <1>5, <1>6, <3>2 DEF Reported
    <3>3. QED
      BY <1>6, <3>1, <3>2
  <2>2. ASSUME NEW r \in sent', NEW s \in sent', r.child = s.child
        PROVE  r = s
    <3>1. report.child = i
      OBVIOUS
    <3> HIDE DEF report
    <3>2. QED
      BY <1>1, <1>6, <2>2, <3>1 DEF Reported
  <2>3. ASSUME NEW j \in DOMAIN actual'.children, actual'.children[j].status = "reserved"
        PROVE  actual'.children[j]
                   = NewChild(actual'.children[j].qty, actual'.children[j].limit)
    <3>1. j # i /\ actual'.children[j] = actual.children[j] /\ j \in DOMAIN actual.children
      BY <1>5, <2>3
    <3>2. QED
      BY <1>1, <2>3, <3>1 DEF Reported
  <2>4. QED
    BY <2>1, <2>2, <2>3 DEF Reported
<1>9. Believed'
  <2>1. ASSUME NEW j \in DOMAIN known.children
        PROVE  actual'.children[j].qty = actual.children[j].qty
               /\ actual'.children[j].limit = actual.children[j].limit
    <3>1. j \in DOMAIN actual.children
      BY <1>1, TypesOf
    <3>2. QED
      BY <1>4, <1>5, <3>1
  <2>2. QED
    BY <1>1, <1>2, <1>6, <2>1 DEF Believed, Report
<1>10. Refreshed'
  BY <1>1, <1>2 DEF Refreshed
<1>11. ASSUME NEW k \in Keys
       PROVE  actual'.debits[k]
                  = SumFunctionOnSet(Took(actual'.children, k), Weighing(k)')
  <2>1. Weighing(k)' = Weighing(k) \cup {i}
    <3>1. InForceAt(model', report.seq, k, position')
      BY <1>3, <1>6 DEF InForceAt
    <3>2. report.child = i
      OBVIOUS
    <3> HIDE DEF report
    <3>3. Weighing(k)' = {r.child : r \in {s \in sent' : InForceAt(model', s.seq, k, position')}}
      BY DEF Weighing
    <3>4. {s \in sent' : InForceAt(model', s.seq, k, position')}
              = {s \in sent : InForceAt(model, s.seq, k, position)} \cup {report}
      BY <1>2, <1>6, <3>1
    <3>5. QED
      BY <3>2, <3>3, <3>4 DEF Weighing
  <2>2. Weighing(k) \subseteq DOMAIN actual.children /\ i \notin Weighing(k)
    BY <1>6 DEF Weighing
  <2>3. actual'.children \in Seq(Child)
    BY <1>4 DEF Sound
  <2>4. IsFiniteSet(Weighing(k))
    BY <1>3, <2>2, TookType, FS_Subset
  <2>5. \A j \in DOMAIN actual.children :
            Took(actual.children, k)[j] \in Nat /\ Took(actual'.children, k)[j] \in Nat
    BY <1>3, <1>5, <2>3, TookType
  <2>6. \A j \in DOMAIN actual.children \ {i} :
            Took(actual.children, k)[j] = Took(actual'.children, k)[j]
    BY <1>5 DEF Took
  <2>7. Took(actual'.children, k)[i] = Taken(fills, k)
    BY <1>4, <1>5 DEF Took
  <2>8. SumFunctionOnSet(Took(actual'.children, k), Weighing(k) \cup {i})
            = Took(actual'.children, k)[i]
                  + SumFunctionOnSet(Took(actual'.children, k), Weighing(k))
    BY <2>2, <2>4, <2>5, SumAdd
  <2>9. SumFunctionOnSet(Took(actual.children, k), Weighing(k))
            = SumFunctionOnSet(Took(actual'.children, k), Weighing(k))
    BY <2>2, <2>4, <2>5, <2>6, SumEqual
  <2>10. actual'.debits[k] = actual.debits[k] + Taken(fills, k)
    BY <1>4
  <2>11. actual.debits[k] = SumFunctionOnSet(Took(actual.children, k), Weighing(k))
    BY <1>1 DEF Weighed
  <2>12. actual.debits[k] \in Nat /\ Taken(fills, k) \in Nat
    BY <1>1, <2>5, <2>7, TypesOf
  <2>13. QED
    BY <2>1, <2>7, <2>8, <2>9, <2>10, <2>11, <2>12
<1>12. Weighed'
  <2>1. DepthAt(position)' = DepthAt(position) /\ DepthAt(shown)' = DepthAt(shown)
    BY <1>2 DEF position, DepthAt
  <2>2. actual'.depth = Residual(DepthAt(position), actual'.debits)
    BY <1>1, <1>3, <1>4 DEF Weighed
  <2>3. Owed(known, model)' = Owed(known, model)
    BY <1>2
  <2>4. QED
    BY <1>1, <1>2, <1>11, <2>1, <2>2, <2>3 DEF Weighed
<1>13. QED
  BY <1>7, <1>8, <1>9, <1>10, <1>12 DEF IInv

\* A report that contradicts what is known of its child changes nothing; one
\* that was sent changes it once, to what became of it.
LEMMA ReceiveKinds ==
    ASSUME IInv, NEW r \in sent, NEW s \in {r} \cup Contradicting(r), Receive(s)
    PROVE  \/ known' = known
           \/ /\ s = r /\ known.receipts[r.child] = NoSeq
              /\ known' = Rebuilt([known EXCEPT !.children[r.child] = r.outcome,
                                                !.receipts[r.child] = r.seq], model)
<1> DEFINE i == r.child
<1>1. Typed /\ Reported /\ Believed
  BY DEF IInv
<1>2. known' = ReceiveReport(known, model, s.child, s.outcome, s.seq)
  BY DEF Receive
<1>3. /\ i \in DOMAIN known.children
      /\ r = [child |-> i, outcome |-> actual.children[i], seq |-> r.seq]
      /\ actual.children \in Seq(Child)
  BY <1>1, TypesOf DEF Reported
<1>4. actual.children[i] \in Child /\ actual.children[i].qty \in Nat
  <2>1. actual.children[i] \in Child
    BY <1>1, <1>3, TypesOf
  <2>2. QED
    BY <2>1 DEF Child
<1>5. CASE known.receipts[i] # NoSeq
  <2>1. s.child = i
    BY <1>3 DEF Contradicting
  <2>2. QED
    BY <1>2, <1>5, <2>1 DEF ReceiveReport
<1>6. CASE known.receipts[i] = NoSeq
  <2>1. known.children[i] = NewChild(actual.children[i].qty, actual.children[i].limit)
    <3>1. Report(i) \notin sent
      <4>1. ASSUME Report(i) \in sent PROVE FALSE
        <5>1. Report(i).seq \in 0 .. position
          BY <1>1, <4>1 DEF Reported
        <5>2. QED
          BY <1>1, <1>6, <5>1, TypesOf DEF Report, NoSeq
      <4>2. QED
        BY <4>1
    <3>2. QED
      BY <1>1, <1>3, <3>1 DEF Believed
  <2>2. known.children[i].qty = actual.children[i].qty
    BY <2>1 DEF NewChild
  <2>3. CASE s = r
    BY <1>2, <1>6, <2>3 DEF ReceiveReport
  <2>4. CASE s # r
    <3>1. s = [r EXCEPT !.outcome.qty = @ + 1]
      BY <1>6, <2>4 DEF Contradicting
    <3>2. s.child = i /\ s.outcome.qty = actual.children[i].qty + 1
      <4>1. r.outcome = actual.children[i]
        BY <1>3
      <4>2. s.outcome = [r.outcome EXCEPT !.qty = @ + 1] /\ s.child = i
        BY <1>3, <3>1
      <4>3. [actual.children[i] EXCEPT !.qty = @ + 1].qty = actual.children[i].qty + 1
        BY <1>4 DEF Child
      <4>4. QED
        BY <4>1, <4>2, <4>3
    <3>3. s.outcome.qty # known.children[s.child].qty
      BY <1>4, <2>2, <3>2
    <3>4. QED
      BY <1>2, <3>3 DEF ReceiveReport
  <2>5. QED
    BY <2>3, <2>4
<1>7. QED
  BY <1>5, <1>6

\* A report changes what is known of one child, and the depth belief with it.
LEMMA ReceivePreserves ==
    ASSUME IInv, NEW r \in sent, NEW s \in {r} \cup Contradicting(r), Receive(s)
    PROVE  IInv'
<1> DEFINE i == r.child
           told == [known EXCEPT !.children[i] = r.outcome, !.receipts[i] = r.seq]
<1>1. Typed /\ Reported /\ Believed /\ Refreshed /\ Weighed
  BY DEF IInv
<1>2. UNCHANGED <<model, depths, actual, shown, sent>>
  BY DEF Receive
<1>3. position' = position /\ \A n : DepthAt(n)' = DepthAt(n)
  BY <1>2 DEF position, DepthAt
<1>4. /\ Reported'
      /\ \A k \in Keys :
             actual'.debits[k] = SumFunctionOnSet(Took(actual'.children, k), Weighing(k)')
      /\ actual'.depth = Residual(DepthAt(position)', actual'.debits)
  <2>1. Reported'
    BY <1>1, <1>2, <1>3 DEF Reported
  <2>2. \A k : Weighing(k)' = Weighing(k)
    BY <1>2, <1>3 DEF Weighing, InForceAt
  <2>3. QED
    BY <1>1, <1>2, <1>3, <2>1, <2>2 DEF Weighed
<1>5. CASE known' = known
  <2>1. Typed'
    BY <1>1, <1>2, <1>3, <1>5 DEF Typed
  <2>2. Believed' /\ Refreshed'
    BY <1>1, <1>2, <1>5 DEF Believed, Refreshed, Report
  <2>3. Weighed'
    <3>1. Owed(known, model)' = Owed(known, model)
      BY <1>2, <1>5
    <3>2. QED
      BY <1>1, <1>2, <1>3, <1>4, <1>5, <3>1 DEF Weighed
  <2>4. QED
    BY <1>4, <2>1, <2>2, <2>3 DEF IInv
<1>6. CASE s = r /\ known' = Rebuilt(told, model)
  <2>1. /\ known \in KnownLedgers
        /\ known.children \in Seq(Child) /\ known.receipts \in Seq(Numbers)
        /\ i \in DOMAIN known.children /\ i \in DOMAIN known.receipts
        /\ r = [child |-> i, outcome |-> actual.children[i], seq |-> r.seq]
        /\ r.outcome \in Child /\ r.seq \in Numbers
    BY <1>1, TypesOf DEF Typed, Reported, Numbers
  <2>2. /\ told \in KnownLedgers
        /\ told.children = [known.children EXCEPT ![i] = r.outcome]
        /\ told.receipts = [known.receipts EXCEPT ![i] = r.seq]
        /\ told.refreshAll = known.refreshAll /\ told.refreshLevels = known.refreshLevels
        /\ told.raw = known.raw
    <3>1. [known.children EXCEPT ![i] = r.outcome] \in Seq(Child)
          /\ [known.receipts EXCEPT ![i] = r.seq] \in Seq(Numbers)
      BY <2>1
    <3>2. told = [known EXCEPT !.children = [known.children EXCEPT ![i] = r.outcome],
                               !.receipts = [known.receipts EXCEPT ![i] = r.seq]]
      BY <2>1 DEF KnownLedgers
    <3> HIDE DEF told, i
    <3>3. QED
      BY <2>1, <3>1, <3>2 DEF KnownLedgers
  <2>3. /\ known' \in KnownLedgers
        /\ known'.children = [known.children EXCEPT ![i] = r.outcome]
        /\ known'.receipts = [known.receipts EXCEPT ![i] = r.seq]
        /\ known'.refreshAll = known.refreshAll /\ known'.refreshLevels = known.refreshLevels
        /\ known'.raw = known.raw
        /\ known'.depth = Residual(known'.raw, Owed(known', model))
    <3> HIDE DEF told
    <3> QED
      BY <1>6, <2>2, RebuiltIs
  <2>4. /\ Len(known'.children) = Len(known.children)
        /\ Len(known'.receipts) = Len(known.receipts)
        /\ DOMAIN known'.children = DOMAIN known.children
        /\ known'.children[i] = r.outcome /\ known'.receipts[i] = r.seq
        /\ \A j \in DOMAIN known.children \ {i} :
               known'.children[j] = known.children[j] /\ known'.receipts[j] = known.receipts[j]
    <3>1. DOMAIN known.receipts = DOMAIN known.children
      BY <1>1, TypesOf
    <3> HIDE DEF i
    <3>2. QED
      BY <2>1, <2>3, <3>1
  <2>5. Typed'
    BY <1>1, <1>2, <1>3, <2>3, <2>4 DEF Typed
  <2>6. Believed'
    <3>1. ASSUME NEW j \in DOMAIN known'.children
          PROVE  \/ /\ known'.receipts[j] = NoSeq
                    /\ known'.children[j]
                           = NewChild(actual'.children[j].qty, actual'.children[j].limit)
                 \/ Report(j)' \in sent'
      <4>1. CASE j = i
        <5>1. Report(j)' = r
          BY <2>1, <2>4, <4>1 DEF Report
        <5>2. QED
          BY <1>2, <5>1
      <4>2. CASE j # i
        <5>1. Report(j)' = Report(j) /\ j \in DOMAIN known.children
          BY <2>4, <4>2 DEF Report
        <5>2. QED
          BY <1>1, <1>2, <2>4, <4>2, <5>1 DEF Believed
      <4>3. QED
        BY <4>1, <4>2
    <3>2. QED
      BY <3>1 DEF Believed
  <2>7. Refreshed'
    BY <1>1, <1>2, <2>3 DEF Refreshed
  <2>8. Weighed'
    BY <1>1, <1>2, <1>3, <1>4, <2>3 DEF Weighed
  <2>9. QED
    BY <1>4, <2>5, <2>6, <2>7, <2>8 DEF IInv
<1>7. QED
  BY <1>5, <1>6, ReceiveKinds

\* A view brings the refreshes it was reached by; those it jumped over are
\* earlier than the snapshot it began with, which refreshes every level.
LEMMA PublishPreserves ==
    ASSUME IInv, NEW first \in DOMAIN Stream, NEW n \in DOMAIN Stream, Publish(first, n)
    PROVE  IInv'
<1> DEFINE applied == {Stream[j] : j \in first .. n}
           snapshots == {m.seq : m \in {l \in applied : l.kind = "snapshot"}}
           touching(k) == {m.seq : m \in {l \in applied :
                                             l.kind = "update" /\ k \in DOMAIN l.levels}}
           all == Max(snapshots \cup {known.refreshAll})
           levels == [k \in Keys |-> Max(touching(k) \cup {known.refreshLevels[k]})]
           seen == [known EXCEPT !.raw = DepthAt(n), !.refreshAll = all,
                                 !.refreshLevels = levels]
<1>1. Typed /\ Reported /\ Believed /\ Refreshed /\ Weighed
  BY DEF IInv
<1>2. /\ shown < first /\ first <= n /\ n <= position
      /\ first = shown + 1 \/ Stream[first].kind = "snapshot"
      /\ shown' = n
      /\ known' = ObserveView(known, model, DepthAt(n), applied)
      /\ UNCHANGED <<model, depths, actual, sent>>
  BY DEF Publish
<1>3. known' = Rebuilt(seen, model)
  BY <1>2 DEF ObserveView
<1>4. /\ first \in Nat /\ n \in Nat /\ shown \in Nat /\ position \in Nat
      /\ first \in 1 .. Len(Stream) /\ n \in 1 .. Len(Stream) /\ Len(Stream) \in Nat
      /\ DOMAIN Stream = 1 .. Len(Stream)
      /\ known \in KnownLedgers /\ known.refreshAll \in Numbers
      /\ known.refreshLevels \in [Keys -> Numbers] /\ DepthAt(n) \in Depth
  BY <1>1, <1>2, TypesOf DEF Typed
<1>5. ASSUME NEW j \in first .. n
      PROVE  /\ j \in Nat /\ 1 <= j /\ j <= n /\ Stream[j] \in applied /\ Stream[j].seq = j
             /\ Stream[j].kind = "snapshot" \/ Stream[j].kind = "update"
  <2>1. j \in DOMAIN Stream
    BY <1>4
  <2>2. QED
    BY <1>4, <2>1, StreamAssumption
<1>6. \A j : j \in snapshots <=> j \in first .. n /\ Stream[j].kind = "snapshot"
  BY <1>5
<1>7. ASSUME NEW k \in Keys
      PROVE  \A j : j \in touching(k) <=>
                 /\ j \in first .. n /\ Stream[j].kind = "update"
                 /\ k \in DOMAIN Stream[j].levels
  BY <1>5
<1> HIDE DEF applied, snapshots, touching
<1>8. known.refreshAll # NoSeq => known.refreshAll \in 1 .. n
  BY <1>1, <1>2, <1>4 DEF Refreshed, NoSeq
<1>9. /\ all \in snapshots \cup {known.refreshAll} /\ all \in Numbers
      /\ \A j \in snapshots \cup {known.refreshAll} : j <= all
  <2>1. snapshots \in SUBSET Nat /\ \A j \in snapshots : j <= n
    BY <1>5, <1>6
  <2>2. known.refreshAll <= n
    BY <1>4, <1>8 DEF Numbers, NoSeq
  <2>3. QED
    BY <1>4, <2>1, <2>2, MaxBound
<1>10. ASSUME NEW k \in Keys
       PROVE  /\ levels[k] \in touching(k) \cup {known.refreshLevels[k]}
              /\ levels[k] \in Numbers
              /\ \A j \in touching(k) \cup {known.refreshLevels[k]} : j <= levels[k]
  <2>1. touching(k) \in SUBSET Nat /\ \A j \in touching(k) : j <= n
    BY <1>5, <1>7
  <2>2. known.refreshLevels[k] \in Numbers /\ known.refreshLevels[k] <= n
    <3>1. known.refreshLevels[k] \in Numbers
      BY <1>4
    <3>2. known.refreshLevels[k] # NoSeq => known.refreshLevels[k] \in 1 .. shown
      BY <1>1 DEF Refreshed
    <3>3. QED
      BY <1>2, <1>4, <3>1, <3>2 DEF NoSeq
  <2>3. QED
    BY <1>4, <2>1, <2>2, MaxBound
<1> HIDE DEF all
<1>11. levels \in [Keys -> Numbers]
  BY <1>10
<1> HIDE DEF levels
<1>12. /\ seen \in KnownLedgers
       /\ seen.children = known.children /\ seen.receipts = known.receipts
       /\ seen.refreshAll = all /\ seen.refreshLevels = levels /\ seen.raw = DepthAt(n)
  BY <1>4, <1>9, <1>11 DEF KnownLedgers
<1> HIDE DEF seen
<1>13. /\ known' \in KnownLedgers
       /\ known'.children = known.children /\ known'.receipts = known.receipts
       /\ known'.refreshAll = all /\ known'.refreshLevels = levels
       /\ known'.raw = DepthAt(n) /\ known'.depth = Residual(known'.raw, Owed(known', model))
  BY <1>3, <1>12, RebuiltIs
<1>14. position' = position /\ \A i : DepthAt(i)' = DepthAt(i)
  BY <1>2 DEF position, DepthAt
<1>15. Typed'
  BY <1>1, <1>2, <1>4, <1>13, <1>14 DEF Typed
<1>16. Reported' /\ Believed'
  BY <1>1, <1>2, <1>13, <1>14 DEF Reported, Believed, Report
<1>17. Refreshed'
  <2>1. all # NoSeq => all \in 1 .. n /\ Stream[all].kind = "snapshot"
    <3>1. CASE all \in snapshots
      <4>1. all \in first .. n /\ Stream[all].kind = "snapshot"
        BY <1>6, <3>1
      <4>2. QED
        BY <1>4, <4>1
    <3>2. CASE all = known.refreshAll
      BY <1>1, <1>2, <1>4, <3>2 DEF Refreshed
    <3>3. QED
      BY <1>9, <3>1, <3>2
  <2>2. ASSUME NEW k \in Keys, levels[k] # NoSeq
        PROVE  levels[k] \in 1 .. n /\ Refreshes(Stream[levels[k]], k)
    <3>1. CASE levels[k] \in touching(k)
      <4>1. levels[k] \in first .. n /\ k \in DOMAIN Stream[levels[k]].levels
        BY <1>7, <3>1
      <4>2. QED
        BY <1>4, <4>1 DEF Refreshes
    <3>2. CASE levels[k] = known.refreshLevels[k]
      BY <1>1, <1>2, <1>4, <2>2, <3>2 DEF Refreshed
    <3>3. QED
      BY <1>10, <3>1, <3>2
  <2>3. ASSUME NEW k \in Keys, NEW j \in 1 .. n, Refreshes(Stream[j], k)
        PROVE  j <= Larger(all, levels[k])
    <3>1. j \in Nat /\ all \in Int /\ levels[k] \in Int
          /\ all <= Larger(all, levels[k]) /\ levels[k] <= Larger(all, levels[k])
      BY <1>4, <1>9, <1>10 DEF Numbers, NoSeq, Larger
    <3>2. CASE j \in first .. n
      <4>1. j \in snapshots \/ j \in touching(k)
        BY <1>5, <1>6, <1>7, <2>3, <3>2 DEF Refreshes
      <4>2. j <= all \/ j <= levels[k]
        BY <1>9, <1>10, <4>1
      <4>3. Larger(all, levels[k]) \in Int
        BY <3>1 DEF Larger
      <4>4. QED
        BY <3>1, <4>2, <4>3
    <3>3. CASE j \in 1 .. shown
      <4>1. j <= Larger(known.refreshAll, known.refreshLevels[k])
        BY <1>1, <2>3, <3>3 DEF Refreshed
      <4>2. known.refreshAll <= all /\ known.refreshLevels[k] <= levels[k]
        BY <1>9, <1>10
      <4>3. known.refreshAll \in Int /\ known.refreshLevels[k] \in Int
        BY <1>4 DEF Numbers, NoSeq
      <4>4. QED
        BY <3>1, <4>1, <4>2, <4>3 DEF Larger
    <3>4. CASE j \notin first .. n /\ j \notin 1 .. shown
      <4>1. shown < j /\ j < first
        BY <1>4, <3>4
      <4>2. first \in snapshots
        BY <1>2, <1>4, <1>6, <4>1
      <4>3. first <= all
        BY <1>9, <4>2
      <4>4. Larger(all, levels[k]) \in Int
        BY <3>1 DEF Larger
      <4>5. QED
        BY <1>4, <3>1, <4>1, <4>3, <4>4
    <3>5. QED
      BY <3>2, <3>3, <3>4
  <2>4. QED
    BY <1>2, <1>13, <2>1, <2>2, <2>3 DEF Refreshed
<1>18. Weighed'
  <2>1. ASSUME NEW k \in Keys
        PROVE  actual'.debits[k]
                   = SumFunctionOnSet(Took(actual'.children, k), Weighing(k)')
    <3>1. Weighing(k)' = Weighing(k)
      BY <1>2, <1>14 DEF Weighing, InForceAt
    <3>2. QED
      BY <1>1, <1>2, <3>1 DEF Weighed
  <2>2. DepthAt(shown)' = DepthAt(n) /\ DepthAt(position)' = DepthAt(position)
    BY <1>2, <1>14 DEF DepthAt, position
  <2>3. QED
    BY <1>1, <1>2, <1>13, <2>1, <2>2 DEF Weighed
<1>19. QED
  BY <1>15, <1>16, <1>17, <1>18 DEF IInv

\* IInv holds in every state.
THEOREM Invariant == Spec => []IInv
<1>1. Init => IInv
  BY InitHolds
<1>2. IInv /\ [Next]_vars => IInv'
  <2> SUFFICES ASSUME IInv, [Next]_vars PROVE IInv'
    OBVIOUS
  <2>1. CASE MarketMoves
    BY <2>1, MarketPreserves
  <2>2. CASE \E first, n \in DOMAIN Stream : Publish(first, n)
    BY <2>2, PublishPreserves
  <2>3. CASE \E qty \in Sizes : Submit(qty)
    BY <2>3, SubmitPreserves
  <2>4. CASE \E i \in DOMAIN actual.children : Execute(i)
    BY <2>4, ExecutePreserves
  <2>5. CASE \E r \in sent : \E s \in {r} \cup Contradicting(r) : Receive(s)
    BY <2>5, ReceivePreserves
  <2>6. CASE UNCHANGED vars
    <3>1. UNCHANGED <<model, depths, actual, shown, known, sent>>
      BY <2>6 DEF vars
    <3>2. position' = position /\ \A n : DepthAt(n)' = DepthAt(n)
      BY <3>1 DEF position, DepthAt
    <3>3. \A k : Weighing(k)' = Weighing(k)
      BY <3>1, <3>2 DEF Weighing, InForceAt
    <3>4. DepthAt(position)' = DepthAt(position) /\ DepthAt(shown)' = DepthAt(shown)
      BY <3>1 DEF DepthAt, position
    <3>5. QED
      BY <3>1, <3>2, <3>3, <3>4
         DEF IInv, Typed, Reported, Believed, Refreshed, Weighed, Report
  <2>7. QED
    BY <2>1, <2>2, <2>3, <2>4, <2>5, <2>6 DEF Next
<1>3. QED
  BY <1>1, <1>2, PTL DEF Spec

-----------------------------------------------------------------------------
\* What the strategy knows of a child is its submission or its execution, and
\* it never believes that more of the parent is left than really is: no loss,
\* repetition, reordering or contradiction of reports makes receive go wrong.
THEOREM BelievesOnlyReports == Spec => []BelievesReports
<1>1. IInv => BelievesReports
  <2> SUFFICES ASSUME IInv PROVE BelievesReports
    OBVIOUS
  <2>1. Available(known.children) <= Available(actual.children)
    BY BelievesLess DEF IInv
  <2>2. QED
    BY <2>1 DEF IInv, Believed, Report, BelievesReports
<1>2. QED
  BY <1>1, Invariant, PTL

\* When the view is level with the market, a reported fill weighs by the
\* strategy's reckoning exactly when it weighs in the market.
LEMMA SameForce ==
    ASSUME IInv, shown = position, NEW k \in Keys, NEW i \in DOMAIN known.children,
           known.receipts[i] \in 0 .. position
    PROVE  InForce(known, model, i, k) <=> InForceAt(model, known.receipts[i], k, position)
<1> DEFINE q == known.receipts[i]
           last == Larger(known.refreshAll, known.refreshLevels[k])
<1>1. Typed /\ Refreshed
  BY DEF IInv
<1>2. /\ q \in Nat /\ q <= position /\ position \in Nat
      /\ known.refreshAll \in Int /\ known.refreshLevels[k] \in Int
  BY <1>1, TypesOf DEF Numbers, NoSeq
<1>3. \A j \in 1 .. position : Refreshes(Stream[j], k) => j <= last
  BY <1>1 DEF Refreshed
<1>4. last \in Int /\ (last # NoSeq => last \in 1 .. position /\ Refreshes(Stream[last], k))
  <2>1. known.refreshAll # NoSeq =>
            known.refreshAll \in 1 .. position /\ Refreshes(Stream[known.refreshAll], k)
    BY <1>1 DEF Refreshed, Refreshes
  <2>2. known.refreshLevels[k] # NoSeq =>
            /\ known.refreshLevels[k] \in 1 .. position
            /\ Refreshes(Stream[known.refreshLevels[k]], k)
    BY <1>1 DEF Refreshed
  <2>3. QED
    BY <1>2, <2>1, <2>2 DEF Larger
<1>5. InForce(known, model, i, k) <=> model = "persistent_debit" \/ q >= last
  BY DEF InForce
<1> HIDE DEF last, q
<1>6. q >= last <=> \A j \in q + 1 .. position : ~Refreshes(Stream[j], k)
  <2>1. ASSUME q >= last, NEW j \in q + 1 .. position, Refreshes(Stream[j], k)
        PROVE  FALSE
    BY <1>2, <1>3, <1>4, <2>1
  <2>2. ASSUME ~(q >= last)
        PROVE  \E j \in q + 1 .. position : Refreshes(Stream[j], k)
    <3>1. last \in q + 1 .. position /\ Refreshes(Stream[last], k)
      BY <1>2, <1>4, <2>2 DEF NoSeq
    <3>2. QED
      BY <3>1
  <2>3. QED
    BY <2>1, <2>2
<1>7. QED
  BY <1>5, <1>6 DEF InForceAt, q

\* When its view is level with the market the strategy never believes in less
\* depth than there is, and once every report is in it believes in as much:
\* the debits rebuilt from reports in any order are those of the market.
THEOREM DepthFollowsReports == Spec => []KnownDepthFollows
<1>1. IInv => KnownDepthFollows
  <2> SUFFICES ASSUME IInv, shown = position
               PROVE  /\ \A k \in Keys : known.depth[k] >= actual.depth[k]
                      /\ known.children = actual.children => known.depth = actual.depth
    BY DEF KnownDepthFollows
  <2>1. Typed /\ Reported /\ Believed /\ Weighed
    BY DEF IInv
  <2>2. /\ known.children \in Seq(Child) /\ actual.children \in Seq(Child)
        /\ known.receipts \in Seq(Numbers) /\ actual.debits \in [Keys -> Nat]
        /\ DOMAIN known.children = DOMAIN actual.children
        /\ DepthAt(position) \in Depth /\ position \in Nat
    BY <2>1, TypesOf
  <2> DEFINE raw == DepthAt(position)
             owed == Owed(known, model)
  <2>3. known.depth = Residual(raw, owed) /\ actual.depth = Residual(raw, actual.debits)
    BY <2>1 DEF Weighed
  <2>4. owed \in [Keys -> Nat]
    BY <2>2, OwedType
  <2>5. ASSUME NEW i \in DOMAIN known.children, known.receipts[i] # NoSeq
        PROVE  /\ Report(i) \in sent /\ known.children[i] = actual.children[i]
               /\ known.receipts[i] \in 0 .. position
    <3>1. Report(i) \in sent
      BY <2>1, <2>5 DEF Believed
    <3>2. QED
      BY <2>1, <3>1 DEF Reported, Report
  <2>6. ASSUME NEW k \in Keys
        PROVE  /\ Weighty(known, model, k) \subseteq Weighing(k)
               /\ owed[k] = SumFunctionOnSet(Took(actual.children, k),
                                             Weighty(known, model, k))
               /\ Weighing(k) \subseteq DOMAIN actual.children
    <3>1. ASSUME NEW i \in Weighty(known, model, k)
          PROVE  i \in Weighing(k) /\ known.children[i] = actual.children[i]
      <4>1. i \in DOMAIN known.children /\ known.receipts[i] # NoSeq
            /\ InForce(known, model, i, k)
        BY DEF Weighty
      <4>2. Report(i) \in sent /\ Report(i).child = i
            /\ InForceAt(model, Report(i).seq, k, position)
        BY <2>5, <4>1, SameForce DEF Report
      <4>3. QED
        BY <2>5, <4>1, <4>2 DEF Weighing
    <3>2. Weighing(k) \subseteq DOMAIN actual.children
      BY <2>1 DEF Weighing, Reported
    <3>3. IsFiniteSet(Weighty(known, model, k))
      <4>1. Weighty(known, model, k) \subseteq DOMAIN known.children
        BY DEF Weighty
      <4>2. QED
        BY <2>2, <4>1, TookType, FS_Subset
    <3>4. \A i \in Weighty(known, model, k) :
              /\ Took(known.children, k)[i] \in Nat
              /\ Took(known.children, k)[i] = Took(actual.children, k)[i]
      <4>1. \A i \in DOMAIN known.children : Took(known.children, k)[i] \in Nat
        BY <2>2, TookType
      <4>2. Weighty(known, model, k) \subseteq DOMAIN known.children
        BY DEF Weighty
      <4>3. QED
        BY <2>2, <3>1, <4>1, <4>2 DEF Took
    <3>5. SumFunctionOnSet(Took(known.children, k), Weighty(known, model, k))
              = SumFunctionOnSet(Took(actual.children, k), Weighty(known, model, k))
      BY <3>3, <3>4, SumEqual
    <3>6. QED
      BY <3>1, <3>2, <3>5 DEF Owed
  <2>7. ASSUME NEW k \in Keys
        PROVE  actual.debits[k] = SumFunctionOnSet(Took(actual.children, k), Weighing(k))
    BY <2>1 DEF Weighed
  <2>8. ASSUME NEW k \in Keys
        PROVE  owed[k] <= actual.debits[k]
    <3>1. IsFiniteSet(Weighing(k))
      BY <2>2, <2>6, TookType, FS_Subset
    <3>2. \A i \in Weighing(k) : Took(actual.children, k)[i] \in Nat
      BY <2>2, <2>6, TookType
    <3>3. QED
      BY <2>6, <2>7, <3>1, <3>2, SumSubset
  <2>9. ASSUME NEW k \in Keys
        PROVE  known.depth[k] >= actual.depth[k]
    <3>1. raw[k] \in Nat /\ owed[k] \in Nat /\ actual.debits[k] \in Nat
      BY <2>2, <2>4 DEF Depth
    <3>2. known.depth[k] = Larger(0, raw[k] - owed[k])
          /\ actual.depth[k] = Larger(0, raw[k] - actual.debits[k])
      BY <2>3 DEF Residual
    <3> HIDE DEF owed, raw
    <3>3. QED
      BY <2>8, <3>1, <3>2 DEF Larger
  <2>10. ASSUME known.children = actual.children
         PROVE  known.depth = actual.depth
    <3>1. ASSUME NEW k \in Keys, NEW i \in Weighing(k)
          PROVE  i \in Weighty(known, model, k)
      <4>1. PICK r \in sent : r.child = i /\ InForceAt(model, r.seq, k, position)
        BY DEF Weighing
      <4>2. i \in DOMAIN known.children /\ actual.children[i].status # "reserved"
        BY <2>1, <2>2, <4>1 DEF Reported
      <4>3. known.receipts[i] # NoSeq
        <5>1. ASSUME known.receipts[i] = NoSeq PROVE FALSE
          <6>1. NoSeq \notin 0 .. position
            BY <2>2 DEF NoSeq
          <6>2. Report(i) \notin sent
            BY <2>1, <5>1, <6>1 DEF Reported, Report
          <6>3. known.children[i]
                    = NewChild(actual.children[i].qty, actual.children[i].limit)
            BY <2>1, <4>2, <6>2 DEF Believed
          <6>4. QED
            BY <2>10, <4>2, <6>3 DEF NewChild
        <5>2. QED
          BY <5>1
      <4>4. Report(i) = r
        BY <2>1, <2>5, <4>1, <4>2, <4>3 DEF Reported, Report
      <4>5. InForceAt(model, known.receipts[i], k, position)
        BY <4>1, <4>4 DEF Report
      <4>6. QED
        BY <2>5, <4>2, <4>3, <4>5, SameForce DEF Weighty
    <3>2. ASSUME NEW k \in Keys
          PROVE  owed[k] = actual.debits[k]
      <4>1. Weighty(known, model, k) = Weighing(k)
        BY <2>6, <3>1
      <4>2. QED
        BY <2>6, <2>7, <4>1
    <3>3. owed = actual.debits
      <4> HIDE DEF owed
      <4> QED
        BY <2>2, <2>4, <3>2
    <3>4. QED
      BY <2>3, <3>3
  <2>11. QED
    BY <2>9, <2>10
<1>2. QED
  BY <1>1, Invariant, PTL

=============================================================================

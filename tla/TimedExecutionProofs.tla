------------------------ MODULE TimedExecutionProofs ------------------------
(***************************************************************************)
(* run_timed_execution for every session, schedule, parent and rule: it    *)
(* uses its ledger as Execution allows, and every order is settled when    *)
(* the run ends.                                                           *)
(***************************************************************************)
EXTENDS TimedExecution, LedgerProofs

-----------------------------------------------------------------------------
\* The inductive invariant.

CutoffEvent == <<Deadline, CutoffPriority, None>>

ArrivalEvent(i) == <<orders[i].arrival, ArrivalPriority, i>>

\* An event is a message, a tick, the arrival of an order, or the cutoff.
IsMessageEvent(e) == \E m \in UNION Streams : e = <<m.time, MarketPriority, m>>
IsDecision(e) == \E k \in Ticks : e = <<k[1], DecisionPriority, k[2]>>
IsArrival(e) == \E i \in DOMAIN orders : e = ArrivalEvent(i)

DecisionsLeft == {e \in agenda : PriorityOf(e) = DecisionPriority}

\* Until it is taken the cutoff is there, and so is the arrival of every order
\* on its way; the arrival of another order lies behind the deadline.
AgendaInv ==
    /\ \A e \in agenda : IsMessageEvent(e) \/ IsDecision(e) \/ IsArrival(e) \/ e = CutoffEvent
    /\ ended \/ CutoffEvent \in agenda
    /\ \A i \in DOMAIN orders : Pending(i) => ArrivalEvent(i) \in agenda
    /\ \A i \in DOMAIN orders :
           ArrivalEvent(i) \in agenda => Pending(i) \/ orders[i].arrival > Deadline
    /\ IsFiniteSet(DecisionsLeft)
    /\ Len(orders) + Cardinality(DecisionsLeft) <= Slices + 1

Timing == [decision : Nat, arrival : Nat, processed : Nat \cup {None},
           status : {"pending", "filled", "partial", "unfilled", "expired",
                     "rejected_invalid", "rejected_stale"}]

Settled(i) ==
    LET o == orders[i]
    IN  IF o.arrival <= Deadline
        THEN o.processed = o.arrival /\ o.status \notin {"pending", "expired"}
        ELSE /\ o.processed = Deadline /\ o.status = "expired"
             /\ ledger.children[i].fills = NoFills

\* An order is on its way exactly when its child is reserved, and settled
\* otherwise.
OrdersInv ==
    /\ orders \in Seq(Timing) /\ Len(orders) = Len(ledger.children)
    /\ \A i \in DOMAIN orders :
           /\ Pending(i) <=> ledger.children[i].status = "reserved"
           /\ ~Pending(i) => Settled(i)
           /\ ended => ~Pending(i)

IInv ==
    /\ Sound(ledger) /\ model \in Models /\ book.depth \in Depth
    /\ ended \in BOOLEAN
    /\ AgendaInv /\ OrdersInv

\* The decisions of the first heap are the ticks.
LEMMA InitCount ==
    ASSUME Init
    PROVE  IsFiniteSet(DecisionsLeft) /\ Cardinality(DecisionsLeft) <= Slices + 1
<1> DEFINE f == [k \in Ticks |-> <<k[1], DecisionPriority, k[2]>>]
<1>1. DecisionsLeft = {f[k] : k \in Ticks}
  BY DEF Init, DecisionsLeft, PriorityOf, MarketPriority, DecisionPriority, CutoffPriority
<1>2. f \in Surjection(Ticks, DecisionsLeft)
  BY <1>1 DEF Surjection
<1>3. IsFiniteSet(DecisionsLeft) /\ Cardinality(DecisionsLeft) <= Cardinality(Ticks)
  <2> HIDE DEF f
  <2> QED
    BY <1>2, TickCount, FS_Surjection
<1>4. Cardinality(DecisionsLeft) \in Nat /\ Cardinality(Ticks) \in Nat
  BY <1>3, TickCount, FS_CardinalityType
<1>5. QED
  BY <1>3, <1>4, TickCount, ScheduleAssumption

\* The runner satisfies the invariant before its first event.
LEMMA InitHolds == Init => IInv
<1> SUFFICES ASSUME Init PROVE IInv
  OBVIOUS
<1>1. /\ ledger = EmptyLedger /\ orders = <<>> /\ DOMAIN orders = {} /\ ended = FALSE
      /\ Len(orders) = 0 /\ Len(ledger.children) = 0 /\ model \in Models
      /\ book.depth = EmptyDepth
  BY DEF Init, EmptyLedger, InitBook
<1>2. Sound(ledger) /\ book.depth \in Depth
  BY <1>1, EmptySound
<1>3. \A e \in agenda : IsMessageEvent(e) \/ IsDecision(e) \/ e = CutoffEvent
  BY DEF Init, IsMessageEvent, IsDecision, CutoffEvent
<1>4. CutoffEvent \in agenda
  BY DEF Init, CutoffEvent
<1>5. /\ IsFiniteSet(DecisionsLeft) /\ Cardinality(DecisionsLeft) \in Nat
      /\ Cardinality(DecisionsLeft) <= Slices + 1
  BY InitCount, FS_CardinalityType
<1>6. AgendaInv
  BY <1>1, <1>3, <1>4, <1>5, ScheduleAssumption DEF AgendaInv
<1>7. OrdersInv
  BY <1>1 DEF OrdersInv
<1>8. QED
  BY <1>1, <1>2, <1>6, <1>7 DEF IInv

-----------------------------------------------------------------------------
\* What is taken from the heap.

\* Every event has a natural time.
LEMMA EventTypes ==
    ASSUME IInv, NEW e \in agenda
    PROVE  TimeOf(e) \in Nat /\ e = <<TimeOf(e), PriorityOf(e), Item(e)>>
<1> USE DEF TimeOf, PriorityOf, Item
<1>1. CASE IsMessageEvent(e)
  BY <1>1, TimedAssumption DEF IsMessageEvent
<1>2. CASE IsDecision(e)
  BY <1>2, TickTypes DEF IsDecision
<1>3. CASE IsArrival(e)
  <2>1. \A i \in DOMAIN orders : orders[i].arrival \in Nat
    <3>1. orders \in Seq(Timing)
      BY DEF IInv, OrdersInv
    <3>2. \A i \in DOMAIN orders : orders[i] \in Timing
      BY <3>1
    <3>3. QED
      BY <3>2 DEF Timing
  <2>2. QED
    BY <1>3, <2>1 DEF IsArrival, ArrivalEvent
<1>4. CASE e = CutoffEvent
  BY <1>4, ScheduleAssumption DEF CutoffEvent
<1>5. QED
  BY <1>1, <1>2, <1>3, <1>4 DEF IInv, AgendaInv

\* Nothing is taken before the cutoff that lies behind it.
LEMMA TakenInTime ==
    ASSUME IInv, NEW e \in agenda, NEW p, Pop(e, p)
    PROVE  TimeOf(e) <= Deadline /\ ~ended /\ CutoffEvent \in agenda
<1>1. ~ended /\ CutoffEvent \in agenda /\ ~Precedes(CutoffEvent, e)
  BY DEF Pop, IInv, AgendaInv
<1>2. ~(Deadline < TimeOf(e))
  BY <1>1 DEF Precedes, TimeOf, CutoffEvent
<1>3. QED
  BY <1>1, <1>2, EventTypes, ScheduleAssumption

\* The priority of an event tells its kind.
LEMMA EventKinds ==
    ASSUME IInv, NEW e \in agenda
    PROVE  /\ PriorityOf(e) = MarketPriority =>
                  /\ Item(e) \in UNION Streams
                  /\ e = <<Item(e).time, MarketPriority, Item(e)>>
           /\ PriorityOf(e) = ArrivalPriority =>
                  Item(e) \in DOMAIN orders /\ e = ArrivalEvent(Item(e))
           /\ PriorityOf(e) = DecisionPriority =>
                  /\ <<TimeOf(e), Item(e)>> \in Ticks
                  /\ Item(e)[1] \in Nat
           /\ PriorityOf(e) = CutoffPriority => e = CutoffEvent
<1> USE DEF TimeOf, PriorityOf, Item, MarketPriority, ArrivalPriority, DecisionPriority,
            CutoffPriority
<1>1. CASE IsMessageEvent(e)
  BY <1>1 DEF IsMessageEvent
<1>2. CASE IsDecision(e)
  <2>1. PICK k \in Ticks : e = <<k[1], DecisionPriority, k[2]>>
    BY <1>2 DEF IsDecision
  <2>2. k = <<k[1], k[2]>> /\ k[2][1] \in Nat
    BY TickTypes
  <2>3. QED
    BY <2>1, <2>2
<1>3. CASE IsArrival(e)
  BY <1>3 DEF IsArrival, ArrivalEvent
<1>4. CASE e = CutoffEvent
  BY <1>4 DEF CutoffEvent
<1>5. QED
  BY <1>1, <1>2, <1>3, <1>4 DEF IInv, AgendaInv

\* A step that takes a message or a decision and sends no order.
LEMMA QuietTake ==
    ASSUME IInv, NEW e \in agenda, agenda' = agenda \ {e},
           PriorityOf(e) \in {MarketPriority, DecisionPriority},
           UNCHANGED <<orders, ended>>, ledger'.children = ledger.children
    PROVE  AgendaInv' /\ OrdersInv'
<1> USE DEF MarketPriority, ArrivalPriority, DecisionPriority, CutoffPriority
<1>1. e # CutoffEvent /\ \A i : e # ArrivalEvent(i)
  BY DEF PriorityOf, CutoffEvent, ArrivalEvent
<1>2. /\ DecisionsLeft' \subseteq DecisionsLeft
      /\ IsFiniteSet(DecisionsLeft) /\ Len(orders) + Cardinality(DecisionsLeft) <= Slices + 1
      /\ Len(orders) \in Nat
  BY DEF DecisionsLeft, IInv, AgendaInv, OrdersInv
<1>3. /\ IsFiniteSet(DecisionsLeft') /\ Cardinality(DecisionsLeft') <= Cardinality(DecisionsLeft)
      /\ Cardinality(DecisionsLeft) \in Nat /\ Cardinality(DecisionsLeft') \in Nat
  BY <1>2, FS_Subset, FS_CardinalityType
<1>4. Len(orders) + Cardinality(DecisionsLeft') <= Slices + 1
  BY <1>2, <1>3, ScheduleAssumption
<1>5. AgendaInv'
  BY <1>1, <1>3, <1>4
     DEF IInv, AgendaInv, IsMessageEvent, IsDecision, IsArrival, ArrivalEvent, CutoffEvent, Pending
<1>6. OrdersInv'
  BY DEF IInv, OrdersInv, Settled, Pending
<1>7. QED
  BY <1>5, <1>6

\* What Processed writes, and what it leaves alone.
LEMMA ProcessedOrder ==
    ASSUME orders \in Seq(Timing), NEW i \in DOMAIN orders, NEW t \in Nat,
           NEW s \in {"filled", "partial", "unfilled", "expired", "rejected_invalid",
                      "rejected_stale"},
           Processed(i, t, s)
    PROVE  /\ orders' \in Seq(Timing)
           /\ Len(orders') = Len(orders) /\ DOMAIN orders' = DOMAIN orders
           /\ \A j \in DOMAIN orders \ {i} : orders'[j] = orders[j]
           /\ orders'[i].processed = t /\ orders'[i].status = s
           /\ orders'[i].arrival = orders[i].arrival
           /\ orders'[i].decision = orders[i].decision
<1> DEFINE o == [orders[i] EXCEPT !.processed = t, !.status = s]
<1>1. orders[i] \in Timing
  OBVIOUS
<1>2. /\ o \in Timing /\ o.processed = t /\ o.status = s /\ o.arrival = orders[i].arrival
      /\ o.decision = orders[i].decision
  BY <1>1 DEF Timing
<1>3. orders' = [orders EXCEPT ![i] = o]
  BY DEF Processed
<1>4. QED
  <2> HIDE DEF o
  <2> QED
    BY <1>2, <1>3

\* An order on its way is settled: its arrival is taken, or lies behind the
\* deadline.
LEMMA SettleOne ==
    ASSUME IInv, ~ended, UNCHANGED ended,
           NEW i \in DOMAIN orders, Pending(i), NEW t \in Nat,
           NEW s \in {"filled", "partial", "unfilled", "expired", "rejected_invalid",
                      "rejected_stale"},
           Processed(i, t, s),
           Len(ledger'.children) = Len(ledger.children),
           \A j \in DOMAIN ledger.children \ {i} : ledger'.children[j] = ledger.children[j],
           ledger'.children[i].status # "reserved",
           \/ agenda' = agenda \ {ArrivalEvent(i)}
           \/ agenda' = agenda /\ orders[i].arrival > Deadline,
           IF orders[i].arrival <= Deadline THEN t = orders[i].arrival /\ s # "expired"
           ELSE t = Deadline /\ s = "expired" /\ ledger'.children[i].fills = NoFills
    PROVE  AgendaInv' /\ OrdersInv'
<1> USE DEF MarketPriority, ArrivalPriority, DecisionPriority, CutoffPriority
<1>1. /\ orders' \in Seq(Timing)
      /\ Len(orders') = Len(orders) /\ DOMAIN orders' = DOMAIN orders
      /\ \A j \in DOMAIN orders \ {i} : orders'[j] = orders[j]
      /\ orders'[i].processed = t /\ orders'[i].status = s
      /\ orders'[i].arrival = orders[i].arrival
  BY ProcessedOrder DEF IInv, OrdersInv
<1>2. \A j \in DOMAIN orders : ArrivalEvent(j)' = ArrivalEvent(j)
  BY <1>1 DEF ArrivalEvent
<1>3. DecisionsLeft' = DecisionsLeft
  BY DEF DecisionsLeft, PriorityOf, ArrivalEvent
<1>4. \A j \in DOMAIN orders : Pending(j)' <=> (Pending(j) /\ j # i)
  BY <1>1 DEF Pending
<1>5. AgendaInv'
  <2>1. \A e \in agenda' : (IsMessageEvent(e) \/ IsDecision(e) \/ IsArrival(e) \/ e = CutoffEvent)'
    <3>1. \A e : IsArrival(e)' <=> IsArrival(e)
      BY <1>1, <1>2 DEF IsArrival
    <3>2. \A e \in agenda : IsMessageEvent(e) \/ IsDecision(e) \/ IsArrival(e) \/ e = CutoffEvent
      BY DEF IInv, AgendaInv
    <3>3. agenda' \subseteq agenda
      OBVIOUS
    <3>4. QED
      BY <3>1, <3>2, <3>3 DEF IsMessageEvent, IsDecision, CutoffEvent
  <2>2. CutoffEvent \in agenda'
    BY DEF IInv, AgendaInv, CutoffEvent, ArrivalEvent
  <2>3. \A j \in DOMAIN orders' : Pending(j)' => ArrivalEvent(j)' \in agenda'
    <3>1. \A j \in DOMAIN orders : Pending(j) => ArrivalEvent(j) \in agenda
      BY DEF IInv, AgendaInv
    <3>2. \A j \in DOMAIN orders : j # i => ArrivalEvent(j) # ArrivalEvent(i)
      BY DEF ArrivalEvent
    <3>3. QED
      BY <1>1, <1>2, <1>4, <3>1, <3>2
  <2>4. \A j \in DOMAIN orders' :
            ArrivalEvent(j)' \in agenda' => Pending(j)' \/ orders'[j].arrival > Deadline
    <3>1. \A j \in DOMAIN orders :
              ArrivalEvent(j) \in agenda => Pending(j) \/ orders[j].arrival > Deadline
      BY DEF IInv, AgendaInv
    <3>2. ASSUME NEW j \in DOMAIN orders', ArrivalEvent(j)' \in agenda'
          PROVE  Pending(j)' \/ orders'[j].arrival > Deadline
      BY <1>1, <1>2, <1>4, <3>1, <3>2
    <3>3. QED
      BY <3>2
  <2>5. IsFiniteSet(DecisionsLeft') /\ Len(orders') + Cardinality(DecisionsLeft') <= Slices + 1
    BY <1>1, <1>3 DEF IInv, AgendaInv
  <2>6. QED
    BY <2>1, <2>2, <2>3, <2>4, <2>5 DEF AgendaInv
<1>6. OrdersInv'
  <2>1. DOMAIN ledger.children = DOMAIN orders /\ DOMAIN ledger'.children = DOMAIN orders
        /\ Len(orders) = Len(ledger.children)
    BY DEF IInv, OrdersInv, Sound, Children
  <2>2. ASSUME NEW j \in DOMAIN orders, j # i
        PROVE  /\ Pending(j)' <=> ledger'.children[j].status = "reserved"
               /\ ~Pending(j)' => Settled(j)'
    <3>1. orders'[j] = orders[j] /\ ledger'.children[j] = ledger.children[j]
      BY <1>1, <2>1, <2>2
    <3>2. (Pending(j) <=> ledger.children[j].status = "reserved") /\ (~Pending(j) => Settled(j))
      BY DEF IInv, OrdersInv
    <3>3. QED
      BY <3>1, <3>2 DEF Pending, Settled
  <2>3. Settled(i)' /\ ~Pending(i)' /\ ledger'.children[i].status # "reserved"
    BY <1>1 DEF Settled, Pending
  <2>4. QED
    BY <1>1, <2>1, <2>2, <2>3 DEF OrdersInv
<1>7. QED
  BY <1>5, <1>6

-----------------------------------------------------------------------------
\* The ledger of the contract computes what the ledger of the runner does.
LEMMA ContractOperators ==
    /\ \A children : Contract!Available(children) = Available(children)
    /\ \A l, i : Contract!Cancelled(l, i) = Cancelled(l, i)
    /\ \A l, i : Contract!Executed(l, i) = Executed(l, i)
    /\ \A l, q, c : Contract!Submitted(l, q, c) = Submitted(l, q, c)
    /\ \A l, lm, r, m : Contract!Observed(l, lm, r, m) = Observed(l, lm, r, m)
    /\ \A b, m : Contract!DepthAfter(b, m) = DepthAfter(b, m)
    /\ \A d : Contract!Crossed(d) <=> Crossed(d)
<1>1. ASSUME NEW f, NEW S PROVE Contract!SumFunctionOnSet(f, S) = FoldOf(f, S)[S]
  BY DEF Contract!SumFunctionOnSet, Contract!FoldFunctionOnSet, Contract!MapThenFoldSet, FoldOf,
         IsFold, Adds, Chosen1
<1>2. ASSUME NEW f PROVE Contract!Total(f) = Total(f)
  BY <1>1, TotalIsFold DEF Contract!Total
<1>3. ASSUME NEW children PROVE Contract!Available(children) = Available(children)
  <2>1. Contract!Filled(children) = Filled(children)
    <3>1. [i \in DOMAIN children |-> Contract!Total(children[i].fills)]
              = [i \in DOMAIN children |-> Total(children[i].fills)]
      BY <1>2
    <3>2. QED
      BY <1>1, <3>1, FilledIsFold DEF Contract!Filled
  <2>2. Contract!Reserved(children) = Reserved(children)
    <3>1. [i \in DOMAIN children |-> Contract!Held(children[i])]
              = [i \in DOMAIN children |-> Held(children[i])]
      BY DEF Contract!Held, Held
    <3>2. QED
      BY <1>1, <3>1, ReservedIsFold DEF Contract!Reserved
  <2>3. QED
    BY <2>1, <2>2 DEF Contract!Available, Available
<1>4. \A l, i : Contract!Executed(l, i) = Executed(l, i)
  <2>1. ASSUME NEW d, NEW c, NEW p PROVE Contract!Ahead(d, c, p) = Ahead(d, c, p)
    <3> DEFINE S == {b \in Prices : Eligible(c, b) /\ Better(b, p)}
    <3>1. /\ {b \in Prices : Contract!Eligible(c, b) /\ Contract!Better(b, p)} = S
          /\ Contract!Offered(d) = Offered(d)
      BY DEF Contract!Eligible, Eligible, Contract!Better, Better, Contract!Offered, Offered,
             Contract!Opposite, Opposite
    <3>2. QED
      BY <1>1, <3>1, AheadIsFold DEF Contract!Ahead
  <2>2. \A d, q, c : Contract!FillsOf(d, q, c) = FillsOf(d, q, c)
    BY <2>1 DEF Contract!FillsOf, FillsOf, Contract!Eligible, Eligible, Contract!Smaller,
                Smaller, Contract!Larger, Larger, Contract!Opposite, Opposite
  <2>3. \A f, k : Contract!Taken(f, k) = Taken(f, k)
    BY DEF Contract!Taken, Taken, Contract!Opposite, Opposite
  <2>4. \A d, f : Contract!Less(d, f) = Less(d, f)
    BY <2>3 DEF Contract!Less, Less, Contract!Keys, Keys, Contract!Sides, Sides
  <2>5. \A c, f : Contract!Outcome(c, f) = Outcome(c, f)
    BY <1>2 DEF Contract!Outcome, Outcome
  <2>6. QED
    BY <2>2, <2>3, <2>4, <2>5
       DEF Contract!Executed, Executed, Contract!Keys, Keys, Contract!Sides, Sides
<1>5. \A l, lm, r, m : Contract!Observed(l, lm, r, m) = Observed(l, lm, r, m)
  BY DEF Contract!Observed, Observed, Contract!Refresh, Refresh, Contract!Residual, Residual,
         Contract!NoDebits, NoDebits, Contract!Keys, Keys, Contract!Sides, Sides,
         Contract!Larger, Larger
<1>6. \A b, m : Contract!DepthAfter(b, m) = DepthAfter(b, m)
  BY DEF Contract!DepthAfter, DepthAfter, Contract!Overlay, Overlay, Contract!Keys, Keys,
         Contract!Sides, Sides
<1>7. QED
  BY <1>3, <1>4, <1>5, <1>6
     DEF Contract!Cancelled, Cancelled, Contract!Submitted, Submitted, Contract!NewChild,
         NewChild, Contract!NoFills, NoFills, Contract!Crossed, Crossed

\* What an event does to the ledger is a step of the contract, or nothing.
ContractStep == Contract!Next \/ UNCHANGED <<ledger, model, book.depth>>

-----------------------------------------------------------------------------
\* Every event keeps the invariant and the contract.

\* An accepted market message does, as an observation of the contract.
LEMMA AcceptKeeps ==
    ASSUME IInv, NEW e \in agenda, AcceptMessage(e)
    PROVE  IInv' /\ ContractStep
<1> DEFINE m == Item(e)
<1>1. /\ m \in UNION Streams /\ m.seq \in Nat
      /\ IF m.kind = "snapshot" THEN m.levels \in Depth ELSE IsBatch(m.levels)
  BY EventKinds, TimedAssumption DEF AcceptMessage, Pop
<1>2. book'.depth = DepthAfter([depth |-> book.depth], m) /\ book'.depth = DepthAfter(book, m)
  BY DEF AcceptMessage, Commit, DepthAfter
<1>3. book'.depth \in Depth /\ ~Crossed(book'.depth)
  <2>1. book'.depth \in Depth
    BY <1>1, <1>2, DepthAfterType DEF IInv
  <2>2. ~Crossed(DepthAfter(book, m))
    BY DEF AcceptMessage, Accepts, AcceptsSnapshot, AcceptsUpdate, DepthAfter
  <2>3. QED
    BY <1>2, <2>1, <2>2
<1>4. ledger' = Observed(ledger, model, book'.depth, m) /\ model' = model
  BY DEF AcceptMessage, Pop
<1>5. Sound(ledger') /\ ledger'.children = ledger.children
  BY <1>3, <1>4, ObservedSound DEF IInv
<1>6. AgendaInv' /\ OrdersInv'
  BY <1>5, QuietTake DEF AcceptMessage, Pop
<1>7. Contract!Observe(m)
  <2> HIDE DEF m
  <2> QED
    BY <1>2, <1>3, <1>4, ContractOperators DEF Contract!Observe
<1>8. QED
  BY <1>1, <1>3, <1>4, <1>5, <1>6, <1>7 DEF IInv, ContractStep, Contract!Next, AcceptMessage

\* A rejected one changes the book only.
LEMMA RejectKeeps ==
    ASSUME IInv, NEW e \in agenda, RejectMessage(e)
    PROVE  IInv' /\ ContractStep
<1>1. book'.depth = book.depth /\ ledger' = ledger /\ model' = model /\ ended' = ended
  BY DEF RejectMessage, Reject, Pop
<1>2. AgendaInv' /\ OrdersInv'
  BY <1>1, QuietTake DEF RejectMessage, Pop
<1>3. QED
  BY <1>1, <1>2 DEF IInv, ContractStep

\* The order of an arrival that is taken is on its way.
LEMMA ArrivalPending ==
    ASSUME IInv, NEW e \in agenda, Pop(e, ArrivalPriority)
    PROVE  LET i == Item(e)
           IN  /\ i \in DOMAIN orders /\ e = ArrivalEvent(i) /\ Pending(i)
               /\ i \in DOMAIN ledger.children /\ ledger.children[i].status = "reserved"
               /\ TimeOf(e) = orders[i].arrival /\ TimeOf(e) <= Deadline
               /\ TimeOf(e) \in Nat /\ ~ended
<1> DEFINE i == Item(e)
<1>1. i \in DOMAIN orders /\ e = ArrivalEvent(i)
  BY EventKinds DEF Pop
<1>2. TimeOf(e) = orders[i].arrival /\ TimeOf(e) <= Deadline /\ TimeOf(e) \in Nat /\ ~ended
  BY <1>1, TakenInTime, EventTypes DEF TimeOf, ArrivalEvent
<1>3. Pending(i)
  BY <1>1, <1>2, ScheduleAssumption DEF IInv, AgendaInv
<1>4. i \in DOMAIN ledger.children
  BY <1>1 DEF IInv, OrdersInv, Sound, Children
<1>5. QED
  BY <1>1, <1>2, <1>3, <1>4 DEF IInv, OrdersInv

\* An arrival in time does, as an execution of the contract.
LEMMA ArrivalExecutedKeeps ==
    ASSUME IInv, NEW e \in agenda, ArrivalExecuted(e)
    PROVE  IInv' /\ ContractStep
<1> DEFINE i == Item(e)
           done == ledger'.children[i]
<1>1. /\ i \in DOMAIN orders /\ e = ArrivalEvent(i) /\ Pending(i)
      /\ i \in DOMAIN ledger.children /\ ledger.children[i].status = "reserved"
      /\ TimeOf(e) = orders[i].arrival /\ TimeOf(e) <= Deadline
      /\ TimeOf(e) \in Nat /\ ~ended
  BY ArrivalPending DEF ArrivalExecuted
<1>2. ledger' = Executed(ledger, i) /\ model' = model /\ book' = book /\ ended' = ended
  BY DEF ArrivalExecuted, Pop
<1>3. /\ Sound(ledger') /\ done.status \in {"filled", "partial", "unfilled"}
      /\ Len(ledger'.children) = Len(ledger.children)
      /\ \A j \in DOMAIN ledger.children \ {i} : ledger'.children[j] = ledger.children[j]
  <2>1. ledger.children \in Seq(Child) /\ Sound(ledger)
    BY DEF IInv, Sound, Children
  <2> DEFINE child == ledger.children[i]
             fills == FillsOf(ledger.depth, child.qty, child.limit)
             outcome == Outcome(child, fills)
  <2>2. /\ Sound(ledger')
        /\ ledger'.children = [ledger.children EXCEPT ![i] = outcome]
        /\ outcome.status \in {"filled", "partial", "unfilled"}
    BY <1>1, <1>2, <2>1, ExecutedSound
  <2> HIDE DEF outcome
  <2>3. QED
    BY <1>1, <2>1, <2>2
<1>4. Processed(i, TimeOf(e), done.status) /\ agenda' = agenda \ {ArrivalEvent(i)}
  BY <1>1 DEF ArrivalExecuted
<1>5. AgendaInv' /\ OrdersInv'
  <2> HIDE DEF i, done
  <2> QED
    BY <1>1, <1>2, <1>3, <1>4, SettleOne DEF done
<1>6. Contract!Execute(i)
  BY <1>1, <1>2, ContractOperators DEF Contract!Execute
<1>7. QED
  BY <1>1, <1>2, <1>3, <1>5, <1>6 DEF IInv, ContractStep, Contract!Next

\* A cancelled child of a sound ledger.
LEMMA CancelKeeps ==
    ASSUME IInv, NEW i \in DOMAIN orders, Pending(i), ledger' = Cancelled(ledger, i),
           model' = model, book' = book
    PROVE  /\ Sound(ledger') /\ ledger'.children[i].status = "cancelled"
           /\ ledger'.children[i].fills = NoFills
           /\ Len(ledger'.children) = Len(ledger.children)
           /\ \A j \in DOMAIN ledger.children \ {i} : ledger'.children[j] = ledger.children[j]
           /\ Contract!Next
<1>1. /\ Sound(ledger) /\ ledger.children \in Seq(Child) /\ i \in DOMAIN ledger.children
      /\ ledger.children[i].status = "reserved" /\ ledger.children[i].fills = NoFills
  BY DEF IInv, OrdersInv, Sound, Children
<1> DEFINE child == ledger'.children[i]
<1>2. /\ Sound(ledger') /\ ledger'.children = [ledger.children EXCEPT ![i] = child]
      /\ child.status = "cancelled" /\ child.fills = NoFills
  BY <1>1, CancelledSound
<1>3. /\ Len(ledger'.children) = Len(ledger.children)
      /\ \A j \in DOMAIN ledger.children \ {i} : ledger'.children[j] = ledger.children[j]
  <2> HIDE DEF child
  <2> QED
    BY <1>1, <1>2
<1>4. Contract!Cancel(i)
  BY <1>1, ContractOperators DEF Contract!Cancel
<1>5. QED
  BY <1>1, <1>2, <1>3, <1>4 DEF Contract!Next

\* An arrival that is turned away does, as a cancellation.
LEMMA ArrivalRejectedKeeps ==
    ASSUME IInv, NEW e \in agenda, ArrivalRejected(e)
    PROVE  IInv' /\ ContractStep
<1> DEFINE i == Item(e)
           s == IF Condition(TimeOf(e)) = "invalid" THEN "rejected_invalid" ELSE "rejected_stale"
<1>1. /\ i \in DOMAIN orders /\ e = ArrivalEvent(i) /\ Pending(i)
      /\ TimeOf(e) = orders[i].arrival /\ TimeOf(e) <= Deadline
      /\ TimeOf(e) \in Nat /\ ~ended
  BY ArrivalPending DEF ArrivalRejected
<1>2. /\ ledger' = Cancelled(ledger, i) /\ model' = model /\ book' = book /\ ended' = ended
      /\ Processed(i, TimeOf(e), s) /\ agenda' = agenda \ {ArrivalEvent(i)}
  BY <1>1 DEF ArrivalRejected, Pop
<1>3. /\ Sound(ledger') /\ ledger'.children[i].status = "cancelled"
      /\ Len(ledger'.children) = Len(ledger.children)
      /\ \A j \in DOMAIN ledger.children \ {i} : ledger'.children[j] = ledger.children[j]
      /\ Contract!Next
  BY <1>1, <1>2, CancelKeeps
<1>4. AgendaInv' /\ OrdersInv'
  <2>1. s \in {"rejected_invalid", "rejected_stale"}
    OBVIOUS
  <2> HIDE DEF i, s
  <2> QED
    BY <1>1, <1>2, <1>3, <2>1, SettleOne
<1>5. QED
  BY <1>2, <1>3, <1>4 DEF IInv, ContractStep

\* Only arrivals behind the deadline expire.
LEMMA ExpiresLate ==
    ASSUME IInv, NEW e \in agenda, NEW i \in DOMAIN orders, Expire(e, i)
    PROVE  /\ TimeOf(e) \in Nat /\ TimeOf(e) = Deadline
           /\ orders[i].arrival > Deadline /\ ~(orders[i].arrival <= Deadline)
<1>1. /\ Pending(i) /\ ~ended /\ ledger' = Cancelled(ledger, i) /\ model' = model
      /\ book' = book /\ ended' = ended /\ agenda' = agenda
      /\ Processed(i, TimeOf(e), "expired")
  BY DEF Expire, Pop
<1>2. TimeOf(e) = Deadline /\ Deadline \in Nat /\ PriorityOf(e) = CutoffPriority
  <2>1. PriorityOf(e) = CutoffPriority
    BY DEF Expire, Pop
  <2>2. e = CutoffEvent
    BY <2>1, EventKinds
  <2>3. TimeOf(e) = Deadline
    BY <2>2 DEF CutoffEvent, TimeOf
  <2>4. QED
    BY <2>1, <2>3, ScheduleAssumption
<1>3. orders[i].arrival > Deadline
  <2>1. ArrivalEvent(i) \in agenda /\ ~Precedes(ArrivalEvent(i), e)
    BY <1>1 DEF IInv, AgendaInv, Expire, Pop
  <2>2. TimeOf(ArrivalEvent(i)) \in Nat
    BY <2>1, EventTypes
  <2>3. TimeOf(ArrivalEvent(i)) = orders[i].arrival /\ PriorityOf(ArrivalEvent(i)) = ArrivalPriority
    BY DEF ArrivalEvent, TimeOf, PriorityOf
  <2>4. ~(orders[i].arrival < Deadline) /\ ~(orders[i].arrival = Deadline)
    BY <1>2, <2>1, <2>3 DEF Precedes, ArrivalPriority, CutoffPriority
  <2>5. QED
    BY <1>2, <2>2, <2>3, <2>4
<1>4. ~(orders[i].arrival <= Deadline)
  <2>1. orders \in Seq(Timing) /\ orders[i] \in Timing
    BY DEF IInv, OrdersInv
  <2>2. orders[i].arrival \in Nat
    BY <2>1 DEF Timing
  <2>3. QED
    BY <1>2, <1>3, <2>2
<1>5. QED
  BY <1>2, <1>3, <1>4

\* An expiry at the deadline does, as a cancellation.
LEMMA ExpireKeeps ==
    ASSUME IInv, NEW e \in agenda, NEW i \in DOMAIN orders, Expire(e, i)
    PROVE  IInv' /\ ContractStep
<1>1. /\ Pending(i) /\ ~ended /\ ledger' = Cancelled(ledger, i) /\ model' = model
      /\ book' = book /\ ended' = ended /\ agenda' = agenda
      /\ Processed(i, TimeOf(e), "expired")
  BY DEF Expire, Pop
<1>2. /\ TimeOf(e) \in Nat /\ TimeOf(e) = Deadline
      /\ orders[i].arrival > Deadline /\ ~(orders[i].arrival <= Deadline)
  BY ExpiresLate
<1>3. /\ Sound(ledger') /\ ledger'.children[i].status = "cancelled"
      /\ ledger'.children[i].fills = NoFills
      /\ Len(ledger'.children) = Len(ledger.children)
      /\ \A j \in DOMAIN ledger.children \ {i} : ledger'.children[j] = ledger.children[j]
      /\ Contract!Next
  BY <1>1, CancelKeeps
<1>4. AgendaInv' /\ OrdersInv'
  BY <1>1, <1>2, <1>3, SettleOne
<1>5. QED
  BY <1>1, <1>3, <1>4 DEF IInv, ContractStep

\* What a decision selects fits the parent.
LEMMA ChosenFits ==
    ASSUME IInv, NEW e \in agenda, PriorityOf(e) = DecisionPriority
    PROVE  /\ Chosen(e) \in Nat /\ Chosen(e) <= Quantity
           /\ Chosen(e) > 0 => Chosen(e) <= Available(ledger.children)
<1> DEFINE target == Item(e)[1]
           F == Filled(ledger.children)
           R == Reserved(ledger.children)
<1>1. target \in Nat /\ Quantity \in Nat
  BY EventKinds, ParentAssumption
<1>2. F \in Nat /\ R \in Nat /\ F + R <= Quantity
  BY ChildSums DEF IInv, Sound, Children
<1>3. /\ Wanted(ledger.children, target) \in Nat
      /\ Wanted(ledger.children, target) <= Available(ledger.children)
      /\ Wanted(ledger.children, target) <= Quantity
  <2> HIDE DEF target, F, R
  <2> QED
    BY <1>1, <1>2 DEF Wanted, Available, Smaller, Larger, F, R
<1>4. Chosen(e) \in {0, Wanted(ledger.children, target)}
  BY DEF Chosen, Selected
<1>5. QED
  BY <1>1, <1>3, <1>4

\* A decision that is taken leaves one fewer, whatever arrival it adds.
LEMMA DecisionTaken ==
    ASSUME IInv, NEW e \in agenda, PriorityOf(e) = DecisionPriority,
           NEW t, NEW i, agenda' = (agenda \ {e}) \cup {<<t, ArrivalPriority, i>>}
    PROVE  /\ IsFiniteSet(DecisionsLeft') /\ Cardinality(DecisionsLeft') \in Nat
           /\ Len(orders) + Cardinality(DecisionsLeft') + 1 <= Slices + 1
<1>1. /\ IsFiniteSet(DecisionsLeft) /\ e \in DecisionsLeft
      /\ Len(orders) + Cardinality(DecisionsLeft) <= Slices + 1 /\ Len(orders) \in Nat
  BY DEF IInv, AgendaInv, OrdersInv, DecisionsLeft
<1>2. DecisionsLeft' = DecisionsLeft \ {e}
  BY DEF DecisionsLeft, PriorityOf, ArrivalPriority, DecisionPriority
<1>3. /\ Cardinality(DecisionsLeft') = Cardinality(DecisionsLeft) - 1
      /\ IsFiniteSet(DecisionsLeft') /\ Cardinality(DecisionsLeft') \in Nat
      /\ Cardinality(DecisionsLeft) \in Nat
  BY <1>1, <1>2, FS_RemoveElement, FS_CardinalityType
<1>4. QED
  BY <1>1, <1>3, ScheduleAssumption

\* What a submission writes, with n orders before it.
LEMMA SubmitEffects ==
    ASSUME IInv, NEW e \in agenda, DecisionSubmit(e)
    PROVE  /\ Chosen(e) \in 1 .. Quantity /\ Chosen(e) <= Available(ledger.children)
           /\ \E n \in Nat :
                  /\ n = Len(orders) /\ n = Len(ledger.children)
                  /\ orders' \in Seq(Timing) /\ Len(orders') = n + 1
                  /\ DOMAIN orders' = DOMAIN orders \cup {n + 1} /\ n + 1 \notin DOMAIN orders
                  /\ \A i \in DOMAIN orders : orders'[i] = orders[i]
                  /\ orders'[n + 1].decision = TimeOf(e)
                  /\ orders'[n + 1].arrival = TimeOf(e) + OrderLatency
                  /\ orders'[n + 1].processed = None /\ orders'[n + 1].status = "pending"
                  /\ Sound(ledger') /\ ledger'.depth = ledger.depth
                  /\ Len(ledger'.children) = n + 1
                  /\ \A i \in DOMAIN orders : ledger'.children[i] = ledger.children[i]
                  /\ ledger'.children[n + 1] = NewChild(Chosen(e), LimitPrice)
                  /\ Filled(ledger'.children) = Filled(ledger.children)
                  /\ Reserved(ledger'.children) = Reserved(ledger.children) + Chosen(e)
                  /\ agenda' = (agenda \ {e})
                                  \cup {<<TimeOf(e) + OrderLatency, ArrivalPriority, n + 1>>}
<1> DEFINE arrival == TimeOf(e) + OrderLatency
           qty == Chosen(e)
           order == [decision |-> TimeOf(e), arrival |-> arrival, processed |-> None,
                     status |-> "pending"]
           child == NewChild(qty, LimitPrice)
<1>0. PICK n \in Nat : n = Len(orders)
  BY DEF IInv, OrdersInv
<1>1. /\ PriorityOf(e) = DecisionPriority /\ ~ended /\ UNCHANGED <<model, book, ended>>
      /\ ledger' = Submitted(ledger, qty, LimitPrice) /\ orders' = Append(orders, order)
      /\ agenda' = (agenda \ {e}) \cup {<<arrival, ArrivalPriority, Len(orders')>>} /\ qty > 0
  BY DEF DecisionSubmit, Pop
<1>2. /\ qty \in Nat /\ qty <= Quantity /\ qty <= Available(ledger.children)
      /\ LimitPrice \in Prices \cup {NoLimit} /\ qty \in 1 .. Quantity
  BY <1>1, ChosenFits, PolicyAssumption, ParentAssumption
<1>3. /\ TimeOf(e) \in Nat /\ arrival \in Nat /\ order \in Timing
      /\ order.arrival = arrival /\ order.status = "pending" /\ child.status = "reserved"
  BY EventTypes, ScheduleAssumption DEF Timing, NewChild
<1> HIDE DEF arrival, qty, order, child
<1>4. orders \in Seq(Timing) /\ n = Len(ledger.children) /\ ledger.children \in Seq(Child)
  BY <1>0 DEF IInv, OrdersInv, Sound
<1>5. /\ orders' \in Seq(Timing) /\ Len(orders') = n + 1 /\ orders'[n + 1] = order
      /\ \A i \in DOMAIN orders : orders'[i] = orders[i]
      /\ DOMAIN orders' = DOMAIN orders \cup {n + 1} /\ n + 1 \notin DOMAIN orders
  <2>1. /\ orders' \in Seq(Timing) /\ Len(orders') = Len(orders) + 1
        /\ orders'[Len(orders) + 1] = order
        /\ \A i \in DOMAIN orders : orders'[i] = orders[i]
        /\ DOMAIN orders' = DOMAIN orders \cup {Len(orders) + 1}
        /\ Len(orders) + 1 \notin DOMAIN orders
    BY <1>1, <1>3, <1>4
  <2>2. QED
    BY <1>0, <2>1
<1>6. /\ Sound(ledger') /\ ledger'.children = Append(ledger.children, child)
  BY <1>1, <1>2, SubmittedSound DEF IInv, child
<1>7. /\ Len(ledger'.children) = n + 1 /\ ledger'.children[n + 1] = child
      /\ \A i \in DOMAIN orders : ledger'.children[i] = ledger.children[i]
  <2>1. /\ Len(ledger'.children) = Len(ledger.children) + 1
        /\ ledger'.children[Len(ledger.children) + 1] = child
        /\ \A i \in DOMAIN ledger.children : ledger'.children[i] = ledger.children[i]
    BY <1>4, <1>6
  <2>2. DOMAIN orders = DOMAIN ledger.children
    <3>1. DOMAIN orders = 1 .. Len(orders)
      BY <1>4
    <3>2. DOMAIN ledger.children = 1 .. Len(ledger.children)
      BY <1>4
    <3>3. QED
      BY <1>0, <1>4, <3>1, <3>2
  <2>3. QED
    BY <1>4, <2>1, <2>2
<1>8. /\ Filled(ledger'.children) = Filled(ledger.children)
      /\ Reserved(ledger'.children) = Reserved(ledger.children) + qty
      /\ ledger'.depth = ledger.depth
  <2>1. /\ Filled(ledger'.children) = Filled(ledger.children)
        /\ Reserved(ledger'.children) = Reserved(ledger.children) + qty
    BY <1>2, <1>4, <1>6, AppendSums DEF child
  <2>2. ledger'.depth = ledger.depth
    BY <1>1, <1>2, SubmittedSound DEF IInv
  <2>3. QED
    BY <2>1, <2>2
<1>9. order.decision = TimeOf(e) /\ order.processed = None
  BY DEF order
<1>10. /\ n = Len(orders) /\ n = Len(ledger.children)
       /\ agenda' = (agenda \ {e}) \cup {<<arrival, ArrivalPriority, n + 1>>}
  BY <1>0, <1>1, <1>4, <1>5
<1>11. QED
  <2>1. qty \in 1 .. Quantity /\ qty <= Available(ledger.children)
    BY <1>2
  <2>2. QED
    BY <1>3, <1>5, <1>6, <1>7, <1>8, <1>9, <1>10, <2>1 DEF qty, arrival, child

\* A decision that sends an order does, as a submission.
LEMMA DecisionSubmitKeeps ==
    ASSUME IInv, NEW e \in agenda, DecisionSubmit(e)
    PROVE  IInv' /\ ContractStep
<1> DEFINE arrival == TimeOf(e) + OrderLatency
           qty == Chosen(e)
<1>1. /\ PriorityOf(e) = DecisionPriority /\ ~ended /\ UNCHANGED <<model, book, ended>>
      /\ ledger' = Submitted(ledger, qty, LimitPrice)
  BY DEF DecisionSubmit, Pop
<1>2. qty \in 1 .. Quantity /\ qty <= Available(ledger.children)
  BY SubmitEffects
<1>3. PICK n \in Nat :
          /\ n = Len(orders) /\ n = Len(ledger.children)
          /\ orders' \in Seq(Timing) /\ Len(orders') = n + 1
          /\ DOMAIN orders' = DOMAIN orders \cup {n + 1} /\ n + 1 \notin DOMAIN orders
          /\ \A i \in DOMAIN orders : orders'[i] = orders[i]
          /\ orders'[n + 1].arrival = arrival /\ orders'[n + 1].status = "pending"
          /\ Sound(ledger') /\ Len(ledger'.children) = n + 1
          /\ \A i \in DOMAIN orders : ledger'.children[i] = ledger.children[i]
          /\ ledger'.children[n + 1] = NewChild(qty, LimitPrice)
          /\ agenda' = (agenda \ {e}) \cup {<<arrival, ArrivalPriority, n + 1>>}
  BY SubmitEffects
<1>4. ledger'.children[n + 1].status = "reserved"
  BY <1>3 DEF NewChild
<1> HIDE DEF arrival, qty
<1>5. /\ \A i \in DOMAIN orders : ArrivalEvent(i)' = ArrivalEvent(i)
      /\ ArrivalEvent(n + 1)' = <<arrival, ArrivalPriority, n + 1>>
      /\ \A i \in DOMAIN orders : Pending(i)' = Pending(i)
      /\ Pending(n + 1)'
  BY <1>3 DEF ArrivalEvent, Pending
<1>6. /\ IsFiniteSet(DecisionsLeft') /\ Len(orders') + Cardinality(DecisionsLeft') <= Slices + 1
      /\ n < Slices + 1
  <2>1. /\ IsFiniteSet(DecisionsLeft') /\ Cardinality(DecisionsLeft') \in Nat
        /\ n + Cardinality(DecisionsLeft') + 1 <= Slices + 1
    BY <1>3, <1>1, DecisionTaken
  <2>2. QED
    BY <1>3, <2>1, ScheduleAssumption
<1>7. AgendaInv'
  <2>1. \A a \in agenda' :
            (IsMessageEvent(a) \/ IsDecision(a) \/ IsArrival(a) \/ a = CutoffEvent)'
    <3>1. \A a : IsArrival(a) => IsArrival(a)'
      BY <1>3, <1>5 DEF IsArrival
    <3>2. IsArrival(<<arrival, ArrivalPriority, n + 1>>)'
      BY <1>3, <1>5 DEF IsArrival
    <3>3. \A a \in agenda : IsMessageEvent(a) \/ IsDecision(a) \/ IsArrival(a) \/ a = CutoffEvent
      BY DEF IInv, AgendaInv
    <3>4. QED
      BY <1>1, <1>3, <3>1, <3>2, <3>3 DEF IsMessageEvent, IsDecision, CutoffEvent
  <2>2. /\ e # CutoffEvent /\ \A i : e # ArrivalEvent(i)
    BY <1>1 DEF CutoffEvent, ArrivalEvent, PriorityOf, DecisionPriority, ArrivalPriority,
                CutoffPriority
  <2>3. CutoffEvent' \in agenda'
    BY <1>1, <1>3, <2>2 DEF IInv, AgendaInv, CutoffEvent
  <2>4. \A i \in DOMAIN orders' : Pending(i)' => ArrivalEvent(i)' \in agenda'
    <3>1. \A i \in DOMAIN orders : Pending(i) => ArrivalEvent(i) \in agenda
      BY DEF IInv, AgendaInv
    <3>2. QED
      BY <1>1, <1>3, <1>5, <2>2, <3>1
  <2>5. \A i \in DOMAIN orders' :
            ArrivalEvent(i)' \in agenda' => Pending(i)' \/ orders'[i].arrival > Deadline
    <3>1. \A i \in DOMAIN orders :
              ArrivalEvent(i) \in agenda => Pending(i) \/ orders[i].arrival > Deadline
      BY DEF IInv, AgendaInv
    <3>2. \A i \in DOMAIN orders : ArrivalEvent(i) # <<arrival, ArrivalPriority, n + 1>>
      BY <1>3 DEF ArrivalEvent
    <3>3. ASSUME NEW i \in DOMAIN orders, ArrivalEvent(i)' \in agenda'
          PROVE  Pending(i)' \/ orders'[i].arrival > Deadline
      <4>1. ArrivalEvent(i) \in agenda
        BY <1>1, <1>3, <1>5, <3>2, <3>3
      <4>2. QED
        BY <1>3, <1>5, <3>1, <4>1
    <3>4. QED
      BY <1>3, <1>5, <3>3
  <2>6. QED
    BY <1>6, <2>1, <2>3, <2>4, <2>5 DEF AgendaInv
<1>8. OrdersInv'
  <2>1. \A i \in DOMAIN orders :
            /\ Pending(i)' <=> ledger'.children[i].status = "reserved"
            /\ ~Pending(i)' => Settled(i)'
    <3>1. \A i \in DOMAIN orders : /\ Pending(i) <=> ledger.children[i].status = "reserved"
                                   /\ ~Pending(i) => Settled(i)
      BY DEF IInv, OrdersInv
    <3>2. \A i \in DOMAIN orders : Settled(i)' <=> Settled(i)
      BY <1>3 DEF Settled
    <3>3. QED
      BY <1>3, <1>5, <3>1, <3>2
  <2>2. Pending(n + 1)' /\ ledger'.children[n + 1].status = "reserved"
    BY <1>3, <1>4, <1>5
  <2>3. QED
    BY <1>1, <1>3, <2>1, <2>2 DEF OrdersInv
<1>9. Contract!Submit(qty, LimitPrice)
  BY <1>1, <1>2, <1>3, <1>6, ContractOperators DEF Contract!Submit
<1>10. Contract!Next
  BY <1>2, <1>9 DEF Contract!Next
<1>11. QED
  BY <1>1, <1>3, <1>7, <1>8, <1>10 DEF IInv, ContractStep

\* A decision that sends none leaves the ledger alone.
LEMMA DecisionSkipKeeps ==
    ASSUME IInv, NEW e \in agenda, DecisionSkip(e)
    PROVE  IInv' /\ ContractStep
<1>1. AgendaInv' /\ OrdersInv'
  BY QuietTake DEF DecisionSkip, Pop
<1>2. QED
  BY <1>1 DEF IInv, ContractStep, DecisionSkip, Pop

\* The cutoff ends the run.
LEMMA CutoffKeeps ==
    ASSUME IInv, NEW e \in agenda, Cutoff(e)
    PROVE  IInv' /\ ContractStep
<1>1. /\ PriorityOf(e) = CutoffPriority /\ \A i \in DOMAIN orders : ~Pending(i)
      /\ agenda' = agenda \ {e} /\ ended' = TRUE
      /\ UNCHANGED <<book, ledger, lastVisible, orders, model>>
  BY DEF Cutoff, Pop
<1>2. DecisionsLeft' = DecisionsLeft
  BY <1>1 DEF DecisionsLeft, CutoffPriority, DecisionPriority
<1>3. AgendaInv'
  BY <1>1, <1>2
     DEF IInv, AgendaInv, IsMessageEvent, IsDecision, IsArrival, ArrivalEvent, CutoffEvent, Pending
<1>4. OrdersInv'
  BY <1>1 DEF IInv, OrdersInv, Settled, Pending
<1>5. QED
  BY <1>1, <1>3, <1>4 DEF IInv, ContractStep

\* Every step keeps the invariant and is a step of the contract or a stutter.
LEMMA StepKeeps == IInv /\ [Next]_vars => IInv' /\ ContractStep
<1> SUFFICES ASSUME IInv, [Next]_vars PROVE IInv' /\ ContractStep
  OBVIOUS
<1>1. CASE UNCHANGED vars
  BY <1>1 DEF vars, IInv, ContractStep, AgendaInv, OrdersInv, DecisionsLeft, IsMessageEvent,
              IsDecision, IsArrival, ArrivalEvent, CutoffEvent, Pending, Settled
<1>2. ASSUME NEW e \in agenda, Step(e) PROVE IInv' /\ ContractStep
  BY <1>2, AcceptKeeps, RejectKeeps, ArrivalExecutedKeeps, ArrivalRejectedKeeps,
     DecisionSubmitKeeps, DecisionSkipKeeps, ExpireKeeps, CutoffKeeps DEF Step
<1>3. QED
  BY <1>1, <1>2 DEF Next, Finished

-----------------------------------------------------------------------------
\* Orders, children and the heap agree in every reachable state.
THEOREM Invariant == Spec => []IInv
BY InitHolds, StepKeeps, PTL DEF Spec

\* AllSettled: at the end of a run no quantity is reserved, and every order was
\* processed at its arrival or expired at the deadline without a fill.
THEOREM RunsSettle == Spec => []AllSettled
<1>1. IInv => AllSettled
  <2> SUFFICES ASSUME IInv, ended PROVE AllSettled
    BY DEF AllSettled
  <2>1. \A i \in DOMAIN orders : Settled(i) /\ ledger.children[i].status # "reserved"
    BY DEF IInv, OrdersInv
  <2>2. Reserved(ledger.children) = 0
    <3>1. DOMAIN ledger.children = DOMAIN orders /\ ledger.children \in Seq(Child)
      BY DEF IInv, OrdersInv, Sound
    <3>2. QED
      BY <2>1, <3>1, NothingReserved
  <2>3. QED
    BY <2>1, <2>2 DEF AllSettled, Settled
<1>2. QED
  BY <1>1, Invariant, PTL

\* LedgerContract: the runner uses its ledger as Execution allows; an event
\* that is no call of the ledger leaves it as it is.
THEOREM RunnerKeepsContract == Spec => LedgerContract
<1>1. Init => Contract!Init
  BY DEF Init, Contract!Init, Contract!EmptyLedger, EmptyLedger, Contract!Models, Models,
         InitBook, Contract!EmptyDepth, EmptyDepth, Contract!Keys, Keys, Contract!Sides, Sides,
         Contract!NoDebits, NoDebits
<1>2. IInv /\ [Next]_vars => [Contract!Next]_(Contract!vars)
  BY StepKeeps DEF ContractStep, Contract!vars
<1>3. QED
  BY <1>1, <1>2, Invariant, PTL DEF Spec, LedgerContract, Contract!Spec

-----------------------------------------------------------------------------
\* What the order of events means for decisions: no message is left up to the
\* time of a decision, no earlier decision, and no arrival other than its own.
Ordered ==
    /\ \A i \in DOMAIN orders : orders[i].arrival = orders[i].decision + OrderLatency
    /\ \A e \in agenda, i \in DOMAIN orders :
           /\ PriorityOf(e) = MarketPriority => TimeOf(e) > orders[i].decision
           /\ PriorityOf(e) = DecisionPriority => TimeOf(e) >= orders[i].decision
    /\ \A i, j \in DOMAIN orders :
           Pending(j) => /\ orders[j].arrival >= orders[i].decision
                         /\ Pending(i) /\ i # j => orders[j].arrival > orders[i].decision
    /\ \A i \in DOMAIN orders : Pending(i) => orders[i].processed = None

\* The quote that let an undisturbed child go still stands.
QuoteStands ==
    \A i \in DOMAIN orders :
        Pending(i) /\ ByGate(i) /\ Undisturbed(i) =>
            /\ ledger.children[i].limit = LimitPrice
            /\ GateOpens(book.depth, ledger.depth, ledger.children[i].qty, FALSE)

FellShort(i) ==
    /\ orders[i].status \in {"partial", "unfilled", "rejected_invalid", "rejected_stale"}
    /\ orders[i].processed >= CatchTime

\* A catch-up that was sent leaves nothing of the parent unreserved, and what
\* is on its way arrives in time, until a child falls short.
CaughtUp ==
    CatchesUp /\ (\E i \in DOMAIN orders : orders[i].decision = CatchTime) =>
        \/ \E i \in DOMAIN orders : FellShort(i)
        \/ /\ Filled(ledger.children) + Reserved(ledger.children) = Quantity
           /\ \A i \in DOMAIN orders : Pending(i) => orders[i].arrival <= Deadline

TInv == Ordered /\ QuoteStands /\ CaughtUp

\* The timed invariant holds before the first event.
LEMMA TInvInit == Init => TInv
BY DEF Init, TInv, Ordered, QuoteStands, CaughtUp

\* What is taken from the heap comes no later than what is left.
LEMMA TakenFirst ==
    ASSUME IInv, NEW e \in agenda, NEW p, Pop(e, p), NEW f \in agenda
    PROVE  /\ TimeOf(e) \in Nat /\ TimeOf(f) \in Nat /\ TimeOf(f) >= TimeOf(e)
           /\ PriorityOf(f) < p => TimeOf(f) > TimeOf(e)
<1>1. TimeOf(e) \in Nat /\ TimeOf(f) \in Nat
  BY EventTypes
<1>2. /\ ~(TimeOf(f) < TimeOf(e)) /\ PriorityOf(e) = p
      /\ ~(TimeOf(f) = TimeOf(e) /\ PriorityOf(f) < PriorityOf(e))
  BY DEF Pop, Precedes
<1>3. QED
  BY <1>1, <1>2

\* The times of orders.
LEMMA OrderTimes ==
    ASSUME IInv
    PROVE  \A i \in DOMAIN orders :
               /\ orders[i].decision \in Nat /\ orders[i].arrival \in Nat
               /\ orders[i].processed \in Nat \cup {None}
<1>1. orders \in Seq(Timing)
  BY DEF IInv, OrdersInv
<1>2. \A i \in DOMAIN orders : orders[i] \in Timing
  BY <1>1
<1>3. QED
  BY <1>2 DEF Timing

\* The order of events is kept by a step that sends nothing.
LEMMA OrderedKept ==
    ASSUME Ordered, agenda' \subseteq agenda, DOMAIN orders' = DOMAIN orders,
           \A i \in DOMAIN orders :
               /\ orders'[i].arrival = orders[i].arrival
               /\ orders'[i].decision = orders[i].decision
               /\ Pending(i)' => Pending(i) /\ orders'[i] = orders[i]
    PROVE  Ordered'
<1>1. \A i \in DOMAIN orders : orders'[i].arrival = orders'[i].decision + OrderLatency
  BY DEF Ordered
<1>2. \A e \in agenda', i \in DOMAIN orders :
          /\ PriorityOf(e) = MarketPriority => TimeOf(e) > orders'[i].decision
          /\ PriorityOf(e) = DecisionPriority => TimeOf(e) >= orders'[i].decision
  BY DEF Ordered
<1>3. \A i, j \in DOMAIN orders :
          Pending(j)' =>
              /\ orders'[j].arrival >= orders'[i].decision
              /\ Pending(i)' /\ i # j => orders'[j].arrival > orders'[i].decision
  BY DEF Ordered
<1>4. \A i \in DOMAIN orders : Pending(i)' => orders'[i].processed = None
  BY DEF Ordered
<1>5. QED
  BY <1>1, <1>2, <1>3, <1>4 DEF Ordered

\* A quote is kept by a step that leaves the depth of both books alone.
LEMMA QuoteKept ==
    ASSUME IInv, Ordered, QuoteStands, UNCHANGED <<book.depth, ledger.depth, lastVisible>>,
           DOMAIN orders' = DOMAIN orders,
           \A i \in DOMAIN orders :
               /\ orders'[i].decision = orders[i].decision
               /\ Pending(i) \/ orders'[i] = orders[i]
               /\ Pending(i)' => /\ Pending(i) /\ orders'[i] = orders[i]
                                /\ ledger'.children[i] = ledger.children[i]
    PROVE  QuoteStands'
<1> SUFFICES ASSUME NEW i \in DOMAIN orders, Pending(i)', ByGate(i)', Undisturbed(i)'
             PROVE  /\ ledger'.children[i].limit = LimitPrice
                    /\ GateOpens(book.depth, ledger.depth, ledger.children[i].qty, FALSE)'
  BY DEF QuoteStands
<1>1. Pending(i) /\ orders'[i] = orders[i] /\ ledger'.children[i] = ledger.children[i]
  OBVIOUS
<1>2. ByGate(i)
  BY <1>1 DEF ByGate
<1>3. Undisturbed(i)
  BY <1>1 DEF Undisturbed, Ordered
<1>4. /\ ledger.children[i].limit = LimitPrice
      /\ GateOpens(book.depth, ledger.depth, ledger.children[i].qty, FALSE)
  BY <1>1, <1>2, <1>3 DEF QuoteStands
<1>5. QED
  BY <1>1, <1>4 DEF GateOpens, OneSided

\* Without a change of orders and children.
LEMMA QuietTimed ==
    ASSUME IInv, TInv, agenda' \subseteq agenda, UNCHANGED <<orders, lastVisible>>,
           ledger' = ledger, book'.depth = book.depth
    PROVE  TInv'
<1>1. Ordered'
  BY OrderedKept DEF TInv, Pending
<1>2. QuoteStands'
  BY QuoteKept DEF TInv, Pending
<1>3. CaughtUp'
  BY DEF TInv, CaughtUp, FellShort, Pending
<1>4. QED
  BY <1>1, <1>2, <1>3 DEF TInv

\* A message that is accepted keeps the timed invariant.
LEMMA AcceptTimed ==
    ASSUME IInv, TInv, NEW e \in agenda, AcceptMessage(e)
    PROVE  TInv'
<1>1. /\ PriorityOf(e) = MarketPriority /\ agenda' \subseteq agenda /\ orders' = orders
      /\ lastVisible' = TimeOf(e) /\ ledger' = Observed(ledger, model, book'.depth, Item(e))
  BY DEF AcceptMessage, Pop
<1>2. ledger'.children = ledger.children
  <2>1. Sound(ledger) /\ ledger \in [depth : Depth, children : Seq(Child), debits : [Keys -> Nat]]
    BY DEF IInv, Sound
  <2>2. QED
    BY <1>1, <2>1 DEF Observed
<1>3. Ordered'
  BY <1>1, OrderedKept DEF TInv, Pending
<1>4. \A i \in DOMAIN orders : ~Undisturbed(i)'
  <2>1. \A i \in DOMAIN orders : lastVisible' > orders[i].decision /\ lastVisible' \in Nat
    BY <1>1, EventTypes DEF TInv, Ordered
  <2>2. QED
    BY <1>1, <2>1, OrderTimes DEF Undisturbed
<1>5. QuoteStands'
  BY <1>1, <1>4 DEF QuoteStands
<1>6. CaughtUp'
  BY <1>1, <1>2 DEF TInv, CaughtUp, FellShort, Pending
<1>7. QED
  BY <1>3, <1>5, <1>6 DEF TInv

\* A settled order, the ledger apart.
LEMMA SettleTimed ==
    ASSUME IInv, Ordered, NEW j \in DOMAIN orders, Pending(j), NEW t \in Nat,
           NEW s \in {"filled", "partial", "unfilled", "expired", "rejected_invalid",
                      "rejected_stale"},
           Processed(j, t, s), agenda' \subseteq agenda
    PROVE  /\ Ordered' /\ DOMAIN orders' = DOMAIN orders
           /\ orders'[j].processed = t /\ orders'[j].status = s
           /\ \A i \in DOMAIN orders : /\ orders'[i].decision = orders[i].decision
                                        /\ orders'[i].arrival = orders[i].arrival
           /\ \A i \in DOMAIN orders \ {j} : orders'[i] = orders[i]
           /\ \A i \in DOMAIN orders : Pending(i)' <=> Pending(i) /\ i # j
           /\ \A i \in DOMAIN orders : FellShort(i) => FellShort(i)'
<1>1. orders \in Seq(Timing)
  BY DEF IInv, OrdersInv
<1>2. /\ DOMAIN orders' = DOMAIN orders
      /\ \A i \in DOMAIN orders \ {j} : orders'[i] = orders[i]
      /\ orders'[j].processed = t /\ orders'[j].status = s
      /\ orders'[j].arrival = orders[j].arrival
      /\ orders'[j].decision = orders[j].decision
  BY <1>1, ProcessedOrder
<1>3. \A i \in DOMAIN orders : Pending(i)' <=> Pending(i) /\ i # j
  BY <1>2 DEF Pending
<1>4. \A i \in DOMAIN orders : FellShort(i) => FellShort(i)'
  BY <1>2 DEF FellShort, Pending
<1>5. \A i \in DOMAIN orders : /\ orders'[i].decision = orders[i].decision
                               /\ orders'[i].arrival = orders[i].arrival
  BY <1>2
<1>6. Ordered'
  BY <1>2, <1>3, <1>5, OrderedKept
<1>7. QED
  BY <1>2, <1>3, <1>4, <1>5, <1>6

\* An arrival that executes keeps the timed invariant.
LEMMA ExecutedTimed ==
    ASSUME IInv, TInv, NEW e \in agenda, ArrivalExecuted(e)
    PROVE  TInv'
<1> DEFINE j == Item(e)
           child == ledger.children[j]
           fills == FillsOf(ledger.depth, child.qty, child.limit)
           status == ledger'.children[j].status
<1>1. /\ j \in DOMAIN orders /\ Pending(j) /\ j \in DOMAIN ledger.children
      /\ child.status = "reserved" /\ TimeOf(e) = orders[j].arrival /\ TimeOf(e) \in Nat
  BY ArrivalPending DEF ArrivalExecuted
<1>2. /\ ledger' = Executed(ledger, j) /\ Processed(j, TimeOf(e), status)
      /\ agenda' \subseteq agenda
  BY DEF ArrivalExecuted
<1>3. ledger.children \in Seq(Child) /\ Sound(ledger) /\ DOMAIN ledger.children = DOMAIN orders
  BY DEF IInv, OrdersInv, Sound
<1>4. /\ \A i \in DOMAIN ledger.children \ {j} : ledger'.children[i] = ledger.children[i]
      /\ status = IF Total(fills) = child.qty THEN "filled"
                  ELSE IF Total(fills) = 0 THEN "unfilled" ELSE "partial"
      /\ Filled(ledger'.children) = Filled(ledger.children) + Total(fills)
      /\ Reserved(ledger'.children) = Reserved(ledger.children) - child.qty
  <2> DEFINE done == Outcome(child, fills)
  <2>1. /\ ledger'.children = [ledger.children EXCEPT ![j] = done]
        /\ done.status = IF Total(fills) = child.qty THEN "filled"
                         ELSE IF Total(fills) = 0 THEN "unfilled" ELSE "partial"
        /\ Filled(ledger'.children) = Filled(ledger.children) + Total(fills)
        /\ Reserved(ledger'.children) = Reserved(ledger.children) - child.qty
    BY <1>1, <1>2, <1>3, ExecutedSound
  <2> HIDE DEF done, fills
  <2>2. QED
    BY <1>1, <1>3, <2>1
<1>5. child \in Child /\ child.qty \in Nat /\ Total(fills) \in Nat
  <2>1. child \in Child /\ Total(fills) \in Nat
    BY <1>1, <1>3, ExecutedFills
  <2>2. QED
    BY <2>1 DEF Child
<1> HIDE DEF j, child, fills, status
<1>6. /\ Ordered' /\ DOMAIN orders' = DOMAIN orders
      /\ orders'[j].processed = TimeOf(e) /\ orders'[j].status = status
      /\ \A i \in DOMAIN orders : /\ orders'[i].decision = orders[i].decision
                                   /\ orders'[i].arrival = orders[i].arrival
      /\ \A i \in DOMAIN orders \ {j} : orders'[i] = orders[i]
      /\ \A i \in DOMAIN orders : Pending(i)' <=> Pending(i) /\ i # j
      /\ \A i \in DOMAIN orders : FellShort(i) => FellShort(i)'
  BY <1>1, <1>2, <1>4, SettleTimed DEF TInv
<1>7. \A i \in DOMAIN orders : Pending(i)' => ~Undisturbed(i)'
  <2>1. \A i \in DOMAIN orders : Pending(i) /\ i # j => orders[j].arrival > orders[i].decision
    BY <1>1 DEF TInv, Ordered
  <2>2. TimeOf(e) # None
    BY <1>1, PolicyAssumption
  <2>3. QED
    BY <1>1, <1>6, <2>1, <2>2, OrderTimes DEF Undisturbed
<1>8. QuoteStands'
  BY <1>6, <1>7 DEF QuoteStands
<1>9. CaughtUp'
  <2> SUFFICES ASSUME CatchesUp, NEW c \in DOMAIN orders, orders[c].decision = CatchTime
               PROVE  \/ \E i \in DOMAIN orders : FellShort(i)'
                      \/ /\ Filled(ledger'.children) + Reserved(ledger'.children) = Quantity
                         /\ \A i \in DOMAIN orders : Pending(i)' => orders'[i].arrival <= Deadline
    BY <1>6 DEF CaughtUp
  <2>1. CASE \E i \in DOMAIN orders : FellShort(i)
    BY <1>6, <2>1
  <2>2. CASE /\ Filled(ledger.children) + Reserved(ledger.children) = Quantity
             /\ \A i \in DOMAIN orders : Pending(i) => orders[i].arrival <= Deadline
    <3>1. CASE Total(fills) = child.qty
      <4>1. Filled(ledger.children) \in Nat /\ Reserved(ledger.children) \in Nat
        BY <1>3, ChildSums
      <4>2. QED
        BY <1>4, <1>5, <1>6, <2>2, <3>1, <4>1
    <3>2. CASE Total(fills) # child.qty
      <4>1. orders[j].arrival >= CatchTime
        BY <1>1 DEF TInv, Ordered
      <4>2. FellShort(j)'
        BY <1>1, <1>4, <1>6, <3>2, <4>1 DEF FellShort
      <4>3. QED
        BY <1>1, <4>2
    <3>3. QED
      BY <3>1, <3>2
  <2>3. QED
    BY <2>1, <2>2 DEF TInv, CaughtUp
<1>10. QED
  BY <1>6, <1>8, <1>9 DEF TInv

\* A cancelled child: rejected, or expired behind the deadline.
LEMMA CancelledTimed ==
    ASSUME IInv, TInv, NEW j \in DOMAIN orders, Pending(j), ledger' = Cancelled(ledger, j),
           book' = book, lastVisible' = lastVisible, NEW t \in Nat,
           NEW s \in {"expired", "rejected_invalid", "rejected_stale"},
           Processed(j, t, s), agenda' \subseteq agenda,
           IF s = "expired" THEN orders[j].arrival > Deadline ELSE t = orders[j].arrival
    PROVE  TInv'
<1>1. /\ Ordered' /\ DOMAIN orders' = DOMAIN orders
      /\ orders'[j].processed = t /\ orders'[j].status = s
      /\ \A i \in DOMAIN orders : /\ orders'[i].decision = orders[i].decision
                                   /\ orders'[i].arrival = orders[i].arrival
      /\ \A i \in DOMAIN orders \ {j} : orders'[i] = orders[i]
      /\ \A i \in DOMAIN orders : Pending(i)' <=> Pending(i) /\ i # j
      /\ \A i \in DOMAIN orders : FellShort(i) => FellShort(i)'
  BY SettleTimed DEF TInv
<1>2. /\ ledger'.depth = ledger.depth
      /\ \A i \in DOMAIN orders \ {j} : ledger'.children[i] = ledger.children[i]
  <2>1. /\ Sound(ledger) /\ ledger.children \in Seq(Child) /\ DOMAIN ledger.children = DOMAIN orders
    BY DEF IInv, OrdersInv, Sound
  <2> DEFINE child == ledger'.children[j]
  <2>2. ledger'.depth = ledger.depth /\ ledger'.children = [ledger.children EXCEPT ![j] = child]
    BY <2>1, CancelledSound
  <2> HIDE DEF child
  <2>3. QED
    BY <2>1, <2>2
<1>3. QuoteStands'
  BY <1>1, <1>2, QuoteKept DEF TInv
<1>4. CaughtUp'
  <2> SUFFICES ASSUME CatchesUp, NEW c \in DOMAIN orders, orders[c].decision = CatchTime
               PROVE  \E i \in DOMAIN orders : FellShort(i)'
    BY <1>1 DEF CaughtUp
  <2>1. CASE \E i \in DOMAIN orders : FellShort(i)
    BY <1>1, <2>1
  <2>2. CASE \A i \in DOMAIN orders : Pending(i) => orders[i].arrival <= Deadline
    <3>1. orders[j].arrival <= Deadline /\ orders[j].arrival \in Nat /\ Deadline \in Nat
      BY <2>2, OrderTimes, ScheduleAssumption
    <3>2. s # "expired" /\ t = orders[j].arrival
      BY <3>1
    <3>3. orders[j].arrival >= CatchTime
      BY DEF TInv, Ordered
    <3>4. FellShort(j)'
      BY <1>1, <3>2, <3>3 DEF FellShort
    <3>5. QED
      BY <3>4
  <2>3. QED
    BY <2>1, <2>2 DEF TInv, CaughtUp
<1>5. QED
  BY <1>1, <1>3, <1>4 DEF TInv

\* The gate let a child go that is not the catch-up.
LEMMA GateOpened ==
    ASSUME IInv, NEW e \in agenda, PriorityOf(e) = DecisionPriority, Chosen(e) > 0,
           <<TimeOf(e), <<Quantity, TRUE>>>> \notin Ticks
    PROVE  GateOpens(book.depth, ledger.depth, Chosen(e), FALSE)
<1>1. <<TimeOf(e), Item(e)>> \in Ticks
  BY EventKinds
<1>2. Item(e)[2] = FALSE
  <2>1. ASSUME NEW k \in SliceTicks PROVE k[2][2] = FALSE
    <3>1. PICK i \in 0 .. Slices - 1 :
              k = <<SliceTime(i), <<((i + 1) * Quantity) \div Slices, FALSE>>>>
      BY DEF SliceTicks
    <3>2. k[2] = <<((i + 1) * Quantity) \div Slices, FALSE>>
      BY <3>1
    <3>3. QED
      BY <3>2
  <2>2. \/ <<TimeOf(e), Item(e)>> \in SliceTicks
        \/ <<TimeOf(e), Item(e)>> = <<CatchTime, <<Quantity, TRUE>>>>
    BY <1>1 DEF Ticks
  <2>3. <<TimeOf(e), Item(e)>> # <<TimeOf(e), <<Quantity, TRUE>>>>
    BY <1>1
  <2>4. QED
    BY <2>1, <2>2, <2>3
<1>3. GateOpens(book.depth, ledger.depth, Chosen(e), Item(e)[2])
  BY DEF Chosen, Selected
<1>4. QED
  BY <1>2, <1>3

\* The tick at CatchTime asks for the whole quantity, so its child takes all
\* that is available.
LEMMA CatchUpTakesAll ==
    ASSUME IInv, NEW e \in agenda, PriorityOf(e) = DecisionPriority, Chosen(e) > 0,
           CatchesUp, TimeOf(e) = CatchTime
    PROVE  Chosen(e) = Available(ledger.children)
<1>1. <<TimeOf(e), Item(e)>> \in Ticks
  BY EventKinds
<1>2. Item(e)[1] = Quantity
  <2>1. <<TimeOf(e), Item(e)>> = <<CatchTime, <<Quantity, TRUE>>>>
    BY <1>1 DEF Ticks
  <2>2. QED
    BY <2>1
<1>3. Chosen(e) = Wanted(ledger.children, Quantity)
  BY <1>2 DEF Chosen, Selected
<1>4. /\ Filled(ledger.children) \in Nat /\ Reserved(ledger.children) \in Nat
      /\ Filled(ledger.children) + Reserved(ledger.children) <= Quantity
  BY ChildSums DEF IInv, Sound
<1>5. QED
  BY <1>3, <1>4, ParentAssumption DEF Wanted, Available, Smaller, Larger

\* A decision that sends an order keeps the timed invariant.
LEMMA SubmitTimed ==
    ASSUME IInv, TInv, NEW e \in agenda, DecisionSubmit(e)
    PROVE  TInv'
<1> DEFINE t == TimeOf(e)
           qty == Chosen(e)
<1>1. /\ PriorityOf(e) = DecisionPriority /\ Pop(e, DecisionPriority) /\ t \in Nat /\ qty > 0
      /\ lastVisible' = lastVisible /\ book' = book
  BY EventTypes DEF DecisionSubmit, Pop
<1>2. qty \in Nat /\ qty <= Available(ledger.children)
  BY SubmitEffects
<1>3. PICK n \in Nat :
          /\ n = Len(orders) /\ n = Len(ledger.children)
          /\ DOMAIN orders' = DOMAIN orders \cup {n + 1} /\ n + 1 \notin DOMAIN orders
          /\ \A i \in DOMAIN orders : orders'[i] = orders[i]
          /\ orders'[n + 1].decision = t /\ orders'[n + 1].arrival = t + OrderLatency
          /\ orders'[n + 1].processed = None /\ orders'[n + 1].status = "pending"
          /\ ledger'.depth = ledger.depth
          /\ \A i \in DOMAIN orders : ledger'.children[i] = ledger.children[i]
          /\ ledger'.children[n + 1] = NewChild(qty, LimitPrice)
          /\ Filled(ledger'.children) = Filled(ledger.children)
          /\ Reserved(ledger'.children) = Reserved(ledger.children) + qty
          /\ agenda' = (agenda \ {e}) \cup {<<t + OrderLatency, ArrivalPriority, n + 1>>}
  BY SubmitEffects
<1>4. ledger'.children[n + 1].qty = qty /\ ledger'.children[n + 1].limit = LimitPrice
  BY <1>3 DEF NewChild
<1>5. /\ \A i \in DOMAIN orders : Pending(i)' <=> Pending(i)
      /\ Pending(n + 1)'
  BY <1>3 DEF Pending
\* The decision comes after the earlier ones and before what is on its way.
<1>6. \A i \in DOMAIN orders :
          /\ orders[i].decision \in Nat /\ orders[i].decision <= t
          /\ orders[i].arrival = orders[i].decision + OrderLatency
          /\ Pending(i) => orders[i].arrival > t
  <2>1. \A i \in DOMAIN orders :
            orders[i].decision <= t /\ orders[i].arrival = orders[i].decision + OrderLatency
    BY <1>1, OrderTimes DEF TInv, Ordered
  <2>2. ASSUME NEW i \in DOMAIN orders, Pending(i)
        PROVE  orders[i].arrival > t
    <3>1. ArrivalEvent(i) \in agenda
      BY <2>2 DEF IInv, AgendaInv
    <3>2. /\ TimeOf(ArrivalEvent(i)) = orders[i].arrival
          /\ PriorityOf(ArrivalEvent(i)) < DecisionPriority
      BY DEF ArrivalEvent, TimeOf, PriorityOf, ArrivalPriority, DecisionPriority
    <3>3. QED
      BY <1>1, <3>1, <3>2, TakenFirst
  <2>3. QED
    BY <2>1, <2>2, OrderTimes
<1> HIDE DEF t, qty
<1>7. Ordered'
  <2>1. \A i \in DOMAIN orders' : orders'[i].arrival = orders'[i].decision + OrderLatency
    BY <1>3, <1>6
  <2>2. \A f \in agenda', i \in DOMAIN orders' :
            /\ PriorityOf(f) = MarketPriority => TimeOf(f) > orders'[i].decision
            /\ PriorityOf(f) = DecisionPriority => TimeOf(f) >= orders'[i].decision
    <3>1. ASSUME NEW f \in agenda', PriorityOf(f) \in {MarketPriority, DecisionPriority}
          PROVE  f \in agenda
      BY <1>3, <3>1 DEF PriorityOf, MarketPriority, ArrivalPriority, DecisionPriority
    <3>2. ASSUME NEW f \in agenda
          PROVE  /\ PriorityOf(f) = MarketPriority => TimeOf(f) > t
                 /\ PriorityOf(f) = DecisionPriority => TimeOf(f) >= t
      BY <1>1, TakenFirst DEF MarketPriority, DecisionPriority, t
    <3>3. \A f \in agenda, i \in DOMAIN orders :
              /\ PriorityOf(f) = MarketPriority => TimeOf(f) > orders[i].decision
              /\ PriorityOf(f) = DecisionPriority => TimeOf(f) >= orders[i].decision
      BY DEF TInv, Ordered
    <3>4. QED
      BY <1>3, <3>1, <3>2, <3>3
  <2>3. \A i, j \in DOMAIN orders' :
            Pending(j)' =>
                /\ orders'[j].arrival >= orders'[i].decision
                /\ Pending(i)' /\ i # j => orders'[j].arrival > orders'[i].decision
    <3>1. \A i, j \in DOMAIN orders :
              Pending(j) => /\ orders[j].arrival >= orders[i].decision
                            /\ Pending(i) /\ i # j => orders[j].arrival > orders[i].decision
      BY DEF TInv, Ordered
    <3>2. \A j \in DOMAIN orders : Pending(j) => orders[j].arrival > t
      BY <1>6
    <3>3. t + OrderLatency >= t
      BY <1>1, ScheduleAssumption
    <3>4. \A i \in DOMAIN orders : /\ t + OrderLatency >= orders[i].decision
                                   /\ Pending(i) => t + OrderLatency > orders[i].decision
      BY <1>1, <1>6, ScheduleAssumption
    <3>5. \A j \in DOMAIN orders : Pending(j) => orders[j].arrival >= t
      BY <1>1, <1>6, OrderTimes
    <3>6. QED
      BY <1>3, <1>5, <3>1, <3>2, <3>3, <3>4, <3>5
  <2>4. \A i \in DOMAIN orders' : Pending(i)' => orders'[i].processed = None
    BY <1>3, <1>5 DEF TInv, Ordered
  <2>5. QED
    BY <2>1, <2>2, <2>3, <2>4 DEF Ordered
<1>8. QuoteStands'
  <2>1. ASSUME NEW i \in DOMAIN orders, Pending(i)', ByGate(i)', Undisturbed(i)'
        PROVE  /\ ledger'.children[i].limit = LimitPrice
               /\ GateOpens(book.depth, ledger.depth, ledger.children[i].qty, FALSE)'
    <3>1. Pending(i) /\ ByGate(i)
      BY <1>3, <1>5, <2>1 DEF ByGate
    <3>2. Undisturbed(i)
      BY <1>1, <1>3, <2>1 DEF Undisturbed
    <3>3. /\ ledger.children[i].limit = LimitPrice
          /\ GateOpens(book.depth, ledger.depth, ledger.children[i].qty, FALSE)
      BY <3>1, <3>2 DEF TInv, QuoteStands
    <3>4. QED
      BY <1>1, <1>3, <3>3
  <2>2. ASSUME ByGate(n + 1)'
        PROVE  /\ ledger'.children[n + 1].limit = LimitPrice
               /\ GateOpens(book.depth, ledger.depth, ledger.children[n + 1].qty, FALSE)'
    <3>1. <<t, <<Quantity, TRUE>>>> \notin Ticks
      BY <1>3, <2>2 DEF ByGate
    <3>2. GateOpens(book.depth, ledger.depth, qty, FALSE)
      BY <1>1, <3>1, GateOpened DEF t, qty
    <3>3. QED
      BY <1>1, <1>3, <1>4, <3>2
  <2>3. QED
    BY <1>3, <2>1, <2>2 DEF QuoteStands
<1>9. CaughtUp'
  <2>1. /\ Filled(ledger.children) \in Nat /\ Reserved(ledger.children) \in Nat
        /\ Quantity \in Nat
    BY ChildSums, ParentAssumption DEF IInv, Sound
  <2>2. \A i \in DOMAIN orders : FellShort(i) => FellShort(i)'
    BY <1>3 DEF FellShort
  <2>3. CASE CatchesUp /\ \E i \in DOMAIN orders : orders[i].decision = CatchTime
    <3>1. \/ \E i \in DOMAIN orders : FellShort(i)
          \/ Filled(ledger.children) + Reserved(ledger.children) = Quantity
      BY <2>3 DEF TInv, CaughtUp
    <3>2. Filled(ledger.children) + Reserved(ledger.children) # Quantity
      BY <1>1, <1>2, <2>1 DEF Available, qty
    <3>3. QED
      BY <1>3, <2>2, <3>1, <3>2 DEF CaughtUp
  <2>4. CASE CatchesUp /\ t = CatchTime
    <3>1. qty = Available(ledger.children)
      BY <1>1, <2>4, CatchUpTakesAll DEF t, qty
    <3>2. Filled(ledger'.children) + Reserved(ledger'.children) = Quantity
      BY <1>3, <2>1, <3>1 DEF Available
    <3>3. \A i \in DOMAIN orders' : orders'[i].arrival <= Deadline
      <4>1. t + OrderLatency = Deadline
        BY <1>1, <2>4, ScheduleAssumption DEF CatchTime
      <4>2. \A i \in DOMAIN orders : orders[i].arrival <= Deadline
        BY <1>1, <1>6, <4>1, ScheduleAssumption
      <4>3. QED
        BY <1>3, <4>1, <4>2, ScheduleAssumption
    <3>4. QED
      BY <3>2, <3>3 DEF CaughtUp
  <2>5. CASE ~(CatchesUp /\ (t = CatchTime \/ \E i \in DOMAIN orders : orders[i].decision = CatchTime))
    BY <1>3, <2>5 DEF CaughtUp
  <2>6. QED
    BY <2>3, <2>4, <2>5
<1>10. QED
  BY <1>7, <1>8, <1>9 DEF TInv

\* Every step keeps the timed invariant.
LEMMA StepTimed == IInv /\ TInv /\ [Next]_vars => TInv'
<1> SUFFICES ASSUME IInv, TInv, [Next]_vars PROVE TInv'
  OBVIOUS
<1>1. CASE UNCHANGED vars
  BY <1>1, QuietTimed DEF vars
<1>2. ASSUME NEW e \in agenda, RejectMessage(e) \/ DecisionSkip(e) \/ Cutoff(e)
      PROVE  TInv'
  <2>1. /\ agenda' \subseteq agenda /\ UNCHANGED <<orders, lastVisible, ledger>>
        /\ book'.depth = book.depth
    <3>1. CASE RejectMessage(e)
      BY <3>1 DEF RejectMessage, Reject
    <3>2. CASE DecisionSkip(e)
      BY <3>2 DEF DecisionSkip
    <3>3. CASE Cutoff(e)
      BY <3>3 DEF Cutoff
    <3>4. QED
      BY <1>2, <3>1, <3>2, <3>3
  <2>2. QED
    BY <2>1, QuietTimed
<1>3. ASSUME NEW e \in agenda, ArrivalRejected(e) PROVE TInv'
  <2> DEFINE j == Item(e)
             s == IF Condition(TimeOf(e)) = "invalid" THEN "rejected_invalid" ELSE "rejected_stale"
  <2>1. /\ j \in DOMAIN orders /\ Pending(j) /\ TimeOf(e) = orders[j].arrival /\ TimeOf(e) \in Nat
    BY <1>3, ArrivalPending DEF ArrivalRejected
  <2>2. /\ ledger' = Cancelled(ledger, j) /\ book' = book /\ lastVisible' = lastVisible
        /\ Processed(j, TimeOf(e), s) /\ agenda' \subseteq agenda
    BY <1>3 DEF ArrivalRejected
  <2>3. s \in {"rejected_invalid", "rejected_stale"}
    OBVIOUS
  <2> HIDE DEF j, s
  <2>4. QED
    BY <2>1, <2>2, <2>3, CancelledTimed
<1>4. ASSUME NEW e \in agenda, NEW i \in DOMAIN orders, Expire(e, i) PROVE TInv'
  <2>1. /\ Pending(i) /\ ledger' = Cancelled(ledger, i) /\ book' = book
        /\ lastVisible' = lastVisible /\ agenda' = agenda /\ Processed(i, TimeOf(e), "expired")
    BY <1>4 DEF Expire
  <2>2. TimeOf(e) \in Nat /\ orders[i].arrival > Deadline
    BY <1>4, ExpiresLate
  <2>3. QED
    BY <2>1, <2>2, CancelledTimed
<1>5. QED
  BY <1>1, <1>2, <1>3, <1>4, AcceptTimed, ExecutedTimed, SubmitTimed DEF Next, Step, Finished

\* Times, quotes and the catch-up in every reachable state.
THEOREM TimedInvariant == Spec => [](IInv /\ TInv)
<1>1. Init => IInv /\ TInv
  BY InitHolds, TInvInit
<1>2. IInv /\ TInv /\ [Next]_vars => (IInv /\ TInv)'
  BY StepKeeps, StepTimed
<1>3. QED
  BY <1>1, <1>2, PTL DEF Spec

\* CatchUpCompletes: a catch-up that was sent completes the parent unless a
\* child on its way then fell short.
THEOREM CatchUpsComplete == Spec => []CatchUpCompletes
<1>1. IInv /\ TInv => CatchUpCompletes
  <2> SUFFICES ASSUME IInv, TInv, ended, CatchesUp,
                      \E i \in DOMAIN orders : orders[i].decision = CatchTime
               PROVE  \/ Filled(ledger.children) = Quantity
                      \/ \E i \in DOMAIN orders : FellShort(i)
    BY DEF CatchUpCompletes, FellShort
  <2>1. /\ \A i \in DOMAIN orders : ledger.children[i].status # "reserved"
        /\ ledger.children \in Seq(Child) /\ DOMAIN ledger.children = DOMAIN orders
    BY DEF IInv, OrdersInv, Sound
  <2>2. Reserved(ledger.children) = 0 /\ Filled(ledger.children) \in Nat
    BY <2>1, NothingReserved, ChildSums
  <2>3. QED
    BY <2>2 DEF TInv, CaughtUp
<1>2. QED
  BY <1>1, TimedInvariant, PTL

\* A pending order is filled by its arrival only.
LEMMA OnlyArrivalsFill ==
    ASSUME IInv, TInv, Next, NEW i \in DOMAIN orders, Pending(i),
           orders'[i].status \in {"filled", "partial", "unfilled"}
    PROVE  \E e \in agenda : ArrivalExecuted(e) /\ Item(e) = i
<1>1. orders' # orders /\ orders'[i] # orders[i]
  BY DEF Pending
<1>2. PICK e \in agenda : Step(e)
  BY <1>1 DEF Next, Finished, vars
<1>3. ~(AcceptMessage(e) \/ RejectMessage(e) \/ DecisionSkip(e) \/ Cutoff(e))
  BY <1>1 DEF AcceptMessage, RejectMessage, DecisionSkip, Cutoff
<1>4. ~DecisionSubmit(e)
  BY <1>1, SubmitEffects
<1>5. orders \in Seq(Timing)
  BY DEF IInv, OrdersInv
<1>6. ASSUME NEW j \in DOMAIN orders, NEW t \in Nat,
             NEW s \in {"expired", "rejected_invalid", "rejected_stale"}
      PROVE  ~Processed(j, t, s)
  BY <1>1, <1>5, ProcessedOrder
<1>7. ~ArrivalRejected(e)
  <2> SUFFICES ASSUME ArrivalRejected(e) PROVE FALSE
    OBVIOUS
  <2> DEFINE s == IF Condition(TimeOf(e)) = "invalid" THEN "rejected_invalid" ELSE "rejected_stale"
  <2>1. Item(e) \in DOMAIN orders /\ TimeOf(e) \in Nat /\ Processed(Item(e), TimeOf(e), s)
    BY ArrivalPending DEF ArrivalRejected
  <2>2. s \in {"rejected_invalid", "rejected_stale"}
    OBVIOUS
  <2> HIDE DEF s
  <2>3. QED
    BY <1>6, <2>1, <2>2
<1>8. \A j \in DOMAIN orders : ~Expire(e, j)
  <2> SUFFICES ASSUME NEW j \in DOMAIN orders, Expire(e, j) PROVE FALSE
    OBVIOUS
  <2>1. TimeOf(e) \in Nat /\ Processed(j, TimeOf(e), "expired")
    BY EventTypes DEF Expire
  <2>2. QED
    BY <1>6, <2>1
<1>9. ArrivalExecuted(e)
  BY <1>2, <1>3, <1>4, <1>7, <1>8 DEF Step
<1>10. Item(e) = i
  <2> DEFINE s == ledger'.children[Item(e)].status
  <2>1. /\ orders' = [orders EXCEPT ![Item(e)] =
                         [orders[Item(e)] EXCEPT !.processed = TimeOf(e), !.status = s]]
    BY <1>9 DEF ArrivalExecuted, Processed
  <2>2. QED
    BY <1>1, <1>5, <2>1
<1>11. QED
  BY <1>9, <1>10

\* GatedAsQuoted: an undisturbed child the gate let go is filled whole, at a
\* cost within the cap of the rule.
THEOREM FilledAsQuoted == Spec => GatedAsQuoted
<1> DEFINE Quoted ==
        \A i \in DOMAIN orders :
            /\ Pending(i) /\ ByGate(i) /\ Undisturbed(i)
            /\ orders'[i].status \in {"filled", "partial", "unfilled"}
            => /\ orders'[i].status = "filled"
               /\ WithinCap(ledger'.children[i].fills, TwiceMid(book.depth))
<1>1. ASSUME IInv, TInv, Next, NEW i \in DOMAIN orders,
             Pending(i), ByGate(i), Undisturbed(i),
             orders'[i].status \in {"filled", "partial", "unfilled"}
      PROVE  /\ orders'[i].status = "filled"
             /\ WithinCap(ledger'.children[i].fills, TwiceMid(book.depth))
  <2>1. PICK e \in agenda : ArrivalExecuted(e) /\ Item(e) = i
    BY <1>1, OnlyArrivalsFill
  <2> DEFINE child == ledger.children[i]
             fills == FillsOf(ledger.depth, child.qty, child.limit)
  <2>2. /\ i \in DOMAIN ledger.children /\ child.status = "reserved" /\ Sound(ledger)
        /\ ledger' = Executed(ledger, i) /\ orders \in Seq(Timing)
        /\ Processed(i, TimeOf(e), ledger'.children[i].status)
        /\ ledger.children \in Seq(Child)
    BY <1>1, <2>1, ArrivalPending DEF ArrivalExecuted, IInv, OrdersInv, Sound
  <2>3. child.limit = LimitPrice /\ GateOpens(book.depth, ledger.depth, child.qty, FALSE)
    BY <1>1 DEF TInv, QuoteStands
  <2>4. Total(fills) = child.qty /\ WithinCap(fills, TwiceMid(book.depth))
    BY <1>1, <2>3 DEF GateOpens, ByGate
  <2>5. /\ ledger'.children[i].fills = fills
        /\ ledger'.children[i].status = "filled"
    <3> DEFINE done == Outcome(child, fills)
    <3>1. /\ ledger'.children = [ledger.children EXCEPT ![i] = done]
          /\ done.fills = fills /\ done.status = "filled"
      BY <2>2, <2>4, ExecutedSound
    <3> HIDE DEF done, fills
    <3>2. QED
      BY <2>2, <3>1
  <2>6. orders'[i].status = "filled"
    <3>1. TimeOf(e) \in Nat /\ Processed(i, TimeOf(e), "filled")
      BY <1>1, <2>2, <2>5, EventTypes
    <3>2. QED
      BY <2>2, <3>1, ProcessedOrder
  <2>7. QED
    BY <2>4, <2>5, <2>6
<1>2. IInv /\ TInv /\ [Next]_vars => [Quoted]_vars
  BY <1>1
<1>3. QED
  BY <1>2, TimedInvariant, PTL DEF Spec, GatedAsQuoted

=============================================================================

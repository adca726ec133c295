-------------------------- MODULE CausalEngineProofs --------------------------
(***************************************************************************)
(* The causal engine for every stream, schedule, parent, latency and       *)
(* recovery configuration: its types, what it tells its strategy and when, *)
(* that it uses the actual ledger and the local book as their modules      *)
(* allow, the timeouts and answers of its recovery service, its two books  *)
(* and two depths, and that its loop runs out of steps.                    *)
(***************************************************************************)
EXTENDS CausalEngine, LedgerProofs

Recovery == INSTANCE LocalRecoveryProofs WITH
                Messages <- (UNION Streams) \cup ServiceSnapshots,
                MaxTime <- Deadline, History <- <<>>

-----------------------------------------------------------------------------
\* The inductive invariant.

DeadlineEvent == <<Deadline, DeadlineRank, None>>
BootstrapEvent == <<0, BootstrapRank, None>>
ArrivalEvent(i) == <<orders[i].arrival, ArrivalRank, i>>
ReportEvent(i) ==
    <<orders[i].response, ReportRank, <<i, actual.children[i], orders[i].sequence>>>>

Pending(i) == orders[i].status = "pending"

\* Executed, and its report on the way.
Reporting(i) == orders[i].status \notin {"pending", "unknown"} /\ orders[i].received = None

\* What an event carries: of an order, only of one that still waits for it.
EventOK(e) ==
    /\ e = <<TimeOf(e), RankOf(e), Carried(e)>> /\ TimeOf(e) \in Nat
    /\ RankOf(e) \in (MarketRank .. DeadlineRank) \ {FeedRank}
    /\ RankOf(e) = MarketRank => Carried(e) \in stream /\ TimeOf(e) = Carried(e).time
    /\ RankOf(e) = ReadRank => Carried(e) \in 1 .. token
    /\ RankOf(e) = ResponseRank =>
           Carried(e)[1] \in 1 .. token /\ Carried(e)[2] \in ServiceSnapshots
    /\ RankOf(e) = ArrivalRank =>
           /\ Carried(e) \in DOMAIN orders
           /\ Pending(Carried(e)) /\ e = ArrivalEvent(Carried(e))
    /\ RankOf(e) = ReportRank =>
           /\ Carried(e)[1] \in DOMAIN orders
           /\ Reporting(Carried(e)[1]) /\ e = ReportEvent(Carried(e)[1])
    /\ RankOf(e) = DecisionRank => e \in Decisions
    /\ RankOf(e) = TimeoutRank => Carried(e) \in Nat \X Nat
    /\ RankOf(e) = BootstrapRank => e = BootstrapEvent
    /\ RankOf(e) = DeadlineRank => e = DeadlineEvent

\* An order, the child the market has of it and the one the strategy knows.
OrderOK(i) ==
    LET o == orders[i]
        real == actual.children[i]
    IN  /\ IF o.status \in {"pending", "unknown"}
           THEN real.status = "reserved" /\ o.received = None
           ELSE real.status = o.status /\ o.response \in Nat /\ o.sequence \in Nat
        /\ o.status = "unknown" => halted
        /\ Pending(i) => ~closed /\ o.arrival <= Deadline /\ ArrivalEvent(i) \in agenda
        /\ Reporting(i) => ReportEvent(i) \in agenda
        /\ IF o.received = None
           THEN known.children[i] = NewChild(real.qty, real.limit) /\ known.receipts[i] = NoSeq
           ELSE known.children[i] = real /\ known.receipts[i] = o.sequence

OrdersInv ==
    /\ orders \in Seq(Order)
    /\ Len(actual.children) = Len(orders)
    /\ Len(known.children) = Len(orders) /\ Len(known.receipts) = Len(orders)
    /\ \A i \in DOMAIN orders : OrderOK(i)

DecisionsLeft == {e \in agenda : RankOf(e) = DecisionRank}

\* Every order has used up a decision.
ScheduleInv ==
    /\ IsFiniteSet(DecisionsLeft)
    /\ Len(orders) + Cardinality(DecisionsLeft) <= Slices + 1
    /\ NeverAheadOfSchedule

ServiceInv ==
    /\ requests \in 0 .. MaxRequests /\ token \in Nat
    /\ pending \in BOOLEAN /\ closed \in BOOLEAN /\ halted \in BOOLEAN
    /\ generation \in (Nat \X Nat) \cup {None}

\* The known orders take their refreshes from the provenance of the local book.
KnownInv ==
    /\ known \in KnownLedgers
    /\ known.refreshAll <= highWater
    /\ \A k \in Keys : known.refreshLevels[k] <= highWater

IInv ==
    /\ stream \in Streams
    /\ market \in BookState /\ (market.valid => market.seq \in Nat)
    /\ Sound(actual)
    /\ Recovery!IInv /\ Recovery!WaitInv
    /\ KnownInv /\ ServiceInv /\ OrdersInv /\ ScheduleInv
    /\ \A e \in agenda : EventOK(e)
    /\ closed \/ DeadlineEvent \in agenda

\* The local book of the engine is that of LocalRecovery.
LEMMA SameRecovery ==
    /\ Local!Init => Recovery!Init
    /\ \A m, t : Local!Receive(m, t) => Recovery!Receive(m, t)
    /\ \A t : Local!CheckTimeout(t) => Recovery!CheckTimeout(t)
<1>1. /\ \A m : Local!WellFormed(m) <=> Recovery!WellFormed(m)
      /\ \A d : Local!Crossed(d) <=> Recovery!Crossed(d)
      /\ \A m, n : Local!SameContent(m, n) <=> Recovery!SameContent(m, n)
      /\ Local!Accepted <=> Recovery!Accepted
      /\ Local!published = Recovery!published /\ Local!buffer = Recovery!buffer
      /\ Local!seen = Recovery!seen
  BY DEF Local!WellFormed, Recovery!WellFormed, Local!SameContent, Recovery!SameContent,
         Local!Accepted, Recovery!Accepted, Local!published, Recovery!published,
         Local!buffer, Recovery!buffer, Local!seen, Recovery!seen, Local!Crossed,
         Recovery!Crossed, Local!Overlay, Recovery!Overlay, Local!EmptyDepth, Recovery!EmptyDepth,
         Local!NoSeq, Recovery!NoSeq, Local!Keys, Recovery!Keys, Local!Sides, Recovery!Sides
<1>3. /\ \A t : (Local!Reset(t) <=> Recovery!Reset(t))
      /\ \A t : (Local!Invalidate(t) <=> Recovery!Invalidate(t))
      /\ \A t : (Local!ResetAndRestart(t) <=> Recovery!ResetAndRestart(t))
  BY <1>1 DEF Local!Invalidate, Recovery!Invalidate,
       Local!ResetAndRestart, Recovery!ResetAndRestart, Local!Discard, Recovery!Discard,
       Local!Reset, Recovery!Reset, Local!NoTime, Recovery!NoTime, Local!published, Recovery!published
<1>2. \A u, a, t : Local!TryPublish(u, a, t) <=> Recovery!TryPublish(u, a, t)
  <2>1. \A u, b : Local!Deltas(u, b) = Recovery!Deltas(u, b)
    BY DEF Local!Deltas, Recovery!Deltas
  <2>2. \A a : /\ Local!Base(a) = Recovery!Base(a) /\ Local!Origin(a) = Recovery!Origin(a)
               /\ Local!HasBase(a) <=> Recovery!HasBase(a)
    BY <1>1 DEF Local!Base, Recovery!Base, Local!Origin, Recovery!Origin,
                Local!HasBase, Recovery!HasBase
  <2>3. \A b, d, h : Local!Joined(b, d, h) <=> Recovery!Joined(b, d, h)
    BY DEF Local!Joined, Recovery!Joined
  <2>4. \A d : Local!Latest(d) = Recovery!Latest(d)
    BY DEF Local!Latest, Recovery!Latest
  <2>5. \A b, d : Local!Replay(b, d) = Recovery!Replay(b, d)
    BY <2>4 DEF Local!Replay, Recovery!Replay, Local!Keys, Recovery!Keys, Local!Sides, Recovery!Sides
  <2>6. \A b, d : Local!Clean(b, d) <=> Recovery!Clean(b, d)
    BY <1>1, <2>5 DEF Local!Clean, Recovery!Clean
  <2>7. \A b, d, a, t : Local!Publish(b, d, a, t) <=> Recovery!Publish(b, d, a, t)
    BY <2>2, <2>4, <2>5 DEF Local!Publish, Recovery!Publish, Local!LastSeq, Recovery!LastSeq,
       Local!LastTime, Recovery!LastTime, Local!NoTime, Recovery!NoTime
  <2>8. \A u, a, t : Local!Wait(u, a, t) <=> Recovery!Wait(u, a, t)
    BY <1>1, <1>3 DEF Local!Wait, Recovery!Wait, Local!published, Recovery!published, Local!Cardinality, Recovery!Cardinality
  <2>9. QED
    BY <2>1, <2>2, <2>3, <2>6, <2>7, <2>8, <1>3 DEF Local!TryPublish, Recovery!TryPublish
<1>4. \A m, t : Local!ReceiveUpdate(m, t) => Recovery!ReceiveUpdate(m, t)
  BY <1>1, <1>2, <1>3 DEF Local!ReceiveUpdate, Recovery!ReceiveUpdate, Local!RepeatUpdate,
     Recovery!RepeatUpdate, Local!ConflictUpdate, Recovery!ConflictUpdate, Local!CoveredUpdate,
     Recovery!CoveredUpdate, Local!BufferUpdate, Recovery!BufferUpdate, Local!published, Recovery!published,
     Local!buffer, Recovery!buffer
<1>5. \A m, t : Local!ReceiveSnapshot(m, t) => Recovery!ReceiveSnapshot(m, t)
  <2>1. \A m : (Local!Regresses(m) <=> Recovery!Regresses(m)) /\ (Local!Newest(m) <=> Recovery!Newest(m))
    BY <1>1 DEF Local!Regresses, Recovery!Regresses, Local!Newest, Recovery!Newest
  <2>2. QED
    BY <1>1, <1>2, <1>3, <2>1 DEF Local!ReceiveSnapshot, Recovery!ReceiveSnapshot,
       Local!ConflictSnapshot, Recovery!ConflictSnapshot, Local!RejectSnapshot, Recovery!RejectSnapshot,
       Local!AnchorSnapshot, Recovery!AnchorSnapshot
<1>6. ASSUME NEW m, NEW t, Local!Receive(m, t) PROVE Recovery!Receive(m, t)
  BY <1>1, <1>3, <1>4, <1>5, <1>6 DEF Local!Receive, Recovery!Receive, Local!RejectContent,
     Recovery!RejectContent, Local!RepeatEvent, Recovery!RepeatEvent, Local!ConflictEvent,
     Recovery!ConflictEvent, Local!Known, Recovery!Known, Local!Register, Recovery!Register,
     Local!Larger, Recovery!Larger, Local!seen, Recovery!seen, Local!published, Recovery!published,
     Local!buffer, Recovery!buffer
<1>7. \A t : Local!CheckTimeout(t) => Recovery!CheckTimeout(t)
  BY <1>1, <1>3 DEF Local!CheckTimeout, Recovery!CheckTimeout, Local!StillWaiting,
     Recovery!StillWaiting, Local!StartEpisode, Recovery!StartEpisode, Local!Expire,
     Recovery!Expire, Local!NoTime, Recovery!NoTime, Local!seen, Recovery!seen, Local!published, Recovery!published,
     Local!buffer, Recovery!buffer
<1>8. Local!Init => Recovery!Init
  BY DEF Local!Init, Recovery!Init, Local!NoTime, Recovery!NoTime, Local!NoSeq, Recovery!NoSeq,
     Local!EmptyDepth, Recovery!EmptyDepth, Local!Keys, Recovery!Keys, Local!Sides, Recovery!Sides
<1>9. QED
  BY <1>6, <1>7, <1>8
\* What LocalRecoveryProofs assumes of its constants holds of the engine's.
LEMMA RecoveryAssumptions ==
    Recovery!PricesAssumption /\ Recovery!ConfigAssumption /\ Recovery!FeedAssumption
<1>1. \A m \in UNION Streams : Recovery!IsMessage(m)
  BY MarketAssumption
     DEF Local!IsMessage, Recovery!IsMessage, Local!Depth, Recovery!Depth, Local!IsBatch,
         Recovery!IsBatch, Local!Keys, Recovery!Keys, Local!Sides, Recovery!Sides
<1>2. \A m \in ServiceSnapshots : Recovery!IsMessage(m)
  BY DEF ServiceSnapshots, Recovery!IsMessage, Recovery!Depth, Depth, Recovery!Keys, Keys,
         Recovery!Sides, Sides
<1>3. QED
  BY <1>1, <1>2, MarketAssumption, PricesAssumption, EngineAssumption, ScheduleAssumption
     DEF Recovery!PricesAssumption, Recovery!ConfigAssumption, Recovery!FeedAssumption

\* A step of the local book is a step of LocalRecovery.
LocalStep == Recovery!IInv' /\ Recovery!WaitInv' /\ [Recovery!Next]_(Recovery!vars)

\* What the engine does to the local book keeps its invariant.
LEMMA LocalSteps ==
    ASSUME Recovery!IInv, Recovery!WaitInv
    PROVE  /\ \A m \in (UNION Streams) \cup ServiceSnapshots, t \in 0 .. Deadline :
                  Local!Receive(m, t) => LocalStep
           /\ \A t \in 0 .. Deadline : Local!CheckTimeout(t) => LocalStep
           /\ UNCHANGED localVars => LocalStep
<1>1. clock \in Nat
  BY DEF Recovery!IInv, Recovery!CoreInv
<1>2. ASSUME [Recovery!Next]_(Recovery!vars)
      PROVE  LocalStep
  BY <1>2, RecoveryAssumptions, Recovery!NextPreserves, Recovery!WaitInvPreserved DEF LocalStep
<1>3. ASSUME NEW m \in (UNION Streams) \cup ServiceSnapshots, NEW t \in 0 .. Deadline,
             Local!Receive(m, t)
      PROVE  LocalStep
  <2>1. Recovery!Receive(m, t)
    BY <1>3, SameRecovery
  <2>2. t >= clock
    BY <2>1 DEF Recovery!Receive
  <2>3. t \in clock .. Deadline
    BY <1>1, <2>2, ScheduleAssumption
  <2>4. QED
    BY <1>2, <2>1, <2>3 DEF Recovery!Next
<1>4. ASSUME NEW t \in 0 .. Deadline, Local!CheckTimeout(t)
      PROVE  LocalStep
  <2>1. Recovery!CheckTimeout(t)
    BY <1>4, SameRecovery
  <2>2. t >= clock
    BY <2>1 DEF Recovery!CheckTimeout
  <2>3. t \in clock .. Deadline
    BY <1>1, <2>2, ScheduleAssumption
  <2>4. QED
    BY <1>2, <2>1, <2>3 DEF Recovery!Next
<1>5. UNCHANGED localVars => UNCHANGED Recovery!vars
  BY DEF localVars, Recovery!vars, Recovery!published, Recovery!buffer, Recovery!seen
<1>6. QED
  BY <1>2, <1>3, <1>4, <1>5

-----------------------------------------------------------------------------
\* Events.

\* The engine's own copies of names the local book uses.
LEMMA LocalTypes ==
    Recovery!IInv /\ Recovery!WaitInv =>
           /\ book.depth \in Depth /\ publication \in Nat /\ highWater \in Nat
           /\ since \in Nat \cup {NoSeq} /\ clock \in Nat /\ since <= clock
           /\ provenance \subseteq (UNION Streams) \cup ServiceSnapshots
           /\ \A m \in provenance : /\ m.seq \in Nat /\ m.seq <= highWater
                                    /\ m.kind \in {"snapshot", "update"}
           /\ book.valid => since = NoSeq
           /\ Local!NoTime = NoSeq
<1> SUFFICES ASSUME Recovery!IInv, Recovery!WaitInv
             PROVE  /\ book.depth \in Depth /\ publication \in Nat /\ highWater \in Nat
                    /\ since \in Nat \cup {NoSeq} /\ clock \in Nat /\ since <= clock
                    /\ provenance \subseteq (UNION Streams) \cup ServiceSnapshots
                    /\ \A m \in provenance : /\ m.seq \in Nat /\ m.seq <= highWater
                                             /\ m.kind \in {"snapshot", "update"}
                    /\ book.valid => since = NoSeq
                    /\ Local!NoTime = NoSeq
  OBVIOUS
<1>1. /\ provenance \subseteq (UNION Streams) \cup ServiceSnapshots
      /\ \A m \in (UNION Streams) \cup ServiceSnapshots :
             m.seq \in Nat /\ m.kind \in {"snapshot", "update"}
  BY RecoveryAssumptions
     DEF Recovery!FeedAssumption, Recovery!IsMessage, Recovery!IInv, Recovery!CoreInv
<1>2. \A m \in provenance : m.seq <= highWater
  BY DEF Recovery!IInv, Recovery!SeenInv, Recovery!WaitInv
<1>3. QED
  BY <1>1, <1>2
     DEF Recovery!IInv, Recovery!CoreInv, Recovery!NoTime, Local!NoTime, NoSeq, Recovery!Depth,
         Depth, Recovery!Keys, Keys, Recovery!Sides, Sides

\* Nothing is taken before the deadline that lies behind it.
LEMMA TakenInTime ==
    ASSUME IInv, NEW e \in agenda, Take(e), ~closed
    PROVE  /\ TimeOf(e) \in 0 .. Deadline /\ DeadlineEvent \in agenda
           /\ EventOK(e)
<1>1. DeadlineEvent \in agenda /\ ~Precedes(DeadlineEvent, e) /\ EventOK(e)
  BY DEF Take, First, IInv
<1>2. ~(Deadline < TimeOf(e))
  BY <1>1 DEF Precedes, Earlier, TimeOf, DeadlineEvent
<1>3. QED
  BY <1>1, <1>2, ScheduleAssumption DEF EventOK

\* What changes neither orders nor their reports, and adds or takes no event
\* of theirs, keeps what is known of them.
LEMMA QuietKeeps ==
    ASSUME IInv, UNCHANGED <<orders, stream, halted>>,
           actual'.children = actual.children,
           known'.children = known.children, known'.receipts = known.receipts,
           token' \in Nat, token' >= token,
           closed' => \A i \in DOMAIN orders : ~Pending(i),
           \A f \in agenda \ agenda' : RankOf(f) \notin {ArrivalRank, ReportRank},
           \A f \in agenda' \ agenda :
               EventOK(f)' /\ RankOf(f) \notin {ArrivalRank, ReportRank, DecisionRank}
    PROVE  OrdersInv' /\ ScheduleInv' /\ \A e \in agenda' : EventOK(e)'
<1> USE DEF ArrivalRank, ReportRank, DecisionRank
<1>1. \A i : ArrivalEvent(i)' = ArrivalEvent(i) /\ ReportEvent(i)' = ReportEvent(i)
             /\ (Pending(i)' <=> Pending(i)) /\ (Reporting(i)' <=> Reporting(i))
  BY DEF ArrivalEvent, ReportEvent, Pending, Reporting
<1>2. ASSUME NEW f \in agenda
      PROVE  EventOK(f)'
  <2>1. EventOK(f) /\ token \in Nat
    BY DEF IInv, ServiceInv
  <2>2. 1 .. token \subseteq 1 .. token'
    BY <2>1
  <2>3. QED
    BY <1>1, <2>1, <2>2 DEF EventOK, DeadlineEvent, BootstrapEvent
<1>3. \A f \in agenda' : EventOK(f)'
  BY <1>2
<1>4. ASSUME NEW i \in DOMAIN orders
      PROVE  OrderOK(i)'
  <2>1. OrderOK(i)
    BY DEF IInv, OrdersInv
  <2>2. Pending(i) => ArrivalEvent(i) \in agenda' /\ ~closed'
    <3>1. RankOf(ArrivalEvent(i)) = ArrivalRank
      BY DEF RankOf, ArrivalEvent
    <3>2. QED
      BY <2>1, <3>1 DEF OrderOK
  <2>3. Reporting(i) => ReportEvent(i) \in agenda'
    <3>1. RankOf(ReportEvent(i)) = ReportRank
      BY DEF RankOf, ReportEvent
    <3>2. QED
      BY <2>1, <3>1 DEF OrderOK
  <2>4. QED
    BY <1>1, <2>1, <2>2, <2>3 DEF OrderOK
<1>5. OrdersInv'
  BY <1>4 DEF IInv, OrdersInv
<1>6. DecisionsLeft' \subseteq DecisionsLeft
  BY DEF DecisionsLeft
<1>7. /\ IsFiniteSet(DecisionsLeft) /\ Len(orders) + Cardinality(DecisionsLeft) <= Slices + 1
      /\ Len(orders) \in Nat
  BY DEF IInv, ScheduleInv, OrdersInv
<1>8. /\ IsFiniteSet(DecisionsLeft') /\ Cardinality(DecisionsLeft') <= Cardinality(DecisionsLeft)
      /\ Cardinality(DecisionsLeft) \in Nat /\ Cardinality(DecisionsLeft') \in Nat
  BY <1>6, <1>7, FS_Subset, FS_CardinalityType
<1>9. Len(orders') + Cardinality(DecisionsLeft') <= Slices + 1
  BY <1>7, <1>8, ScheduleAssumption
<1>10. NeverAheadOfSchedule'
  <2>1. NeverAheadOfSchedule
    BY DEF IInv, ScheduleInv
  <2>2. \A e \in Decisions : RankOf(e) = DecisionRank
    BY DEF Decisions, RankOf
  <2>3. Decisions \ agenda \subseteq Decisions \ agenda'
    BY <2>2
  <2>4. QED
    BY <2>1, <2>3 DEF NeverAheadOfSchedule, Decisions
<1>11. QED
  BY <1>3, <1>5, <1>8, <1>9, <1>10 DEF ScheduleInv

\* The high water of the local book never falls.
LEMMA HighWaterRises ==
    ASSUME Recovery!IInv, LocalStep
    PROVE  highWater' \in Nat /\ highWater' >= highWater
<1>1. highWater \in Nat /\ highWater' \in Nat
  BY DEF LocalStep, Recovery!IInv, Recovery!CoreInv
<1>2. ASSUME NEW m \in (UNION Streams) \cup ServiceSnapshots, NEW t, Recovery!Receive(m, t)
      PROVE  highWater' >= highWater
  <2>1. m.seq \in Nat
    BY RecoveryAssumptions DEF Recovery!FeedAssumption, Recovery!IsMessage
  <2>2. QED
    BY <1>1, <1>2, <2>1 DEF Recovery!Receive, Recovery!Larger
<1>3. ASSUME NEW t, Recovery!CheckTimeout(t)
      PROVE  highWater' = highWater
  BY <1>3 DEF Recovery!CheckTimeout
<1>4. QED
  BY <1>1, <1>2, <1>3 DEF LocalStep, Recovery!Next, Recovery!vars

\* What primes of the local book's types are needed.
LEMMA LocalTypesAfter ==
    LocalStep => /\ book'.depth \in Depth /\ publication' \in Nat /\ clock' \in Nat
                 /\ provenance' \subseteq (UNION Streams) \cup ServiceSnapshots
                 /\ \A m \in provenance' : m.seq \in Nat /\ m.seq <= highWater'
<1>1. LocalStep => /\ provenance' \subseteq (UNION Streams) \cup ServiceSnapshots
                   /\ book'.depth \in Depth /\ publication' \in Nat /\ clock' \in Nat
  BY DEF LocalStep, Recovery!IInv, Recovery!CoreInv, Recovery!Depth, Depth, Recovery!Keys,
         Keys, Recovery!Sides, Sides
<1>2. LocalStep => \A m \in provenance' : m.seq <= highWater'
  BY DEF LocalStep, Recovery!IInv, Recovery!SeenInv, Recovery!WaitInv
<1>3. \A m \in (UNION Streams) \cup ServiceSnapshots : m.seq \in Nat
  BY RecoveryAssumptions DEF Recovery!FeedAssumption, Recovery!IsMessage
<1>4. QED
  BY <1>1, <1>2, <1>3

\* What the observation of a publication is made from.
LEMMA PublicationFacts ==
    ASSUME IInv, LocalStep, TellKnown, publication' # publication
    PROVE  /\ known \in KnownLedgers /\ book'.depth \in Depth /\ highWater' \in Nat
           /\ known' = ObserveView(known, Model, book'.depth, provenance' \ provenance)
           /\ known.refreshAll <= highWater'
           /\ \A k \in Keys : known.refreshLevels[k] <= highWater'
           /\ \A m \in provenance' \ provenance : m.seq \in Nat /\ m.seq <= highWater'
<1>1. /\ highWater \in Nat /\ highWater' \in Nat /\ highWater' >= highWater
      /\ known \in KnownLedgers /\ known.refreshAll <= highWater
      /\ \A k \in Keys : known.refreshLevels[k] <= highWater
      /\ known.refreshAll \in Int /\ \A k \in Keys : known.refreshLevels[k] \in Int
  BY HighWaterRises, LocalTypes DEF IInv, KnownInv, KnownLedgers, Numbers, NoSeq
<1>2. /\ book'.depth \in Depth
      /\ \A m \in provenance' \ provenance : m.seq \in Nat /\ m.seq <= highWater'
  BY LocalTypesAfter
<1>3. known.refreshAll <= highWater' /\ \A k \in Keys : known.refreshLevels[k] <= highWater'
  BY <1>1
<1>4. QED
  BY <1>1, <1>2, <1>3 DEF TellKnown

\* A publication tells the known orders the observed depth; children and reports
\* stay.
LEMMA PublicationTells ==
    ASSUME IInv, LocalStep, TellKnown, publication' # publication
    PROVE  /\ known' \in KnownLedgers
           /\ known'.children = known.children /\ known'.receipts = known.receipts
           /\ known'.raw = book'.depth
           /\ known'.depth = Residual(known'.raw, Owed(known', Model))
           /\ known'.refreshAll <= highWater'
           /\ \A k \in Keys : known'.refreshLevels[k] <= highWater'
<1> DEFINE applied == provenance' \ provenance
           raw == book'.depth
           h == highWater'
           after == ObserveView(known, Model, raw, applied)
<1>1. /\ known \in KnownLedgers /\ raw \in Depth /\ h \in Nat
      /\ known.refreshAll <= h /\ \A k \in Keys : known.refreshLevels[k] <= h
      /\ \A m \in applied : m.seq \in Nat /\ m.seq <= h
      /\ known' = after
  BY PublicationFacts
<1> HIDE DEF applied, raw, h
<1>2. /\ after \in KnownLedgers
      /\ after.children = known.children /\ after.receipts = known.receipts
      /\ after.raw = raw /\ after.depth = Residual(raw, Owed(after, Model))
      /\ after.refreshAll <= h /\ \A k \in Keys : after.refreshLevels[k] <= h
  BY <1>1, ObservedView
<1> HIDE DEF after
<1>3. QED
  BY <1>1, <1>2 DEF raw, h

\* The latest snapshot it records was applied, or was recorded before.
LEMMA PublicationSnapshot ==
    ASSUME IInv, LocalStep, TellKnown, publication' # publication
    PROVE  LET all == known'.refreshAll
               applied == provenance' \ provenance
           IN  /\ all \in Numbers /\ known.refreshAll <= all
               /\ \A m \in applied : m.kind = "snapshot" => m.seq <= all
               /\ \/ all = known.refreshAll
                  \/ \E m \in applied : m.kind = "snapshot" /\ m.seq = all
<1> DEFINE applied == provenance' \ provenance
           raw == book'.depth
           h == highWater'
           all == LatestSnapshot(known, applied)
<1>1. /\ known \in KnownLedgers /\ raw \in Depth /\ h \in Nat
      /\ known.refreshAll <= h /\ \A k \in Keys : known.refreshLevels[k] <= h
      /\ \A m \in applied : m.seq \in Nat /\ m.seq <= h
      /\ known' = ObserveView(known, Model, raw, applied)
  BY PublicationFacts
<1> HIDE DEF applied, raw, h
<1>2. known'.refreshAll = all
  <2> DEFINE after == ObserveView(known, Model, raw, applied)
             levels == [l \in Keys |-> LatestUpdate(known, applied, l)]
  <2>1. after.refreshAll = all /\ after.refreshLevels = levels
    BY <1>1, ObservedParts
  <2> HIDE DEF after, levels, all
  <2>2. QED
    BY <1>1, <2>1 DEF after
<1>3. /\ all \in Numbers /\ known.refreshAll <= all
      /\ \A m \in applied : m.kind = "snapshot" => m.seq <= all
      /\ \/ all = known.refreshAll
         \/ \E m \in applied : m.kind = "snapshot" /\ m.seq = all
  BY <1>1, ObservedSnapshots
<1> HIDE DEF all
<1>4. QED
  BY <1>2, <1>3 DEF applied

\* And so for the latest update of a level.
LEMMA PublicationUpdate ==
    ASSUME IInv, LocalStep, TellKnown, publication' # publication, NEW k \in Keys
    PROVE  LET level == known'.refreshLevels[k]
               applied == provenance' \ provenance
           IN  /\ level \in Numbers /\ known.refreshLevels[k] <= level
               /\ \A m \in applied : m.kind = "update" /\ k \in DOMAIN m.levels =>
                      m.seq <= level
               /\ \/ level = known.refreshLevels[k]
                  \/ \E m \in applied :
                         m.kind = "update" /\ k \in DOMAIN m.levels /\ m.seq = level
<1> DEFINE applied == provenance' \ provenance
           raw == book'.depth
           h == highWater'
           level == LatestUpdate(known, applied, k)
<1>1. /\ known \in KnownLedgers /\ raw \in Depth /\ h \in Nat
      /\ known.refreshAll <= h /\ \A l \in Keys : known.refreshLevels[l] <= h
      /\ \A m \in applied : m.seq \in Nat /\ m.seq <= h
      /\ known' = ObserveView(known, Model, raw, applied)
  BY PublicationFacts
<1> HIDE DEF applied, raw, h
<1>2. known'.refreshLevels[k] = level
  <2> DEFINE after == ObserveView(known, Model, raw, applied)
             levels == [l \in Keys |-> LatestUpdate(known, applied, l)]
  <2>1. after.refreshLevels = levels
    BY <1>1, ObservedParts
  <2>2. levels[k] = level
    OBVIOUS
  <2> HIDE DEF after, levels, level
  <2>3. QED
    BY <1>1, <2>1, <2>2 DEF after
<1>3. /\ level \in Numbers /\ known.refreshLevels[k] <= level
      /\ \A m \in applied : m.kind = "update" /\ k \in DOMAIN m.levels => m.seq <= level
      /\ \/ level = known.refreshLevels[k]
         \/ \E m \in applied :
                m.kind = "update" /\ k \in DOMAIN m.levels /\ m.seq = level
  BY <1>1, ObservedUpdates
<1> HIDE DEF level
<1>4. QED
  BY <1>2, <1>3 DEF applied

LEMMA TellKnownKeeps ==
    ASSUME IInv, LocalStep, TellKnown
    PROVE  KnownInv' /\ known'.children = known.children /\ known'.receipts = known.receipts
<1>1. CASE publication' = publication
  <2>1. /\ highWater \in Nat /\ highWater' \in Nat /\ highWater' >= highWater
        /\ known.refreshAll \in Int /\ \A k \in Keys : known.refreshLevels[k] \in Int
    BY HighWaterRises, LocalTypes DEF IInv, KnownInv, KnownLedgers, Numbers, NoSeq
  <2>2. known' = known
    BY <1>1 DEF TellKnown
  <2>3. QED
    BY <2>1, <2>2 DEF IInv, KnownInv
<1>2. CASE publication' # publication
  BY <1>2, PublicationTells DEF KnownInv
<1>3. QED
  BY <1>1, <1>2

\* What request_recovery leaves: at most one read, of a new request, and one
\* timeout of the episode.
LEMMA RequestKeeps ==
    ASSUME Recovery!IInv', requests \in 0 .. MaxRequests, NEW t \in Nat, NEW queue,
           NEW waiting \in BOOLEAN, NEW last \in Nat,
           NEW armed \in (Nat \X Nat) \cup {None},
           RequestRecovery(t, queue, waiting, last, armed)
    PROVE  /\ requests' \in 0 .. MaxRequests /\ token' \in Nat /\ token' >= last
           /\ pending' \in BOOLEAN /\ generation' \in (Nat \X Nat) \cup {None}
           /\ queue \subseteq agenda'
           /\ \A f \in agenda' \ queue :
                  \/ /\ f = <<t + ReadLatency, ReadRank, token'>> /\ t + ReadLatency \in Nat
                     /\ token' \in 1 .. token'
                  \/ /\ f = TimeoutEvent(t) /\ TimeOf(f) \in Nat /\ Carried(f) \in Nat \X Nat
<1> DEFINE asked == IF MayAsk(waiting) THEN {<<t + ReadLatency, ReadRank, last + 1>>} ELSE {}
           timer == IF armed # Episode(t) THEN {TimeoutEvent(t)} ELSE {}
<1>1. since' \in Nat \cup {Local!NoTime} /\ publication' \in Nat
  BY DEF Recovery!IInv, Recovery!CoreInv, Recovery!NoTime, Local!NoTime
<1>2. Episode(t) \in Nat \X Nat
  BY <1>1 DEF Episode
<1>3. TimeOf(TimeoutEvent(t)) \in Nat /\ Carried(TimeoutEvent(t)) = Episode(t)
  <2>1. Episode(t)[1] + Timeout \in Nat
    BY <1>2, EngineAssumption
  <2>2. QED
    BY <2>1 DEF TimeoutEvent, TimeOf, Carried, Larger
<1>4. CASE book'.valid
  BY <1>4 DEF RequestRecovery
<1>5. CASE ~book'.valid
  <2>1. /\ agenda' = queue \cup timer \cup asked /\ generation' = Episode(t)
        /\ requests' = requests + Cardinality(asked) /\ token' = last + Cardinality(asked)
        /\ pending' = (waiting \/ asked # {})
    BY <1>5 DEF RequestRecovery
  <2>2. CASE MayAsk(waiting)
    <3>1. Cardinality(asked) = 1
      BY <2>2, FS_Singleton
    <3>2. requests + 1 \in 0 .. MaxRequests /\ ReadLatency \in Nat
      BY <2>2, EngineAssumption DEF MayAsk
    <3>3. asked = {<<t + ReadLatency, ReadRank, last + 1>>}
      BY <2>2
    <3> HIDE DEF asked
    <3>4. QED
      BY <1>2, <1>3, <2>1, <3>1, <3>2, <3>3
  <2>3. CASE ~MayAsk(waiting)
    <3>1. asked = {} /\ Cardinality(asked) = 0
      BY <2>3, FS_EmptySet
    <3> HIDE DEF asked
    <3>2. QED
      BY <1>2, <1>3, <2>1, <3>1
  <2>4. QED
    BY <2>2, <2>3
<1>6. QED
  BY <1>4, <1>5

\* The events it adds are in order.
LEMMA RequestedEvents ==
    ASSUME NEW t \in Nat, NEW f,
           \/ /\ f = <<t + ReadLatency, ReadRank, token'>> /\ t + ReadLatency \in Nat
              /\ token' \in 1 .. token'
           \/ f = TimeoutEvent(t) /\ TimeOf(f) \in Nat /\ Carried(f) \in Nat \X Nat
    PROVE  EventOK(f)' /\ RankOf(f) \notin {ArrivalRank, ReportRank, DecisionRank, DeadlineRank}
BY DEF EventOK, TimeOf, RankOf, Carried, TimeoutEvent, MarketRank, ReadRank, FeedRank,
       BootstrapRank, ResponseRank, ArrivalRank, ReportRank, DecisionRank, TimeoutRank,
       DeadlineRank


-----------------------------------------------------------------------------
\* The actual ledger as Execution sees it.

\* The operators of its instance of Execution are those of the engine.
LEMMA ActualOperators ==
    /\ \A children : Actual!Available(children) = Available(children)
    /\ \A l, i : Actual!Cancelled(l, i) = Cancelled(l, i)
    /\ \A l, i : Actual!Executed(l, i) = Executed(l, i)
    /\ \A l, q, c : Actual!Submitted(l, q, c) = Submitted(l, q, c)
    /\ \A l, lm, r, m : Actual!Observed(l, lm, r, m) = Observed(l, lm, r, m)
    /\ \A b, m : Actual!DepthAfter(b, m) = DepthAfter(b, m)
    /\ \A d : Actual!Crossed(d) <=> Crossed(d)
<1>1. ASSUME NEW f, NEW S PROVE Actual!SumFunctionOnSet(f, S) = FoldOf(f, S)[S]
  BY DEF Actual!SumFunctionOnSet, Actual!FoldFunctionOnSet, Actual!MapThenFoldSet, FoldOf,
         IsFold, Adds, Chosen1
<1>2. ASSUME NEW f PROVE Actual!Total(f) = Total(f)
  BY <1>1, TotalIsFold DEF Actual!Total
<1>3. ASSUME NEW children PROVE Actual!Available(children) = Available(children)
  <2>1. Actual!Filled(children) = Filled(children)
    <3>1. [i \in DOMAIN children |-> Actual!Total(children[i].fills)]
              = [i \in DOMAIN children |-> Total(children[i].fills)]
      BY <1>2
    <3>2. QED
      BY <1>1, <3>1, FilledIsFold DEF Actual!Filled
  <2>2. Actual!Reserved(children) = Reserved(children)
    <3>1. [i \in DOMAIN children |-> Actual!Held(children[i])]
              = [i \in DOMAIN children |-> Held(children[i])]
      BY DEF Actual!Held, Held
    <3>2. QED
      BY <1>1, <3>1, ReservedIsFold DEF Actual!Reserved
  <2>3. QED
    BY <2>1, <2>2 DEF Actual!Available, Available
<1>4. \A l, i : Actual!Executed(l, i) = Executed(l, i)
  <2>1. ASSUME NEW d, NEW c, NEW p PROVE Actual!Ahead(d, c, p) = Ahead(d, c, p)
    <3> DEFINE S == {b \in Prices : Eligible(c, b) /\ Better(b, p)}
    <3>1. /\ {b \in Prices : Actual!Eligible(c, b) /\ Actual!Better(b, p)} = S
          /\ Actual!Offered(d) = Offered(d)
      BY DEF Actual!Eligible, Eligible, Actual!Better, Better, Actual!Offered, Offered,
             Actual!Opposite, Opposite
    <3>2. QED
      BY <1>1, <3>1, AheadIsFold DEF Actual!Ahead
  <2>2. \A d, q, c : Actual!FillsOf(d, q, c) = FillsOf(d, q, c)
    BY <2>1 DEF Actual!FillsOf, FillsOf, Actual!Eligible, Eligible, Actual!Smaller,
                Smaller, Actual!Larger, Larger, Actual!Opposite, Opposite
  <2>3. \A f, k : Actual!Taken(f, k) = Taken(f, k)
    BY DEF Actual!Taken, Taken, Actual!Opposite, Opposite
  <2>4. \A d, f : Actual!Less(d, f) = Less(d, f)
    BY <2>3 DEF Actual!Less, Less, Actual!Keys, Keys, Actual!Sides, Sides
  <2>5. \A c, f : Actual!Outcome(c, f) = Outcome(c, f)
    BY <1>2 DEF Actual!Outcome, Outcome
  <2>6. QED
    BY <2>2, <2>3, <2>4, <2>5
       DEF Actual!Executed, Executed, Actual!Keys, Keys, Actual!Sides, Sides
<1>5. \A l, lm, r, m : Actual!Observed(l, lm, r, m) = Observed(l, lm, r, m)
  BY DEF Actual!Observed, Observed, Actual!Refresh, Refresh, Actual!Residual, Residual,
         Actual!NoDebits, NoDebits, Actual!Keys, Keys, Actual!Sides, Sides,
         Actual!Larger, Larger
<1>6. \A b, m : Actual!DepthAfter(b, m) = DepthAfter(b, m)
  BY DEF Actual!DepthAfter, DepthAfter, Actual!Overlay, Overlay, Actual!Keys, Keys,
         Actual!Sides, Sides
<1>7. QED
  BY <1>3, <1>4, <1>5, <1>6
     DEF Actual!Cancelled, Cancelled, Actual!Submitted, Submitted, Actual!NewChild,
         NewChild, Actual!NoFills, NoFills, Actual!Crossed, Crossed

\* What an event does to the actual ledger is a step of Execution, or nothing.
ContractStep == Actual!Next \/ UNCHANGED <<actual, Model, market.depth>>

-----------------------------------------------------------------------------
\* The first state.

\* The decisions of the first heap are the ticks.
LEMMA InitCount ==
    ASSUME Init
    PROVE  IsFiniteSet(DecisionsLeft) /\ Cardinality(DecisionsLeft) <= Slices + 1
<1> DEFINE f == [k \in Ticks |-> <<k[1], DecisionRank, k[2]>>]
<1>1. DecisionsLeft = {f[k] : k \in Ticks}
  BY DEF Init, Decisions, DecisionsLeft, RankOf, MarketRank, DecisionRank, BootstrapRank,
         DeadlineRank
<1>2. f \in Surjection(Ticks, DecisionsLeft)
  BY <1>1 DEF Surjection
<1>3. IsFiniteSet(DecisionsLeft) /\ Cardinality(DecisionsLeft) <= Cardinality(Ticks)
  <2> HIDE DEF f
  <2> QED
    BY <1>2, TickCount, FS_Surjection
<1>4. Cardinality(DecisionsLeft) \in Nat /\ Cardinality(Ticks) \in Nat
  BY <1>3, TickCount, FS_CardinalityType
<1>5. QED
  BY <1>3, <1>4, TickCount, ScheduleAssumption

\* The events of the first heap are in order.
LEMMA InitEvents == Init => \A e \in agenda : EventOK(e)
<1> USE DEF MarketRank, ReadRank, FeedRank, BootstrapRank, ResponseRank, ArrivalRank,
            ReportRank, DecisionRank, TimeoutRank, DeadlineRank
<1>1. ASSUME Init, NEW m \in stream PROVE EventOK(<<m.time, MarketRank, m>>)
  <2>1. m.time \in Nat
    BY <1>1, MarketAssumption DEF Init, Local!IsMessage
  <2>2. QED
    BY <2>1 DEF EventOK, TimeOf, RankOf, Carried
<1>2. ASSUME NEW e \in Decisions PROVE EventOK(e)
  <2>1. PICK k \in Ticks : e = <<k[1], DecisionRank, k[2]>>
    BY DEF Decisions
  <2>2. k[1] \in Nat
    BY TickTypes
  <2>3. QED
    BY <2>1, <2>2 DEF EventOK, TimeOf, RankOf, Carried
<1>3. EventOK(BootstrapEvent) /\ EventOK(DeadlineEvent)
  BY ScheduleAssumption
     DEF EventOK, TimeOf, RankOf, Carried, BootstrapEvent, DeadlineEvent
<1>4. QED
  BY <1>1, <1>2, <1>3 DEF Init, BootstrapEvent, DeadlineEvent

LEMMA InitHolds == Init => IInv
<1> SUFFICES ASSUME Init
             PROVE  IInv
  OBVIOUS
<1>1. Recovery!IInv /\ Recovery!WaitInv
  <2>1. Recovery!Init
    BY SameRecovery DEF Init
  <2>2. Recovery!IInv
    BY <2>1, RecoveryAssumptions, Recovery!InitIInv
  <2>3. Recovery!WaitInv
    BY <2>1 DEF Recovery!Init, Recovery!WaitInv, Recovery!Ready, Recovery!HasBase,
              Recovery!Accepted
  <2>4. QED
    BY <2>2, <2>3
<1>2. market \in BookState /\ ~market.valid /\ EmptyDepth \in Depth
  BY EmptySound DEF Init, InitBook, BookState
<1>3. KnownInv
  <2>1. /\ known.refreshAll = NoSeq /\ \A k \in Keys : known.refreshLevels[k] = NoSeq
        /\ known \in KnownLedgers
    BY <1>2 DEF Init, UnknownOrders, KnownLedgers, Numbers
  <2>2. highWater \in Nat
    BY <1>1, LocalTypes
  <2>3. QED
    BY <2>1, <2>2 DEF KnownInv, NoSeq
<1>4. ServiceInv
  <2>1. /\ requests = 0 /\ token = 0 /\ generation = None
        /\ pending = FALSE /\ closed = FALSE /\ halted = FALSE
    BY DEF Init
  <2>2. 0 \in 0 .. MaxRequests
    BY EngineAssumption
  <2>3. QED
    BY <2>1, <2>2 DEF ServiceInv
<1>5. OrdersInv
  BY DEF OrdersInv, Init, EmptyLedger, UnknownOrders
<1>6. ScheduleInv
  <2>1. IsFiniteSet(DecisionsLeft) /\ Cardinality(DecisionsLeft) <= Slices + 1
    BY InitCount
  <2>2. orders = <<>> /\ Len(orders) = 0
    BY DEF Init
  <2>3. NeverAheadOfSchedule
    BY <2>2 DEF NeverAheadOfSchedule
  <2>4. Cardinality(DecisionsLeft) \in Nat
    BY <2>1, FS_CardinalityType
  <2>5. Len(orders) + Cardinality(DecisionsLeft) <= Slices + 1
    BY <2>1, <2>2, <2>4
  <2>6. QED
    BY <2>1, <2>3, <2>5 DEF ScheduleInv
<1>7. DeadlineEvent \in agenda
  BY DEF Init, DeadlineEvent
<1>8. Sound(actual) /\ stream \in Streams
  BY EmptySound DEF Init
<1>9. QED
  BY <1>1, <1>2, <1>3, <1>4, <1>5, <1>6, <1>7, <1>8, InitEvents DEF IInv

-----------------------------------------------------------------------------
\* Every event keeps the invariant and is, for the actual ledger, a step of
\* Execution or nothing.

\* Known orders that are told nothing keep their invariant.
LEMMA KnownStays ==
    ASSUME IInv, LocalStep, known' = known
    PROVE  KnownInv' /\ known'.children = known.children /\ known'.receipts = known.receipts
<1>1. /\ highWater \in Nat /\ highWater' \in Nat /\ highWater' >= highWater
      /\ known \in KnownLedgers /\ known.refreshAll <= highWater
      /\ \A k \in Keys : known.refreshLevels[k] <= highWater
      /\ known.refreshAll \in Int /\ \A k \in Keys : known.refreshLevels[k] \in Int
  BY HighWaterRises, LocalTypes DEF IInv, KnownInv, KnownLedgers, Numbers, NoSeq
<1>2. known.refreshAll <= highWater' /\ \A k \in Keys : known.refreshLevels[k] <= highWater'
  BY <1>1
<1>3. QED
  BY <1>1, <1>2 DEF KnownInv

\* What leaves the local book alone is no step of it.
LEMMA LocalStays == IInv /\ UNCHANGED localVars => LocalStep
BY LocalSteps DEF IInv

\* An event that concerns no order.
LEMMA QuietStep ==
    ASSUME IInv, LocalStep, UNCHANGED <<stream, orders, closed, halted>>,
           actual'.children = actual.children, Sound(actual'),
           market' \in BookState, market'.valid => market'.seq \in Nat,
           KnownInv', known'.children = known.children, known'.receipts = known.receipts,
           ServiceInv', token' >= token,
           \A f \in agenda \ agenda' : RankOf(f) \notin {ArrivalRank, ReportRank, DeadlineRank},
           \A f \in agenda' \ agenda :
               EventOK(f)' /\ RankOf(f) \notin {ArrivalRank, ReportRank, DecisionRank}
    PROVE  IInv'
<1>1. closed => \A i \in DOMAIN orders : ~Pending(i)
  BY DEF IInv, OrdersInv, OrderOK
<1>2. OrdersInv' /\ ScheduleInv' /\ \A f \in agenda' : EventOK(f)'
  BY <1>1, QuietKeeps DEF ServiceInv
<1>3. closed' \/ DeadlineEvent' \in agenda'
  <2>1. closed \/ DeadlineEvent \in agenda
    BY DEF IInv
  <2>2. RankOf(DeadlineEvent) = DeadlineRank /\ DeadlineEvent' = DeadlineEvent
    BY DEF RankOf, DeadlineEvent
  <2>3. QED
    BY <2>1, <2>2
<1>4. Recovery!IInv' /\ Recovery!WaitInv'
  BY DEF LocalStep
<1>5. stream' \in Streams
  BY DEF IInv
<1>6. QED
  BY <1>2, <1>3, <1>4, <1>5 DEF IInv

\* It leaves the heap, and what it leaves there stays.
LEMMA QuietTake ==
    ASSUME NEW e, NEW rank, Open(e, rank),
           rank \in {MarketRank, ReadRank, BootstrapRank, ResponseRank, DecisionRank,
                     TimeoutRank},
           Rest(e) \subseteq agenda'
    PROVE  /\ UNCHANGED stream /\ ~closed
           /\ \A f \in agenda \ agenda' :
                  RankOf(f) \notin {ArrivalRank, ReportRank, DeadlineRank}
BY DEF Open, Take, Rest, MarketRank, ReadRank, BootstrapRank, ResponseRank, DecisionRank,
       TimeoutRank, ArrivalRank, ReportRank, DeadlineRank

\* The contents of a market message.
LEMMA MarketTypes ==
    \A m \in UNION Streams :
        /\ m.seq \in Nat /\ m.time \in Nat
        /\ IF m.kind = "snapshot" THEN m.levels \in Depth ELSE IsBatch(m.levels)
BY MarketAssumption
   DEF Local!IsMessage, Local!Depth, Local!IsBatch, Local!Keys, Local!Sides, Depth, IsBatch,
       Keys, Sides

\* A market message is for the actual ledger an observation, or nothing.
LEMMA MarketMessageKeeps ==
    ASSUME IInv, NEW e \in agenda, MarketMessage(e)
    PROVE  IInv' /\ ContractStep
<1> DEFINE m == Carried(e)
<1>1. /\ m \in UNION Streams /\ m.seq \in Nat
      /\ IF m.kind = "snapshot" THEN m.levels \in Depth ELSE IsBatch(m.levels)
  <2>1. m \in UNION Streams
    BY DEF MarketMessage, Open, IInv, EventOK
  <2>2. QED
    BY <2>1, MarketTypes
<1>2. /\ Open(e, MarketRank) /\ agenda' = Rest(e)
      /\ UNCHANGED <<known, orders, service, closed, halted, localVars>>
  BY DEF MarketMessage
<1>3. market \in BookState /\ Sound(actual) /\ market.depth \in Depth
  BY DEF IInv, BookState
<1> HIDE DEF m
<1>4. ASSUME Accepts(market, m)
      PROVE  /\ market' \in BookState /\ (market'.valid => market'.seq \in Nat)
             /\ Sound(actual') /\ actual'.children = actual.children /\ ContractStep
  <2>1. /\ market' = Commit(market, m.seq, DepthAfter(market, m))
        /\ actual' = Observed(actual, Model, market'.depth, m)
    BY <1>4 DEF MarketMessage, m
  <2>2. /\ market'.depth = DepthAfter(market, m)
        /\ DepthAfter(market, m) = DepthAfter([depth |-> market.depth], m)
    BY <2>1 DEF Commit, DepthAfter
  <2>3. market'.depth \in Depth /\ ~Crossed(market'.depth)
    <3>1. ~Crossed(DepthAfter(market, m))
      BY <1>4 DEF Accepts, AcceptsSnapshot, AcceptsUpdate, DepthAfter
    <3>2. QED
      BY <1>1, <1>3, <2>2, <3>1, DepthAfterType
  <2>4. market' \in BookState /\ market'.seq \in Nat
    <3>1. market.version + 1 \in Nat /\ m.seq + 1 \in Nat
      BY <1>1, <1>3 DEF BookState
    <3>2. QED
      BY <1>1, <2>1, <2>2, <2>3, <3>1 DEF Commit, BookState
  <2>5. Sound(actual') /\ actual'.children = actual.children
    BY <1>3, <2>1, <2>3, ObservedSound, EngineAssumption
  <2>6. Actual!Observe(m)
    <3>1. Actual!DepthAfter([depth |-> market.depth], m) = market'.depth
      BY <2>2, ActualOperators
    <3>2. /\ ~Actual!Crossed(market'.depth)
          /\ actual' = Actual!Observed(actual, Model, market'.depth, m)
      BY <2>1, <2>3, ActualOperators
    <3>3. QED
      BY <3>1, <3>2 DEF Actual!Observe
  <2>7. QED
    BY <1>1, <2>4, <2>5, <2>6 DEF ContractStep, Actual!Next
<1>5. ASSUME ~Accepts(market, m)
      PROVE  /\ market' \in BookState /\ (market'.valid => market'.seq \in Nat)
             /\ Sound(actual') /\ actual'.children = actual.children /\ ContractStep
  <2>1. market' = Reject(market, m.seq) /\ actual' = actual
    BY <1>5 DEF MarketMessage, m
  <2>2. market' \in BookState /\ ~market'.valid /\ market'.depth = market.depth
    BY <1>1, <1>3, <2>1 DEF Reject, BookState, Larger
  <2>3. ContractStep
    BY <2>1, <2>2 DEF ContractStep
  <2>4. QED
    BY <1>3, <2>1, <2>2, <2>3
<1>6. QED
  <2>1. /\ market' \in BookState /\ (market'.valid => market'.seq \in Nat)
        /\ Sound(actual') /\ actual'.children = actual.children /\ ContractStep
    BY <1>4, <1>5
  <2>2. ServiceInv' /\ token' >= token
    BY <1>2 DEF IInv, ServiceInv, service
  <2>3. LocalStep /\ known' = known /\ UNCHANGED <<orders, closed, halted>>
    BY <1>2, LocalStays
  <2>4. KnownInv' /\ known'.children = known.children /\ known'.receipts = known.receipts
    BY <2>3, KnownStays
  <2>5. /\ UNCHANGED stream
        /\ \A f \in agenda \ agenda' :
               RankOf(f) \notin {ArrivalRank, ReportRank, DeadlineRank}
        /\ agenda' \ agenda = {}
    BY <1>2, QuietTake DEF Rest
  <2>6. QED
    BY <2>1, <2>2, <2>3, <2>4, <2>5, QuietStep

\* An event of the service, the feed or a skipped decision: orders, market and
\* actual ledger stay.
LEMMA MarketStays ==
    ASSUME IInv, LocalStep, UNCHANGED <<stream, market, actual, orders, closed, halted>>,
           KnownInv', known'.children = known.children, known'.receipts = known.receipts,
           ServiceInv', token' >= token,
           \A f \in agenda \ agenda' : RankOf(f) \notin {ArrivalRank, ReportRank, DeadlineRank},
           \A f \in agenda' \ agenda :
               EventOK(f)' /\ RankOf(f) \notin {ArrivalRank, ReportRank, DecisionRank}
    PROVE  IInv' /\ ContractStep
<1>1. /\ Sound(actual') /\ actual'.children = actual.children
      /\ market' \in BookState /\ (market'.valid => market'.seq \in Nat)
  BY DEF IInv
<1>2. ContractStep
  BY DEF ContractStep
<1>3. IInv'
  BY <1>1, QuietStep
<1>4. QED
  BY <1>2, <1>3

\* A delivery of the feed at time t.
LEMMA FeedKeeps ==
    ASSUME IInv, NEW m \in stream, NEW t \in 0 .. Deadline, Feed(m, t)
    PROVE  IInv' /\ ContractStep
<1>1. /\ UNCHANGED <<stream, market, actual, orders, closed, halted>>
      /\ Local!Receive(m, t) /\ TellKnown
      /\ RequestRecovery(t, agenda, pending, token, generation)
  BY DEF Feed
<1>2. m \in UNION Streams /\ t \in Nat
  BY ScheduleAssumption DEF IInv
<1>3. LocalStep
  BY <1>1, <1>2, LocalSteps DEF IInv
<1>4. KnownInv' /\ known'.children = known.children /\ known'.receipts = known.receipts
  BY <1>1, <1>3, TellKnownKeeps
<1>5. ServiceInv
  BY DEF IInv
<1>6. /\ requests' \in 0 .. MaxRequests /\ token' \in Nat /\ token' >= token
      /\ pending' \in BOOLEAN /\ generation' \in (Nat \X Nat) \cup {None}
      /\ agenda \subseteq agenda'
      /\ \A f \in agenda' \ agenda :
             EventOK(f)' /\ RankOf(f) \notin {ArrivalRank, ReportRank, DecisionRank}
  <2>1. Recovery!IInv'
    BY <1>3 DEF LocalStep
  <2>2. QED
    BY <1>1, <1>2, <1>5, <2>1, RequestKeeps, RequestedEvents DEF ServiceInv
<1>7. ServiceInv'
  BY <1>1, <1>5, <1>6 DEF ServiceInv
<1>8. QED
  BY <1>1, <1>3, <1>4, <1>6, <1>7, MarketStays

\* The check at the start of the run.
LEMMA BootstrapKeeps ==
    ASSUME IInv, NEW e \in agenda, Bootstrap(e)
    PROVE  IInv' /\ ContractStep
<1> DEFINE t == TimeOf(e)
<1>1. /\ UNCHANGED <<market, actual, known, orders, closed, halted>>
      /\ Open(e, BootstrapRank) /\ Local!CheckTimeout(t)
      /\ RequestRecovery(t, Rest(e), pending, token, generation)
  BY DEF Bootstrap
<1>2. t \in 0 .. Deadline /\ t \in Nat
  BY <1>1, TakenInTime, ScheduleAssumption DEF Open
<1> HIDE DEF t
<1>3. LocalStep
  BY <1>1, <1>2, LocalSteps DEF IInv
<1>4. KnownInv' /\ known'.children = known.children /\ known'.receipts = known.receipts
  BY <1>1, <1>3, KnownStays
<1>5. ServiceInv
  BY DEF IInv
<1>6. /\ requests' \in 0 .. MaxRequests /\ token' \in Nat /\ token' >= token
      /\ pending' \in BOOLEAN /\ generation' \in (Nat \X Nat) \cup {None}
      /\ Rest(e) \subseteq agenda'
      /\ \A f \in agenda' \ Rest(e) :
             EventOK(f)' /\ RankOf(f) \notin {ArrivalRank, ReportRank, DecisionRank}
  <2>1. Recovery!IInv'
    BY <1>3 DEF LocalStep
  <2>2. QED
    BY <1>1, <1>2, <1>5, <2>1, RequestKeeps, RequestedEvents DEF ServiceInv
<1>7. ServiceInv'
  BY <1>1, <1>5, <1>6 DEF ServiceInv
<1>8. /\ UNCHANGED stream /\ agenda' \ agenda \subseteq agenda' \ Rest(e)
      /\ \A f \in agenda \ agenda' : RankOf(f) \notin {ArrivalRank, ReportRank, DeadlineRank}
  BY <1>1, <1>6, QuietTake DEF Rest
<1>9. QED
  BY <1>1, <1>3, <1>4, <1>6, <1>7, <1>8, MarketStays

\* An event that changes neither the local book nor the known orders, and the
\* service only by giving a request up.
LEMMA IdleKeeps ==
    ASSUME IInv, NEW e \in agenda, NEW rank, Open(e, rank),
           rank \in {MarketRank, ReadRank, BootstrapRank, ResponseRank, DecisionRank,
                     TimeoutRank},
           UNCHANGED <<market, actual, known, orders, requests, token, generation, closed,
                       halted, localVars>>,
           pending' \in BOOLEAN, Rest(e) \subseteq agenda',
           \A f \in agenda' \ Rest(e) :
               EventOK(f)' /\ RankOf(f) \notin {ArrivalRank, ReportRank, DecisionRank}
    PROVE  IInv' /\ ContractStep
<1>1. LocalStep
  BY LocalStays
<1>2. KnownInv' /\ known'.children = known.children /\ known'.receipts = known.receipts
  BY <1>1, KnownStays
<1>3. ServiceInv' /\ token' >= token
  BY DEF IInv, ServiceInv
<1>4. /\ UNCHANGED stream /\ agenda' \ agenda \subseteq agenda' \ Rest(e)
      /\ \A f \in agenda \ agenda' : RankOf(f) \notin {ArrivalRank, ReportRank, DeadlineRank}
  BY QuietTake DEF Rest
<1>5. QED
  BY <1>1, <1>2, <1>3, <1>4, MarketStays

\* The service reads the market.
LEMMA SnapshotReadKeeps ==
    ASSUME IInv, NEW e \in agenda, SnapshotRead(e)
    PROVE  IInv' /\ ContractStep
<1> DEFINE id == Carried(e)
           t == TimeOf(e)
           answer == <<t + SnapshotLatency, ResponseRank, <<id, ServiceSnapshot(t, id)>>>>
<1>1. /\ Open(e, ReadRank)
      /\ agenda' = IF Awaited(id) /\ ~book.valid /\ market.valid
                   THEN Rest(e) \cup {answer} ELSE Rest(e)
      /\ pending' = (pending /\ ~(Awaited(id) /\ book.valid))
      /\ UNCHANGED <<market, actual, known, orders, requests, token, generation,
                     closed, halted, localVars>>
  BY DEF SnapshotRead
<1>2. id \in 1 .. token /\ t \in Nat /\ token \in Nat
  BY <1>1 DEF Open, IInv, EventOK, ServiceInv
<1>3. ASSUME market.valid, NEW f, f = answer
      PROVE  EventOK(f)' /\ RankOf(f) \notin {ArrivalRank, ReportRank, DecisionRank}
  <2>1. ServiceSnapshot(t, id) \in ServiceSnapshots
    <3>1. market.seq \in Nat /\ market.depth \in Depth
      BY <1>3 DEF IInv, BookState
    <3>2. GeneratedIndex + id \in Nat /\ GeneratedIndex + id > GeneratedIndex
      BY <1>2 DEF GeneratedIndex
    <3> HIDE DEF id, t
    <3>3. QED
      BY <1>2, <3>1, <3>2 DEF ServiceSnapshot, ServiceSnapshots
  <2>2. t + SnapshotLatency \in Nat /\ token' = token
    BY <1>1, <1>2, EngineAssumption
  <2> HIDE DEF id, t
  <2>3. f = <<t + SnapshotLatency, ResponseRank, <<id, ServiceSnapshot(t, id)>>>>
    BY <1>3
  <2>4. QED
    BY <1>2, <2>1, <2>2, <2>3
       DEF EventOK, TimeOf, RankOf, Carried, MarketRank, ReadRank, FeedRank, BootstrapRank,
           ResponseRank, ArrivalRank, ReportRank, DecisionRank, TimeoutRank, DeadlineRank
<1> HIDE DEF id, t, answer
<1>4. /\ Rest(e) \subseteq agenda'
      /\ \A f \in agenda' \ Rest(e) :
             EventOK(f)' /\ RankOf(f) \notin {ArrivalRank, ReportRank, DecisionRank}
  BY <1>1, <1>3
<1>5. pending' \in BOOLEAN
  BY <1>1
<1>6. QED
  BY <1>1, <1>4, <1>5, IdleKeeps

\* An answer that is not used, a timeout that is not live, a decision that
\* sends nothing.
LEMMA IgnoredKeeps ==
    ASSUME IInv, NEW e \in agenda, IgnoreResponse(e) \/ IgnoreTimeout(e) \/ DecisionSkip(e)
    PROVE  IInv' /\ ContractStep
<1>1. \E rank \in {ResponseRank, TimeoutRank, DecisionRank} : Open(e, rank)
  BY DEF IgnoreResponse, IgnoreTimeout, DecisionSkip
<1>2. /\ UNCHANGED <<market, actual, known, orders, requests, token, generation, closed,
                     halted, localVars>>
      /\ agenda' = Rest(e)
  BY DEF IgnoreResponse, IgnoreTimeout, DecisionSkip, service
<1>3. pending' \in BOOLEAN
  BY DEF IgnoreResponse, IgnoreTimeout, DecisionSkip, service, IInv, ServiceInv
<1>4. QED
  BY <1>1, <1>2, <1>3, IdleKeeps

\* An answer that is awaited.
LEMMA UseResponseKeeps ==
    ASSUME IInv, NEW e \in agenda, UseResponse(e)
    PROVE  IInv' /\ ContractStep
<1>1. /\ Open(e, ResponseRank) /\ agenda' = Rest(e) /\ pending' = FALSE
      /\ Local!Receive(Carried(e)[2], TimeOf(e)) /\ TellKnown
      /\ UNCHANGED <<market, actual, orders, requests, token, generation, closed, halted>>
  BY DEF UseResponse
<1>2. TimeOf(e) \in 0 .. Deadline /\ EventOK(e)
  BY <1>1, TakenInTime DEF Open
<1>3. Carried(e)[2] \in ServiceSnapshots
  BY <1>1, <1>2 DEF Open, EventOK
<1>4. LocalStep
  BY <1>1, <1>2, <1>3, LocalSteps DEF IInv
<1>5. KnownInv' /\ known'.children = known.children /\ known'.receipts = known.receipts
  BY <1>1, <1>4, TellKnownKeeps
<1>6. ServiceInv' /\ token' >= token
  <2>1. pending' \in BOOLEAN
    BY <1>1
  <2>2. QED
    BY <1>1, <2>1 DEF IInv, ServiceInv
<1>7. /\ UNCHANGED stream /\ agenda' \ agenda = {}
      /\ \A f \in agenda \ agenda' : RankOf(f) \notin {ArrivalRank, ReportRank, DeadlineRank}
  BY <1>1, QuietTake DEF Rest
<1>8. QED
  BY <1>1, <1>4, <1>5, <1>6, <1>7, MarketStays

\* A live timeout.
LEMMA RecoveryTimeoutKeeps ==
    ASSUME IInv, NEW e \in agenda, RecoveryTimeout(e)
    PROVE  IInv' /\ ContractStep
<1> DEFINE t == TimeOf(e)
<1>1. /\ UNCHANGED <<market, actual, known, orders, closed, halted>>
      /\ Open(e, TimeoutRank) /\ Local!CheckTimeout(t)
      /\ \/ RequestRecovery(t, Rest(e), FALSE, token + 1, None)
         \/ /\ agenda' = Rest(e) /\ pending' = FALSE /\ token' = token + 1
            /\ generation' = None /\ requests' = requests
  BY DEF RecoveryTimeout
<1>2. t \in 0 .. Deadline /\ t \in Nat
  BY <1>1, TakenInTime, ScheduleAssumption DEF Open
<1> HIDE DEF t
<1>3. LocalStep
  BY <1>1, <1>2, LocalSteps DEF IInv
<1>4. KnownInv' /\ known'.children = known.children /\ known'.receipts = known.receipts
  BY <1>1, <1>3, KnownStays
<1>5. ServiceInv /\ token + 1 \in Nat /\ token \in Nat /\ requests \in 0 .. MaxRequests
  BY DEF IInv, ServiceInv
<1>6. /\ requests' \in 0 .. MaxRequests /\ token' \in Nat /\ token' >= token
      /\ pending' \in BOOLEAN /\ generation' \in (Nat \X Nat) \cup {None}
      /\ Rest(e) \subseteq agenda'
      /\ \A f \in agenda' \ Rest(e) :
             EventOK(f)' /\ RankOf(f) \notin {ArrivalRank, ReportRank, DecisionRank}
  <2>1. CASE RequestRecovery(t, Rest(e), FALSE, token + 1, None)
    <3>1. Recovery!IInv'
      BY <1>3 DEF LocalStep
    <3>2. /\ requests' \in 0 .. MaxRequests /\ token' \in Nat /\ token' >= token + 1
          /\ pending' \in BOOLEAN /\ generation' \in (Nat \X Nat) \cup {None}
          /\ Rest(e) \subseteq agenda'
          /\ \A f \in agenda' \ Rest(e) :
                 EventOK(f)' /\ RankOf(f) \notin {ArrivalRank, ReportRank, DecisionRank}
      BY <1>2, <1>5, <2>1, <3>1, RequestKeeps, RequestedEvents
    <3>3. QED
      BY <1>5, <3>2
  <2>2. CASE /\ agenda' = Rest(e) /\ pending' = FALSE /\ token' = token + 1
             /\ generation' = None /\ requests' = requests
    <3>1. pending' \in BOOLEAN
      BY <2>2
    <3>2. requests' \in 0 .. MaxRequests /\ token' \in Nat /\ token' >= token
      BY <1>5, <2>2
    <3>3. QED
      BY <2>2, <3>1, <3>2
  <2>3. QED
    BY <1>1, <2>1, <2>2
<1>7. ServiceInv'
  BY <1>1, <1>5, <1>6 DEF ServiceInv
<1>8. /\ UNCHANGED stream /\ agenda' \ agenda \subseteq agenda' \ Rest(e)
      /\ \A f \in agenda \ agenda' : RankOf(f) \notin {ArrivalRank, ReportRank, DeadlineRank}
  BY <1>1, <1>6, QuietTake DEF Rest
<1>9. QED
  BY <1>1, <1>3, <1>4, <1>6, <1>7, <1>8, MarketStays

\* The deadline lies behind every arrival.
LEMMA AtDeadlineKeeps ==
    ASSUME IInv, NEW e \in agenda, AtDeadline(e)
    PROVE  IInv' /\ ContractStep
<1>1. /\ Open(e, DeadlineRank) /\ agenda' = Rest(e) /\ closed' = TRUE
      /\ UNCHANGED <<stream, market, actual, known, orders, service, halted, localVars>>
  BY DEF AtDeadline, Open, Take
<1>2. e = DeadlineEvent
  BY <1>1 DEF Open, IInv, EventOK
<1>3. ASSUME NEW i \in DOMAIN orders, Pending(i)
      PROVE  FALSE
  <2>1. ArrivalEvent(i) \in agenda /\ orders[i].arrival <= Deadline /\ orders[i].arrival \in Nat
    <3>1. OrderOK(i) /\ orders \in Seq(Order)
      BY DEF IInv, OrdersInv
    <3>2. orders[i] \in Order
      BY <3>1
    <3>3. orders[i].arrival \in Nat
      BY <3>2 DEF Order
    <3>4. QED
      BY <1>3, <3>1, <3>3 DEF OrderOK
  <2>2. ~Precedes(ArrivalEvent(i), e)
    BY <1>1, <2>1 DEF Open, Take, First
  <2>3. ~(orders[i].arrival < Deadline) /\ ~(orders[i].arrival = Deadline)
    BY <1>2, <2>2
       DEF Precedes, Earlier, ArrivalEvent, DeadlineEvent, ArrivalRank, DeadlineRank
  <2>4. QED
    BY <2>1, <2>3, ScheduleAssumption
<1>4. ServiceInv' /\ token' >= token /\ token' \in Nat
  <2>1. closed' \in BOOLEAN
    BY <1>1
  <2>2. QED
    BY <1>1, <2>1 DEF IInv, ServiceInv, service
<1>5. LocalStep
  BY <1>1, LocalStays
<1>6. KnownInv' /\ known'.children = known.children /\ known'.receipts = known.receipts
  BY <1>1, <1>5, KnownStays
<1>7. OrdersInv' /\ ScheduleInv' /\ \A f \in agenda' : EventOK(f)'
  <2>1. /\ agenda' \ agenda = {}
        /\ \A f \in agenda \ agenda' : RankOf(f) \notin {ArrivalRank, ReportRank}
    BY <1>1 DEF Rest, Open, ArrivalRank, ReportRank, DeadlineRank
  <2>2. closed' => \A i \in DOMAIN orders : ~Pending(i)
    BY <1>3
  <2>3. actual'.children = actual.children /\ UNCHANGED <<orders, stream, halted>>
    BY <1>1
  <2>4. QED
    BY <1>4, <1>6, <2>1, <2>2, <2>3, QuietKeeps
<1>8. Recovery!IInv' /\ Recovery!WaitInv'
  BY <1>5 DEF LocalStep
<1>9. closed'
  BY <1>1
<1>10. ContractStep
  BY <1>1 DEF ContractStep
<1>11. /\ stream' \in Streams /\ market' \in BookState
       /\ (market'.valid => market'.seq \in Nat) /\ Sound(actual')
  BY <1>1 DEF IInv
<1>12. QED
  BY <1>4, <1>6, <1>7, <1>8, <1>9, <1>10, <1>11 DEF IInv

\* After the deadline no arrival is left to drop.
LEMMA DropKeeps ==
    ASSUME IInv, NEW e \in agenda, Drop(e)
    PROVE  IInv' /\ ContractStep
<1>1. /\ closed /\ RankOf(e) # ReportRank /\ agenda' = Rest(e)
      /\ UNCHANGED <<stream, market, actual, known, orders, service, closed, halted, localVars>>
  BY DEF Drop, Take
<1>2. \A i \in DOMAIN orders : ~Pending(i)
  BY <1>1 DEF IInv, OrdersInv, OrderOK
<1>3. RankOf(e) # ArrivalRank
  BY <1>2 DEF IInv, EventOK
<1>4. LocalStep
  BY <1>1, LocalStays
<1>5. KnownInv' /\ known'.children = known.children /\ known'.receipts = known.receipts
  BY <1>1, <1>4, KnownStays
<1>6. ServiceInv' /\ token' >= token /\ token' \in Nat
  BY <1>1 DEF IInv, ServiceInv, service
<1>7. OrdersInv' /\ ScheduleInv' /\ \A f \in agenda' : EventOK(f)'
  <2>1. /\ agenda' \ agenda = {}
        /\ \A f \in agenda \ agenda' : RankOf(f) \notin {ArrivalRank, ReportRank}
    BY <1>1, <1>3 DEF Rest
  <2>2. actual'.children = actual.children /\ UNCHANGED <<orders, stream, halted>>
    BY <1>1
  <2>3. QED
    BY <1>2, <1>5, <1>6, <2>1, <2>2, QuietKeeps
<1>8. Recovery!IInv' /\ Recovery!WaitInv'
  BY <1>4 DEF LocalStep
<1>9. ContractStep
  BY <1>1 DEF ContractStep
<1>10. /\ stream' \in Streams /\ market' \in BookState
       /\ (market'.valid => market'.seq \in Nat) /\ Sound(actual') /\ closed'
  BY <1>1 DEF IInv
<1>11. QED
  BY <1>5, <1>6, <1>7, <1>8, <1>9, <1>10 DEF IInv

\* An event that changes order i only keeps the others and their events.
LEMMA OthersKeep ==
    ASSUME IInv, NEW i, NEW e,
           UNCHANGED <<stream, token, closed>>, halted => halted',
           DOMAIN orders \subseteq DOMAIN orders',
           \A j \in DOMAIN orders \ {i} :
               /\ orders'[j] = orders[j]
               /\ actual'.children[j] = actual.children[j]
               /\ known'.children[j] = known.children[j]
               /\ known'.receipts[j] = known.receipts[j]
               /\ e # ArrivalEvent(j) /\ e # ReportEvent(j),
           \A f \in Rest(e) : /\ RankOf(f) = ArrivalRank => Carried(f) # i
                              /\ RankOf(f) = ReportRank => Carried(f)[1] # i,
           Rest(e) \subseteq agenda'
    PROVE  /\ \A j \in DOMAIN orders \ {i} : OrderOK(j)'
           /\ \A f \in Rest(e) : EventOK(f)'
<1>1. ASSUME NEW j \in DOMAIN orders \ {i}
      PROVE  /\ ArrivalEvent(j)' = ArrivalEvent(j) /\ ReportEvent(j)' = ReportEvent(j)
             /\ (Pending(j)' <=> Pending(j)) /\ (Reporting(j)' <=> Reporting(j))
  BY DEF ArrivalEvent, ReportEvent, Pending, Reporting
<1>2. ASSUME NEW j \in DOMAIN orders \ {i}
      PROVE  OrderOK(j)'
  <2>1. OrderOK(j)
    BY DEF IInv, OrdersInv
  <2>2. /\ Pending(j) => ArrivalEvent(j) \in agenda'
        /\ Reporting(j) => ReportEvent(j) \in agenda'
    BY <2>1 DEF OrderOK, Rest
  <2>3. QED
    BY <1>1, <2>1, <2>2 DEF OrderOK
<1>3. ASSUME NEW f \in Rest(e)
      PROVE  EventOK(f)'
  <2>1. EventOK(f)
    BY DEF IInv, Rest
  <2>2. QED
    BY <1>1, <2>1 DEF EventOK, DeadlineEvent, BootstrapEvent
<1>4. QED
  BY <1>2, <1>3

\* Filled and reserved together never grow by an order's fate.
LEMMA ScheduleKeeps ==
    ASSUME IInv, orders' \in Seq(Order), Len(orders') = Len(orders),
           agenda' \cap Decisions \subseteq agenda, DecisionsLeft' \subseteq DecisionsLeft,
           Filled(actual'.children) + Reserved(actual'.children)
               <= Filled(actual.children) + Reserved(actual.children),
           Filled(actual'.children) \in Nat, Reserved(actual'.children) \in Nat
    PROVE  ScheduleInv'
<1>1. /\ IsFiniteSet(DecisionsLeft) /\ Len(orders) + Cardinality(DecisionsLeft) <= Slices + 1
      /\ Len(orders) \in Nat /\ orders \in Seq(Order) /\ NeverAheadOfSchedule
  BY DEF IInv, ScheduleInv, OrdersInv
<1>2. /\ IsFiniteSet(DecisionsLeft') /\ Cardinality(DecisionsLeft') <= Cardinality(DecisionsLeft)
      /\ Cardinality(DecisionsLeft) \in Nat /\ Cardinality(DecisionsLeft') \in Nat
  BY <1>1, FS_Subset, FS_CardinalityType
<1>3. Len(orders') + Cardinality(DecisionsLeft') <= Slices + 1
  BY <1>1, <1>2, ScheduleAssumption
<1>4. NeverAheadOfSchedule'
  <2>1. CASE orders = <<>>
    <3>1. orders' = <<>>
      BY <1>1, <2>1
    <3>2. QED
      BY <3>1 DEF NeverAheadOfSchedule
  <2>2. ASSUME NEW e \in Decisions \ agenda,
               Filled(actual.children) + Reserved(actual.children) <= Carried(e)[1]
        PROVE  NeverAheadOfSchedule'
    <3>1. Carried(e)[1] \in Nat
      BY TickTypes DEF Decisions, Carried
    <3>2. e \in Decisions \ agenda'
      OBVIOUS
    <3>3. Filled(actual.children) \in Nat /\ Reserved(actual.children) \in Nat
      BY ChildSums DEF IInv, Sound, Children
    <3>4. Filled(actual'.children) + Reserved(actual'.children) <= Carried(e)[1]
      BY <2>2, <3>1, <3>3
    <3>5. QED
      BY <3>2, <3>4 DEF NeverAheadOfSchedule, Decisions
  <2>3. QED
    BY <1>1, <2>1, <2>2 DEF NeverAheadOfSchedule
<1>5. QED
  BY <1>2, <1>3, <1>4 DEF ScheduleInv

\* The order of an arrival that is taken is on its way, and only this arrival
\* is about it.
LEMMA TakenArrival ==
    ASSUME IInv, NEW e \in agenda, Open(e, ArrivalRank)
    PROVE  LET i == Carried(e)
           IN  /\ i \in DOMAIN orders /\ Pending(i) /\ e = ArrivalEvent(i)
               /\ i \in DOMAIN actual.children /\ i \in DOMAIN known.children
               /\ actual.children[i].status = "reserved"
               /\ orders[i].received = None /\ known.receipts[i] = NoSeq
               /\ known.children[i] = NewChild(actual.children[i].qty, actual.children[i].limit)
               /\ TimeOf(e) \in 0 .. Deadline
               /\ \A f \in Rest(e) : /\ RankOf(f) = ArrivalRank => Carried(f) # i
                                     /\ RankOf(f) = ReportRank => Carried(f)[1] # i
               /\ \A j \in DOMAIN orders \ {i} : e # ArrivalEvent(j) /\ e # ReportEvent(j)
<1> DEFINE i == Carried(e)
<1>1. RankOf(e) = ArrivalRank /\ EventOK(e) /\ TimeOf(e) \in 0 .. Deadline
  BY TakenInTime DEF Open
<1>2. i \in DOMAIN orders /\ Pending(i) /\ e = ArrivalEvent(i)
  BY <1>1 DEF EventOK
<1>3. OrderOK(i)
  BY <1>2 DEF IInv, OrdersInv
<1>4. /\ orders[i].received = None /\ actual.children[i].status = "reserved"
      /\ known.receipts[i] = NoSeq
      /\ known.children[i] = NewChild(actual.children[i].qty, actual.children[i].limit)
  BY <1>2, <1>3 DEF OrderOK, Pending
<1>5. i \in DOMAIN actual.children /\ i \in DOMAIN known.children
  BY <1>2 DEF IInv, OrdersInv, Sound, Children, KnownInv, KnownLedgers
<1>6. ASSUME NEW f \in Rest(e)
      PROVE  /\ RankOf(f) = ArrivalRank => Carried(f) # i
             /\ RankOf(f) = ReportRank => Carried(f)[1] # i
  <2>1. EventOK(f) /\ f # e
    BY DEF IInv, Rest
  <2>2. QED
    BY <1>2, <2>1 DEF EventOK, Pending, Reporting
<1>7. ASSUME NEW j \in DOMAIN orders \ {i}
      PROVE  e # ArrivalEvent(j) /\ e # ReportEvent(j)
  BY <1>2 DEF ArrivalEvent, ReportEvent, ArrivalRank, ReportRank
<1>8. QED
  BY <1>1, <1>2, <1>4, <1>5, <1>6, <1>7

\* An order whose fate nobody knows halts the run.
LEMMA ArrivalUnknownKeeps ==
    ASSUME IInv, NEW e \in agenda, ArrivalUnknown(e)
    PROVE  IInv' /\ ContractStep
<1> DEFINE i == Carried(e)
<1>1. /\ Open(e, ArrivalRank) /\ agenda' = Rest(e) /\ halted' = TRUE
      /\ orders' = [orders EXCEPT ![i].status = "unknown"]
      /\ UNCHANGED <<stream, market, actual, known, service, closed, localVars>>
  BY DEF ArrivalUnknown, Open, Take
<1>2. /\ i \in DOMAIN orders /\ Pending(i) /\ e = ArrivalEvent(i)
      /\ orders[i].received = None
      /\ \A f \in Rest(e) : /\ RankOf(f) = ArrivalRank => Carried(f) # i
                            /\ RankOf(f) = ReportRank => Carried(f)[1] # i
      /\ \A j \in DOMAIN orders \ {i} : e # ArrivalEvent(j) /\ e # ReportEvent(j)
  BY <1>1, TakenArrival
<1>3. orders \in Seq(Order) /\ orders[i] \in Order /\ OrderOK(i)
  <2>1. orders \in Seq(Order) /\ OrderOK(i)
    BY <1>2 DEF IInv, OrdersInv
  <2>2. QED
    BY <1>2, <2>1
<1> HIDE DEF i
<1>4. /\ orders' \in Seq(Order) /\ Len(orders') = Len(orders) /\ DOMAIN orders' = DOMAIN orders
      /\ orders'[i].status = "unknown" /\ orders'[i].received = None
      /\ \A j \in DOMAIN orders \ {i} : orders'[j] = orders[j]
  <2> DEFINE o == [orders[i] EXCEPT !.status = "unknown"]
  <2>1. o \in Order /\ o.status = "unknown" /\ o.received = None
    BY <1>2, <1>3 DEF Order
  <2>2. orders' = [orders EXCEPT ![i] = o]
    BY <1>1
  <2> HIDE DEF o
  <2>3. QED
    BY <1>2, <1>3, <2>1, <2>2
<1>5. /\ \A j \in DOMAIN orders \ {i} : OrderOK(j)'
      /\ \A f \in Rest(e) : EventOK(f)'
  BY <1>1, <1>2, <1>4, OthersKeep DEF service
<1>6. OrderOK(i)'
  <2>1. ~Pending(i)' /\ ~Reporting(i)'
    BY <1>4 DEF Pending, Reporting
  <2>2. QED
    BY <1>1, <1>2, <1>3, <1>4, <2>1 DEF OrderOK, Pending
<1>7. OrdersInv'
  BY <1>1, <1>4, <1>5, <1>6 DEF IInv, OrdersInv
<1>8. ScheduleInv'
  <2>1. agenda' \cap Decisions \subseteq agenda /\ DecisionsLeft' \subseteq DecisionsLeft
    BY <1>1 DEF Rest, DecisionsLeft
  <2>2. Filled(actual.children) \in Nat /\ Reserved(actual.children) \in Nat
    BY ChildSums DEF IInv, Sound, Children
  <2>3. Filled(actual'.children) + Reserved(actual'.children)
            <= Filled(actual.children) + Reserved(actual.children)
    BY <1>1, <2>2
  <2>4. QED
    BY <1>1, <1>4, <2>1, <2>2, <2>3, ScheduleKeeps
<1>9. LocalStep /\ KnownInv' /\ ServiceInv'
  <2>1. LocalStep
    BY <1>1, LocalStays
  <2>2. halted' \in BOOLEAN
    BY <1>1
  <2>3. ServiceInv'
    BY <1>1, <2>2 DEF IInv, ServiceInv, service
  <2>4. QED
    BY <1>1, <2>1, <2>3, KnownStays
<1>10. closed' \/ DeadlineEvent' \in agenda'
  BY <1>1 DEF IInv, Open, Rest, DeadlineEvent, RankOf, ArrivalRank, DeadlineRank
<1>11. ContractStep
  BY <1>1 DEF ContractStep
<1>12. QED
  BY <1>1, <1>5, <1>7, <1>8, <1>9, <1>10, <1>11 DEF IInv, LocalStep

\* The market fills what it can, and the report is on its way.
LEMMA ArrivalKeeps ==
    ASSUME IInv, NEW e \in agenda, Arrival(e)
    PROVE  IInv' /\ ContractStep
<1> DEFINE i == Carried(e)
           done == TimeOf(e) + ResponseLatency
           child == actual'.children[i]
           report == <<done, ReportRank, <<i, child, market.seq>>>>
<1>1. /\ Open(e, ArrivalRank) /\ agenda' = Rest(e) \cup {report} /\ market.valid
      /\ actual' = Executed(actual, i)
      /\ orders' = [orders EXCEPT ![i] = [@ EXCEPT !.status = child.status, !.response = done,
                                                  !.sequence = market.seq]]
      /\ UNCHANGED <<stream, market, known, service, closed, halted, localVars>>
  BY DEF Arrival, Open, Take
<1>2. /\ i \in DOMAIN orders /\ Pending(i) /\ e = ArrivalEvent(i)
      /\ i \in DOMAIN actual.children /\ actual.children[i].status = "reserved"
      /\ orders[i].received = None /\ known.receipts[i] = NoSeq
      /\ known.children[i] = NewChild(actual.children[i].qty, actual.children[i].limit)
      /\ TimeOf(e) \in 0 .. Deadline
      /\ \A f \in Rest(e) : /\ RankOf(f) = ArrivalRank => Carried(f) # i
                            /\ RankOf(f) = ReportRank => Carried(f)[1] # i
      /\ \A j \in DOMAIN orders \ {i} : e # ArrivalEvent(j) /\ e # ReportEvent(j)
  BY <1>1, TakenArrival
<1>3. orders \in Seq(Order) /\ orders[i] \in Order /\ OrderOK(i)
  <2>1. orders \in Seq(Order) /\ OrderOK(i)
    BY <1>2 DEF IInv, OrdersInv
  <2>2. QED
    BY <1>2, <2>1
<1>4. done \in Nat /\ market.seq \in Nat
  BY <1>1, <1>2, EngineAssumption, ScheduleAssumption DEF IInv
<1> DEFINE before == actual.children[i]
           fills == FillsOf(actual.depth, before.qty, before.limit)
           outcome == Outcome(before, fills)
<1>5. /\ Sound(actual') /\ actual'.children = [actual.children EXCEPT ![i] = outcome]
      /\ outcome.qty = before.qty /\ outcome.limit = before.limit
      /\ outcome.status \in {"filled", "partial", "unfilled"}
      /\ Filled(actual'.children) = Filled(actual.children) + Total(fills)
      /\ Reserved(actual'.children) = Reserved(actual.children) - before.qty
      /\ Total(fills) \in Nat /\ Total(fills) <= before.qty /\ before.qty \in Nat
  <2>1. Sound(actual)
    BY DEF IInv
  <2>2. /\ Sound(Executed(actual, i))
        /\ Executed(actual, i).children = [actual.children EXCEPT ![i] = outcome]
        /\ outcome.qty = before.qty /\ outcome.limit = before.limit
        /\ outcome.status = IF Total(fills) = before.qty THEN "filled"
                            ELSE IF Total(fills) = 0 THEN "unfilled" ELSE "partial"
        /\ Filled(Executed(actual, i).children) = Filled(actual.children) + Total(fills)
        /\ Reserved(Executed(actual, i).children) = Reserved(actual.children) - before.qty
    <3> HIDE DEF i
    <3>1. QED
      BY <1>2, <2>1, ExecutedSound
  <2>3. Total(fills) \in Nat /\ Total(fills) <= before.qty /\ before \in Child
    <3> HIDE DEF i
    <3>1. QED
      BY <1>2, <2>1, ExecutedFills
  <2> HIDE DEF fills, outcome, before, i
  <2>4. outcome.status \in {"filled", "partial", "unfilled"}
    BY <2>2
  <2>5. actual' = Executed(actual, i) /\ before.qty \in Nat
    BY <1>1, <2>3 DEF Child
  <2>6. QED
    BY <2>2, <2>3, <2>4, <2>5
<1> HIDE DEF fills, outcome
<1>6. /\ child = outcome /\ Len(actual'.children) = Len(actual.children)
      /\ \A j \in DOMAIN actual.children \ {i} : actual'.children[j] = actual.children[j]
      /\ DOMAIN actual.children = DOMAIN orders
  <2>1. actual.children \in Seq(Child) /\ Len(actual.children) = Len(orders)
    BY DEF IInv, OrdersInv, Sound
  <2>2. QED
    BY <1>2, <1>3, <1>5, <2>1
<1> HIDE DEF i, done, child, before
<1>7. /\ orders' \in Seq(Order) /\ Len(orders') = Len(orders) /\ DOMAIN orders' = DOMAIN orders
      /\ orders'[i].status = child.status /\ orders'[i].received = None
      /\ orders'[i].response = done /\ orders'[i].sequence = market.seq
      /\ \A j \in DOMAIN orders \ {i} : orders'[j] = orders[j]
  <2> DEFINE o == [orders[i] EXCEPT !.status = child.status, !.response = done,
                                    !.sequence = market.seq]
  <2>1. /\ o \in Order /\ o.status = child.status /\ o.received = None
        /\ o.response = done /\ o.sequence = market.seq
    BY <1>2, <1>3, <1>4, <1>5, <1>6 DEF Order
  <2>2. orders' = [orders EXCEPT ![i] = o]
    BY <1>1
  <2> HIDE DEF o
  <2>3. QED
    BY <1>2, <1>3, <2>1, <2>2
<1>8. /\ ReportEvent(i)' = report /\ Reporting(i)' /\ ~Pending(i)'
  BY <1>5, <1>6, <1>7 DEF ReportEvent, Reporting, Pending, child
<1>9. /\ \A j \in DOMAIN orders \ {i} : OrderOK(j)'
      /\ \A f \in Rest(e) : EventOK(f)'
  <2>1. \A j \in DOMAIN orders \ {i} : actual'.children[j] = actual.children[j]
    BY <1>6
  <2>2. Rest(e) \subseteq agenda'
    BY <1>1
  <2>3. UNCHANGED <<stream, known, token, closed, halted>>
    BY <1>1 DEF service
  <2> HIDE DEF report
  <2>4. \A j \in DOMAIN orders \ {i} :
            /\ orders'[j] = orders[j]
            /\ actual'.children[j] = actual.children[j]
            /\ known'.children[j] = known.children[j]
            /\ known'.receipts[j] = known.receipts[j]
            /\ e # ArrivalEvent(j) /\ e # ReportEvent(j)
    BY <1>2, <1>7, <2>1, <2>3
  <2>5. QED
    BY <1>2, <1>7, <2>2, <2>3, <2>4, OthersKeep
<1>10. OrderOK(i)'
  <2>1. ReportEvent(i)' \in agenda'
    BY <1>1, <1>8
  <2>2. known'.children[i] = NewChild(child.qty, child.limit) /\ known'.receipts[i] = NoSeq
    BY <1>1, <1>2, <1>5, <1>6 DEF before
  <2>3. actual'.children[i] = child
    BY DEF child
  <2>4. QED
    BY <1>4, <1>5, <1>6, <1>7, <1>8, <2>1, <2>2, <2>3 DEF OrderOK
<1>11. OrdersInv'
  BY <1>1, <1>6, <1>7, <1>9, <1>10 DEF IInv, OrdersInv
<1>12. \A f \in agenda' : EventOK(f)'
  <2>1. ASSUME NEW f, f = report PROVE EventOK(f)'
    BY <1>2, <1>4, <1>7, <1>8, <2>1
       DEF EventOK, TimeOf, RankOf, Carried, MarketRank, ReadRank, FeedRank, BootstrapRank,
           ResponseRank, ArrivalRank, ReportRank, DecisionRank, TimeoutRank, DeadlineRank
  <2>2. QED
    BY <1>1, <1>9, <2>1
<1>13. ScheduleInv'
  <2>1. RankOf(report) = ReportRank
    BY DEF RankOf
  <2>2. agenda' \cap Decisions \subseteq agenda /\ DecisionsLeft' \subseteq DecisionsLeft
    BY <1>1, <2>1 DEF Rest, DecisionsLeft, Decisions, RankOf, ReportRank, DecisionRank
  <2>3. /\ Filled(actual.children) \in Nat /\ Reserved(actual.children) \in Nat
        /\ Filled(actual'.children) \in Nat /\ Reserved(actual'.children) \in Nat
    BY <1>5, ChildSums DEF IInv, Sound, Children
  <2>4. Filled(actual'.children) + Reserved(actual'.children)
            <= Filled(actual.children) + Reserved(actual.children)
    BY <1>5, <2>3
  <2>5. QED
    BY <1>7, <2>2, <2>3, <2>4, ScheduleKeeps
<1>14. LocalStep /\ KnownInv' /\ ServiceInv'
  <2>1. LocalStep
    BY <1>1, LocalStays
  <2>2. ServiceInv'
    BY <1>1 DEF IInv, ServiceInv, service
  <2>3. QED
    BY <1>1, <2>1, <2>2, KnownStays
<1>15. closed' \/ DeadlineEvent' \in agenda'
  BY <1>1 DEF IInv, Open, Rest, DeadlineEvent, RankOf, ArrivalRank, DeadlineRank
<1>16. ContractStep
  <2>1. actual' = Actual!Executed(actual, i)
    BY <1>1, ActualOperators
  <2>2. Actual!Execute(i)
    BY <1>1, <1>2, <2>1 DEF Actual!Execute
  <2>3. QED
    BY <1>2, <2>2 DEF ContractStep, Actual!Next
<1>17. QED
  BY <1>1, <1>5, <1>11, <1>12, <1>13, <1>14, <1>15, <1>16 DEF IInv, LocalStep

\* A report that is taken is the first of its order and changes the belief.
LEMMA ReportEffects ==
    ASSUME IInv, NEW e \in agenda, Report(e)
    PROVE  LET i == Carried(e)[1]
               real == actual.children[i]
               seq == orders[i].sequence
           IN  /\ i \in DOMAIN orders /\ Reporting(i) /\ e = ReportEvent(i) /\ TimeOf(e) \in Nat
               /\ orders \in Seq(Order) /\ orders[i] \in Order
               /\ orders[i].received = None /\ ~Pending(i) /\ orders[i].status # "unknown"
               /\ real.status = orders[i].status /\ seq \in Nat /\ orders[i].response \in Nat
               /\ actual.children \in Seq(Child) /\ Len(actual.children) = Len(orders)
               /\ known' \in KnownLedgers
               /\ known'.refreshAll = known.refreshAll
               /\ known'.refreshLevels = known.refreshLevels
               /\ known'.raw = known.raw
               /\ known'.depth = Residual(known'.raw, Owed(known', Model))
               /\ Len(known'.children) = Len(orders) /\ Len(known'.receipts) = Len(orders)
               /\ known'.children[i] = real /\ known'.receipts[i] = seq
               /\ \A j \in DOMAIN orders \ {i} : known'.children[j] = known.children[j]
                                                /\ known'.receipts[j] = known.receipts[j]
<1> DEFINE i == Carried(e)[1]
           real == actual.children[i]
           seq == orders[i].sequence
<1>1. /\ RankOf(e) = ReportRank
      /\ known' = ReceiveReport(known, Model, i, Carried(e)[2], Carried(e)[3])
  BY DEF Report
<1>2. /\ i \in DOMAIN orders /\ Reporting(i) /\ e = ReportEvent(i) /\ TimeOf(e) \in Nat
      /\ Carried(e)[2] = real /\ Carried(e)[3] = seq
  <2>1. EventOK(e)
    BY DEF IInv
  <2>2. i \in DOMAIN orders /\ Reporting(i) /\ e = ReportEvent(i) /\ TimeOf(e) \in Nat
    BY <1>1, <2>1 DEF EventOK
  <2>3. Carried(ReportEvent(i)) = <<i, real, seq>>
    BY DEF Carried, ReportEvent
  <2>4. QED
    BY <2>2, <2>3
<1> HIDE DEF i
<1>3. /\ orders \in Seq(Order) /\ orders[i] \in Order
      /\ orders[i].received = None /\ ~Pending(i) /\ orders[i].status # "unknown"
      /\ real.status = orders[i].status /\ seq \in Nat /\ orders[i].response \in Nat
      /\ known.children[i] = NewChild(real.qty, real.limit) /\ known.receipts[i] = NoSeq
      /\ actual.children \in Seq(Child) /\ Len(actual.children) = Len(orders)
      /\ known \in KnownLedgers
      /\ Len(known.children) = Len(orders) /\ Len(known.receipts) = Len(orders)
  <2>1. /\ orders \in Seq(Order) /\ OrderOK(i) /\ Len(actual.children) = Len(orders)
        /\ actual.children \in Seq(Child) /\ known \in KnownLedgers
        /\ Len(known.children) = Len(orders) /\ Len(known.receipts) = Len(orders)
    BY <1>2 DEF IInv, OrdersInv, Sound, KnownInv
  <2>2. orders[i] \in Order
    BY <1>2, <2>1
  <2>3. /\ orders[i].received = None /\ ~Pending(i) /\ orders[i].status # "unknown"
        /\ orders[i].status \notin {"pending", "unknown"}
    BY <1>2 DEF Reporting, Pending
  <2>4. QED
    BY <2>1, <2>2, <2>3 DEF OrderOK
<1>4. /\ real \in Child
      /\ known.children \in Seq(Child) /\ known.receipts \in Seq(Numbers) /\ seq \in Numbers
      /\ DOMAIN known.children = DOMAIN orders /\ DOMAIN known.receipts = DOMAIN orders
  <2>1. known.children \in Seq(Child) /\ known.receipts \in Seq(Numbers)
    BY <1>3 DEF KnownLedgers
  <2>2. /\ DOMAIN orders = 1 .. Len(orders) /\ DOMAIN actual.children = 1 .. Len(actual.children)
        /\ DOMAIN known.children = 1 .. Len(known.children)
        /\ DOMAIN known.receipts = 1 .. Len(known.receipts)
    BY <1>3, <2>1
  <2>3. real \in Child
    BY <1>2, <1>3, <2>2
  <2>4. QED
    BY <1>3, <2>1, <2>2, <2>3 DEF Numbers
<1> DEFINE told == [known EXCEPT !.children[i] = real, !.receipts[i] = seq]
<1>5. /\ told \in KnownLedgers
      /\ told.children = [known.children EXCEPT ![i] = real]
      /\ told.receipts = [known.receipts EXCEPT ![i] = seq]
      /\ told.refreshAll = known.refreshAll /\ told.refreshLevels = known.refreshLevels
      /\ told.raw = known.raw
  <2> HIDE DEF real, seq
  <2>1. /\ [known.children EXCEPT ![i] = real] \in Seq(Child)
        /\ [known.receipts EXCEPT ![i] = seq] \in Seq(Numbers)
    BY <1>2, <1>4
  <2>2. QED
    BY <1>3, <2>1 DEF KnownLedgers
<1>6. known' = Rebuilt(told, Model)
  <2>1. known.children[i].qty = real.qty /\ known.children[i].limit = real.limit
    BY <1>3 DEF NewChild
  <2>2. known' = ReceiveReport(known, Model, i, real, seq)
    BY <1>1, <1>2
  <2> HIDE DEF real, seq
  <2>3. QED
    BY <1>3, <2>1, <2>2 DEF ReceiveReport
<1> HIDE DEF told
<1>7. /\ known' \in KnownLedgers
      /\ known'.children = [known.children EXCEPT ![i] = real]
      /\ known'.receipts = [known.receipts EXCEPT ![i] = seq]
      /\ known'.refreshAll = known.refreshAll /\ known'.refreshLevels = known.refreshLevels
      /\ known'.raw = known.raw /\ known'.depth = Residual(known'.raw, Owed(known', Model))
  BY <1>5, <1>6, RebuiltIs
<1> HIDE DEF real, seq
<1>8. /\ Len(known'.children) = Len(orders) /\ Len(known'.receipts) = Len(orders)
      /\ known'.children[i] = real /\ known'.receipts[i] = seq
      /\ \A j \in DOMAIN orders \ {i} : known'.children[j] = known.children[j]
                                        /\ known'.receipts[j] = known.receipts[j]
  BY <1>2, <1>3, <1>4, <1>7
<1>9. QED
  BY <1>2, <1>3, <1>7, <1>8 DEF i, real, seq

\* The report of an order reaches the strategy.
LEMMA ReportKeeps ==
    ASSUME IInv, NEW e \in agenda, Report(e)
    PROVE  IInv' /\ ContractStep
<1> DEFINE i == Carried(e)[1]
           real == actual.children[i]
           seq == orders[i].sequence
           t == TimeOf(e)
<1>1. /\ Take(e) /\ RankOf(e) = ReportRank /\ agenda' = Rest(e)
      /\ orders' = [orders EXCEPT ![i].received = t]
      /\ UNCHANGED <<stream, market, actual, service, closed, halted, localVars>>
  BY DEF Report, Take
<1>2. i \in DOMAIN orders /\ Reporting(i) /\ e = ReportEvent(i) /\ t \in Nat
  BY ReportEffects
<1>3. /\ orders \in Seq(Order) /\ orders[i] \in Order
      /\ orders[i].received = None /\ ~Pending(i) /\ orders[i].status # "unknown"
      /\ real.status = orders[i].status /\ seq \in Nat /\ orders[i].response \in Nat
      /\ actual.children \in Seq(Child) /\ Len(actual.children) = Len(orders)
  BY ReportEffects
<1>4. /\ known' \in KnownLedgers
      /\ known'.refreshAll = known.refreshAll /\ known'.refreshLevels = known.refreshLevels
  BY ReportEffects
<1>5. /\ Len(known'.children) = Len(orders) /\ Len(known'.receipts) = Len(orders)
      /\ known'.children[i] = real /\ known'.receipts[i] = seq
      /\ \A j \in DOMAIN orders \ {i} : known'.children[j] = known.children[j]
                                        /\ known'.receipts[j] = known.receipts[j]
  BY ReportEffects
<1> HIDE DEF i, t, real, seq
<1>6. /\ orders' \in Seq(Order) /\ Len(orders') = Len(orders) /\ DOMAIN orders' = DOMAIN orders
      /\ orders'[i] \in Order /\ orders'[i].received = t /\ orders'[i].status = orders[i].status
      /\ orders'[i].response = orders[i].response /\ orders'[i].sequence = seq
      /\ \A j \in DOMAIN orders \ {i} : orders'[j] = orders[j]
  <2> DEFINE o == [orders[i] EXCEPT !.received = t]
  <2>1. /\ o \in Order /\ o.received = t /\ o.status = orders[i].status
        /\ o.response = orders[i].response /\ o.sequence = seq
    BY <1>2, <1>3 DEF Order, seq
  <2>2. orders' = [orders EXCEPT ![i] = o]
    BY <1>1
  <2> HIDE DEF o
  <2>3. QED
    BY <1>2, <1>3, <2>1, <2>2
<1>7. t # None
  BY <1>2, PolicyAssumption
<1>8. /\ \A f \in agenda' : EventOK(f)'
      /\ \A j \in DOMAIN orders \ {i} : OrderOK(j)'
  <2>1. UNCHANGED <<stream, actual, token, closed, halted>>
    BY <1>1 DEF service
  <2>2. \A f \in Rest(e) : /\ RankOf(f) = ArrivalRank => Carried(f) # i
                           /\ RankOf(f) = ReportRank => Carried(f)[1] # i
    <3>1. ASSUME NEW f \in Rest(e) PROVE EventOK(f) /\ f # e
      BY DEF IInv, Rest
    <3>2. QED
      BY <1>2, <1>3, <3>1 DEF EventOK
  <2>3. \A j \in DOMAIN orders \ {i} : e # ArrivalEvent(j) /\ e # ReportEvent(j)
    BY <1>2 DEF ArrivalEvent, ReportEvent, ArrivalRank, ReportRank
  <2>4. \A j \in DOMAIN orders \ {i} :
            /\ orders'[j] = orders[j]
            /\ actual'.children[j] = actual.children[j]
            /\ known'.children[j] = known.children[j]
            /\ known'.receipts[j] = known.receipts[j]
            /\ e # ArrivalEvent(j) /\ e # ReportEvent(j)
    BY <1>5, <1>6, <2>1, <2>3
  <2>5. /\ DOMAIN orders \subseteq DOMAIN orders' /\ Rest(e) \subseteq agenda'
        /\ UNCHANGED <<stream, token, closed>> /\ (halted => halted')
    BY <1>1, <1>6, <2>1
  <2>6. /\ \A j \in DOMAIN orders \ {i} : OrderOK(j)'
        /\ \A f \in Rest(e) : EventOK(f)'
    BY <2>2, <2>4, <2>5, OthersKeep
  <2>7. agenda' = Rest(e)
    BY DEF Report, Take
  <2>8. QED
    BY <2>6, <2>7
<1>9. OrderOK(i)'
  <2>1. actual'.children[i] = real
    BY <1>1 DEF real
  <2>2. ~Pending(i)' /\ ~Reporting(i)'
    BY <1>3, <1>6, <1>7 DEF Pending, Reporting
  <2>3. orders'[i].status \notin {"pending", "unknown"}
    BY <1>3, <1>6 DEF Pending
  <2>4. QED
    BY <1>3, <1>5, <1>6, <1>7, <2>1, <2>2, <2>3 DEF OrderOK
<1>10. OrdersInv'
  BY <1>1, <1>3, <1>5, <1>6, <1>8, <1>9 DEF OrdersInv
<1>11. ScheduleInv'
  <2>1. agenda' \cap Decisions \subseteq agenda /\ DecisionsLeft' \subseteq DecisionsLeft
    BY <1>1 DEF Rest, DecisionsLeft
  <2>2. Filled(actual.children) \in Nat /\ Reserved(actual.children) \in Nat
    BY <1>3, ChildSums
  <2>3. Filled(actual'.children) + Reserved(actual'.children)
            <= Filled(actual.children) + Reserved(actual.children)
    BY <1>1, <2>2
  <2>4. QED
    BY <1>1, <1>6, <2>1, <2>2, <2>3, ScheduleKeeps
<1>12. LocalStep /\ KnownInv' /\ ServiceInv'
  <2>1. LocalStep
    BY <1>1, LocalStays
  <2>2. ServiceInv'
    BY <1>1 DEF IInv, ServiceInv, service
  <2>3. highWater' = highWater
    BY <1>1 DEF localVars
  <2>4. KnownInv'
    BY <1>4, <2>3 DEF IInv, KnownInv
  <2>5. QED
    BY <2>1, <2>2, <2>4
<1>13. closed' \/ DeadlineEvent' \in agenda'
  BY <1>1 DEF IInv, Rest, DeadlineEvent, RankOf, ReportRank, DeadlineRank
<1>14. ContractStep
  BY <1>1 DEF ContractStep
<1>15. /\ stream' \in Streams /\ Sound(actual') /\ market' \in BookState
       /\ market'.valid => market'.seq \in Nat
  BY <1>1 DEF IInv
<1>16. QED
  BY <1>8, <1>10, <1>11, <1>12, <1>13, <1>14, <1>15 DEF IInv, LocalStep

\* What really is filled or reserved is never more than the strategy assumes.
LEMMA KnownCovers ==
    ASSUME IInv
    PROVE  /\ Available(known.children) <= Available(actual.children)
           /\ Filled(actual.children) \in Nat /\ Reserved(actual.children) \in Nat
           /\ Filled(known.children) \in Nat /\ Reserved(known.children) \in Nat
           /\ Filled(actual.children) + Reserved(actual.children)
                  <= Filled(known.children) + Reserved(known.children)
<1>1. /\ actual.children \in Seq(Child) /\ known.children \in Seq(Child)
      /\ Len(actual.children) = Len(orders) /\ Len(known.children) = Len(orders)
      /\ orders \in Seq(Order)
      /\ \A i \in DOMAIN actual.children :
             /\ Total(actual.children[i].fills) <= actual.children[i].qty
             /\ actual.children[i].status = "reserved" => actual.children[i].fills = NoFills
  BY DEF IInv, OrdersInv, Sound, Children, KnownInv, KnownLedgers
<1>2. ASSUME NEW i \in DOMAIN actual.children
      PROVE  Total(actual.children[i].fills) + Held(actual.children[i])
                 <= Total(known.children[i].fills) + Held(known.children[i])
  <2> DEFINE real == actual.children[i]
  <2>1. i \in DOMAIN orders /\ real \in Child
    BY <1>1
  <2>2. OrderOK(i)
    BY <2>1 DEF IInv, OrdersInv
  <2>3. Total(real.fills) \in Nat /\ Held(real) \in Nat /\ real.qty \in Nat
    BY <1>1, <2>1, ChildSums DEF Child
  <2>4. known.children[i] = real \/ known.children[i] = NewChild(real.qty, real.limit)
    BY <2>2 DEF OrderOK
  <2>5. CASE known.children[i] = real
    BY <2>3, <2>5
  <2>6. CASE known.children[i] = NewChild(real.qty, real.limit)
    <3>1. Total(known.children[i].fills) = 0 /\ Held(known.children[i]) = real.qty
      BY <2>6, TotalNoFills DEF NewChild, Held
    <3>2. Total(real.fills) + Held(real) <= real.qty
      BY <1>1, <2>3, TotalNoFills DEF Held
    <3>3. QED
      BY <2>3, <3>1, <3>2
  <2>7. QED
    BY <2>4, <2>5, <2>6
<1>3. Available(known.children) <= Available(actual.children)
  BY <1>1, <1>2, AvailableOrdered
<1>4. /\ Filled(actual.children) \in Nat /\ Reserved(actual.children) \in Nat
      /\ Filled(known.children) \in Nat /\ Reserved(known.children) \in Nat
  BY <1>1, ChildSums
<1>5. QED
  BY <1>3, <1>4, ParentAssumption DEF Available

\* What a decision selects fits the schedule, the parent as it is known, and
\* so the actual one.
LEMMA ChosenFits ==
    ASSUME IInv, NEW e \in agenda, RankOf(e) = DecisionRank, Chosen(e) > 0
    PROVE  /\ e \in Decisions /\ TimeOf(e) \in Nat /\ Carried(e)[1] \in Nat
           /\ Chosen(e) \in 1 .. Quantity /\ Chosen(e) <= Available(actual.children)
           /\ Filled(actual.children) + Reserved(actual.children) + Chosen(e) <= Carried(e)[1]
<1> DEFINE target == Carried(e)[1]
           F == Filled(known.children)
           R == Reserved(known.children)
           W == Wanted(known.children, target)
<1>1. e \in Decisions /\ TimeOf(e) \in Nat
  BY DEF IInv, EventOK
<1>2. target \in Nat /\ Quantity \in Nat
  BY <1>1, TickTypes, ParentAssumption DEF Decisions, Carried
<1>3. /\ Available(known.children) <= Available(actual.children)
      /\ F \in Nat /\ R \in Nat
      /\ Filled(actual.children) \in Nat /\ Reserved(actual.children) \in Nat
      /\ Filled(actual.children) + Reserved(actual.children) <= F + R
      /\ Available(known.children) = Quantity - F - R
      /\ Available(actual.children) =
             Quantity - Filled(actual.children) - Reserved(actual.children)
  BY KnownCovers DEF Available
<1>4. Chosen(e) \in {0, W}
  BY DEF Chosen, Selected
<1>5. W = Smaller(Quantity - F - R, Larger(0, target - F - R))
  BY DEF Wanted, Available
<1> HIDE DEF target, F, R, W
<1>6. Chosen(e) = W /\ W > 0
  BY <1>4
<1>7. W \in Int /\ W <= Quantity - F - R /\ W <= target - F - R
  BY <1>2, <1>3, <1>5, <1>6 DEF Smaller, Larger
<1>8. W \in 1 .. Quantity /\ W <= Available(actual.children)
      /\ Filled(actual.children) + Reserved(actual.children) + W <= target
  BY <1>2, <1>3, <1>6, <1>7
<1>9. QED
  BY <1>1, <1>2, <1>6, <1>8 DEF target

\* A decision that is taken leaves one fewer, whatever arrival it adds.
LEMMA DecisionTaken ==
    ASSUME IInv, NEW e \in agenda, RankOf(e) = DecisionRank,
           NEW t, NEW i, agenda' = Rest(e) \cup {<<t, ArrivalRank, i>>}
    PROVE  /\ IsFiniteSet(DecisionsLeft') /\ Cardinality(DecisionsLeft') \in Nat
           /\ Len(orders) + Cardinality(DecisionsLeft') + 1 <= Slices + 1
<1>1. /\ IsFiniteSet(DecisionsLeft) /\ e \in DecisionsLeft
      /\ Len(orders) + Cardinality(DecisionsLeft) <= Slices + 1 /\ Len(orders) \in Nat
  BY DEF IInv, ScheduleInv, OrdersInv, DecisionsLeft
<1>2. DecisionsLeft' = DecisionsLeft \ {e}
  BY DEF DecisionsLeft, Rest, RankOf, ArrivalRank, DecisionRank
<1>3. /\ Cardinality(DecisionsLeft') = Cardinality(DecisionsLeft) - 1
      /\ IsFiniteSet(DecisionsLeft') /\ Cardinality(DecisionsLeft') \in Nat
      /\ Cardinality(DecisionsLeft) \in Nat
  BY <1>1, <1>2, FS_RemoveElement, FS_CardinalityType
<1>4. QED
  BY <1>1, <1>3, ScheduleAssumption

\* What a submission writes, with n orders before it.
LEMMA SubmitEffects ==
    ASSUME IInv, NEW e \in agenda, DecisionSubmit(e)
    PROVE  \E n \in Nat :
               /\ n = Len(orders)
               /\ orders' \in Seq(Order) /\ Len(orders') = n + 1
               /\ DOMAIN orders' = DOMAIN orders \cup {n + 1} /\ n + 1 \notin DOMAIN orders
               /\ \A i \in DOMAIN orders :
                      /\ orders'[i] = orders[i]
                      /\ actual'.children[i] = actual.children[i]
                      /\ known'.children[i] = known.children[i]
                      /\ known'.receipts[i] = known.receipts[i]
               /\ orders'[n + 1].arrival = TimeOf(e) + OrderLatency
               /\ orders'[n + 1].received = None /\ orders'[n + 1].status = "pending"
               /\ Sound(actual') /\ Len(actual'.children) = n + 1
               /\ actual'.children[n + 1] = NewChild(Chosen(e), LimitPrice)
               /\ Filled(actual'.children) = Filled(actual.children)
               /\ Reserved(actual'.children) = Reserved(actual.children) + Chosen(e)
               /\ KnownInv'
               /\ Len(known'.children) = n + 1 /\ Len(known'.receipts) = n + 1
               /\ known'.children[n + 1] = NewChild(Chosen(e), LimitPrice)
               /\ known'.receipts[n + 1] = NoSeq
               /\ agenda' = Rest(e) \cup {<<TimeOf(e) + OrderLatency, ArrivalRank, n + 1>>}
<1> DEFINE arrival == TimeOf(e) + OrderLatency
           qty == Chosen(e)
           order == [arrival |-> arrival, status |-> "pending", response |-> None,
                     sequence |-> None, received |-> None]
           child == NewChild(qty, LimitPrice)
<1>1. /\ RankOf(e) = DecisionRank /\ qty > 0
      /\ known' = Reserve(known, qty, LimitPrice)
      /\ actual' = Submitted(actual, qty, LimitPrice) /\ orders' = Append(orders, order)
      /\ agenda' = Rest(e) \cup {<<arrival, ArrivalRank, Len(orders')>>}
      /\ highWater' = highWater
  BY DEF DecisionSubmit, Open, localVars
<1>2. /\ qty \in Nat /\ qty <= Available(actual.children) /\ TimeOf(e) \in Nat
      /\ LimitPrice \in Prices \cup {NoLimit}
  BY <1>1, ChosenFits, PolicyAssumption
<1>3. /\ order \in Order /\ order.arrival = arrival /\ order.status = "pending"
      /\ order.received = None
  BY <1>2, ScheduleAssumption DEF Order
<1>4. child \in Child
  <2>1. NoFills \in [Prices -> Nat]
    BY DEF NoFills
  <2>2. QED
    BY <1>2, <2>1 DEF NewChild, Child, Statuses
<1> HIDE DEF arrival, qty, order, child
<1>5. PICK n \in Nat : n = Len(orders)
  BY DEF IInv, OrdersInv
<1>6. /\ orders \in Seq(Order) /\ actual.children \in Seq(Child) /\ known.children \in Seq(Child)
      /\ known.receipts \in Seq(Numbers) /\ NoSeq \in Numbers
      /\ Len(actual.children) = n /\ Len(known.children) = n /\ Len(known.receipts) = n
      /\ known \in KnownLedgers
  BY <1>5 DEF IInv, OrdersInv, Sound, KnownInv, KnownLedgers, Numbers
<1>7. /\ DOMAIN orders = 1 .. n /\ DOMAIN actual.children = 1 .. n
      /\ DOMAIN known.children = 1 .. n /\ DOMAIN known.receipts = 1 .. n
  <2>1. DOMAIN orders = 1 .. Len(orders)
    BY <1>6
  <2>2. DOMAIN actual.children = 1 .. Len(actual.children)
    BY <1>6
  <2>3. DOMAIN known.children = 1 .. Len(known.children)
    BY <1>6
  <2>4. DOMAIN known.receipts = 1 .. Len(known.receipts)
    BY <1>6
  <2>5. QED
    BY <1>5, <1>6, <2>1, <2>2, <2>3, <2>4
<1>8. /\ orders' \in Seq(Order) /\ Len(orders') = n + 1 /\ orders'[n + 1] = order
      /\ \A i \in DOMAIN orders : orders'[i] = orders[i]
      /\ DOMAIN orders' = DOMAIN orders \cup {n + 1} /\ n + 1 \notin DOMAIN orders
  <2>1. /\ orders' \in Seq(Order) /\ Len(orders') = Len(orders) + 1
        /\ orders'[Len(orders) + 1] = order
        /\ \A i \in DOMAIN orders : orders'[i] = orders[i]
        /\ DOMAIN orders' = DOMAIN orders \cup {Len(orders) + 1}
        /\ Len(orders) + 1 \notin DOMAIN orders
    BY <1>1, <1>3, <1>6
  <2>2. QED
    BY <1>5, <2>1
<1>9. /\ Sound(actual') /\ actual'.children = Append(actual.children, child)
  BY <1>1, <1>2, SubmittedSound DEF IInv, child
<1>10. /\ Len(actual'.children) = n + 1 /\ actual'.children[n + 1] = child
       /\ \A i \in DOMAIN orders : actual'.children[i] = actual.children[i]
  <2> DEFINE before == actual.children
             after == actual'.children
  <2>0. before \in Seq(Child) /\ after = Append(before, child)
    BY <1>6, <1>9
  <2> HIDE DEF before, after
  <2>1. /\ Len(after) = Len(before) + 1 /\ after[Len(before) + 1] = child
        /\ \A i \in DOMAIN before : after[i] = before[i]
    BY <1>4, <2>0
  <2>2. QED
    BY <1>6, <1>7, <2>1 DEF before, after
<1>11. /\ Filled(actual'.children) = Filled(actual.children)
       /\ Reserved(actual'.children) = Reserved(actual.children) + qty
  BY <1>2, <1>6, <1>9, AppendSums DEF child
<1>12. /\ known'.children = Append(known.children, child)
       /\ known'.receipts = Append(known.receipts, NoSeq)
       /\ known' \in KnownLedgers
       /\ known'.refreshAll = known.refreshAll /\ known'.refreshLevels = known.refreshLevels
  <2>1. known' = [known EXCEPT !.children = Append(known.children, child),
                               !.receipts = Append(known.receipts, NoSeq)]
    BY <1>1 DEF Reserve, child
  <2>2. /\ Append(known.children, child) \in Seq(Child)
        /\ Append(known.receipts, NoSeq) \in Seq(Numbers)
    BY <1>4, <1>6
  <2>3. QED
    BY <1>6, <2>1, <2>2 DEF KnownLedgers
<1>13. /\ Len(known'.children) = n + 1 /\ known'.children[n + 1] = child
       /\ \A i \in DOMAIN orders : known'.children[i] = known.children[i]
  <2>1. /\ Len(known'.children) = Len(known.children) + 1
        /\ known'.children[Len(known.children) + 1] = child
        /\ \A i \in DOMAIN known.children : known'.children[i] = known.children[i]
    BY <1>4, <1>6, <1>12
  <2>2. QED
    BY <1>6, <1>7, <2>1
<1>14. /\ Len(known'.receipts) = n + 1 /\ known'.receipts[n + 1] = NoSeq
       /\ \A i \in DOMAIN orders : known'.receipts[i] = known.receipts[i]
  <2>1. /\ Len(known'.receipts) = Len(known.receipts) + 1
        /\ known'.receipts[Len(known.receipts) + 1] = NoSeq
        /\ \A i \in DOMAIN known.receipts : known'.receipts[i] = known.receipts[i]
    BY <1>6, <1>12
  <2>2. QED
    BY <1>6, <1>7, <2>1
<1>15. KnownInv'
  BY <1>1, <1>12 DEF IInv, KnownInv
<1>16. agenda' = Rest(e) \cup {<<arrival, ArrivalRank, n + 1>>}
  BY <1>1, <1>8
<1>17. QED
  BY <1>3, <1>5, <1>8, <1>9, <1>10, <1>11, <1>13, <1>14, <1>15, <1>16 DEF qty, arrival, child

\* A decision that sends an order is a submission.
LEMMA DecisionSubmitKeeps ==
    ASSUME IInv, NEW e \in agenda, DecisionSubmit(e)
    PROVE  IInv' /\ ContractStep
<1> DEFINE arrival == TimeOf(e) + OrderLatency
           qty == Chosen(e)
<1>1. /\ Take(e) /\ ~closed /\ RankOf(e) = DecisionRank /\ qty > 0
      /\ actual' = Submitted(actual, qty, LimitPrice) /\ arrival <= Deadline
      /\ UNCHANGED <<stream, market, service, closed, halted, localVars>>
  BY DEF DecisionSubmit, Open, Take, MaySend
<1>2. PICK n \in Nat :
          /\ n = Len(orders)
          /\ orders' \in Seq(Order) /\ Len(orders') = n + 1
          /\ DOMAIN orders' = DOMAIN orders \cup {n + 1} /\ n + 1 \notin DOMAIN orders
          /\ \A i \in DOMAIN orders :
                 /\ orders'[i] = orders[i]
                 /\ actual'.children[i] = actual.children[i]
                 /\ known'.children[i] = known.children[i]
                 /\ known'.receipts[i] = known.receipts[i]
          /\ orders'[n + 1].arrival = arrival
          /\ orders'[n + 1].received = None /\ orders'[n + 1].status = "pending"
          /\ Sound(actual') /\ Len(actual'.children) = n + 1
          /\ actual'.children[n + 1] = NewChild(qty, LimitPrice)
          /\ Filled(actual'.children) = Filled(actual.children)
          /\ Reserved(actual'.children) = Reserved(actual.children) + qty
          /\ KnownInv'
          /\ Len(known'.children) = n + 1 /\ Len(known'.receipts) = n + 1
          /\ known'.children[n + 1] = NewChild(qty, LimitPrice)
          /\ known'.receipts[n + 1] = NoSeq
          /\ agenda' = Rest(e) \cup {<<arrival, ArrivalRank, n + 1>>}
  BY SubmitEffects
<1>3. /\ e \in Decisions /\ TimeOf(e) \in Nat /\ Carried(e)[1] \in Nat /\ qty \in 1 .. Quantity
      /\ qty <= Available(actual.children)
      /\ Filled(actual.children) + Reserved(actual.children) + qty <= Carried(e)[1]
      /\ arrival \in Nat
  BY <1>1, ChosenFits, ScheduleAssumption
<1> DEFINE child == NewChild(qty, LimitPrice)
<1>4. child.status = "reserved" /\ NewChild(child.qty, child.limit) = child
  BY DEF NewChild
<1> HIDE DEF arrival, qty, child
<1>5. /\ IsFiniteSet(DecisionsLeft') /\ Len(orders') + Cardinality(DecisionsLeft') <= Slices + 1
      /\ n < Slices + 1
  <2>1. /\ IsFiniteSet(DecisionsLeft') /\ Cardinality(DecisionsLeft') \in Nat
        /\ n + Cardinality(DecisionsLeft') + 1 <= Slices + 1
    BY <1>1, <1>2, DecisionTaken
  <2>2. QED
    BY <1>2, <2>1, ScheduleAssumption
<1>6. NeverAheadOfSchedule'
  <2>1. e \in Decisions' \ agenda'
    <3>1. e # <<arrival, ArrivalRank, n + 1>>
      BY <1>1 DEF RankOf, ArrivalRank, DecisionRank
    <3>2. QED
      BY <1>2, <1>3, <3>1 DEF Rest, Decisions
  <2>2. Filled(actual.children) \in Nat /\ Reserved(actual.children) \in Nat
    BY ChildSums DEF IInv, Sound, Children
  <2>3. Filled(actual'.children) + Reserved(actual'.children) <= Carried(e)[1]
    BY <1>2, <1>3, <2>2
  <2>4. QED
    BY <2>1, <2>3 DEF NeverAheadOfSchedule
<1>7. /\ Pending(n + 1)' /\ ~Reporting(n + 1)'
      /\ ArrivalEvent(n + 1)' = <<arrival, ArrivalRank, n + 1>>
  BY <1>2 DEF Pending, Reporting, ArrivalEvent
<1>8. /\ \A j \in DOMAIN orders \ {n + 1} : OrderOK(j)'
      /\ \A f \in Rest(e) : EventOK(f)'
  <2>1. \A f \in Rest(e) : /\ RankOf(f) = ArrivalRank => Carried(f) # n + 1
                           /\ RankOf(f) = ReportRank => Carried(f)[1] # n + 1
    BY <1>2 DEF IInv, EventOK, Rest
  <2>2. \A j \in DOMAIN orders \ {n + 1} : e # ArrivalEvent(j) /\ e # ReportEvent(j)
    BY <1>1 DEF ArrivalEvent, ReportEvent, RankOf, ArrivalRank, ReportRank, DecisionRank
  <2>3. /\ DOMAIN orders \subseteq DOMAIN orders' /\ Rest(e) \subseteq agenda'
        /\ UNCHANGED <<stream, token, closed>> /\ (halted => halted')
    BY <1>1, <1>2 DEF service
  <2>4. \A j \in DOMAIN orders \ {n + 1} :
            /\ orders'[j] = orders[j]
            /\ actual'.children[j] = actual.children[j]
            /\ known'.children[j] = known.children[j]
            /\ known'.receipts[j] = known.receipts[j]
            /\ e # ArrivalEvent(j) /\ e # ReportEvent(j)
    BY <1>2, <2>2
  <2>5. QED
    BY <2>1, <2>3, <2>4, OthersKeep
<1>9. OrderOK(n + 1)'
  <2>1. orders'[n + 1].arrival <= Deadline /\ ~closed'
    BY <1>1, <1>2
  <2>2. actual'.children[n + 1] = child /\ known'.children[n + 1] = child
    BY <1>2 DEF child
  <2>3. ArrivalEvent(n + 1)' \in agenda'
    BY <1>2, <1>7
  <2>4. QED
    BY <1>2, <1>4, <1>7, <2>1, <2>2, <2>3 DEF OrderOK
<1>10. OrdersInv'
  BY <1>2, <1>8, <1>9 DEF OrdersInv
<1>11. \A f \in agenda' : EventOK(f)'
  <2>1. ASSUME NEW f, f = <<arrival, ArrivalRank, n + 1>> PROVE EventOK(f)'
    BY <1>2, <1>3, <1>7, <2>1
       DEF EventOK, TimeOf, RankOf, Carried, MarketRank, ReadRank, FeedRank, BootstrapRank,
           ResponseRank, ArrivalRank, ReportRank, DecisionRank, TimeoutRank, DeadlineRank
  <2>2. QED
    BY <1>2, <1>8, <2>1
<1>12. LocalStep /\ ServiceInv'
  BY <1>1, LocalStays DEF IInv, ServiceInv, service
<1>13. closed' \/ DeadlineEvent' \in agenda'
  BY <1>1, <1>2 DEF IInv, Rest, DeadlineEvent, RankOf, DecisionRank, DeadlineRank
<1>14. ContractStep
  <2>1. actual' = Actual!Submitted(actual, qty, LimitPrice)
    BY <1>1, ActualOperators
  <2>2. qty <= Actual!Available(actual.children)
    BY <1>3, ActualOperators
  <2>3. Len(actual.children) < Slices + 1
    BY <1>2, <1>5 DEF IInv, OrdersInv
  <2>4. Actual!Submit(qty, LimitPrice)
    BY <1>1, <2>1, <2>2, <2>3 DEF Actual!Submit
  <2>5. QED
    BY <1>3, <2>4 DEF ContractStep, Actual!Next
<1>15. QED
  BY <1>1, <1>2, <1>5, <1>6, <1>10, <1>11, <1>12, <1>13, <1>14 DEF IInv, ScheduleInv, LocalStep

LEMMA StepKeeps == IInv /\ [Next]_vars => IInv' /\ ContractStep
<1> SUFFICES ASSUME IInv, [Next]_vars
             PROVE  IInv' /\ ContractStep
  OBVIOUS
<1>1. ASSUME NEW e \in agenda, Step(e)
      PROVE  IInv' /\ ContractStep
  BY <1>1, MarketMessageKeeps, BootstrapKeeps, SnapshotReadKeeps, UseResponseKeeps,
     IgnoredKeeps, RecoveryTimeoutKeeps, DecisionSubmitKeeps, ArrivalKeeps,
     ArrivalUnknownKeeps, ReportKeeps, AtDeadlineKeeps, DropKeeps DEF Step
<1>2. ASSUME NEW m \in stream, NEW t \in 0 .. Deadline, Feed(m, t)
      PROVE  IInv' /\ ContractStep
  BY <1>2, FeedKeeps
<1>3. CASE UNCHANGED vars
  <2>1. UNCHANGED <<stream, market, actual, known, orders, service, closed, halted, localVars,
                    agenda>>
    BY <1>3 DEF vars
  <2>2. LocalStep
    BY <2>1, LocalStays
  <2>3. KnownInv' /\ known'.children = known.children /\ known'.receipts = known.receipts
    BY <2>1, <2>2, KnownStays
  <2>4. ServiceInv' /\ token' >= token
    BY <2>1 DEF IInv, ServiceInv, service
  <2>5. QED
    BY <2>1, <2>2, <2>3, <2>4, MarketStays
<1>4. QED
  BY <1>1, <1>2, <1>3 DEF Next, Run, Finished

\* The local book only moves as LocalRecovery does.
LEMMA LocalMoves == IInv /\ [Next]_vars => LocalStep
<1> SUFFICES ASSUME IInv, [Next]_vars
             PROVE  LocalStep
  OBVIOUS
<1>1. ASSUME NEW e \in agenda, Bootstrap(e) \/ RecoveryTimeout(e)
      PROVE  LocalStep
  <2>1. TimeOf(e) \in 0 .. Deadline
    BY <1>1, TakenInTime DEF Bootstrap, RecoveryTimeout, Open
  <2>2. Local!CheckTimeout(TimeOf(e))
    BY <1>1 DEF Bootstrap, RecoveryTimeout
  <2>3. QED
    BY <2>1, <2>2, LocalSteps DEF IInv
<1>2. ASSUME NEW e \in agenda, UseResponse(e)
      PROVE  LocalStep
  <2>1. TimeOf(e) \in 0 .. Deadline /\ EventOK(e) /\ RankOf(e) = ResponseRank
    BY <1>2, TakenInTime DEF UseResponse, Open
  <2>2. Local!Receive(Carried(e)[2], TimeOf(e)) /\ Carried(e)[2] \in ServiceSnapshots
    BY <1>2, <2>1 DEF UseResponse, EventOK
  <2>3. QED
    BY <2>1, <2>2, LocalSteps DEF IInv
<1>3. ASSUME NEW m \in stream, NEW t \in 0 .. Deadline, Feed(m, t)
      PROVE  LocalStep
  BY <1>3, LocalSteps DEF Feed, IInv
<1>4. CASE UNCHANGED localVars
  BY <1>4, LocalStays
<1>5. ASSUME NEW e \in agenda, Step(e)
      PROVE  LocalStep
  BY <1>1, <1>2, <1>4, <1>5
     DEF Step, MarketMessage, SnapshotRead, IgnoreResponse, IgnoreTimeout, DecisionSubmit,
         DecisionSkip, Arrival, ArrivalUnknown, Report, AtDeadline, Drop
<1>6. QED
  BY <1>3, <1>4, <1>5 DEF Next, Run, Finished, vars

-----------------------------------------------------------------------------
\* The theorems.

\* In every reachable state types and sums are in order, every queued event
\* belongs to what it is about, and the strategy knows of its orders what has
\* been reported (_run_execution).
THEOREM Invariant == Spec => []IInv
<1>1. Init => IInv
  BY InitHolds
<1>2. IInv /\ [Next]_vars => IInv'
  BY StepKeeps
<1>3. QED
  BY <1>1, <1>2, PTL DEF Spec

\* The variables of the engine keep their types (engine.py, _run_execution).
THEOREM TypeCorrect == Spec => []TypeOK
<1>1. IInv => TypeOK
  <2> SUFFICES ASSUME IInv
               PROVE  TypeOK
    OBVIOUS
  <2>1. \A i \in DOMAIN orders : orders[i] \in Order
    BY DEF IInv, OrdersInv
  <2>2. \A e \in agenda : TimeOf(e) \in Nat /\ RankOf(e) \in MarketRank .. DeadlineRank
    BY DEF IInv, EventOK
  <2>3. QED
    BY <2>1, <2>2 DEF IInv, TypeOK, Sound, KnownInv, KnownLedgers, ServiceInv
<1>2. QED
  BY <1>1, Invariant, PTL

\* Nothing of a hidden execution shows before its report, and a report shows
\* exactly what happened (_KnownOrders, and the arrival handler).
THEOREM ReportsTellAll == Spec => []KnowsOnlyReports
<1>1. IInv => KnowsOnlyReports
  BY DEF IInv, OrdersInv, OrderOK, KnowsOnlyReports
<1>2. QED
  BY <1>1, Invariant, PTL

\* What is filled or reserved stays within a target already reached, though
\* decide only sees the reported orders (_schedule, decide).
THEOREM OnSchedule == Spec => []NeverAheadOfSchedule
<1>1. IInv => NeverAheadOfSchedule
  BY DEF IInv, ScheduleInv
<1>2. QED
  BY <1>1, Invariant, PTL

\* No order is on its way behind the deadline, and a run that ends in order
\* leaves both ledgers with the same children (the end of _run_execution).
THEOREM BothSidesAgree == Spec => []Reconciled
<1>1. ASSUME IInv
      PROVE  Reconciled
  <2>1. closed => \A i \in DOMAIN orders : orders[i].status # "pending"
    BY <1>1 DEF IInv, OrdersInv, OrderOK, Pending
  <2>2. ASSUME Done, ~halted
        PROVE  known.children = actual.children
    <3>1. /\ actual.children \in Seq(Child) /\ known.children \in Seq(Child)
          /\ Len(actual.children) = Len(orders) /\ Len(known.children) = Len(orders)
          /\ orders \in Seq(Order) /\ agenda = {}
          /\ \A i \in DOMAIN orders : OrderOK(i)
      BY <1>1, <2>2 DEF IInv, OrdersInv, Sound, KnownInv, KnownLedgers, Done
    <3>2. ASSUME NEW i \in DOMAIN orders
          PROVE  known.children[i] = actual.children[i]
      <4>1. OrderOK(i) /\ ~Pending(i) /\ ~Reporting(i) /\ orders[i].status # "unknown"
        BY <2>2, <3>1 DEF OrderOK
      <4>2. orders[i].received # None
        BY <4>1 DEF Pending, Reporting
      <4>3. QED
        BY <4>1, <4>2 DEF OrderOK
    <3>3. QED
      BY <3>1, <3>2
  <2>3. QED
    BY <2>1, <2>2 DEF Reconciled
<1>2. QED
  BY <1>1, Invariant, PTL

\* The engine calls its actual ledger only as Execution allows: a decision on
\* delayed knowledge is never refused, a child is executed once, and every
\* accepted market message is observed (_ReplayLedger).
THEOREM EngineKeepsContract == Spec => LedgerContract
<1>1. Init => Actual!Init
  BY EngineAssumption
     DEF Init, InitBook, EmptyLedger, Actual!Init, Actual!EmptyLedger, Actual!EmptyDepth,
         EmptyDepth, Actual!NoDebits, NoDebits, Actual!Keys, Keys, Actual!Sides, Sides,
         Actual!Models, Models
<1>2. ContractStep => [Actual!Next]_(Actual!vars)
  BY DEF ContractStep, Actual!vars
<1>3. IInv /\ [Next]_vars => [Actual!Next]_(Actual!vars)
  BY <1>2, StepKeeps
<1>4. QED
  BY <1>1, <1>3, Invariant, PTL DEF Spec, LedgerContract, Actual!Spec

\* The engine drives its local book as LocalRecovery does, by messages of the
\* feed and answers of the service alike: what LocalRecoveryProofs proves of
\* every such run holds of the engine's (_feed, use_response, check_timeout).
THEOREM EngineImplementsRecovery == Spec => Recovery!Spec
<1>1. Init => Recovery!Init
  BY SameRecovery DEF Init
<1>2. IInv /\ [Next]_vars => [Recovery!Next]_(Recovery!vars)
  BY LocalMoves DEF LocalStep
<1>3. QED
  BY <1>1, <1>2, Invariant, PTL DEF Spec, Recovery!Spec

\* So a usable local book stands at the highest sequence received, and is never
\* taken back.
THEOREM EngineViewIsLatest ==
    Spec => []Recovery!ValidAtHighWater /\ Recovery!NeverRollsBack
BY EngineImplementsRecovery, RecoveryAssumptions, Recovery!UsableAtHighWater,
   Recovery!NoRollback

-----------------------------------------------------------------------------
\* The timeouts of the recovery.

CanRetry == pending \/ MayAsk(pending)

\* A timeout that is queued is that of the running episode, at its end, or of
\* an earlier one.
TimerOK(e) ==
    LET episode == Carried(e)
    IN  /\ TimeOf(e) >= episode[1] + Timeout /\ episode[2] <= publication
        /\ book.valid => episode[2] < publication
        /\ ~book.valid /\ episode[2] = publication =>
               /\ since # NoSeq /\ episode[1] <= since
               /\ episode[1] = since /\ CanRetry => TimeOf(e) = since + Timeout

\* The generation is the running episode, or one before the last publication.
GenerationOK ==
    generation # None =>
        /\ book.valid => generation[2] < publication
        /\ ~book.valid => since # NoSeq /\ generation = <<since, publication>>

Armed ==
    ~closed /\ ~book.valid /\ since # NoSeq /\ CanRetry =>
        /\ generation = <<since, publication>>
        /\ <<since + Timeout, TimeoutRank, generation>> \in agenda

TimerInv ==
    /\ Recovery!EpisodeInv
    /\ closed \/ BootstrapEvent \in agenda \/ book.valid \/ since # NoSeq
    /\ GenerationOK
    /\ \A e \in agenda : RankOf(e) = TimeoutRank => TimerOK(e)
    /\ Armed

\* The absent time and sequence are the same number.
LEMMA SameAbsence == Recovery!NoTime = NoSeq /\ Local!NoTime = NoSeq
BY DEF Recovery!NoTime, Local!NoTime, NoSeq

LEMMA InitTimers == Init => TimerInv
<1> SUFFICES ASSUME Init
             PROVE  TimerInv
  OBVIOUS
<1>1. /\ ~book.valid /\ since = NoSeq /\ generation = None
      /\ Recovery!EpisodeInv
  BY SameRecovery, SameAbsence, RecoveryAssumptions, Recovery!EpisodeStarts
     DEF Init, Local!Init
<1>2. BootstrapEvent \in agenda
  BY DEF Init, BootstrapEvent
<1>3. \A e \in agenda : RankOf(e) # TimeoutRank
  BY DEF Init, Decisions, RankOf, MarketRank, BootstrapRank, DecisionRank, DeadlineRank,
         TimeoutRank
<1>4. QED
  BY <1>1, <1>2, <1>3 DEF TimerInv, GenerationOK, Armed

\* How an event at time t moves the episode, in the engine's names.
EpisodeMoves(t) ==
    IF book'.valid
    THEN publication' = publication + 1 \/ (book.valid /\ publication' = publication)
    ELSE publication' = publication /\ since' \in {since, t} \ {NoSeq}

\* What a delivery or an answer does to the episode.
LEMMA ReceiveMoves ==
    ASSUME Recovery!IInv, Recovery!EpisodeInv, NEW t \in Nat,
           NEW m \in (UNION Streams) \cup ServiceSnapshots, Local!Receive(m, t)
    PROVE  /\ Recovery!EpisodeInv' /\ EpisodeMoves(t) /\ t >= clock
           /\ m.kind = "snapshot" /\ since # NoSeq /\ ~book'.valid => since' = since
<1>1. Recovery!Receive(m, t)
  BY SameRecovery
<1>2. /\ Recovery!EpisodeInv' /\ Recovery!EpisodeMoves(t)
      /\ m.kind = "snapshot" /\ since # Recovery!NoTime /\ ~book'.valid => since' = since
  BY <1>1, RecoveryAssumptions, Recovery!EpisodeAfterReceive
<1>3. QED
  BY <1>1, <1>2, SameAbsence DEF Recovery!EpisodeMoves, EpisodeMoves, Recovery!Receive

\* And a check of the timeout.
LEMMA CheckMoves ==
    ASSUME Recovery!IInv, Recovery!EpisodeInv, NEW t \in Nat, Local!CheckTimeout(t)
    PROVE  /\ Recovery!EpisodeInv' /\ EpisodeMoves(t) /\ t >= clock
           /\ ~book.valid /\ since # NoSeq /\ t - since >= Timeout =>
                  /\ ~book'.valid /\ since' = t
                  /\ updates' = {} /\ anchor' = None /\ needsSnapshot' = TRUE
<1>1. Recovery!CheckTimeout(t)
  BY SameRecovery
<1>2. /\ Recovery!EpisodeInv' /\ Recovery!EpisodeMoves(t)
      /\ ~book.valid /\ since # Recovery!NoTime /\ t - since >= Timeout =>
             ~book'.valid /\ since' = t /\ Recovery!Discard
  BY <1>1, RecoveryAssumptions, Recovery!EpisodeAfterCheck
<1>3. QED
  BY <1>1, <1>2, SameAbsence
     DEF Recovery!EpisodeMoves, EpisodeMoves, Recovery!CheckTimeout, Recovery!Discard

\* Types the arguments below need.
LEMMA TimerTypes ==
    IInv => /\ publication \in Nat /\ since \in Nat \cup {NoSeq} /\ since <= clock
            /\ clock \in Nat /\ (book.valid => since = NoSeq)
            /\ generation \in (Nat \X Nat) \cup {None} /\ None \notin Nat \X Nat
            /\ Timeout \in Nat \ {0}
            /\ \A e \in agenda : RankOf(e) = TimeoutRank =>
                   /\ Carried(e) \in Nat \X Nat /\ TimeOf(e) \in Nat
                   /\ e = <<TimeOf(e), TimeoutRank, Carried(e)>>
BY LocalTypes, EngineAssumption DEF IInv, ServiceInv, EventOK

\* The timeouts in the heap stand, whatever the local book does.
LEMMA TimersStand ==
    ASSUME IInv, TimerInv, NEW t \in Nat, t >= clock, EpisodeMoves(t), publication' \in Nat,
           ~book.valid /\ ~book'.valid /\ since' = since /\ CanRetry' => CanRetry,
           NEW e \in agenda, RankOf(e) = TimeoutRank
    PROVE  TimerOK(e)'
<1>1. /\ Carried(e) \in Nat \X Nat /\ TimeOf(e) \in Nat /\ TimerOK(e)
      /\ Carried(e)[1] \in Nat /\ Carried(e)[2] \in Nat
  BY TimerTypes DEF TimerInv
<1>2. /\ publication \in Nat /\ since \in Nat \cup {NoSeq} /\ since <= clock /\ clock \in Nat
      /\ Timeout \in Nat
  BY TimerTypes
<1>3. publication' >= publication
  BY <1>2 DEF EpisodeMoves
<1>4. book'.valid => Carried(e)[2] < publication'
  BY <1>1, <1>2 DEF EpisodeMoves, TimerOK
<1>5. ASSUME ~book'.valid, Carried(e)[2] = publication'
      PROVE  /\ since' # NoSeq /\ Carried(e)[1] <= since'
             /\ Carried(e)[1] = since' /\ CanRetry' => TimeOf(e) = since' + Timeout
  <2>1. publication' = publication /\ since' \in {since, t} /\ since' # NoSeq
    BY <1>5 DEF EpisodeMoves
  <2>2. /\ ~book.valid /\ since # NoSeq /\ Carried(e)[1] <= since
        /\ Carried(e)[1] = since /\ CanRetry => TimeOf(e) = since + Timeout
    BY <1>1, <1>2, <1>5, <2>1 DEF TimerOK
  <2>3. since <= since'
    BY <1>2, <2>1
  <2>4. Carried(e)[1] = since' => since' = since
    BY <1>1, <1>2, <2>1, <2>2, <2>3
  <2>5. QED
    BY <1>1, <1>2, <1>5, <2>1, <2>2, <2>3, <2>4
<1>6. QED
  BY <1>1, <1>2, <1>3, <1>4, <1>5 DEF TimerOK

\* What request_recovery leaves behind an invalid book: the timeout of its
\* episode, when that was not armed, and a retry only where there was one.
LEMMA RequestArms ==
    ASSUME NEW t, NEW queue, NEW waiting \in BOOLEAN, NEW last, NEW armed,
           requests \in 0 .. MaxRequests,
           RequestRecovery(t, queue, waiting, last, armed)
    PROVE  IF book'.valid
           THEN agenda' = queue /\ generation' = armed
           ELSE /\ generation' = Episode(t) /\ queue \subseteq agenda'
                /\ \A f \in agenda' \ queue : RankOf(f) = TimeoutRank =>
                       f = TimeoutEvent(t) /\ armed # Episode(t)
                /\ armed # Episode(t) => TimeoutEvent(t) \in agenda'
                /\ CanRetry' => waiting \/ MayAsk(waiting)
<1> DEFINE asked == IF MayAsk(waiting) THEN {<<t + ReadLatency, ReadRank, last + 1>>} ELSE {}
           timer == IF armed # Episode(t) THEN {TimeoutEvent(t)} ELSE {}
<1>1. CASE book'.valid
  BY <1>1 DEF RequestRecovery
<1>2. CASE ~book'.valid
  <2>1. /\ agenda' = queue \cup timer \cup asked /\ generation' = Episode(t)
        /\ requests' = requests + Cardinality(asked)
        /\ pending' = (waiting \/ asked # {})
    BY <1>2 DEF RequestRecovery
  <2>2. \A f \in asked : RankOf(f) # TimeoutRank
    BY DEF RankOf, ReadRank, TimeoutRank
  <2>3. CanRetry' => waiting \/ MayAsk(waiting)
    <3>1. CASE ~MayAsk(waiting) /\ ~waiting
      <4>1. asked = {} /\ Cardinality(asked) = 0
        BY <3>1, FS_EmptySet
      <4> HIDE DEF asked
      <4>2. requests' = requests /\ pending' = FALSE
        BY <2>1, <3>1, <4>1
      <4>3. QED
        BY <3>1, <4>2 DEF CanRetry, MayAsk
    <3>2. QED
      BY <3>1
  <2>4. QED
    BY <1>2, <2>1, <2>2, <2>3
<1>3. QED
  BY <1>1, <1>2

\* An event that asks for recovery with the armed generation as it was.
LEMMA RequestTimers ==
    ASSUME IInv, TimerInv, IInv', ~closed, ~closed',
           NEW t \in Nat, t >= clock, Recovery!EpisodeInv', EpisodeMoves(t),
           NEW queue, queue \subseteq agenda,
           \A f \in agenda : RankOf(f) = TimeoutRank => f \in queue,
           RequestRecovery(t, queue, pending, token, generation)
    PROVE  TimerInv'
<1>1. /\ publication \in Nat /\ since \in Nat \cup {NoSeq} /\ since <= clock /\ clock \in Nat
      /\ book.valid => since = NoSeq
      /\ generation \in (Nat \X Nat) \cup {None} /\ None \notin Nat \X Nat
      /\ Timeout \in Nat /\ publication' \in Nat /\ t # NoSeq
  <2>1. publication' \in Nat
    BY DEF IInv, Recovery!IInv, Recovery!CoreInv
  <2>2. t # NoSeq
    BY DEF NoSeq
  <2>3. QED
    BY <2>1, <2>2, TimerTypes
<1>2. pending \in BOOLEAN /\ requests \in 0 .. MaxRequests
  BY DEF IInv, ServiceInv
<1>3. CASE book'.valid
  <2>1. agenda' = queue /\ generation' = generation
    BY <1>2, <1>3, RequestArms
  <2>2. GenerationOK'
    <3>1. generation # None => generation[2] \in Nat
      BY <1>1
    <3>2. generation # None => generation[2] <= publication /\ (book.valid => generation[2] < publication)
      BY <1>1, <3>1 DEF TimerInv, GenerationOK
    <3>3. QED
      BY <1>1, <1>3, <2>1, <3>1, <3>2 DEF GenerationOK, EpisodeMoves
  <2>3. \A f \in agenda' : RankOf(f) = TimeoutRank => TimerOK(f)'
    BY <1>1, <1>3, <2>1, TimersStand
  <2>4. QED
    BY <1>3, <2>2, <2>3 DEF TimerInv, Armed
<1>4. CASE ~book'.valid
  <2> DEFINE episode == <<since', publication'>>
  <2>1. /\ publication' = publication /\ since' \in {since, t} /\ since' # NoSeq
        /\ since' \in Nat
    BY <1>1, <1>4 DEF EpisodeMoves
  <2>2. Episode(t) = episode
    BY <2>1, SameAbsence DEF Episode
  <2>3. /\ generation' = episode /\ queue \subseteq agenda'
        /\ \A f \in agenda' \ queue : RankOf(f) = TimeoutRank =>
               f = TimeoutEvent(t) /\ generation # episode
        /\ generation # episode => TimeoutEvent(t) \in agenda'
        /\ CanRetry' => CanRetry
    BY <1>2, <1>4, <2>2, RequestArms DEF CanRetry
  <2>4. generation = episode \/ since' = t \/ ~CanRetry
    <3>1. CASE since' = since
      BY <1>1, <2>1, <3>1 DEF TimerInv, Armed
    <3>2. QED
      BY <2>1, <3>1
  <2>5. since' = t => TimeoutEvent(t) = <<since' + Timeout, TimeoutRank, episode>>
    <3>1. ASSUME since' = t PROVE t + Timeout >= t
      BY <1>1
    <3>2. QED
      BY <1>1, <2>1, <2>2, <3>1 DEF TimeoutEvent, Larger
  <2>6. TimeOf(TimeoutEvent(t)) >= since' + Timeout /\ Carried(TimeoutEvent(t)) = episode
    <3>1. since' + Timeout \in Nat
      <4>1. \A n \in Nat : n + Timeout \in Nat
        BY <1>1
      <4>2. QED
        BY <2>1, <4>1
    <3>2. QED
      BY <2>2, <3>1 DEF TimeoutEvent, Larger, TimeOf, Carried
  <2>7. ASSUME NEW f \in agenda', RankOf(f) = TimeoutRank
        PROVE  TimerOK(f)'
    <3>1. CASE f \in queue
      BY <1>1, <2>3, <2>7, <3>1, TimersStand
    <3>2. CASE f \notin queue
      <4>1. f = TimeoutEvent(t) /\ (CanRetry' => since' = t)
        BY <2>3, <2>4, <2>7, <3>2
      <4>2. CanRetry' => TimeOf(f) = since' + Timeout
        BY <2>5, <4>1 DEF TimeOf
      <4>3. TimeOf(f) >= since' + Timeout /\ Carried(f)[1] = since' /\ Carried(f)[2] = publication'
        BY <2>6, <4>1
      <4>4. QED
        BY <1>1, <1>4, <2>1, <4>2, <4>3 DEF TimerOK
    <3>3. QED
      BY <3>1, <3>2
  <2>8. GenerationOK'
    BY <1>4, <2>1, <2>3 DEF GenerationOK
  <2>9. ASSUME CanRetry'
        PROVE  <<since' + Timeout, TimeoutRank, episode>> \in agenda'
    <3>1. CASE generation # episode
      BY <2>3, <2>4, <2>5, <2>9, <3>1
    <3>2. CASE generation = episode
      <4>1. generation # None /\ generation[2] = publication
        BY <1>1, <2>1, <3>2
      <4>2. ~book.valid /\ since # NoSeq /\ generation = <<since, publication>>
        BY <1>1, <4>1 DEF TimerInv, GenerationOK
      <4>3. since' = since
        BY <3>2, <4>2
      <4>4. <<since + Timeout, TimeoutRank, generation>> \in agenda
        BY <2>3, <2>9, <4>2 DEF TimerInv, Armed
      <4>5. <<since + Timeout, TimeoutRank, generation>> \in queue
        BY <4>4 DEF RankOf
      <4>6. QED
        BY <2>3, <3>2, <4>3, <4>5
    <3>3. QED
      BY <3>1, <3>2
  <2>10. QED
    BY <1>4, <2>1, <2>3, <2>7, <2>8, <2>9 DEF TimerInv, Armed
<1>5. QED
  BY <1>3, <1>4

\* An event that moves neither the local book nor its generation, takes no
\* live timeout and leaves no new chance to retry.
LEMMA IdleTimers ==
    ASSUME IInv, TimerInv, UNCHANGED <<generation, localVars>>, closed => closed',
           ~book.valid /\ CanRetry' => CanRetry,
           \A f \in agenda' \ agenda : RankOf(f) # TimeoutRank,
           \A f \in agenda \ agenda' :
               closed' \/ (f # BootstrapEvent
                               /\ (RankOf(f) = TimeoutRank => book.valid \/ Carried(f) # generation))
    PROVE  TimerInv'
<1>1. UNCHANGED <<book, since, publication, updates, seenEvents, seenUpdates>>
  BY DEF localVars
<1>2. Recovery!EpisodeInv'
  BY <1>1 DEF TimerInv, Recovery!EpisodeInv
<1>3. closed' \/ BootstrapEvent' \in agenda' \/ book'.valid \/ since' # NoSeq
  BY <1>1 DEF TimerInv, BootstrapEvent
<1>4. GenerationOK'
  BY <1>1 DEF TimerInv, GenerationOK
<1>5. ASSUME NEW f \in agenda', RankOf(f) = TimeoutRank
      PROVE  TimerOK(f)'
  <2>1. TimerOK(f)
    BY <1>5 DEF TimerInv
  <2>2. QED
    BY <1>1, <2>1 DEF TimerOK
<1>6. Armed'
  <2>1. ASSUME ~closed', ~book.valid, since # NoSeq, CanRetry'
        PROVE  /\ generation = <<since, publication>>
               /\ <<since + Timeout, TimeoutRank, generation>> \in agenda'
    <3>1. /\ generation = <<since, publication>>
          /\ <<since + Timeout, TimeoutRank, generation>> \in agenda
      BY <2>1 DEF TimerInv, Armed
    <3>2. QED
      BY <2>1, <3>1 DEF RankOf, Carried
  <2>2. QED
    BY <1>1, <2>1 DEF Armed
<1>7. QED
  BY <1>2, <1>3, <1>4, <1>5, <1>6 DEF TimerInv

LEMMA FeedTimers ==
    ASSUME IInv, TimerInv, IInv', NEW m \in stream, NEW t \in 0 .. Deadline, Feed(m, t)
    PROVE  TimerInv'
<1>1. /\ ~closed /\ ~closed' /\ Local!Receive(m, t)
      /\ RequestRecovery(t, agenda, pending, token, generation)
  BY DEF Feed
<1>2. m \in (UNION Streams) \cup ServiceSnapshots /\ t \in Nat
  BY ScheduleAssumption DEF IInv
<1>3. Recovery!EpisodeInv' /\ EpisodeMoves(t) /\ t >= clock
  BY <1>1, <1>2, ReceiveMoves DEF IInv, TimerInv
<1>4. QED
  BY <1>1, <1>2, <1>3, RequestTimers

LEMMA BootstrapTimers ==
    ASSUME IInv, TimerInv, IInv', NEW e \in agenda, Bootstrap(e)
    PROVE  TimerInv'
<1> DEFINE t == TimeOf(e)
<1>1. /\ ~closed /\ ~closed' /\ Local!CheckTimeout(t) /\ RankOf(e) = BootstrapRank
      /\ RequestRecovery(t, Rest(e), pending, token, generation)
  BY DEF Bootstrap, Open
<1>2. t \in Nat
  BY DEF IInv, EventOK
<1>3. /\ Rest(e) \subseteq agenda
      /\ \A f \in agenda : RankOf(f) = TimeoutRank => f \in Rest(e)
  BY <1>1 DEF Rest, BootstrapRank, TimeoutRank
<1> HIDE DEF t
<1>4. Recovery!EpisodeInv' /\ EpisodeMoves(t) /\ t >= clock
  BY <1>1, <1>2, CheckMoves DEF IInv, TimerInv
<1>5. QED
  BY <1>1, <1>2, <1>3, <1>4, RequestTimers

\* An answer comes after the bootstrap, so an episode runs; a snapshot does not
\* restart it, and its timeout is in the heap.
LEMMA UseResponseTimers ==
    ASSUME IInv, TimerInv, IInv', NEW e \in agenda, UseResponse(e)
    PROVE  TimerInv'
<1> DEFINE t == TimeOf(e)
           m == Carried(e)[2]
<1>1. /\ First(e) /\ ~closed /\ ~closed' /\ RankOf(e) = ResponseRank /\ agenda' = Rest(e)
      /\ pending = TRUE /\ ~book.valid /\ pending' = FALSE
      /\ Local!Receive(m, t) /\ UNCHANGED <<requests, generation>>
  BY DEF UseResponse, Open, Take, Awaited, IInv, ServiceInv
<1>2. t \in Nat /\ m \in ServiceSnapshots /\ m.kind = "snapshot"
  BY <1>1 DEF IInv, EventOK, ServiceSnapshots
<1>3. BootstrapEvent \notin agenda
  <2>1. Precedes(BootstrapEvent, e)
    BY <1>1, <1>2
       DEF Precedes, Earlier, BootstrapEvent, RankOf, TimeOf, ResponseRank, BootstrapRank
  <2>2. QED
    BY <1>1, <2>1 DEF First
<1> HIDE DEF t, m
<1>4. since # NoSeq /\ CanRetry
  BY <1>1, <1>3 DEF TimerInv, CanRetry
<1>5. /\ generation = <<since, publication>>
      /\ <<since + Timeout, TimeoutRank, generation>> \in agenda
  BY <1>1, <1>4 DEF TimerInv, Armed
<1>6. /\ Recovery!EpisodeInv' /\ EpisodeMoves(t) /\ t >= clock
      /\ ~book'.valid => since' = since
  BY <1>1, <1>2, <1>4, ReceiveMoves DEF IInv, TimerInv
<1>7. publication \in Nat /\ publication' \in Nat
  BY DEF IInv, Recovery!IInv, Recovery!CoreInv
<1>8. \A f \in agenda' : RankOf(f) = TimeoutRank => TimerOK(f)'
  <2>1. ASSUME NEW f \in agenda, RankOf(f) = TimeoutRank
        PROVE  TimerOK(f)'
    BY <1>2, <1>4, <1>6, <1>7, <2>1, TimersStand
  <2>2. QED
    BY <1>1, <2>1 DEF Rest
<1>9. GenerationOK' /\ (~book'.valid => since' # NoSeq /\ publication' = publication)
  <2>1. generation[2] = publication
    BY <1>5
  <2>2. QED
    BY <1>1, <1>4, <1>5, <1>6, <1>7, <2>1 DEF EpisodeMoves, GenerationOK
<1>10. Armed'
  <2>1. <<since + Timeout, TimeoutRank, generation>> \in agenda'
    BY <1>1, <1>5 DEF Rest, RankOf, ResponseRank, TimeoutRank
  <2>2. QED
    BY <1>1, <1>5, <1>6, <1>9, <2>1 DEF Armed
<1>11. QED
  BY <1>6, <1>8, <1>9, <1>10 DEF TimerInv

\* A live timeout comes at the end of its episode.
LEMMA TimeoutComesLate ==
    ASSUME IInv, TimerInv, NEW e \in agenda, RecoveryTimeout(e)
    PROVE  /\ generation = <<since, publication>> /\ since # NoSeq /\ since \in Nat
           /\ TimeOf(e) \in Nat /\ TimeOf(e) - since >= Timeout
<1>1. RankOf(e) = TimeoutRank /\ ~book.valid /\ Carried(e) = generation
  BY DEF RecoveryTimeout, Open
<1>2. /\ Carried(e) \in Nat \X Nat /\ TimeOf(e) \in Nat /\ None \notin Nat \X Nat
      /\ since \in Nat \cup {NoSeq} /\ Timeout \in Nat
  BY <1>1, TimerTypes
<1>3. generation = <<since, publication>> /\ since # NoSeq
  BY <1>1, <1>2 DEF TimerInv, GenerationOK
<1>4. Carried(e)[1] = since
  BY <1>1, <1>3
<1>5. TimeOf(e) >= since + Timeout
  BY <1>1, <1>4 DEF TimerInv, TimerOK
<1>6. QED
  BY <1>2, <1>3, <1>5

LEMMA RecoveryTimeoutTimers ==
    ASSUME IInv, TimerInv, IInv', NEW e \in agenda, RecoveryTimeout(e)
    PROVE  TimerInv'
<1> DEFINE t == TimeOf(e)
<1>1. /\ ~closed /\ ~closed' /\ ~book.valid /\ Local!CheckTimeout(t)
      /\ \/ RequestRecovery(t, Rest(e), FALSE, token + 1, None)
         \/ /\ requests >= MaxRequests \/ ReadLatency = None
            /\ agenda' = Rest(e) /\ pending' = FALSE /\ generation' = None
            /\ requests' = requests
  BY DEF RecoveryTimeout, Open
<1>2. since # NoSeq /\ since \in Nat /\ t \in Nat /\ t - since >= Timeout
  BY TimeoutComesLate
<1> HIDE DEF t
<1>3. /\ Recovery!EpisodeInv' /\ EpisodeMoves(t) /\ t >= clock
      /\ ~book'.valid /\ since' = t
  BY <1>1, <1>2, CheckMoves DEF IInv, TimerInv
<1>4. /\ publication' = publication /\ publication \in Nat /\ publication' \in Nat
      /\ t # NoSeq /\ Timeout \in Nat \ {0} /\ None \notin Nat \X Nat
      /\ requests \in 0 .. MaxRequests
  BY <1>2, <1>3, TimerTypes DEF EpisodeMoves, NoSeq, IInv, ServiceInv
<1>5. ASSUME NEW f \in agenda, RankOf(f) = TimeoutRank
      PROVE  TimerOK(f)'
  <2>1. since' # since
    BY <1>2, <1>3, <1>4
  <2>2. QED
    BY <1>2, <1>3, <1>4, <1>5, <2>1, TimersStand
<1>6. CASE RequestRecovery(t, Rest(e), FALSE, token + 1, None)
  <2>1. Episode(t) = <<t, publication>> /\ Episode(t) # None
    BY <1>2, <1>3, <1>4 DEF Episode
  <2>2. /\ generation' = Episode(t) /\ TimeoutEvent(t) \in agenda'
        /\ \A f \in agenda' \ Rest(e) : RankOf(f) = TimeoutRank => f = TimeoutEvent(t)
    BY <1>3, <1>4, <1>6, <2>1, RequestArms
  <2>3. TimeoutEvent(t) = <<t + Timeout, TimeoutRank, <<t, publication>>>>
    <3>1. t + Timeout >= t
      BY <1>2, <1>4
    <3>2. QED
      BY <1>2, <1>4, <2>1, <3>1 DEF TimeoutEvent, Larger
  <2>4. ASSUME NEW f, f = TimeoutEvent(t)
        PROVE  TimerOK(f)'
    <3>1. /\ TimeOf(f) = t + Timeout /\ Carried(f)[1] = t
          /\ Carried(f)[2] = publication
      BY <2>3, <2>4 DEF TimeOf, Carried
    <3>2. t + Timeout \in Nat
      BY <1>2, <1>4
    <3>3. QED
      BY <1>2, <1>3, <1>4, <3>1, <3>2 DEF TimerOK
  <2>5. \A f \in agenda' : RankOf(f) = TimeoutRank => TimerOK(f)'
    BY <1>5, <2>2, <2>4 DEF Rest
  <2>6. GenerationOK' /\ Armed'
    BY <1>3, <1>4, <2>1, <2>2, <2>3 DEF GenerationOK, Armed
  <2>7. QED
    BY <1>3, <1>4, <2>5, <2>6 DEF TimerInv
<1>7. CASE /\ requests >= MaxRequests \/ ReadLatency = None
           /\ agenda' = Rest(e) /\ pending' = FALSE /\ generation' = None
           /\ requests' = requests
  <2>1. ~CanRetry'
    BY <1>4, <1>7, EngineAssumption DEF CanRetry, MayAsk
  <2>2. \A f \in agenda' : RankOf(f) = TimeoutRank => TimerOK(f)'
    BY <1>5, <1>7 DEF Rest
  <2>3. QED
    BY <1>3, <1>4, <1>7, <2>1, <2>2 DEF TimerInv, GenerationOK, Armed
<1>8. QED
  BY <1>1, <1>6, <1>7

\* What leaves service and local book alone, or only gives a request up when
\* the book is usable.
LEMMA OtherTimers ==
    ASSUME IInv, TimerInv, NEW e \in agenda,
           \/ MarketMessage(e) \/ SnapshotRead(e) \/ IgnoreResponse(e) \/ IgnoreTimeout(e)
           \/ DecisionSubmit(e) \/ DecisionSkip(e) \/ Arrival(e) \/ ArrivalUnknown(e)
           \/ Report(e) \/ AtDeadline(e) \/ Drop(e)
    PROVE  TimerInv'
<1>1. UNCHANGED <<generation, requests, localVars>> /\ (closed => closed')
  BY DEF MarketMessage, SnapshotRead, IgnoreResponse, IgnoreTimeout, DecisionSubmit,
         DecisionSkip, Arrival, ArrivalUnknown, Report, AtDeadline, Drop, service, Open
<1>2. ~book.valid => pending' = pending
  <2>1. CASE SnapshotRead(e) \/ IgnoreResponse(e)
    BY <2>1 DEF SnapshotRead, IgnoreResponse, Awaited, IInv, ServiceInv
  <2>2. CASE ~(SnapshotRead(e) \/ IgnoreResponse(e))
    BY <2>2 DEF MarketMessage, IgnoreTimeout, DecisionSubmit, DecisionSkip, Arrival,
                ArrivalUnknown, Report, AtDeadline, Drop, service
  <2>3. QED
    BY <2>1, <2>2
<1>3. ~book.valid /\ CanRetry' => CanRetry
  BY <1>1, <1>2 DEF CanRetry, MayAsk
<1>4. /\ Rest(e) \subseteq agenda'
      /\ \A f \in agenda' \ Rest(e) : RankOf(f) \in {ResponseRank, ReportRank, ArrivalRank}
  BY DEF MarketMessage, SnapshotRead, IgnoreResponse, IgnoreTimeout, DecisionSubmit,
         DecisionSkip, Arrival, ArrivalUnknown, Report, AtDeadline, Drop, RankOf
<1>5. \/ closed'
      \/ /\ RankOf(e) # BootstrapRank
         /\ RankOf(e) = TimeoutRank => book.valid \/ Carried(e) # generation
  BY DEF MarketMessage, SnapshotRead, IgnoreResponse, IgnoreTimeout, DecisionSubmit,
         DecisionSkip, Arrival, ArrivalUnknown, Report, AtDeadline, Drop, Open, MarketRank,
         ReadRank, BootstrapRank, ResponseRank, ArrivalRank, ReportRank, DecisionRank,
         TimeoutRank, DeadlineRank
<1>6. \A f \in agenda' \ agenda : RankOf(f) # TimeoutRank
  BY <1>4 DEF Rest, ResponseRank, ReportRank, ArrivalRank, TimeoutRank
<1>7. \A f \in agenda \ agenda' :
          closed' \/ (f # BootstrapEvent
                          /\ (RankOf(f) = TimeoutRank => book.valid \/ Carried(f) # generation))
  BY <1>4, <1>5 DEF Rest, BootstrapEvent, RankOf
<1>8. QED
  BY <1>1, <1>3, <1>6, <1>7, IdleTimers

\* The timeouts stay in order.
LEMMA TimersKeep == IInv /\ TimerInv /\ [Next]_vars => TimerInv'
<1> SUFFICES ASSUME IInv, TimerInv, [Next]_vars
             PROVE  TimerInv'
  OBVIOUS
<1>1. IInv'
  BY StepKeeps
<1>2. ASSUME NEW e \in agenda, Step(e)
      PROVE  TimerInv'
  BY <1>1, <1>2, BootstrapTimers, UseResponseTimers, RecoveryTimeoutTimers, OtherTimers DEF Step
<1>3. ASSUME NEW m \in stream, NEW t \in 0 .. Deadline, Feed(m, t)
      PROVE  TimerInv'
  BY <1>1, <1>3, FeedTimers
<1>4. CASE UNCHANGED vars
  <2>1. UNCHANGED <<agenda, closed, service, localVars>>
    BY <1>4 DEF vars
  <2>2. CanRetry' => CanRetry
    BY <2>1 DEF CanRetry, MayAsk, service
  <2>3. QED
    BY <2>1, <2>2, IdleTimers DEF service
<1>5. QED
  BY <1>2, <1>3, <1>4 DEF Next, Run, Finished

\* In every reachable state the timeouts in the heap, the armed generation and
\* the requests agree with the episode of the local book (request_recovery).
THEOREM TimersInvariant == Spec => []TimerInv
<1>1. Init => TimerInv
  BY InitTimers
<1>2. QED
  BY <1>1, TimersKeep, Invariant, PTL DEF Spec

\* From the bootstrap to the deadline an invalid book whose recovery may still
\* ask, or awaits an answer, has exactly one live timeout queued, at the end of
\* its episode (request_recovery, the snapshot handlers).
THEOREM InvalidBookIsRetried == Spec => []RetryIsArmed
<1>1. ASSUME IInv, TimerInv
      PROVE  RetryIsArmed
  <2> SUFFICES ASSUME ~closed, ~halted, ~book.valid, BootstrapEvent \notin agenda, CanRetry
               PROVE  /\ generation = <<since, publication>>
                      /\ {e \in agenda : Live(e)}
                             = {<<since + Timeout, TimeoutRank, generation>>}
    BY DEF RetryIsArmed, BootstrapEvent, CanRetry
  <2>1. since # NoSeq
    BY <1>1 DEF TimerInv
  <2>2. /\ generation = <<since, publication>>
        /\ <<since + Timeout, TimeoutRank, generation>> \in agenda
    BY <1>1, <2>1 DEF TimerInv, Armed
  <2>3. ASSUME NEW e \in agenda, Live(e)
        PROVE  e = <<since + Timeout, TimeoutRank, generation>>
    <3>1. /\ RankOf(e) = TimeoutRank /\ TimerOK(e) /\ Carried(e) = generation
          /\ e = <<TimeOf(e), TimeoutRank, Carried(e)>>
      BY <1>1, <2>3, TimerTypes DEF Live, TimerInv
    <3>2. Carried(e)[1] = since /\ Carried(e)[2] = publication
      BY <2>2, <3>1
    <3>3. TimeOf(e) = since + Timeout
      BY <3>1, <3>2 DEF TimerOK
    <3>4. QED
      BY <3>1, <3>3
  <2>4. Live(<<since + Timeout, TimeoutRank, generation>>)
    BY DEF Live, RankOf, Carried
  <2>5. QED
    BY <2>2, <2>3, <2>4
<1>2. QED
  BY <1>1, Invariant, TimersInvariant, PTL

\* A live timeout is never early, nor after the deadline: it ends its episode,
\* drops what waits and starts the next one (the timeout handler, check_timeout).
THEOREM LiveTimeoutsExpire == Spec => LiveTimeoutExpires
<1>1. ASSUME IInv, TimerInv, NEW e \in agenda, RecoveryTimeout(e)
      PROVE  /\ TimeOf(e) <= Deadline
             /\ since' = TimeOf(e) /\ updates' = {} /\ anchor' = None /\ needsSnapshot'
  <2>1. Local!CheckTimeout(TimeOf(e)) /\ ~book.valid
    BY <1>1 DEF RecoveryTimeout
  <2>2. TimeOf(e) \in Nat /\ since # NoSeq /\ TimeOf(e) - since >= Timeout
    BY <1>1, TimeoutComesLate
  <2>3. TimeOf(e) <= Deadline
    <3>1. Take(e) /\ ~closed
      BY <1>1 DEF RecoveryTimeout, Open
    <3>2. QED
      BY <1>1, <3>1, TakenInTime
  <2>4. QED
    BY <1>1, <2>1, <2>2, <2>3, CheckMoves DEF IInv, TimerInv
<1>2. IInv /\ TimerInv /\ [Next]_vars =>
          [\A e \in agenda : RecoveryTimeout(e) =>
               /\ TimeOf(e) <= Deadline
               /\ since' = TimeOf(e) /\ updates' = {} /\ anchor' = None /\ needsSnapshot']_vars
  BY <1>1
<1>3. QED
  BY <1>2, Invariant, TimersInvariant, PTL DEF Spec, LiveTimeoutExpires

\* Only the answer to the request that is awaited reaches the local book, by the
\* deadline and only once (the response handler).
THEOREM AnswersAreAwaited == Spec => OnlyAwaitedAnswers
<1> DEFINE Awaits ==
        \A e \in agenda \ agenda' :
            RankOf(e) = ResponseRank /\ seenEvents' # seenEvents =>
                /\ TimeOf(e) <= Deadline
                /\ Carried(e)[1] = token /\ pending /\ ~pending'
                /\ Carried(e)[2] \notin seenEvents
<1>1. ASSUME IInv, NEW f \in agenda, UseResponse(f)
      PROVE  Awaits
  <2>1. /\ agenda' = Rest(f) /\ Carried(f)[1] = token /\ pending /\ ~pending'
        /\ Local!Receive(Carried(f)[2], TimeOf(f))
    BY <1>1 DEF UseResponse, Awaited
  <2>2. seenEvents' # seenEvents => Carried(f)[2] \notin seenEvents
    BY <2>1 DEF Local!Receive, Local!RejectContent, Local!RepeatEvent, Local!ConflictEvent,
                Local!Known, Local!Register, Local!seen
  <2>3. TimeOf(f) <= Deadline
    <3>1. Take(f) /\ ~closed
      BY <1>1 DEF UseResponse, Open
    <3>2. QED
      BY <1>1, <3>1, TakenInTime
  <2>4. QED
    BY <2>1, <2>2, <2>3 DEF Rest
<1>2. ASSUME NEW f \in agenda, Step(f), ~UseResponse(f)
      PROVE  seenEvents' = seenEvents
  <2>1. CASE Bootstrap(f) \/ RecoveryTimeout(f)
    BY <2>1 DEF Bootstrap, RecoveryTimeout, Local!CheckTimeout, Local!seen
  <2>2. CASE UNCHANGED localVars
    BY <2>2 DEF localVars
  <2>3. QED
    BY <1>2, <2>1, <2>2
       DEF Step, MarketMessage, SnapshotRead, IgnoreResponse, IgnoreTimeout, DecisionSubmit,
           DecisionSkip, Arrival, ArrivalUnknown, Report, AtDeadline, Drop
<1>3. ASSUME NEW m \in stream, NEW t \in 0 .. Deadline, Feed(m, t)
      PROVE  agenda \ agenda' = {}
  BY <1>3 DEF Feed, RequestRecovery
<1>4. IInv /\ [Next]_vars => [Awaits]_vars
  BY <1>1, <1>2, <1>3 DEF Next, Run, Finished
<1>5. QED
  BY <1>4, Invariant, PTL DEF Spec, OnlyAwaitedAnswers

-----------------------------------------------------------------------------
\* One truth on both sides.

\* There is a book of every sequence number that all messages of a session
\* agree on.
Truthful(session) ==
    \E truth \in [Nat -> Depth] : \A m \in session : Recovery!TrueTo(truth, m)

TruthInv(truth) ==
    /\ \A m \in stream : Recovery!TrueTo(truth, m)
    /\ market.seq # NoSeq => market.depth = truth[market.seq]
    /\ \A e \in agenda : RankOf(e) = ResponseRank => Recovery!TrueTo(truth, Carried(e)[2])
    /\ Recovery!Told(truth) /\ Recovery!Shown(truth)

\* What the market accepts is well-formed to its consumers: a batch that
\* crosses alone crosses on every book.
LEMMA AcceptedIsWellFormed ==
    ASSUME NEW m \in UNION Streams, market \in BookState, Accepts(market, m)
    PROVE  Recovery!WellFormed(m)
<1>1. /\ m.own /\ m.sound /\ market.depth \in Depth
      /\ m.kind = "snapshot" \/ (m.kind = "update" /\ IsBatch(m.levels))
  <2>1. Local!IsMessage(m) /\ m.own
    BY MarketAssumption
  <2>2. QED
    BY <2>1 DEF Local!IsMessage, Accepts, AcceptsSnapshot, AcceptsUpdate, BookState,
                Local!IsBatch, IsBatch, Local!Keys, Keys, Local!Sides, Sides
<1>2. CASE m.kind = "snapshot"
  <2>1. ~Crossed(m.levels)
    BY <1>2 DEF Accepts, AcceptsSnapshot, AcceptsUpdate
  <2>2. QED
    BY <1>1, <1>2, <2>1 DEF Recovery!WellFormed, Recovery!Crossed, Crossed
<1>3. CASE m.kind = "update"
  <2>1. ~Crossed(Overlay(market.depth, m.levels)) /\ IsBatch(m.levels)
    BY <1>1, <1>3 DEF Accepts, AcceptsSnapshot, AcceptsUpdate
  <2>2. ASSUME Crossed(Overlay(EmptyDepth, m.levels))
        PROVE  FALSE
    <3>1. PICK b \in Prices, a \in Prices :
              /\ Overlay(EmptyDepth, m.levels)[<<"BID", b>>] > 0
              /\ Overlay(EmptyDepth, m.levels)[<<"ASK", a>>] > 0 /\ b >= a
      BY <2>2 DEF Crossed
    <3>2. <<"BID", b>> \in Keys /\ <<"ASK", a>> \in Keys
      BY DEF Keys, Sides
    <3>3. <<"BID", b>> \in DOMAIN m.levels /\ <<"ASK", a>> \in DOMAIN m.levels
      BY <3>1, <3>2 DEF Overlay, EmptyDepth
    <3>4. /\ Overlay(market.depth, m.levels)[<<"BID", b>>]
                 = Overlay(EmptyDepth, m.levels)[<<"BID", b>>]
          /\ Overlay(market.depth, m.levels)[<<"ASK", a>>]
                 = Overlay(EmptyDepth, m.levels)[<<"ASK", a>>]
      BY <3>2, <3>3 DEF Overlay
    <3>5. Crossed(Overlay(market.depth, m.levels))
      BY <3>1, <3>4 DEF Crossed
    <3>6. QED
      BY <2>1, <3>5
  <2>3. ~Recovery!Crossed(Recovery!Overlay(Recovery!EmptyDepth, m.levels))
    BY <2>2 DEF Recovery!Crossed, Crossed, Recovery!Overlay, Overlay, Recovery!EmptyDepth,
                EmptyDepth, Recovery!Keys, Keys, Recovery!Sides, Sides
  <2>4. QED
    BY <1>1, <1>3, <2>3 DEF Recovery!WellFormed
<1>4. QED
  BY <1>1, <1>2, <1>3

\* A true message takes the market's book to the truth of its sequence.
LEMMA MarketTrue ==
    ASSUME IInv, NEW truth, TruthInv(truth), NEW e \in agenda, MarketMessage(e)
    PROVE  market'.seq # NoSeq => market'.depth = truth[market'.seq]
<1> DEFINE m == Carried(e)
<1>1. m \in stream /\ m \in UNION Streams /\ market \in BookState
      /\ (market.valid => market.seq \in Nat)
  BY DEF MarketMessage, Open, IInv, EventOK
<1>2. Recovery!TrueTo(truth, m)
  BY <1>1 DEF TruthInv
<1>3. CASE ~Accepts(market, m)
  <2>1. market'.seq = market.seq /\ market'.depth = market.depth
    BY <1>1, <1>3 DEF MarketMessage, Reject, BookState
  <2>2. QED
    BY <2>1 DEF TruthInv
<1>4. CASE Accepts(market, m)
  <2>1. Recovery!WellFormed(m)
    BY <1>1, <1>4, AcceptedIsWellFormed
  <2>2. market'.seq = m.seq /\ market'.depth = DepthAfter(market, m)
    BY <1>4 DEF MarketMessage, Commit
  <2>3. CASE m.kind = "snapshot"
    BY <1>2, <2>1, <2>2, <2>3 DEF Recovery!TrueTo, DepthAfter
  <2>4. CASE m.kind # "snapshot"
    <3>1. m.kind = "update" /\ market.valid /\ m.seq = market.seq + 1 /\ market.seq \in Nat
      BY <1>1, <1>4, <2>4 DEF Accepts, AcceptsSnapshot, AcceptsUpdate
    <3>2. Overlay(truth[market.seq], m.levels) = truth[m.seq]
      <4>1. m.seq > 0 /\ m.seq - 1 = market.seq
        BY <3>1
      <4>2. Recovery!Overlay(truth[market.seq], m.levels) = truth[m.seq]
        BY <1>2, <2>1, <3>1, <4>1 DEF Recovery!TrueTo
      <4>3. QED
        BY <4>2 DEF Recovery!Overlay, Overlay, Recovery!Keys, Keys, Recovery!Sides, Sides
    <3>3. market.depth = truth[market.seq]
      BY <3>1 DEF TruthInv, NoSeq
    <3>4. QED
      BY <2>2, <2>4, <3>2, <3>3 DEF DepthAfter
  <2>5. QED
    BY <2>3, <2>4
<1>5. QED
  BY <1>3, <1>4

\* What the feed or the service tells is true.
LEMMA TruthReceived ==
    ASSUME IInv, NEW truth, TruthInv(truth), NEW t \in 0 .. Deadline,
           NEW m \in (UNION Streams) \cup ServiceSnapshots,
           Local!Receive(m, t), Recovery!TrueTo(truth, m)
    PROVE  Recovery!Told(truth)' /\ Recovery!Shown(truth)'
<1>1. LocalStep /\ Recovery!IInv /\ Recovery!WaitInv
  BY LocalSteps DEF IInv
<1>2. Recovery!Told(truth)'
  <2>1. Recovery!Receive(m, t)
    BY SameRecovery
  <2>2. Recovery!Told(truth)
    BY DEF TruthInv
  <2>3. QED
    BY <2>1, <2>2, RecoveryAssumptions, Recovery!ToldByReceive
<1>3. Recovery!Shown(truth)'
  BY <1>1, <1>2, RecoveryAssumptions, Recovery!ShownKept DEF TruthInv, LocalStep
<1>4. QED
  BY <1>2, <1>3

\* A step that registers nothing shows nothing untrue.
LEMMA TruthStays ==
    ASSUME Recovery!IInv, Recovery!WaitInv, NEW truth, Recovery!Told(truth), Recovery!Shown(truth),
           LocalStep, seenEvents' = seenEvents
    PROVE  Recovery!Told(truth)' /\ Recovery!Shown(truth)'
<1>1. Recovery!Told(truth)'
  BY DEF Recovery!Told
<1>2. QED
  BY <1>1, RecoveryAssumptions, Recovery!ShownKept DEF LocalStep

\* Nothing but a read of the market adds an answer to the heap.
LEMMA AnswersAdded ==
    ASSUME IInv, IInv', [Next]_vars
    PROVE  \/ \E e \in agenda : SnapshotRead(e)
           \/ \A f \in agenda' \ agenda : RankOf(f) # ResponseRank
<1>1. ASSUME NEW t, NEW queue, NEW waiting, NEW last, NEW armed, queue \subseteq agenda,
             RequestRecovery(t, queue, waiting, last, armed)
      PROVE  \A f \in agenda' \ agenda : RankOf(f) # ResponseRank
  BY <1>1 DEF RequestRecovery, TimeoutEvent, RankOf, ResponseRank, ReadRank, TimeoutRank
<1>2. ASSUME NEW e \in agenda, Step(e), ~SnapshotRead(e)
      PROVE  \A f \in agenda' \ agenda : RankOf(f) # ResponseRank
  <2>1. CASE Bootstrap(e) \/ RecoveryTimeout(e)
    <3>1. \/ agenda' = Rest(e)
          \/ \E waiting, last, armed : RequestRecovery(TimeOf(e), Rest(e), waiting, last, armed)
      BY <2>1 DEF Bootstrap, RecoveryTimeout
    <3>2. QED
      BY <1>1, <3>1 DEF Rest
  <2>2. CASE ~(Bootstrap(e) \/ RecoveryTimeout(e))
    BY <1>2, <2>2
       DEF Step, MarketMessage, UseResponse, IgnoreResponse, IgnoreTimeout, DecisionSubmit,
           DecisionSkip, Arrival, ArrivalUnknown, Report, AtDeadline, Drop, Rest, RankOf,
           ResponseRank, ReportRank, ArrivalRank
  <2>3. QED
    BY <2>1, <2>2
<1>3. ASSUME NEW m \in stream, NEW t \in 0 .. Deadline, Feed(m, t)
      PROVE  \A f \in agenda' \ agenda : RankOf(f) # ResponseRank
  BY <1>1, <1>3 DEF Feed
<1>4. QED
  BY <1>2, <1>3 DEF Next, Run, Finished, vars

\* The market's answer is true when its book is.
LEMMA AnswerIsTrue ==
    ASSUME IInv, NEW truth, TruthInv(truth), market.valid, NEW t, NEW id
    PROVE  Recovery!TrueTo(truth, ServiceSnapshot(t, id))
<1>1. market.seq \in Nat /\ market.depth = truth[market.seq]
  BY DEF IInv, TruthInv, NoSeq
<1>2. QED
  BY <1>1 DEF ServiceSnapshot, Recovery!TrueTo

\* Every step keeps both books and every queued answer true.
LEMMA TruthKeeps ==
    ASSUME IInv, IInv', NEW truth, TruthInv(truth), [Next]_vars
    PROVE  TruthInv(truth)'
<1>1. LocalStep /\ Recovery!IInv /\ Recovery!WaitInv
      /\ Recovery!Told(truth) /\ Recovery!Shown(truth)
  BY LocalMoves DEF IInv, TruthInv
<1>2. stream' = stream /\ stream \in Streams
  BY DEF Next, Run, Step, Finished, vars, Feed, MarketMessage, Bootstrap, SnapshotRead,
         UseResponse, IgnoreResponse, RecoveryTimeout, IgnoreTimeout, DecisionSubmit,
         DecisionSkip, Arrival, ArrivalUnknown, Report, AtDeadline, Drop, Open, Take, IInv
<1>3. Recovery!Told(truth)' /\ Recovery!Shown(truth)'
  <2>1. ASSUME NEW m \in stream, NEW t \in 0 .. Deadline, Feed(m, t)
        PROVE  Recovery!Told(truth)' /\ Recovery!Shown(truth)'
    <3>1. m \in (UNION Streams) \cup ServiceSnapshots /\ Local!Receive(m, t)
      BY <1>2, <2>1 DEF Feed
    <3>2. Recovery!TrueTo(truth, m)
      BY DEF TruthInv
    <3>3. QED
      BY <3>1, <3>2, TruthReceived
  <2>2. ASSUME NEW e \in agenda, UseResponse(e)
        PROVE  Recovery!Told(truth)' /\ Recovery!Shown(truth)'
    <3>1. TimeOf(e) \in 0 .. Deadline /\ EventOK(e) /\ RankOf(e) = ResponseRank
      BY <2>2, TakenInTime DEF UseResponse, Open
    <3>2. Local!Receive(Carried(e)[2], TimeOf(e)) /\ Carried(e)[2] \in ServiceSnapshots
      BY <2>2, <3>1 DEF UseResponse, EventOK
    <3>3. Recovery!TrueTo(truth, Carried(e)[2])
      BY <3>1 DEF TruthInv
    <3>4. QED
      BY <3>1, <3>2, <3>3, TruthReceived
  <2>3. CASE seenEvents' = seenEvents
    BY <1>1, <2>3, TruthStays
  <2>4. ASSUME NEW e \in agenda, Step(e), ~UseResponse(e)
        PROVE  seenEvents' = seenEvents
    <3>1. CASE Bootstrap(e) \/ RecoveryTimeout(e)
      BY <3>1 DEF Bootstrap, RecoveryTimeout, Local!CheckTimeout, Local!seen
    <3>2. CASE ~(Bootstrap(e) \/ RecoveryTimeout(e))
      BY <2>4, <3>2
         DEF Step, MarketMessage, SnapshotRead, IgnoreResponse, IgnoreTimeout, DecisionSubmit,
             DecisionSkip, Arrival, ArrivalUnknown, Report, AtDeadline, Drop, localVars
    <3>3. QED
      BY <3>1, <3>2
  <2>5. QED
    BY <2>1, <2>2, <2>3, <2>4 DEF Next, Run, Finished, vars, localVars
<1>4. market'.seq # NoSeq => market'.depth = truth[market'.seq]
  <2>1. ASSUME NEW e \in agenda, MarketMessage(e)
        PROVE  market'.seq # NoSeq => market'.depth = truth[market'.seq]
    BY <2>1, MarketTrue
  <2>2. CASE market' = market
    BY <2>2 DEF TruthInv
  <2>3. QED
    BY <2>1, <2>2
       DEF Next, Run, Step, Finished, vars, Feed, Bootstrap, SnapshotRead, UseResponse,
           IgnoreResponse, RecoveryTimeout, IgnoreTimeout, DecisionSubmit, DecisionSkip,
           Arrival, ArrivalUnknown, Report, AtDeadline, Drop
<1>5. \A f \in agenda' : RankOf(f) = ResponseRank => Recovery!TrueTo(truth, Carried(f)[2])
  <2>1. \A f \in agenda : RankOf(f) = ResponseRank => Recovery!TrueTo(truth, Carried(f)[2])
    BY DEF TruthInv
  <2>2. ASSUME NEW e \in agenda, SnapshotRead(e)
        PROVE  \A f \in agenda' \ agenda :
                   RankOf(f) = ResponseRank => Recovery!TrueTo(truth, Carried(f)[2])
    <3>1. \A f \in agenda' \ agenda :
              /\ market.valid
              /\ Carried(f)[2] = ServiceSnapshot(TimeOf(e), Carried(e))
      BY <2>2 DEF SnapshotRead, Rest, Carried
    <3>2. QED
      BY <3>1, AnswerIsTrue
  <2>3. QED
    BY <2>1, <2>2, AnswersAdded
<1>6. \A m \in stream' : Recovery!TrueTo(truth, m)
  BY <1>2 DEF TruthInv
<1>7. QED
  BY <1>3, <1>4, <1>5, <1>6 DEF TruthInv

\* The market and every consumer start knowing nothing, which is true.
LEMMA InitTruth ==
    ASSUME Init, NEW truth, \A m \in stream : Recovery!TrueTo(truth, m)
    PROVE  TruthInv(truth)
<1>1. Recovery!Init
  BY SameRecovery DEF Init
<1>2. Recovery!Told(truth) /\ Recovery!Shown(truth)
  BY <1>1 DEF Recovery!Init, Recovery!Told, Recovery!Shown, Recovery!Accepted
<1>3. market.seq = NoSeq
  BY DEF Init, InitBook
<1>4. \A e \in agenda : RankOf(e) # ResponseRank
  BY DEF Init, Decisions, RankOf, MarketRank, DecisionRank, BootstrapRank, DeadlineRank,
         ResponseRank
<1>5. QED
  BY <1>2, <1>3, <1>4 DEF TruthInv

\* The books of both sides and all that is known of them agree on one truth.
OneTruth == \E truth \in [Nat -> Depth] : TruthInv(truth)

\* In truthful sessions there always is one.
LEMMA TruthThroughout ==
    ASSUME \A session \in Streams : Truthful(session)
    PROVE  Spec => []OneTruth
<1>1. Init => OneTruth
  <2> SUFFICES ASSUME Init PROVE OneTruth
    OBVIOUS
  <2>1. PICK truth \in [Nat -> Depth] : \A m \in stream : Recovery!TrueTo(truth, m)
    BY DEF Init, Truthful
  <2>2. QED
    BY <2>1, InitTruth DEF OneTruth
<1>2. IInv /\ OneTruth /\ [Next]_vars => OneTruth'
  <2> SUFFICES ASSUME IInv, OneTruth, [Next]_vars PROVE OneTruth'
    OBVIOUS
  <2>1. PICK truth \in [Nat -> Depth] : TruthInv(truth)
    BY DEF OneTruth
  <2>2. IInv'
    BY StepKeeps
  <2>3. TruthInv(truth)'
    BY <2>1, <2>2, TruthKeeps
  <2>4. QED
    BY <2>3 DEF OneTruth
<1>3. QED
  BY <1>1, <1>2, Invariant, PTL DEF Spec

\* In truthful sessions the local book is, at the same sequence, the raw book
\* of the market, whether it came by the feed, by the service or by both, and
\* whatever either of them rejected on the way.
THEOREM LocalBookIsMarkets ==
    (\A session \in Streams : Truthful(session)) => (Spec => []LocalIsMarket)
<1> SUFFICES ASSUME \A session \in Streams : Truthful(session)
             PROVE  Spec => []LocalIsMarket
  OBVIOUS
<1>1. Spec => []OneTruth
  BY TruthThroughout
<1>2. OneTruth => LocalIsMarket
  BY DEF OneTruth, TruthInv, Recovery!Shown, Recovery!Accepted, Local!Accepted,
         LocalIsMarket, Recovery!NoSeq, Local!NoSeq, NoSeq
<1>3. QED
  BY <1>1, <1>2, PTL
-----------------------------------------------------------------------------
\* Whose fills weigh on the market's depth, and on the strategy's.

MarketEvent(m) == <<m.time, MarketRank, m>>

\* The market has taken or rejected message m.
Processed(m) == m \in stream /\ m.time <= Deadline /\ MarketEvent(m) \notin agenda

Traded(i) == orders[i].status \notin {"pending", "unknown"}

\* The floor of the market is above what it has seen.
FloorInv ==
    /\ \A e \in agenda : RankOf(e) = MarketRank => TimeOf(e) <= Deadline /\ ~closed
    /\ \A m \in stream : Processed(m) => m.seq <= market.floor
    /\ market.valid =>
           /\ market.floor = market.seq + 1
           /\ \A m \in stream : Processed(m) => m.seq <= market.seq
    /\ \A i \in DOMAIN orders : Traded(i) => orders[i].sequence < market.floor

\* The local book hears of the market's messages after the market, and of the
\* service's answers.
HeardInv ==
    \A m \in seenEvents :
        Processed(m) \/ (m.kind = "snapshot" /\ m.index > GeneratedIndex)

\* A fill at level k and market sequence q still weighs in a market whose last
\* snapshot is at b.
Stands(b, q, k) ==
    \/ Model = "persistent_debit"
    \/ q >= b /\ \A m \in stream : Processed(m) /\ m.seq > q => k \notin DOMAIN m.levels

Weighing(b, k) == {i \in DOMAIN orders : Traded(i) /\ Stands(b, orders[i].sequence, k)}

\* The market's book is a snapshot at b and one update per sequence after it.
BasedOn(b) ==
    /\ b <= market.seq
    /\ \E m \in stream : m.kind = "snapshot" /\ m.seq = b /\ Local!WellFormed(m)
    /\ \A m \in stream : Processed(m) /\ m.seq > b => m.kind = "update"
    /\ \A m, n \in stream :
           Processed(m) /\ Processed(n) /\ m.seq = n.seq /\ m.seq > b => m = n

DebitInv ==
    /\ actual.depth = Residual(market.depth, actual.debits)
    /\ market.valid \/ Model = "persistent_debit" =>
           \E b \in Nat :
               /\ market.valid => BasedOn(b)
               /\ \A k \in Keys :
                      actual.debits[k]
                          = SumFunctionOnSet(Took(actual.children, k), Weighing(b, k))

\* The refreshes the strategy knows of are those of the provenance, and every
\* one is of a message the local book heard of.
RefreshInv ==
    /\ \A m \in provenance :
           /\ m.kind = "snapshot" => m.seq <= known.refreshAll
           /\ m.kind = "update" =>
                  \A k \in Keys : k \in DOMAIN m.levels => m.seq <= known.refreshLevels[k]
    /\ known.refreshAll # NoSeq =>
           \E m \in seenEvents : m.kind = "snapshot" /\ m.seq = known.refreshAll
    /\ \A k \in Keys :
           known.refreshLevels[k] # NoSeq =>
               \E m \in seenEvents : /\ m.kind = "update" /\ k \in DOMAIN m.levels
                                     /\ m.seq = known.refreshLevels[k]

\* The depth belief follows the published book and the reports.
BeliefInv ==
    /\ known.raw = book.depth /\ known.depth = Residual(known.raw, Owed(known, Model))
    /\ RefreshInv

\* The names the local book shares with the engine mean the same.
LEMMA SameWellFormed == \A m : Local!WellFormed(m) <=> Recovery!WellFormed(m)
  BY DEF Local!WellFormed, Recovery!WellFormed, Local!Crossed, Recovery!Crossed, Local!Overlay,
         Recovery!Overlay, Local!EmptyDepth, Recovery!EmptyDepth, Local!Keys, Recovery!Keys,
         Local!Sides, Recovery!Sides

\* A market event in the heap is that of its message.
LEMMA EventOfMessage ==
    ASSUME IInv, NEW e \in agenda, RankOf(e) = MarketRank
    PROVE  Carried(e) \in stream /\ e = MarketEvent(Carried(e))
  BY DEF IInv, EventOK, MarketEvent

\* Only the market takes its messages from the heap, and nobody adds any.
LEMMA MarketHeap ==
    ASSUME IInv, FloorInv, [Next]_vars
    PROVE  \/ \E e \in agenda : MarketMessage(e)
           \/ /\ UNCHANGED <<market, stream>>
              /\ \A e \in agenda' : RankOf(e) = MarketRank => e \in agenda /\ ~closed'
              /\ \A e \in agenda : RankOf(e) = MarketRank => e \in agenda'
<1> USE DEF MarketRank, ReadRank, FeedRank, BootstrapRank, ResponseRank, ArrivalRank, ReportRank,
            DecisionRank, TimeoutRank, DeadlineRank
<1> DEFINE Stays == /\ UNCHANGED <<market, stream>>
                    /\ \A e \in agenda' : RankOf(e) = MarketRank => e \in agenda /\ ~closed'
                    /\ \A e \in agenda : RankOf(e) = MarketRank => e \in agenda'
<1>1. \A e \in agenda : RankOf(e) = MarketRank => TimeOf(e) <= Deadline /\ ~closed
  BY DEF FloorInv
<1>2. ASSUME NEW t, NEW queue, NEW waiting, NEW last, NEW armed,
             RequestRecovery(t, queue, waiting, last, armed)
      PROVE  queue \subseteq agenda' /\ \A f \in agenda' \ queue : RankOf(f) # MarketRank
  BY <1>2 DEF RequestRecovery, TimeoutEvent, RankOf
<1>3. ASSUME NEW m \in stream, NEW t \in 0 .. Deadline, Feed(m, t)
      PROVE  Stays
  BY <1>1, <1>2, <1>3 DEF Feed
<1>4. ASSUME NEW e \in agenda, Bootstrap(e) \/ RecoveryTimeout(e)
      PROVE  Stays
  <2>1. UNCHANGED <<market, stream, closed>> /\ RankOf(e) # MarketRank
    <3>1. \A rank : Open(e, rank) => stream' = stream /\ RankOf(e) = rank
      BY DEF Open, Take
    <3>2. Open(e, BootstrapRank) \/ Open(e, TimeoutRank)
      BY <1>4 DEF Bootstrap, RecoveryTimeout
    <3>3. UNCHANGED <<market, closed>>
      BY <1>4 DEF Bootstrap, RecoveryTimeout
    <3>4. QED
      BY <3>1, <3>2, <3>3
  <2>2. \/ agenda' = Rest(e)
        \/ \E waiting, last, armed : RequestRecovery(TimeOf(e), Rest(e), waiting, last, armed)
    BY <1>4 DEF Bootstrap, RecoveryTimeout
  <2>3. Rest(e) \subseteq agenda' /\ \A f \in agenda' \ Rest(e) : RankOf(f) # MarketRank
    BY <1>2, <2>2
  <2>4. QED
    BY <1>1, <2>1, <2>3 DEF Rest
<1>5. ASSUME NEW e \in agenda, AtDeadline(e)
      PROVE  Stays
  <2>1. /\ UNCHANGED <<market, stream>> /\ agenda' = agenda \ {e} /\ RankOf(e) = DeadlineRank
        /\ e = DeadlineEvent /\ \A f \in agenda : ~Precedes(f, e)
    BY <1>5 DEF AtDeadline, Open, Take, Rest, First, IInv, EventOK
  <2>2. ASSUME NEW f \in agenda, RankOf(f) = MarketRank
        PROVE  FALSE
    <3>1. TimeOf(f) \in Nat /\ TimeOf(f) <= Deadline /\ ~Precedes(f, e)
      BY <1>1, <2>1, <2>2 DEF IInv, EventOK
    <3>2. TimeOf(e) = Deadline
      BY <2>1 DEF DeadlineEvent, TimeOf
    <3>3. ~(TimeOf(f) < TimeOf(e)) /\ ~(TimeOf(f) = TimeOf(e) /\ RankOf(f) < RankOf(e))
      BY <3>1 DEF Precedes, Earlier, TimeOf, RankOf
    <3>4. QED
      BY <2>1, <2>2, <3>1, <3>2, <3>3, ScheduleAssumption
  <2>3. QED
    BY <2>1, <2>2
<1>6. ASSUME NEW e \in agenda, Drop(e)
      PROVE  Stays
  BY <1>1, <1>6 DEF Drop, Take, Rest
<1>7. ASSUME NEW e \in agenda, Step(e), ~MarketMessage(e), ~(Bootstrap(e) \/ RecoveryTimeout(e)),
             ~AtDeadline(e), ~Drop(e)
      PROVE  Stays
  <2>1. /\ UNCHANGED <<market, stream, closed>> /\ RankOf(e) # MarketRank
        /\ Rest(e) \subseteq agenda' /\ \A f \in agenda' \ Rest(e) : RankOf(f) # MarketRank
    BY <1>7
       DEF Step, SnapshotRead, UseResponse, IgnoreResponse, IgnoreTimeout, DecisionSubmit,
           DecisionSkip, Arrival, ArrivalUnknown, Report, Open, Take, RankOf
  <2>2. QED
    BY <1>1, <2>1 DEF Rest
<1>8. CASE UNCHANGED vars
  BY <1>1, <1>8 DEF vars
<1>9. QED
  BY <1>3, <1>4, <1>5, <1>6, <1>7, <1>8 DEF Next, Run, Finished

\* A market message is processed when the market takes it from the heap.
LEMMA ProcessedByMarket ==
    ASSUME IInv, FloorInv, NEW e \in agenda, MarketMessage(e)
    PROVE  /\ stream' = stream /\ Carried(e) \in stream
           /\ \A m : Processed(m)' <=> Processed(m) \/ m = Carried(e)
<1>1. /\ RankOf(e) = MarketRank /\ agenda' = agenda \ {e} /\ stream' = stream
      /\ TimeOf(e) <= Deadline
  BY DEF MarketMessage, Open, Take, Rest, FloorInv
<1>2. Carried(e) \in stream /\ e = MarketEvent(Carried(e))
  BY <1>1, EventOfMessage
<1>3. \A m : MarketEvent(m) = e <=> m = Carried(e)
  BY <1>2 DEF MarketEvent, Carried
<1>4. Carried(e).time <= Deadline
  BY <1>1, <1>2 DEF MarketEvent, TimeOf
<1>5. QED
  BY <1>1, <1>2, <1>3, <1>4 DEF Processed, MarketEvent

\* What the market has processed: one message more, or the same as before.
LEMMA ProcessedMoves ==
    ASSUME IInv, FloorInv, [Next]_vars
    PROVE  \/ \E e \in agenda : MarketMessage(e)
           \/ /\ UNCHANGED <<market, stream>> /\ \A m : Processed(m)' <=> Processed(m)
<1>1. CASE /\ UNCHANGED <<market, stream>>
           /\ \A e \in agenda' : RankOf(e) = MarketRank => e \in agenda /\ ~closed'
           /\ \A e \in agenda : RankOf(e) = MarketRank => e \in agenda'
  <2>1. \A m : RankOf(MarketEvent(m)) = MarketRank
    BY DEF MarketEvent, RankOf
  <2>2. \A m : MarketEvent(m) \in agenda' <=> MarketEvent(m) \in agenda
    BY <1>1, <2>1
  <2>3. QED
    BY <1>1, <2>2 DEF Processed, MarketEvent
<1>2. QED
  BY <1>1, MarketHeap

\* Who has traded stays so, and only an arrival adds to them.
LEMMA TradesStay ==
    ASSUME IInv, [Next]_vars, \A e \in agenda : ~Arrival(e)
    PROVE  \A i : /\ i \in DOMAIN orders' /\ Traded(i)' => i \in DOMAIN orders /\ Traded(i)
                  /\ i \in DOMAIN orders /\ Traded(i) =>
                         /\ i \in DOMAIN orders' /\ Traded(i)'
                         /\ orders'[i].sequence = orders[i].sequence
                         /\ actual'.children[i] = actual.children[i]
<1>1. ASSUME NEW e \in agenda, DecisionSubmit(e), NEW i
      PROVE  /\ i \in DOMAIN orders' /\ Traded(i)' => i \in DOMAIN orders /\ Traded(i)
             /\ i \in DOMAIN orders /\ Traded(i) =>
                    /\ i \in DOMAIN orders' /\ Traded(i)'
                    /\ orders'[i].sequence = orders[i].sequence
                    /\ actual'.children[i] = actual.children[i]
  <2>1. PICK n \in Nat :
            /\ DOMAIN orders' = DOMAIN orders \cup {n + 1}
            /\ \A j \in DOMAIN orders :
                   orders'[j] = orders[j] /\ actual'.children[j] = actual.children[j]
            /\ orders'[n + 1].status = "pending"
    BY <1>1, SubmitEffects
  <2>2. QED
    BY <2>1 DEF Traded
<1>2. ASSUME NEW e \in agenda, ArrivalUnknown(e), NEW i
      PROVE  /\ i \in DOMAIN orders' /\ Traded(i)' => i \in DOMAIN orders /\ Traded(i)
             /\ i \in DOMAIN orders /\ Traded(i) =>
                    /\ i \in DOMAIN orders' /\ Traded(i)'
                    /\ orders'[i].sequence = orders[i].sequence
                    /\ actual'.children[i] = actual.children[i]
  <2>1. /\ Carried(e) \in DOMAIN orders /\ Pending(Carried(e)) /\ orders \in Seq(Order)
        /\ orders' = [orders EXCEPT ![Carried(e)].status = "unknown"] /\ actual' = actual
    BY <1>2, TakenArrival DEF ArrivalUnknown, IInv, OrdersInv
  <2>2. QED
    BY <2>1 DEF Traded, Pending, Order
<1>3. ASSUME NEW e \in agenda, Report(e), NEW i
      PROVE  /\ i \in DOMAIN orders' /\ Traded(i)' => i \in DOMAIN orders /\ Traded(i)
             /\ i \in DOMAIN orders /\ Traded(i) =>
                    /\ i \in DOMAIN orders' /\ Traded(i)'
                    /\ orders'[i].sequence = orders[i].sequence
                    /\ actual'.children[i] = actual.children[i]
  <2>1. /\ orders \in Seq(Order) /\ actual' = actual
        /\ orders' = [orders EXCEPT ![Carried(e)[1]].received = TimeOf(e)]
    BY <1>3 DEF Report, IInv, OrdersInv
  <2>2. QED
    BY <2>1 DEF Traded, Order
<1>4. ASSUME NEW e \in agenda, Step(e), ~DecisionSubmit(e), ~ArrivalUnknown(e), ~Report(e)
      PROVE  orders' = orders /\ actual'.children = actual.children
  <2>1. ASSUME MarketMessage(e)
        PROVE  orders' = orders /\ actual'.children = actual.children
    BY <2>1 DEF MarketMessage, Observed, IInv, Sound
  <2>2. ASSUME ~MarketMessage(e)
        PROVE  orders' = orders /\ actual' = actual
    BY <1>4, <2>2
       DEF Step, Bootstrap, SnapshotRead, UseResponse, IgnoreResponse, RecoveryTimeout,
           IgnoreTimeout, DecisionSkip, AtDeadline, Drop
  <2>3. QED
    BY <2>1, <2>2
<1>5. ASSUME NEW m \in stream, NEW t \in 0 .. Deadline, Feed(m, t)
      PROVE  orders' = orders /\ actual'.children = actual.children
  BY <1>5 DEF Feed
<1>6. QED
  BY <1>1, <1>2, <1>3, <1>4, <1>5 DEF Next, Run, Finished, vars, Traded

\* An arrival that is taken executes its order at the market's sequence.
LEMMA ArrivalEffects ==
    ASSUME IInv, NEW e \in agenda, Arrival(e)
    PROVE  LET i == Carried(e)
           IN  /\ i \in DOMAIN orders /\ ~Traded(i) /\ i \in DOMAIN actual.children
               /\ actual.children[i].status = "reserved" /\ actual' = Executed(actual, i)
               /\ DOMAIN orders' = DOMAIN orders
               /\ Traded(i)' /\ orders'[i].sequence = market.seq
               /\ market.valid /\ market' = market
               /\ \A j \in DOMAIN orders \ {i} : orders'[j] = orders[j]
<1> DEFINE i == Carried(e)
           child == actual.children[i]
           fills == FillsOf(actual.depth, child.qty, child.limit)
           done == Outcome(child, fills)
<1>1. Open(e, ArrivalRank)
  BY DEF Arrival
<1>2. /\ i \in DOMAIN orders /\ Pending(i) /\ i \in DOMAIN actual.children
      /\ child.status = "reserved"
  BY <1>1, TakenArrival
<1>3. /\ market.valid /\ market' = market /\ actual' = Executed(actual, i)
      /\ orders' = [orders EXCEPT
             ![i] = [@ EXCEPT !.status = actual'.children[i].status,
                              !.response = TimeOf(e) + ResponseLatency, !.sequence = market.seq]]
  BY DEF Arrival
<1>4. Sound(actual) /\ orders \in Seq(Order)
  BY DEF IInv, OrdersInv
<1>5. /\ actual'.children = [actual.children EXCEPT ![i] = done]
      /\ done.status \in {"filled", "partial", "unfilled"}
  BY <1>2, <1>3, <1>4, ExecutedSound
<1>6. actual'.children[i].status \in {"filled", "partial", "unfilled"}
  BY <1>2, <1>5
<1>7. /\ DOMAIN orders' = DOMAIN orders /\ \A j \in DOMAIN orders \ {i} : orders'[j] = orders[j]
      /\ orders'[i].status = actual'.children[i].status /\ orders'[i].sequence = market.seq
  <2> DEFINE now == [orders[i] EXCEPT !.status = actual'.children[i].status,
                         !.response = TimeOf(e) + ResponseLatency, !.sequence = market.seq]
  <2>1. orders' = [orders EXCEPT ![i] = now]
    BY <1>3
  <2>2. orders[i] \in Order
    BY <1>2, <1>4
  <2>3. now.status = actual'.children[i].status /\ now.sequence = market.seq
    BY <2>2 DEF Order
  <2> HIDE DEF now, i
  <2>4. QED
    BY <1>2, <1>4, <2>1, <2>3
<1>8. Traded(i)' /\ ~Traded(i)
  BY <1>2, <1>6, <1>7 DEF Traded, Pending
<1>9. QED
  BY <1>2, <1>3, <1>7, <1>8

\* What a market message makes of the market's book.
LEMMA MessageEffects ==
    ASSUME IInv, FloorInv, NEW e \in agenda, MarketMessage(e)
    PROVE  LET m == Carried(e)
           IN  /\ m \in UNION Streams /\ m \in stream /\ m.seq \in Nat
               /\ market.floor \in Nat /\ market'.floor \in Nat
               /\ market.valid => market.seq \in Nat
               /\ \/ /\ ~market'.valid /\ market'.floor >= market.floor
                     /\ market'.floor >= m.seq /\ actual' = actual
                     /\ market'.depth = market.depth
                  \/ /\ market'.valid /\ market'.seq = m.seq /\ market'.floor = m.seq + 1
                     /\ Local!WellFormed(m) /\ m.seq >= market.floor
                     /\ actual' = Observed(actual, Model, market'.depth, m)
                     /\ \/ m.kind = "snapshot"
                        \/ m.kind = "update" /\ market.valid /\ m.seq = market.seq + 1
<1> DEFINE m == Carried(e)
<1>1. RankOf(e) = MarketRank
  BY DEF MarketMessage, Open
<1>2. m \in UNION Streams /\ m \in stream /\ m.seq \in Nat
  BY <1>1, EventOfMessage, MarketTypes DEF IInv
<1>3. market \in BookState /\ market.floor \in Nat /\ (market.valid => market.seq \in Nat)
      /\ (market.valid => market.floor = market.seq + 1)
  BY DEF IInv, BookState, FloorInv
<1>4. CASE ~Accepts(market, m)
  <2>1. market' = Reject(market, m.seq) /\ actual' = actual
    BY <1>4 DEF MarketMessage
  <2>2. /\ ~market'.valid /\ market'.floor = Larger(market.floor, m.seq)
        /\ market'.depth = market.depth
    BY <1>3, <2>1 DEF Reject, BookState
  <2>3. QED
    BY <1>2, <1>3, <2>1, <2>2 DEF Larger
<1>5. CASE Accepts(market, m)
  <2>1. /\ market' = Commit(market, m.seq, DepthAfter(market, m))
        /\ actual' = Observed(actual, Model, market'.depth, m)
    BY <1>5 DEF MarketMessage
  <2>2. market'.valid /\ market'.seq = m.seq /\ market'.floor = m.seq + 1
    BY <2>1 DEF Commit
  <2>3. Local!WellFormed(m)
    BY <1>2, <1>3, <1>5, AcceptedIsWellFormed, SameWellFormed
  <2>4. \/ m.kind = "snapshot" /\ m.seq >= market.floor
        \/ m.kind = "update" /\ market.valid /\ m.seq = market.seq + 1
    BY <1>5 DEF Accepts, AcceptsSnapshot, AcceptsUpdate
  <2>5. m.seq >= market.floor
    BY <1>2, <1>3, <2>4
  <2>6. QED
    BY <1>2, <1>3, <2>1, <2>2, <2>3, <2>4, <2>5
<1>6. QED
  BY <1>4, <1>5

\* The floor stays above what has been processed and where orders traded.
LEMMA FloorKeeps ==
    ASSUME IInv, FloorInv, [Next]_vars
    PROVE  FloorInv'
<1>1. \A e \in agenda' : RankOf(e) = MarketRank => TimeOf(e) <= Deadline /\ ~closed'
  <2>1. ASSUME NEW e \in agenda, MarketMessage(e)
        PROVE  agenda' \subseteq agenda /\ closed' = closed
    BY <2>1 DEF MarketMessage, Rest
  <2>2. QED
    BY <2>1, MarketHeap DEF FloorInv
<1>2. /\ \A m \in stream' : Processed(m)' => m.seq <= market'.floor
      /\ market'.valid => /\ market'.floor = market'.seq + 1
                          /\ \A m \in stream' : Processed(m)' => m.seq <= market'.seq
      /\ market'.floor >= market.floor
  <2>0. stream \in Streams /\ market.floor \in Nat /\ \A n \in stream : n.seq \in Nat
    BY MarketTypes DEF IInv, BookState
  <2>1. ASSUME NEW e \in agenda, MarketMessage(e)
        PROVE  /\ \A m \in stream' : Processed(m)' => m.seq <= market'.floor
               /\ market'.valid => /\ market'.floor = market'.seq + 1
                                   /\ \A m \in stream' : Processed(m)' => m.seq <= market'.seq
               /\ market'.floor >= market.floor
    BY <2>0, <2>1, MessageEffects, ProcessedByMarket DEF FloorInv
  <2>2. CASE UNCHANGED <<market, stream>> /\ \A m : Processed(m)' <=> Processed(m)
    BY <2>0, <2>2 DEF FloorInv
  <2>3. QED
    BY <2>1, <2>2, ProcessedMoves
<1>3. ASSUME NEW i \in DOMAIN orders', Traded(i)'
      PROVE  orders'[i].sequence < market'.floor
  <2>1. market.floor \in Nat /\ market'.floor \in Nat /\ market'.floor >= market.floor
    BY <1>2, StepKeeps DEF IInv, BookState
  <2>2. ASSUME i \in DOMAIN orders, Traded(i), orders'[i].sequence = orders[i].sequence
        PROVE  orders'[i].sequence < market'.floor
    <3>1. orders[i].sequence < market.floor /\ orders[i].sequence \in Nat
      BY <2>2 DEF FloorInv, IInv, OrdersInv, OrderOK, Traded
    <3>2. QED
      BY <2>1, <2>2, <3>1
  <2>3. CASE \E e \in agenda : Arrival(e)
    <3>1. PICK e \in agenda : Arrival(e)
      BY <2>3
    <3>2. CASE i = Carried(e)
      <4>1. orders'[i].sequence = market.seq /\ market.floor = market.seq + 1
            /\ market.seq \in Nat
        BY <3>1, <3>2, ArrivalEffects DEF FloorInv, IInv
      <4>2. QED
        BY <2>1, <4>1
    <3>3. CASE i # Carried(e)
      <4>1. i \in DOMAIN orders /\ orders'[i] = orders[i]
        BY <3>1, <3>3, ArrivalEffects
      <4>2. Traded(i)
        BY <1>3, <4>1 DEF Traded
      <4>3. QED
        BY <2>2, <4>1, <4>2
    <3>4. QED
      BY <3>2, <3>3
  <2>4. CASE \A e \in agenda : ~Arrival(e)
    BY <1>3, <2>2, <2>4, TradesStay
  <2>5. QED
    BY <2>3, <2>4
<1>4. QED
  BY <1>1, <1>2, <1>3 DEF FloorInv

\* A message of the feed comes after the market has processed it.
LEMMA HeardKeeps ==
    ASSUME IInv, FloorInv, HeardInv, [Next]_vars
    PROVE  HeardInv'
<1>1. \A m : Processed(m) => Processed(m)'
  BY ProcessedByMarket, ProcessedMoves
<1>2. CASE seenEvents' = seenEvents
  BY <1>1, <1>2 DEF HeardInv
<1>3. ASSUME NEW m, NEW t, Local!Receive(m, t)
      PROVE  seenEvents' \subseteq seenEvents \cup {m}
  BY <1>3 DEF Local!Receive, Local!RejectContent, Local!RepeatEvent, Local!ConflictEvent,
              Local!Register, Local!seen
<1>4. ASSUME NEW m \in stream, NEW t \in 0 .. Deadline, Feed(m, t)
      PROVE  HeardInv'
  <2>1. /\ m.time <= t /\ t <= Deadline /\ m.time \in Nat /\ t \in Nat
        /\ \A e \in agenda : Earlier(<<t, FeedRank>>, e)
        /\ Local!Receive(m, t)
    BY <1>4, MarketTypes, ScheduleAssumption DEF Feed, IInv
  <2>2. MarketEvent(m) \notin agenda
    <3>1. ~Earlier(<<t, FeedRank>>, MarketEvent(m))
      BY <2>1 DEF Earlier, MarketEvent, FeedRank, MarketRank
    <3>2. QED
      BY <2>1, <3>1
  <2>3. Processed(m)
    BY <2>1, <2>2, ScheduleAssumption DEF Processed
  <2>4. QED
    BY <1>1, <1>3, <2>1, <2>3 DEF HeardInv
<1>5. ASSUME NEW e \in agenda, UseResponse(e)
      PROVE  HeardInv'
  <2>1. /\ Local!Receive(Carried(e)[2], TimeOf(e))
        /\ RankOf(e) = ResponseRank
    BY <1>5 DEF UseResponse, Open
  <2>2. Carried(e)[2] \in ServiceSnapshots
    BY <2>1 DEF IInv, EventOK
  <2>3. Carried(e)[2].kind = "snapshot" /\ Carried(e)[2].index > GeneratedIndex
    BY <2>2 DEF ServiceSnapshots
  <2>4. QED
    BY <1>1, <1>3, <2>1, <2>3 DEF HeardInv
<1>6. ASSUME NEW e \in agenda, Step(e), ~UseResponse(e)
      PROVE  seenEvents' = seenEvents
  <2>1. CASE Bootstrap(e) \/ RecoveryTimeout(e)
    BY <2>1 DEF Bootstrap, RecoveryTimeout, Local!CheckTimeout, Local!seen
  <2>2. CASE ~(Bootstrap(e) \/ RecoveryTimeout(e))
    BY <1>6, <2>2
       DEF Step, MarketMessage, SnapshotRead, IgnoreResponse, IgnoreTimeout, DecisionSubmit,
           DecisionSkip, Arrival, ArrivalUnknown, Report, AtDeadline, Drop, localVars
  <2>3. QED
    BY <2>1, <2>2
<1>7. QED
  BY <1>2, <1>4, <1>5, <1>6 DEF Next, Run, Finished, vars, localVars

\* Sums of what traded orders took are of naturals, over a finite set.
LEMMA WeighingTypes ==
    ASSUME IInv, NEW b, NEW k \in Keys
    PROVE  /\ actual.children \in Seq(Child) /\ Weighing(b, k) \subseteq DOMAIN actual.children
           /\ DOMAIN orders = DOMAIN actual.children /\ IsFiniteSet(Weighing(b, k))
           /\ \A i \in DOMAIN actual.children : Took(actual.children, k)[i] \in Nat
<1>1. actual.children \in Seq(Child)
  BY DEF IInv, Sound
<1>2. DOMAIN orders = DOMAIN actual.children
  BY <1>1 DEF IInv, OrdersInv
<1>3. Weighing(b, k) \subseteq DOMAIN actual.children
  BY <1>2 DEF Weighing
<1>4. QED
  BY <1>1, <1>2, <1>3, TookType, FS_Subset

\* The debits are those of the orders that weigh from b on.
DebitsFrom(b) ==
    \A k \in Keys :
        actual.debits[k] = SumFunctionOnSet(Took(actual.children, k), Weighing(b, k))

\* A snapshot or a touching update supersedes every fill before it, and a
\* rejected message none.
LEMMA DebitByMessage ==
    ASSUME IInv, IInv', FloorInv, DebitInv, NEW e \in agenda, MarketMessage(e)
    PROVE  DebitInv'
<1> DEFINE m == Carried(e)
<1>1. /\ orders' = orders /\ stream' = stream /\ m \in stream
      /\ \A n : Processed(n)' <=> Processed(n) \/ n = m
  BY ProcessedByMarket DEF MarketMessage
<1>2. /\ m \in UNION Streams /\ m.seq \in Nat /\ market.floor \in Nat
      /\ market.valid => market.seq \in Nat
      /\ \A n \in stream : n.seq \in Nat
  BY MessageEffects, MarketTypes DEF IInv
<1>3. \A i : Traded(i)' <=> Traded(i)
  BY <1>1 DEF Traded
<1>4. /\ \A n \in stream : Processed(n) => n.seq <= market.floor
      /\ market.valid => /\ market.floor = market.seq + 1
                         /\ \A n \in stream : Processed(n) => n.seq <= market.seq
      /\ \A i \in DOMAIN orders : Traded(i) =>
             orders[i].sequence < market.floor /\ orders[i].sequence \in Nat
  BY DEF FloorInv, IInv, OrdersInv, OrderOK, Traded
<1>5. CASE ~market'.valid
  <2>1. actual' = actual /\ market'.depth = market.depth
    BY <1>5, MessageEffects
  <2>2. actual'.depth = Residual(market'.depth, actual'.debits)
    BY <2>1 DEF DebitInv
  <2>3. ASSUME Model = "persistent_debit"
        PROVE  \E b \in Nat : DebitsFrom(b)'
    <3>1. PICK b \in Nat : DebitsFrom(b)
      BY <2>3 DEF DebitInv, DebitsFrom
    <3>2. \A k \in Keys : Weighing(b, k)' = Weighing(b, k)
      BY <1>1, <1>3, <2>3 DEF Weighing, Stands
    <3>3. QED
      BY <2>1, <3>1, <3>2 DEF DebitsFrom
  <2>4. QED
    BY <1>5, <2>2, <2>3 DEF DebitInv, DebitsFrom
<1>6. CASE market'.valid
  <2>1. /\ market'.seq = m.seq /\ Local!WellFormed(m) /\ m.seq >= market.floor
        /\ actual' = Observed(actual, Model, market'.depth, m)
        /\ \/ m.kind = "snapshot"
           \/ m.kind = "update" /\ market.valid /\ m.seq = market.seq + 1
    BY <1>6, MessageEffects
  <2>2. Sound(actual) /\ market'.depth \in Depth /\ Model \in Models
    BY EngineAssumption DEF IInv, BookState
  <2>3. /\ actual'.children = actual.children
        /\ actual'.debits = Refresh(Model, actual.debits, m)
        /\ actual'.depth = Residual(market'.depth, actual'.debits)
    BY <2>1, <2>2, ObservedSound
  <2>4. CASE Model = "persistent_debit"
    <3>1. actual'.debits = actual.debits
      BY <2>3, <2>4 DEF Refresh
    <3>2. \A b, c, k : Weighing(b, k)' = Weighing(c, k)
      BY <1>1, <1>3, <2>4 DEF Weighing, Stands
    <3>3. PICK c \in Nat : DebitsFrom(c) /\ (market.valid => BasedOn(c))
      BY <2>4 DEF DebitInv, DebitsFrom
    <3>4. \A b : DebitsFrom(b)'
      BY <2>3, <3>1, <3>2, <3>3 DEF DebitsFrom
    <3>5. CASE m.kind = "snapshot"
      <4>1. BasedOn(m.seq)'
        BY <1>1, <1>2, <1>4, <2>1, <3>5 DEF BasedOn
      <4>2. QED
        BY <1>2, <2>3, <3>4, <4>1 DEF DebitInv, DebitsFrom
    <3>6. CASE m.kind = "update" /\ market.valid /\ m.seq = market.seq + 1
      <4>1. BasedOn(c)'
        BY <1>1, <1>2, <1>4, <2>1, <3>3, <3>6 DEF BasedOn
      <4>2. QED
        BY <2>3, <3>4, <4>1 DEF DebitInv, DebitsFrom
    <3>7. QED
      BY <2>1, <3>5, <3>6
  <2>5. CASE Model # "persistent_debit" /\ m.kind = "snapshot"
    <3>1. BasedOn(m.seq)'
      BY <1>1, <1>2, <1>4, <2>1, <2>5 DEF BasedOn
    <3>2. \A k \in Keys : Weighing(m.seq, k)' = {}
      BY <1>1, <1>2, <1>3, <1>4, <2>1, <2>5 DEF Weighing, Stands
    <3>3. actual'.debits = NoDebits
      BY <2>3, <2>5 DEF Refresh
    <3>4. DebitsFrom(m.seq)'
      BY <3>2, <3>3, SumEmpty DEF DebitsFrom, NoDebits
    <3>5. QED
      BY <1>2, <2>3, <3>1, <3>4 DEF DebitInv, DebitsFrom
  <2>6. CASE Model # "persistent_debit" /\ m.kind = "update"
    <3>1. market.valid /\ m.seq = market.seq + 1 /\ m.kind # "snapshot"
      BY <2>1, <2>6
    <3>2. PICK b \in Nat : DebitsFrom(b) /\ BasedOn(b)
      BY <3>1 DEF DebitInv, DebitsFrom
    <3>3. BasedOn(b)'
      BY <1>1, <1>2, <1>4, <2>1, <2>6, <3>1, <3>2 DEF BasedOn
    <3>4. ASSUME NEW k \in Keys
          PROVE  actual'.debits[k]
                     = SumFunctionOnSet(Took(actual'.children, k), Weighing(b, k)')
      <4>1. actual'.debits[k] = IF k \in DOMAIN m.levels THEN 0 ELSE actual.debits[k]
        BY <2>3, <2>6, <3>1 DEF Refresh
      <4>2. CASE k \in DOMAIN m.levels
        <5>1. \A i \in DOMAIN orders : Traded(i) => m.seq > orders[i].sequence
          BY <1>2, <1>4, <3>1
        <5>2. Weighing(b, k)' = {}
          BY <1>1, <1>3, <2>6, <4>2, <5>1 DEF Weighing, Stands
        <5>3. QED
          BY <4>1, <4>2, <5>2, SumEmpty
      <4>3. CASE k \notin DOMAIN m.levels
        <5>1. Weighing(b, k)' = Weighing(b, k)
          BY <1>1, <1>3, <4>3 DEF Weighing, Stands
        <5>2. QED
          BY <2>3, <3>2, <4>1, <4>3, <5>1 DEF DebitsFrom
      <4>4. QED
        BY <4>2, <4>3
    <3>5. QED
      BY <2>3, <3>3, <3>4 DEF DebitInv
  <2>7. QED
    BY <2>1, <2>4, <2>5, <2>6
<1>7. QED
  BY <1>5, <1>6

\* What an arrival takes weighs from then on.
LEMMA DebitByArrival ==
    ASSUME IInv, IInv', FloorInv, DebitInv, NEW e \in agenda, Arrival(e),
           stream' = stream, \A m : Processed(m)' <=> Processed(m)
    PROVE  DebitInv'
<1> DEFINE i == Carried(e)
           child == actual.children[i]
           fills == FillsOf(actual.depth, child.qty, child.limit)
           done == Outcome(child, fills)
<1>1. /\ i \in DOMAIN orders /\ ~Traded(i) /\ i \in DOMAIN actual.children
      /\ child.status = "reserved" /\ actual' = Executed(actual, i)
      /\ DOMAIN orders' = DOMAIN orders
      /\ Traded(i)' /\ orders'[i].sequence = market.seq
      /\ market.valid /\ market' = market
      /\ \A j \in DOMAIN orders \ {i} : orders'[j] = orders[j]
  BY ArrivalEffects
<1>2. Sound(actual) /\ market.depth \in Depth /\ market.seq \in Nat
  BY <1>1 DEF IInv, BookState
<1>3. /\ actual'.children = [actual.children EXCEPT ![i] = done]
      /\ actual'.debits = [k \in Keys |-> actual.debits[k] + Taken(fills, k)]
      /\ done.fills = fills
      /\ \A raw \in Depth : actual.depth = Residual(raw, actual.debits) =>
             actual'.depth = Residual(raw, actual'.debits)
  BY <1>1, <1>2, ExecutedSound
<1> HIDE DEF done, fills
<1>4. /\ DOMAIN actual'.children = DOMAIN actual.children
      /\ actual'.children[i] = done
      /\ \A j \in DOMAIN actual.children \ {i} : actual'.children[j] = actual.children[j]
  BY <1>1, <1>2, <1>3 DEF Sound
<1>5. PICK b \in Nat : BasedOn(b) /\ DebitsFrom(b)
  BY <1>1 DEF DebitInv, DebitsFrom
<1>6. BasedOn(b)'
  BY <1>1, <1>5 DEF BasedOn
<1>7. ASSUME NEW k \in Keys
      PROVE  actual'.debits[k] = SumFunctionOnSet(Took(actual'.children, k), Weighing(b, k)')
  <2>1. Weighing(b, k)' = Weighing(b, k) \cup {i}
    <3>1. Stands(b, market.seq, k)'
      <4>1. \A m \in stream : Processed(m) => m.seq <= market.seq /\ m.seq \in Nat
        BY <1>1, MarketTypes DEF FloorInv, IInv
      <4>2. market.seq >= b
        BY <1>2, <1>5 DEF BasedOn
      <4>3. QED
        BY <1>1, <1>2, <4>1, <4>2 DEF Stands
    <3>2. \A q : Stands(b, q, k)' <=> Stands(b, q, k)
      BY DEF Stands
    <3>3. \A j \in DOMAIN orders \ {i} :
              (Traded(j)' <=> Traded(j)) /\ orders'[j].sequence = orders[j].sequence
      BY <1>1 DEF Traded
    <3>4. \A j \in DOMAIN orders \ {i} : j \in Weighing(b, k)' <=> j \in Weighing(b, k)
      BY <1>1, <3>2, <3>3 DEF Weighing
    <3>5. i \in Weighing(b, k)'
      BY <1>1, <3>1 DEF Weighing
    <3>6. Weighing(b, k)' \subseteq DOMAIN orders /\ Weighing(b, k) \subseteq DOMAIN orders
      BY <1>1 DEF Weighing
    <3>7. QED
      BY <1>1, <3>4, <3>5, <3>6
  <2>2. /\ Weighing(b, k) \subseteq DOMAIN actual.children /\ IsFiniteSet(Weighing(b, k))
        /\ \A j \in DOMAIN actual.children : Took(actual.children, k)[j] \in Nat
    BY WeighingTypes
  <2>3. i \notin Weighing(b, k)
    BY <1>1 DEF Weighing
  <2>4. \A j \in DOMAIN actual.children : Took(actual'.children, k)[j] \in Nat
    <3>1. actual'.children \in Seq(Child)
      BY DEF IInv, Sound
    <3>2. QED
      BY <1>4, <3>1, TookType
  <2>5. \A j \in DOMAIN actual.children \ {i} :
            Took(actual.children, k)[j] = Took(actual'.children, k)[j]
    BY <1>4 DEF Took
  <2>6. Took(actual'.children, k)[i] = Taken(fills, k)
    BY <1>1, <1>3, <1>4 DEF Took
  <2>7. SumFunctionOnSet(Took(actual'.children, k), Weighing(b, k) \cup {i})
            = Took(actual'.children, k)[i]
                  + SumFunctionOnSet(Took(actual'.children, k), Weighing(b, k))
    BY <1>1, <2>2, <2>3, <2>4, SumAdd
  <2>8. SumFunctionOnSet(Took(actual.children, k), Weighing(b, k))
            = SumFunctionOnSet(Took(actual'.children, k), Weighing(b, k))
    BY <2>2, <2>3, <2>5, SumEqual
  <2>9. /\ actual'.debits[k] = actual.debits[k] + Taken(fills, k)
        /\ actual.debits[k] = SumFunctionOnSet(Took(actual.children, k), Weighing(b, k))
        /\ actual.debits[k] \in Nat /\ Taken(fills, k) \in Nat
    <3>1. actual.debits \in [Keys -> Nat]
      BY <1>2 DEF Sound
    <3>2. Taken(fills, k) \in Nat
      BY <1>1, <2>4, <2>6
    <3>3. actual'.debits[k] = actual.debits[k] + Taken(fills, k)
      BY <1>3
    <3>4. QED
      BY <1>5, <3>1, <3>2, <3>3 DEF DebitsFrom
  <2>10. QED
    BY <2>1, <2>6, <2>7, <2>8, <2>9
<1>8. actual'.depth = Residual(market'.depth, actual'.debits)
  BY <1>1, <1>2, <1>3 DEF DebitInv
<1>9. QED
  BY <1>6, <1>7, <1>8 DEF DebitInv

\* Every other event leaves the debits, what was traded and the market.
LEMMA DebitStays ==
    ASSUME IInv, DebitInv, [Next]_vars, UNCHANGED <<market, stream>>,
           \A m : Processed(m)' <=> Processed(m),
           \A e \in agenda : ~Arrival(e), \A e \in agenda : ~MarketMessage(e)
    PROVE  DebitInv'
<1>1. actual'.depth = actual.depth /\ actual'.debits = actual.debits
  <2>1. ASSUME NEW e \in agenda, DecisionSubmit(e)
        PROVE  actual'.depth = actual.depth /\ actual'.debits = actual.debits
    BY <2>1 DEF DecisionSubmit, Submitted, IInv, Sound
  <2>2. CASE actual' = actual
    BY <2>2
  <2>3. QED
    BY <2>1, <2>2
       DEF Next, Run, Step, Finished, vars, Feed, Bootstrap, SnapshotRead, UseResponse,
           IgnoreResponse, RecoveryTimeout, IgnoreTimeout, DecisionSkip, ArrivalUnknown,
           Report, AtDeadline, Drop
<1>2. \A i : /\ i \in DOMAIN orders' /\ Traded(i)' <=> i \in DOMAIN orders /\ Traded(i)
             /\ i \in DOMAIN orders /\ Traded(i) =>
                    /\ orders'[i].sequence = orders[i].sequence
                    /\ actual'.children[i] = actual.children[i]
  BY TradesStay
<1>3. ASSUME NEW b
      PROVE  BasedOn(b)' <=> BasedOn(b)
  BY DEF BasedOn
<1>4. ASSUME NEW b, NEW k \in Keys
      PROVE  /\ Weighing(b, k)' = Weighing(b, k)
             /\ SumFunctionOnSet(Took(actual'.children, k), Weighing(b, k))
                    = SumFunctionOnSet(Took(actual.children, k), Weighing(b, k))
  <2>1. \A q : Stands(b, q, k)' <=> Stands(b, q, k)
    BY DEF Stands
  <2>2. Weighing(b, k)' = Weighing(b, k)
    BY <1>2, <2>1 DEF Weighing
  <2>3. /\ Weighing(b, k) \subseteq DOMAIN actual.children /\ IsFiniteSet(Weighing(b, k))
        /\ \A i \in Weighing(b, k) : Took(actual.children, k)[i] \in Nat
    BY WeighingTypes
  <2>4. IInv'
    BY StepKeeps
  <2>5. DOMAIN orders' = DOMAIN actual'.children
    BY <2>4 DEF IInv, Sound, OrdersInv
  <2>6. \A i \in Weighing(b, k) : Took(actual.children, k)[i] = Took(actual'.children, k)[i]
    BY <1>2, <2>3, <2>5 DEF Weighing, Took
  <2>7. QED
    BY <2>2, <2>3, <2>6, SumEqual
<1>5. actual'.depth = Residual(market'.depth, actual'.debits)
  BY <1>1 DEF DebitInv
<1>6. ASSUME NEW b \in Nat, market.valid => BasedOn(b), DebitsFrom(b)
      PROVE  (market'.valid => BasedOn(b)') /\ DebitsFrom(b)'
  BY <1>1, <1>3, <1>4, <1>6 DEF DebitsFrom
<1>7. QED
  BY <1>5, <1>6 DEF DebitInv, DebitsFrom

LEMMA DebitKeeps ==
    ASSUME IInv, FloorInv, DebitInv, [Next]_vars
    PROVE  DebitInv'
<1>1. IInv'
  BY StepKeeps
<1>2. CASE \E e \in agenda : MarketMessage(e)
  BY <1>1, <1>2, DebitByMessage
<1>3. CASE \A e \in agenda : ~MarketMessage(e)
  <2>1. UNCHANGED <<market, stream>> /\ \A m : Processed(m)' <=> Processed(m)
    BY <1>3, ProcessedMoves
  <2>2. CASE \E e \in agenda : Arrival(e)
    BY <1>1, <2>1, <2>2, DebitByArrival
  <2>3. CASE \A e \in agenda : ~Arrival(e)
    BY <1>3, <2>1, <2>3, DebitStays
  <2>4. QED
    BY <2>2, <2>3
<1>4. QED
  BY <1>2, <1>3

\* Without a publication the last book and its provenance stay, and no message
\* is ever unseen.
LEMMA ViewStays ==
    ASSUME Recovery!IInv, LocalStep
    PROVE  /\ publication' = publication => book'.depth = book.depth /\ provenance' = provenance
           /\ seenEvents \subseteq seenEvents' /\ provenance' \subseteq seenEvents'
<1>1. Recovery!Suspended \/ Recovery!Delivered \/ Recovery!Still
  BY RecoveryAssumptions, Recovery!NextPreserves DEF LocalStep
<1>2. publication \in Nat
  BY DEF Recovery!IInv, Recovery!CoreInv
<1>3. publication' = publication => book'.depth = book.depth /\ provenance' = provenance
  <2>1. CASE Recovery!Suspended
    BY <2>1, Recovery!SuspendedBook
       DEF Recovery!Suspended, Recovery!published, Recovery!IInv
  <2>2. CASE Recovery!Delivered
    BY <1>2, <2>2 DEF Recovery!Delivered
  <2>3. CASE Recovery!Still
    BY <2>3 DEF Recovery!Still, Recovery!published
  <2>4. QED
    BY <1>1, <2>1, <2>2, <2>3
<1>4. seenEvents \subseteq seenEvents'
  BY RecoveryAssumptions, Recovery!StepKinds
     DEF LocalStep, Recovery!Quiet, Recovery!Dropped, Recovery!TakesIn, Recovery!Registered
<1>5. provenance' \subseteq seenEvents'
  BY DEF LocalStep, Recovery!WaitInv
<1>6. QED
  BY <1>3, <1>4, <1>5

\* A publication records the refreshes of all it applies, and of nothing else.
LEMMA RefreshByPublication ==
    ASSUME IInv, LocalStep, TellKnown, publication' # publication, RefreshInv
    PROVE  RefreshInv'
<1> DEFINE applied == provenance' \ provenance
<1>1. /\ seenEvents \subseteq seenEvents' /\ provenance' \subseteq seenEvents'
      /\ known.refreshAll \in Int /\ \A k \in Keys : known.refreshLevels[k] \in Int
      /\ \A m \in provenance' : m.seq \in Nat
  BY ViewStays, LocalTypesAfter DEF IInv, KnownInv, KnownLedgers, Numbers, NoSeq
<1>2. /\ known'.refreshAll \in Int /\ known.refreshAll <= known'.refreshAll
      /\ \A m \in applied : m.kind = "snapshot" => m.seq <= known'.refreshAll
      /\ \/ known'.refreshAll = known.refreshAll
         \/ \E m \in applied : m.kind = "snapshot" /\ m.seq = known'.refreshAll
  BY PublicationSnapshot DEF Numbers, NoSeq
<1>3. ASSUME NEW k \in Keys
      PROVE  /\ known'.refreshLevels[k] \in Int
             /\ known.refreshLevels[k] <= known'.refreshLevels[k]
             /\ \A m \in applied : m.kind = "update" /\ k \in DOMAIN m.levels =>
                    m.seq <= known'.refreshLevels[k]
             /\ \/ known'.refreshLevels[k] = known.refreshLevels[k]
                \/ \E m \in applied : /\ m.kind = "update" /\ k \in DOMAIN m.levels
                                      /\ m.seq = known'.refreshLevels[k]
  BY PublicationUpdate DEF Numbers, NoSeq
<1>4. ASSUME NEW m \in provenance', m.kind = "snapshot"
      PROVE  m.seq <= known'.refreshAll
  <2>1. m \in provenance => m.seq <= known.refreshAll
    BY <1>4 DEF RefreshInv
  <2>2. QED
    BY <1>1, <1>2, <1>4, <2>1
<1>5. ASSUME NEW m \in provenance', m.kind = "update", NEW k \in Keys, k \in DOMAIN m.levels
      PROVE  m.seq <= known'.refreshLevels[k]
  <2>1. m \in provenance => m.seq <= known.refreshLevels[k]
    BY <1>5 DEF RefreshInv
  <2>2. QED
    BY <1>1, <1>3, <1>5, <2>1
<1>6. known'.refreshAll # NoSeq =>
          \E m \in seenEvents' : m.kind = "snapshot" /\ m.seq = known'.refreshAll
  BY <1>1, <1>2 DEF RefreshInv
<1>7. ASSUME NEW k \in Keys, known'.refreshLevels[k] # NoSeq
      PROVE  \E m \in seenEvents' : /\ m.kind = "update" /\ k \in DOMAIN m.levels
                                    /\ m.seq = known'.refreshLevels[k]
  BY <1>1, <1>3, <1>7 DEF RefreshInv
<1> HIDE DEF applied
<1>8. QED
  BY <1>4, <1>5, <1>6, <1>7 DEF RefreshInv

\* Without one they stay.
LEMMA RefreshStays ==
    ASSUME IInv, LocalStep, publication' = publication, RefreshInv,
           known'.refreshAll = known.refreshAll, known'.refreshLevels = known.refreshLevels
    PROVE  RefreshInv'
<1>1. provenance' = provenance /\ seenEvents \subseteq seenEvents'
  BY ViewStays DEF IInv
<1>2. QED
  BY <1>1 DEF RefreshInv

\* A submission weighs on nothing yet.
LEMMA SubmitOwes ==
    ASSUME IInv, NEW e \in agenda, DecisionSubmit(e)
    PROVE  /\ known'.raw = known.raw /\ known'.depth = known.depth
           /\ known'.refreshAll = known.refreshAll /\ known'.refreshLevels = known.refreshLevels
           /\ Owed(known', Model) = Owed(known, Model)
<1>1. known' = Reserve(known, Chosen(e), LimitPrice) /\ known \in KnownLedgers
  BY DEF DecisionSubmit, IInv, KnownInv
<1>2. /\ known'.raw = known.raw /\ known'.depth = known.depth
      /\ known'.refreshAll = known.refreshAll /\ known'.refreshLevels = known.refreshLevels
  BY <1>1 DEF Reserve, KnownLedgers
<1>3. PICK n \in Nat :
          /\ n + 1 \notin DOMAIN orders /\ known'.receipts[n + 1] = NoSeq
          /\ known'.children \in Seq(Child)
          /\ DOMAIN known'.children = DOMAIN orders \cup {n + 1}
          /\ DOMAIN known.children = DOMAIN orders /\ known.children \in Seq(Child)
          /\ \A i \in DOMAIN orders : /\ known'.children[i] = known.children[i]
                                      /\ known'.receipts[i] = known.receipts[i]
  <2>1. PICK n \in Nat :
            /\ n = Len(orders) /\ DOMAIN orders' = DOMAIN orders \cup {n + 1}
            /\ n + 1 \notin DOMAIN orders
            /\ orders' \in Seq(Order) /\ Len(orders') = n + 1
            /\ \A i \in DOMAIN orders : /\ known'.children[i] = known.children[i]
                                        /\ known'.receipts[i] = known.receipts[i]
            /\ KnownInv' /\ Len(known'.children) = n + 1 /\ known'.receipts[n + 1] = NoSeq
    BY SubmitEffects
  <2>2. /\ known'.children \in Seq(Child) /\ known.children \in Seq(Child)
        /\ Len(known.children) = Len(orders) /\ orders \in Seq(Order)
    BY <2>1 DEF KnownInv, KnownLedgers, IInv, OrdersInv
  <2>3. /\ DOMAIN known'.children = 1 .. Len(known'.children) /\ DOMAIN orders' = 1 .. Len(orders')
    BY <2>1, <2>2
  <2>4. DOMAIN known.children = 1 .. Len(known.children) /\ DOMAIN orders = 1 .. Len(orders)
    BY <2>2
  <2>5. QED
    BY <2>1, <2>2, <2>3, <2>4
<1>4. \A k \in Keys : Weighty(known, Model, k) = Weighty(known', Model, k)
  BY <1>2, <1>3 DEF Weighty, InForce
<1>5. Owed(known, Model) = Owed(known', Model)
  BY <1>3, <1>4, OwedEqual
<1>6. QED
  BY <1>2, <1>5

\* The belief follows at every step.
LEMMA BeliefKeeps ==
    ASSUME IInv, BeliefInv, [Next]_vars
    PROVE  BeliefInv'
<1>1. LocalStep /\ Recovery!IInv
  BY LocalMoves DEF IInv
<1>2. publication' = publication => book'.depth = book.depth
  BY <1>1, ViewStays
<1>3. ASSUME TellKnown
      PROVE  BeliefInv'
  <2>1. CASE publication' # publication
    <3>1. known'.raw = book'.depth /\ known'.depth = Residual(known'.raw, Owed(known', Model))
      BY <1>1, <1>3, <2>1, PublicationTells
    <3>2. RefreshInv'
      BY <1>1, <1>3, <2>1, RefreshByPublication DEF BeliefInv
    <3>3. QED
      BY <3>1, <3>2 DEF BeliefInv
  <2>2. CASE publication' = publication
    <3>1. known' = known
      BY <1>3, <2>2 DEF TellKnown
    <3>2. RefreshInv'
      BY <1>1, <2>2, <3>1, RefreshStays DEF BeliefInv
    <3>3. QED
      BY <1>2, <2>2, <3>1, <3>2 DEF BeliefInv
  <2>3. QED
    BY <2>1, <2>2
<1>4. ASSUME publication' = publication, known'.raw = known.raw,
             known'.refreshAll = known.refreshAll, known'.refreshLevels = known.refreshLevels,
             known'.depth = Residual(known'.raw, Owed(known', Model))
      PROVE  BeliefInv'
  BY <1>1, <1>2, <1>4, RefreshStays DEF BeliefInv
<1>5. ASSUME NEW e \in agenda, Report(e)
      PROVE  BeliefInv'
  <2>1. publication' = publication
    BY <1>5 DEF Report, localVars
  <2>2. /\ known'.raw = known.raw /\ known'.refreshAll = known.refreshAll
        /\ known'.refreshLevels = known.refreshLevels
        /\ known'.depth = Residual(known'.raw, Owed(known', Model))
    BY <1>5, ReportEffects
  <2>3. QED
    BY <1>4, <2>1, <2>2
<1>6. ASSUME NEW e \in agenda, DecisionSubmit(e)
      PROVE  BeliefInv'
  <2>1. publication' = publication
    BY <1>6 DEF DecisionSubmit, localVars
  <2>2. known.depth = Residual(known.raw, Owed(known, Model))
    BY DEF BeliefInv
  <2>3. QED
    BY <1>4, <1>6, <2>1, <2>2, SubmitOwes
<1>7. ASSUME known' = known, publication' = publication
      PROVE  BeliefInv'
  BY <1>4, <1>7 DEF BeliefInv
<1>8. ASSUME NEW e \in agenda, Step(e), ~UseResponse(e), ~Report(e), ~DecisionSubmit(e)
      PROVE  known' = known /\ publication' = publication
  <2>1. CASE Bootstrap(e) \/ RecoveryTimeout(e)
    BY <2>1 DEF Bootstrap, RecoveryTimeout, Local!CheckTimeout, Local!StillWaiting,
                Local!StartEpisode, Local!Expire, Local!ResetAndRestart, Local!published
  <2>2. CASE ~(Bootstrap(e) \/ RecoveryTimeout(e))
    BY <1>8, <2>2
       DEF Step, MarketMessage, SnapshotRead, IgnoreResponse, IgnoreTimeout, DecisionSkip,
           Arrival, ArrivalUnknown, AtDeadline, Drop, localVars
  <2>3. QED
    BY <2>1, <2>2
<1>9. ASSUME NEW m \in stream, NEW t \in 0 .. Deadline, Feed(m, t)
      PROVE  TellKnown
  BY <1>9 DEF Feed
<1>10. ASSUME NEW e \in agenda, UseResponse(e)
       PROVE  TellKnown
  BY <1>10 DEF UseResponse
<1>11. UNCHANGED vars => known' = known /\ publication' = publication
  BY DEF vars, localVars
<1>12. QED
  BY <1>3, <1>5, <1>6, <1>7, <1>8, <1>9, <1>10, <1>11 DEF Next, Run, Finished

-----------------------------------------------------------------------------
\* All of it is inductive.

\* What both sides debit, and the provenance that tells of the refreshes.
WeighInv == FloorInv /\ HeardInv /\ DebitInv /\ BeliefInv /\ Recovery!ChainInv

LEMMA InitWeighs == Init => WeighInv
<1> SUFFICES ASSUME Init PROVE WeighInv
  OBVIOUS
<1> USE DEF MarketRank, DecisionRank, BootstrapRank, DeadlineRank
<1>1. Recovery!Init /\ seenEvents = {} /\ provenance = {} /\ book.depth = EmptyDepth
  BY SameRecovery DEF Init, Local!Init, Local!EmptyDepth, EmptyDepth, Local!Keys, Keys,
                      Local!Sides, Sides
<1>2. \A m \in stream : ~Processed(m)
  BY DEF Init, Processed, MarketEvent
<1>3. FloorInv
  <2>1. \A e \in agenda : RankOf(e) = MarketRank => TimeOf(e) <= Deadline /\ ~closed
    BY DEF Init, RankOf, TimeOf, Decisions
  <2>2. ~market.valid /\ DOMAIN orders = {}
    BY DEF Init, InitBook
  <2>3. QED
    BY <1>2, <2>1, <2>2 DEF FloorInv
<1>4. HeardInv
  BY <1>1 DEF HeardInv
<1>5. DebitInv
  <2>1. /\ market.depth = EmptyDepth /\ ~market.valid
        /\ actual.depth = EmptyDepth /\ actual.debits = NoDebits
    BY DEF Init, InitBook, EmptyLedger
  <2>2. Residual(EmptyDepth, NoDebits) = EmptyDepth
    BY DEF Residual, EmptyDepth, NoDebits, Larger
  <2>3. \A k \in Keys : Weighing(0, k) = {}
    BY DEF Init, Weighing
  <2>4. \A k \in Keys :
            actual.debits[k] = SumFunctionOnSet(Took(actual.children, k), Weighing(0, k))
    BY <2>1, <2>3, SumEmpty DEF NoDebits
  <2>5. QED
    BY <2>1, <2>2, <2>4 DEF DebitInv
<1>6. BeliefInv
  <2>1. /\ known.raw = EmptyDepth /\ known.depth = EmptyDepth /\ known.children = <<>>
        /\ known.refreshAll = NoSeq /\ \A k \in Keys : known.refreshLevels[k] = NoSeq
    BY DEF Init, UnknownOrders
  <2>2. Owed(known, Model) = NoDebits
    <3>1. \A k \in Keys : Weighty(known, Model, k) = {}
      BY <2>1 DEF Weighty
    <3>2. QED
      BY <3>1, SumEmpty DEF Owed, NoDebits
  <2>3. Residual(EmptyDepth, NoDebits) = EmptyDepth
    BY DEF Residual, EmptyDepth, NoDebits, Larger
  <2>4. QED
    BY <1>1, <2>1, <2>2, <2>3 DEF BeliefInv, RefreshInv
<1>7. Recovery!ChainInv
  BY <1>1 DEF Recovery!Init, Recovery!ChainInv, Recovery!Accepted, Recovery!NoSeq
<1>8. QED
  BY <1>3, <1>4, <1>5, <1>6, <1>7 DEF WeighInv

LEMMA WeighKeeps == IInv /\ WeighInv /\ [Next]_vars => WeighInv'
<1> SUFFICES ASSUME IInv, WeighInv, [Next]_vars PROVE WeighInv'
  OBVIOUS
<1>1. FloorInv' /\ HeardInv' /\ DebitInv' /\ BeliefInv'
  BY FloorKeeps, HeardKeeps, DebitKeeps, BeliefKeeps DEF WeighInv
<1>2. Recovery!ChainInv'
  BY LocalMoves, RecoveryAssumptions, Recovery!ChainInvPreserved DEF IInv, WeighInv, LocalStep
<1>3. QED
  BY <1>1, <1>2 DEF WeighInv

-----------------------------------------------------------------------------
\* Where the two books are level.

\* What the strategy knows of a reported order is what became of it.
LEMMA ReportedOrder ==
    ASSUME IInv, NEW i \in DOMAIN orders
    PROVE  /\ i \in DOMAIN known.children /\ i \in DOMAIN actual.children
           /\ known.receipts[i] # NoSeq =>
                  /\ Traded(i) /\ known.children[i] = actual.children[i]
                  /\ known.receipts[i] = orders[i].sequence
           /\ Traded(i) => orders[i].sequence \in Nat
           /\ Traded(i) /\ known.children = actual.children => known.receipts[i] # NoSeq
<1>1. /\ orders \in Seq(Order) /\ OrderOK(i) /\ Len(actual.children) = Len(orders)
      /\ actual.children \in Seq(Child) /\ known.children \in Seq(Child)
      /\ Len(known.children) = Len(orders)
  BY DEF IInv, OrdersInv, Sound, KnownInv, KnownLedgers
<1>2. i \in DOMAIN known.children /\ i \in DOMAIN actual.children
  BY <1>1
<1>3. /\ known.receipts[i] # NoSeq =>
             /\ Traded(i) /\ known.children[i] = actual.children[i]
             /\ known.receipts[i] = orders[i].sequence
      /\ Traded(i) => orders[i].sequence \in Nat
  BY <1>1 DEF OrderOK, Traded
<1>4. ASSUME Traded(i), known.children = actual.children
      PROVE  known.receipts[i] # NoSeq
  <2>1. orders[i].status # "reserved" /\ orders[i].sequence \in Nat
    <3>1. orders[i] \in Order
      BY <1>1
    <3>2. orders[i].status # "reserved"
      BY <3>1 DEF Order
    <3>3. QED
      BY <1>3, <1>4, <3>2
  <2>2. actual.children[i].status = orders[i].status
    BY <1>1, <1>4 DEF OrderOK, Traded
  <2>3. orders[i].received # None
    BY <1>1, <1>4, <2>1, <2>2 DEF OrderOK, NewChild
  <2>4. QED
    BY <1>1, <2>1, <2>3 DEF OrderOK, NoSeq
<1>5. QED
  BY <1>2, <1>3, <1>4

\* What a usable book at the market's sequence was made of, and that the market
\* has processed the updates among it.
LEMMA LevelProvenance ==
    ASSUME IInv, WeighInv, NEW truth, TruthInv(truth),
           book.valid, market.valid, market.seq = book.seq
    PROVE  /\ market.seq \in Nat
           /\ \E s \in provenance :
                  /\ s.kind = "snapshot" /\ s.seq \in Nat /\ s.seq <= known.refreshAll
                  /\ \A n \in s.seq + 1 .. market.seq :
                         \E u \in provenance : /\ u.seq = n /\ u.kind = "update"
                                               /\ Processed(u) /\ Local!WellFormed(u)
<1>1. market.seq \in Nat /\ Recovery!Accepted
  BY DEF IInv, Recovery!Accepted, Recovery!NoSeq
<1>2. PICK s \in provenance :
          Recovery!Explains(s, provenance \ {s}, book.seq, book.depth, stateTime)
  BY <1>1 DEF WeighInv, Recovery!ChainInv
<1>3. /\ s.kind = "snapshot" /\ s \in (UNION Streams) \cup ServiceSnapshots
      /\ \A u \in provenance \ {s} : u.kind = "update"
      /\ {u.seq : u \in provenance \ {s}} = s.seq + 1 .. market.seq
  BY <1>2 DEF Recovery!Explains, Recovery!Gapless
<1>4. s.seq \in Nat
  BY <1>3, RecoveryAssumptions DEF Recovery!FeedAssumption, Recovery!IsMessage
<1>5. s.seq <= known.refreshAll
  BY <1>3 DEF WeighInv, BeliefInv, RefreshInv
<1>6. ASSUME NEW n \in s.seq + 1 .. market.seq
      PROVE  \E u \in provenance : /\ u.seq = n /\ u.kind = "update"
                                   /\ Processed(u) /\ Local!WellFormed(u)
  <2>1. PICK u \in provenance \ {s} : u.seq = n
    BY <1>3
  <2>2. u \in seenEvents /\ u.kind = "update"
    BY <1>3, <2>1 DEF IInv, Recovery!WaitInv
  <2>3. Processed(u)
    BY <2>2 DEF WeighInv, HeardInv
  <2>4. Local!WellFormed(u)
    BY <2>2, SameWellFormed DEF TruthInv, Recovery!Told
  <2>5. QED
    BY <2>1, <2>2, <2>3, <2>4
<1>7. QED
  BY <1>1, <1>3, <1>4, <1>5, <1>6

\* What weighs by the strategy's reckoning weighs in the market.
LEMMA BelievedWeighs ==
    ASSUME IInv, WeighInv, NEW truth, TruthInv(truth),
           book.valid, market.valid, market.seq = book.seq,
           Model = "persistent_debit" \/ SnapshotsApart(stream),
           NEW b \in Nat, BasedOn(b), NEW k \in Keys, NEW i \in Weighty(known, Model, k)
    PROVE  i \in Weighing(b, k) /\ known.children[i] = actual.children[i]
<1> DEFINE q == orders[i].sequence
<1>1. i \in DOMAIN orders /\ known.receipts[i] # NoSeq /\ InForce(known, Model, i, k)
  <2>1. /\ i \in DOMAIN known.children /\ known.receipts[i] # NoSeq
        /\ InForce(known, Model, i, k)
    BY DEF Weighty
  <2>2. DOMAIN known.children = DOMAIN orders
    BY DEF IInv, OrdersInv, KnownInv, KnownLedgers
  <2>3. QED
    BY <2>1, <2>2
<1>2. /\ Traded(i) /\ known.children[i] = actual.children[i]
      /\ known.receipts[i] = q /\ q \in Nat
  BY <1>1, ReportedOrder
<1>3. CASE Model = "persistent_debit"
  BY <1>1, <1>2, <1>3 DEF Weighing, Stands
<1>4. CASE Model # "persistent_debit"
  <2>1. known.refreshAll \in Int /\ known.refreshLevels[k] \in Int
    BY DEF IInv, KnownInv, KnownLedgers, Numbers, NoSeq
  <2>2. q >= known.refreshAll /\ q >= known.refreshLevels[k]
    BY <1>1, <1>2, <1>4, <2>1 DEF InForce, Larger
  <2>3. /\ market.seq \in Nat
        /\ \E s \in provenance :
               /\ s.kind = "snapshot" /\ s.seq \in Nat /\ s.seq <= known.refreshAll
               /\ \A n \in s.seq + 1 .. market.seq :
                      \E u \in provenance : /\ u.seq = n /\ u.kind = "update"
                                            /\ Processed(u) /\ Local!WellFormed(u)
    BY LevelProvenance
  <2>4. PICK s \in provenance :
            /\ s.seq \in Nat /\ s.seq <= known.refreshAll
            /\ \A n \in s.seq + 1 .. market.seq :
                   \E u \in provenance : /\ u.seq = n /\ u.kind = "update"
                                         /\ Processed(u) /\ Local!WellFormed(u)
    BY <2>3
  <2>5. s.seq <= q
    BY <1>2, <2>1, <2>2, <2>4
  <2>6. ASSUME q < b PROVE FALSE
    <3>1. b \in s.seq + 1 .. market.seq
      BY <1>2, <2>3, <2>4, <2>5, <2>6 DEF BasedOn
    <3>2. PICK u \in provenance : /\ u.seq = b /\ u.kind = "update"
                                  /\ Processed(u) /\ Local!WellFormed(u)
      BY <2>4, <3>1
    <3>3. PICK m \in stream : m.kind = "snapshot" /\ m.seq = b /\ Local!WellFormed(m)
      BY DEF BasedOn
    <3>4. u \in stream
      BY <3>2 DEF Processed
    <3>5. QED
      BY <1>4, <3>2, <3>3, <3>4 DEF SnapshotsApart
  <2>7. ASSUME NEW m \in stream, Processed(m), m.seq > q, k \in DOMAIN m.levels
        PROVE  FALSE
    <3>1. m.seq \in Nat /\ m.seq <= market.seq
      BY <2>7, MarketTypes DEF WeighInv, FloorInv, IInv
    <3>2. m.seq > b /\ m.kind = "update"
      BY <1>2, <2>6, <2>7, <3>1 DEF BasedOn
    <3>3. m.seq \in s.seq + 1 .. market.seq
      BY <1>2, <2>3, <2>4, <2>5, <2>7, <3>1
    <3>4. PICK u \in provenance : u.seq = m.seq /\ u.kind = "update" /\ Processed(u)
      BY <2>4, <3>3
    <3>5. u = m
      <4>1. u \in stream
        BY <3>4 DEF Processed
      <4>2. QED
        BY <2>7, <3>2, <3>4, <4>1 DEF BasedOn
    <3>6. m.seq <= known.refreshLevels[k]
      BY <2>7, <3>2, <3>4, <3>5 DEF WeighInv, BeliefInv, RefreshInv
    <3>7. QED
      BY <1>2, <2>1, <2>2, <2>7, <3>1, <3>6
  <2>8. q >= b
    BY <1>2, <2>6
  <2>9. QED
    BY <1>1, <1>2, <2>7, <2>8 DEF Weighing, Stands
<1>5. QED
  BY <1>3, <1>4

\* With every report received, and no answer of the service among what was
\* heard, the converse holds.
LEMMA WeighsBelieved ==
    ASSUME IInv, WeighInv, known.children = actual.children,
           Model = "persistent_debit" \/ \A m \in seenEvents : m.index < GeneratedIndex,
           NEW b \in Nat, BasedOn(b), NEW k \in Keys, NEW i \in Weighing(b, k)
    PROVE  i \in Weighty(known, Model, k)
<1> DEFINE q == orders[i].sequence
<1>1. i \in DOMAIN orders /\ Traded(i) /\ Stands(b, q, k)
  BY DEF Weighing
<1>2. /\ i \in DOMAIN known.children /\ known.receipts[i] # NoSeq
      /\ known.receipts[i] = q /\ q \in Nat
  BY <1>1, ReportedOrder
<1>3. CASE Model = "persistent_debit"
  BY <1>2, <1>3 DEF Weighty, InForce
<1>4. CASE Model # "persistent_debit"
  <2>1. /\ known.refreshAll \in Int /\ known.refreshLevels[k] \in Int
        /\ \A m \in stream : m.seq \in Nat
    BY MarketTypes DEF IInv, KnownInv, KnownLedgers, Numbers, NoSeq
  <2>2. q >= b /\ \A m \in stream : Processed(m) /\ m.seq > q => k \notin DOMAIN m.levels
    BY <1>1, <1>4 DEF Stands
  <2>3. \A m \in seenEvents : m \in stream /\ Processed(m)
    <3>1. ASSUME NEW m \in seenEvents
          PROVE  Processed(m)
      <4>1. m.index < GeneratedIndex /\ m.index \in Nat
        <5>1. m \in UNION Streams \/ m \in ServiceSnapshots
          BY DEF IInv, Recovery!IInv, Recovery!SeenInv
        <5>2. m.index \in Nat
          <6>1. m \in UNION Streams => m.index \in 0 .. GeneratedIndex
            BY MarketAssumption
          <6>2. \A n : n \in 0 .. GeneratedIndex => n \in Nat
            BY DEF GeneratedIndex
          <6>3. m \in ServiceSnapshots => m.index \in Nat
            BY DEF ServiceSnapshots
          <6>4. QED
            BY <5>1, <6>1, <6>2, <6>3
        <5>3. QED
          BY <1>4, <5>2
      <4>2. ~(m.index > GeneratedIndex)
        BY <4>1 DEF GeneratedIndex
      <4>3. QED
        BY <4>2 DEF WeighInv, HeardInv
    <3>2. QED
      BY <3>1 DEF Processed
  <2>4. known.refreshAll <= q
    <3>1. CASE known.refreshAll = NoSeq
      BY <1>2, <3>1 DEF NoSeq
    <3>2. CASE known.refreshAll # NoSeq
      <4>1. PICK m \in seenEvents : m.kind = "snapshot" /\ m.seq = known.refreshAll
        BY <3>2 DEF WeighInv, BeliefInv, RefreshInv
      <4>2. ~(m.seq > b)
        BY <2>3, <4>1 DEF BasedOn
      <4>3. QED
        BY <1>2, <2>1, <2>2, <2>3, <4>1, <4>2
    <3>3. QED
      BY <3>1, <3>2
  <2>5. known.refreshLevels[k] <= q
    <3>1. CASE known.refreshLevels[k] = NoSeq
      BY <1>2, <3>1 DEF NoSeq
    <3>2. CASE known.refreshLevels[k] # NoSeq
      <4>1. PICK m \in seenEvents : /\ m.kind = "update" /\ k \in DOMAIN m.levels
                                    /\ m.seq = known.refreshLevels[k]
        BY <3>2 DEF WeighInv, BeliefInv, RefreshInv
      <4>2. ~(m.seq > q)
        BY <2>2, <2>3, <4>1
      <4>3. QED
        BY <1>2, <2>1, <2>3, <4>1, <4>2
    <3>3. QED
      BY <3>1, <3>2
  <2>6. InForce(known, Model, i, k)
    BY <1>2, <2>1, <2>4, <2>5 DEF InForce, Larger
  <2>7. QED
    BY <1>2, <2>6 DEF Weighty
<1>5. QED
  BY <1>3, <1>4

\* Level books and equal or smaller debits give the depth belief its bound.
LEMMA LevelBelief ==
    ASSUME IInv, WeighInv, NEW truth, TruthInv(truth),
           book.valid, market.valid, market.seq = book.seq,
           Model = "persistent_debit" \/ SnapshotsApart(stream)
    PROVE  /\ \A k \in Keys : known.depth[k] >= actual.depth[k]
           /\ known.children = actual.children
                  /\ (Model = "persistent_debit"
                          \/ \A m \in seenEvents : m.index < GeneratedIndex)
              => known.depth = actual.depth
<1> DEFINE raw == market.depth
           owed == Owed(known, Model)
<1>1. /\ known.children \in Seq(Child) /\ actual.children \in Seq(Child)
      /\ actual.debits \in [Keys -> Nat] /\ raw \in Depth
  BY DEF IInv, KnownInv, KnownLedgers, Sound, BookState
<1>2. known.depth = Residual(raw, owed) /\ actual.depth = Residual(raw, actual.debits)
  <2>1. book.depth = raw
    <3>1. market.seq \in Nat /\ Recovery!Accepted
      BY DEF IInv, Recovery!Accepted, Recovery!NoSeq
    <3>2. QED
      BY <3>1 DEF TruthInv, Recovery!Shown, NoSeq
  <2>2. QED
    BY <2>1 DEF WeighInv, BeliefInv, DebitInv
<1>3. PICK b \in Nat : BasedOn(b) /\ DebitsFrom(b)
  BY DEF WeighInv, DebitInv, DebitsFrom
<1>4. owed \in [Keys -> Nat]
  BY <1>1, OwedType
<1>5. ASSUME NEW k \in Keys
      PROVE  /\ Weighty(known, Model, k) \subseteq Weighing(b, k)
             /\ owed[k] = SumFunctionOnSet(Took(actual.children, k), Weighty(known, Model, k))
  <2>1. \A i \in Weighty(known, Model, k) :
            i \in Weighing(b, k) /\ known.children[i] = actual.children[i]
    BY <1>3, BelievedWeighs
  <2>2. Weighty(known, Model, k) \subseteq DOMAIN known.children
    BY DEF Weighty
  <2>3. IsFiniteSet(Weighty(known, Model, k))
    BY <1>1, <2>2, TookType, FS_Subset
  <2>4. \A i \in DOMAIN known.children : Took(known.children, k)[i] \in Nat
    BY <1>1, TookType
  <2>5. Weighty(known, Model, k) \subseteq DOMAIN actual.children
    BY <2>1, WeighingTypes
  <2>6. \A i \in Weighty(known, Model, k) :
            /\ Took(known.children, k)[i] \in Nat
            /\ Took(known.children, k)[i] = Took(actual.children, k)[i]
    BY <2>1, <2>2, <2>4, <2>5 DEF Took
  <2>7. SumFunctionOnSet(Took(known.children, k), Weighty(known, Model, k))
            = SumFunctionOnSet(Took(actual.children, k), Weighty(known, Model, k))
    BY <2>3, <2>6, SumEqual
  <2>8. QED
    BY <2>1, <2>7 DEF Owed
<1>6. ASSUME NEW k \in Keys
      PROVE  actual.debits[k] = SumFunctionOnSet(Took(actual.children, k), Weighing(b, k))
  BY <1>3 DEF DebitsFrom
<1>7. ASSUME NEW k \in Keys
      PROVE  owed[k] <= actual.debits[k]
  <2>1. /\ IsFiniteSet(Weighing(b, k))
        /\ \A i \in Weighing(b, k) : Took(actual.children, k)[i] \in Nat
    BY WeighingTypes
  <2>2. QED
    BY <1>5, <1>6, <2>1, SumSubset
<1>8. ASSUME NEW k \in Keys
      PROVE  known.depth[k] >= actual.depth[k]
  <2>1. raw[k] \in Nat /\ owed[k] \in Nat /\ actual.debits[k] \in Nat
    BY <1>1, <1>4 DEF Depth
  <2>2. /\ known.depth[k] = Larger(0, raw[k] - owed[k])
        /\ actual.depth[k] = Larger(0, raw[k] - actual.debits[k])
    BY <1>2 DEF Residual
  <2> HIDE DEF owed, raw
  <2>3. QED
    BY <1>7, <2>1, <2>2 DEF Larger
<1>9. ASSUME known.children = actual.children,
             Model = "persistent_debit" \/ \A m \in seenEvents : m.index < GeneratedIndex
      PROVE  known.depth = actual.depth
  <2>1. ASSUME NEW k \in Keys
        PROVE  owed[k] = actual.debits[k]
    <3>1. \A i \in Weighing(b, k) : i \in Weighty(known, Model, k)
      BY <1>3, <1>9, WeighsBelieved
    <3>2. Weighty(known, Model, k) = Weighing(b, k)
      BY <1>5, <3>1
    <3>3. QED
      BY <1>5, <1>6, <3>2
  <2>2. owed = actual.debits
    <3> HIDE DEF owed
    <3> QED
      BY <1>1, <1>4, <2>1
  <2>3. QED
    BY <1>2, <2>2
<1>10. QED
  BY <1>8, <1>9

\* In truthful sessions, where the two books are level the strategy never
\* believes in less depth than there is, and with every report in it believes
\* in as much: whatever the feed and the service did to the local book, and
\* whenever the reports came, the debits it rebuilds are among those of the
\* market.
THEOREM DepthBeliefFollows ==
    (\A session \in Streams : Truthful(session)) => (Spec => []KnownDepthFollows)
<1> SUFFICES ASSUME \A session \in Streams : Truthful(session)
             PROVE  Spec => []KnownDepthFollows
  OBVIOUS
<1>1. Spec => []OneTruth
  BY TruthThroughout
<1>2. Spec => []WeighInv
  BY InitWeighs, WeighKeeps, Invariant, PTL DEF Spec
<1>3. IInv /\ OneTruth /\ WeighInv => KnownDepthFollows
  BY LevelBelief DEF OneTruth, KnownDepthFollows
<1>4. QED
  BY <1>1, <1>2, <1>3, Invariant, PTL

-----------------------------------------------------------------------------
\* No step is free.

\* What a set of events weighs.
Load(S) == SumFunctionOnSet([e \in S |-> Weight(e)], S)

\* What requests and deliveries may still add.
Allowance == 3 * (MaxRequests - requests) + 2 * (MaxDeliveries - deliveries)

\* The heap is finite, and deliveries keep their bound.
FiniteInv == IsFiniteSet(agenda) /\ deliveries \in 0 .. MaxDeliveries

\* Weights of the events that lead to others, and of those they lead to.
LEMMA Weights ==
    /\ \A e : Weight(e) \in Nat /\ Weight(e) >= 1 /\ Weight(e) <= 3
    /\ \A e : RankOf(e) = DecisionRank => Weight(e) = 3
    /\ \A e : RankOf(e) \in {ReadRank, ArrivalRank, BootstrapRank} => Weight(e) = 2
    /\ \A e : RankOf(e) \in {ResponseRank, ReportRank, TimeoutRank} => Weight(e) = 1
BY DEF Weight, ReadRank, ResponseRank, ArrivalRank, ReportRank, DecisionRank, TimeoutRank,
       BootstrapRank

\* Taking an event takes its weight.
LEMMA LoadRemove ==
    ASSUME NEW S, IsFiniteSet(S), NEW e \in S
    PROVE  /\ IsFiniteSet(S \ {e})
           /\ Load(S) \in Nat /\ Load(S \ {e}) \in Nat
           /\ Load(S) = Weight(e) + Load(S \ {e})
<1> DEFINE R == S \ {e}
           f == [x \in S |-> Weight(x)]
           g == [x \in R |-> Weight(x)]
<1>1. IsFiniteSet(R)
  BY FS_RemoveElement
<1>2. /\ \A x \in S : f[x] \in Nat /\ f[x] = Weight(x)
      /\ \A x \in R : f[x] \in Nat /\ g[x] \in Nat /\ f[x] = g[x]
  BY Weights
<1> HIDE DEF f, g
<1>3. SumFunctionOnSet(f, S) = f[e] + SumFunctionOnSet(f, R)
  BY <1>2, SumRemove
<1>4. SumFunctionOnSet(f, R) = SumFunctionOnSet(g, R)
  BY <1>1, <1>2, SumEqual
<1>5. SumFunctionOnSet(f, S) \in Nat /\ SumFunctionOnSet(g, R) \in Nat
  BY <1>1, <1>2, SumType
<1>6. Load(S) = SumFunctionOnSet(f, S) /\ Load(R) = SumFunctionOnSet(g, R)
  BY DEF Load, f, g
<1>7. QED
  BY <1>1, <1>2, <1>3, <1>4, <1>5, <1>6

\* A finite set of events has a weight.
LEMMA LoadType ==
    ASSUME NEW S, IsFiniteSet(S)
    PROVE  Load(S) \in Nat
<1> DEFINE f == [x \in S |-> Weight(x)]
<1>1. \A x \in S : f[x] \in Nat
  BY Weights
<1> HIDE DEF f
<1>2. SumFunctionOnSet(f, S) \in Nat
  BY <1>1, SumType
<1>3. QED
  BY <1>2 DEF Load, f

\* A new event adds its weight at most.
LEMMA LoadAdd ==
    ASSUME NEW S, IsFiniteSet(S), NEW e
    PROVE  /\ IsFiniteSet(S \cup {e})
           /\ Load(S) \in Nat /\ Load(S \cup {e}) \in Nat
           /\ Load(S \cup {e}) <= Load(S) + Weight(e)
<1>1. IsFiniteSet(S \cup {e})
  BY FS_AddElement
<1>2. Load(S) \in Nat /\ Weight(e) \in Nat
  BY LoadType, Weights
<1>3. CASE e \in S
  <2>1. S \cup {e} = S
    BY <1>3
  <2>2. Load(S \cup {e}) = Load(S)
    BY <2>1
  <2>3. Load(S) <= Load(S) + Weight(e)
    BY <1>2
  <2>4. QED
    BY <1>1, <1>2, <2>2, <2>3
<1>4. CASE e \notin S
  <2>1. (S \cup {e}) \ {e} = S
    BY <1>4
  <2>2. e \in S \cup {e}
    OBVIOUS
  <2>3. /\ Load(S \cup {e}) \in Nat
        /\ Load(S \cup {e}) = Weight(e) + Load((S \cup {e}) \ {e})
    BY <1>1, <2>2, LoadRemove
  <2>4. Load(S \cup {e}) = Weight(e) + Load(S)
    BY <2>1, <2>3
  <2>5. Weight(e) + Load(S) <= Load(S) + Weight(e)
    BY <1>2
  <2>6. QED
    BY <1>1, <1>2, <2>3, <2>4, <2>5
<1>5. QED
  BY <1>3, <1>4

\* What is left in a step that pays for what it does: the heap and the
\* allowance weigh less than before.
Pays ==
    /\ FiniteInv' /\ requests' \in 0 .. MaxRequests
    /\ Load(agenda') + Allowance' < Load(agenda) + Allowance

\* An event that is dropped, or leads to a lighter one, has paid for it.
LEMMA EventPays ==
    ASSUME FiniteInv, requests \in 0 .. MaxRequests, NEW e \in agenda,
           UNCHANGED <<requests, deliveries>>,
           \/ agenda' = Rest(e)
           \/ \E f : agenda' = Rest(e) \cup {f} /\ Weight(f) < Weight(e)
    PROVE  Pays
<1>1. /\ IsFiniteSet(Rest(e)) /\ Load(agenda) \in Nat /\ Load(Rest(e)) \in Nat
      /\ Load(agenda) = Weight(e) + Load(Rest(e))
  BY LoadRemove DEF FiniteInv, Rest
<1>2. Weight(e) \in Nat /\ Weight(e) >= 1
  BY Weights
<1>3. IsFiniteSet(agenda') /\ Load(agenda') \in Nat /\ Load(agenda') < Load(agenda)
  <2>1. CASE agenda' = Rest(e)
    BY <1>1, <1>2, <2>1
  <2>2. ASSUME NEW f, agenda' = Rest(e) \cup {f}, Weight(f) < Weight(e)
        PROVE  IsFiniteSet(agenda') /\ Load(agenda') \in Nat /\ Load(agenda') < Load(agenda)
    <3>1. /\ IsFiniteSet(agenda') /\ Load(agenda') \in Nat
          /\ Load(agenda') <= Load(Rest(e)) + Weight(f)
      BY <1>1, <2>2, LoadAdd
    <3>2. Weight(f) \in Nat
      BY Weights
    <3>3. QED
      BY <1>1, <1>2, <2>2, <3>1, <3>2
  <2>3. QED
    BY <2>1, <2>2
<1>4. Allowance' = Allowance /\ Allowance \in Int
  BY EngineAssumption DEF Allowance, FiniteInv
<1>5. FiniteInv' /\ requests' \in 0 .. MaxRequests
  BY <1>3 DEF FiniteInv
<1>6. QED
  BY <1>1, <1>3, <1>4, <1>5 DEF Pays

\* request_recovery adds a timeout at most that no request pays for, and none
\* when it sends one.
LEMMA RequestPays ==
    ASSUME requests \in 0 .. MaxRequests, NEW t, NEW queue, IsFiniteSet(queue),
           NEW waiting, NEW last, NEW armed, RequestRecovery(t, queue, waiting, last, armed)
    PROVE  /\ IsFiniteSet(agenda') /\ requests' \in 0 .. MaxRequests
           /\ Load(queue) \in Nat /\ Load(agenda') \in Nat
           /\ Load(agenda') <= Load(queue) + 1 + 3 * (requests' - requests)
           /\ MayAsk(waiting) => Load(agenda') <= Load(queue) + 3 * (requests' - requests)
<1> DEFINE read == <<t + ReadLatency, ReadRank, last + 1>>
           asked == IF MayAsk(waiting) THEN {read} ELSE {}
           timer == IF armed # Episode(t) THEN {TimeoutEvent(t)} ELSE {}
<1>1. Load(queue) \in Nat
  BY LoadType
<1>2. CASE book'.valid
  <2>1. agenda' = queue /\ requests' = requests
    BY <1>2 DEF RequestRecovery
  <2>2. QED
    BY <1>1, <2>1
<1>3. CASE ~book'.valid
  <2>1. agenda' = (queue \cup timer) \cup asked /\ requests' = requests + Cardinality(asked)
    BY <1>3 DEF RequestRecovery
  <2>2. /\ IsFiniteSet(queue \cup timer) /\ Load(queue \cup timer) \in Nat
        /\ Load(queue \cup timer) <= Load(queue) + 1
    <3>1. RankOf(TimeoutEvent(t)) = TimeoutRank
      BY DEF RankOf, TimeoutEvent
    <3>2. Weight(TimeoutEvent(t)) = 1
      BY <3>1, Weights
    <3>3. CASE armed # Episode(t)
      <4>1. timer = {TimeoutEvent(t)}
        BY <3>3
      <4> HIDE DEF timer
      <4>2. QED
        BY <1>1, <3>2, <4>1, LoadAdd
    <3>4. CASE armed = Episode(t)
      <4>1. queue \cup timer = queue
        BY <3>4
      <4> HIDE DEF timer
      <4>2. IsFiniteSet(queue \cup timer) /\ Load(queue \cup timer) = Load(queue)
        BY <4>1
      <4>3. Load(queue) <= Load(queue) + 1
        BY <1>1
      <4>4. QED
        BY <1>1, <4>2, <4>3
    <3>5. QED
      BY <3>3, <3>4
  <2>3. CASE MayAsk(waiting)
    <3>1. asked = {read} /\ Cardinality(asked) = 1
      BY <2>3, FS_Singleton
    <3>2. RankOf(read) = ReadRank
      BY DEF RankOf
    <3>3. Weight(read) = 2
      BY <3>2, Weights
    <3>4. requests < MaxRequests
      BY <2>3 DEF MayAsk
    <3> HIDE DEF asked, timer, read
    <3>5. /\ IsFiniteSet(agenda') /\ Load(agenda') \in Nat
          /\ Load(agenda') <= Load(queue \cup timer) + 2
      BY <2>1, <2>2, <3>1, <3>3, LoadAdd
    <3>6. requests' = requests + 1 /\ requests' \in 0 .. MaxRequests
      BY <2>1, <3>1, <3>4, EngineAssumption
    <3>7. QED
      BY <1>1, <2>2, <3>5, <3>6
  <2>4. CASE ~MayAsk(waiting)
    <3>1. asked = {} /\ Cardinality(asked) = 0
      BY <2>4, FS_EmptySet
    <3> HIDE DEF asked, timer
    <3>2. agenda' = queue \cup timer /\ requests' = requests
      BY <2>1, <3>1
    <3>3. QED
      BY <1>1, <2>2, <2>4, <3>2
  <2>5. QED
    BY <2>3, <2>4
<1>4. QED
  BY <1>2, <1>3

\* The same in numbers.
LEMMA Paying ==
    ASSUME NEW a \in Int, NEW b \in Int, NEW gain \in Int, NEW r \in Int, NEW s \in Int,
           NEW most \in Int, NEW d \in Int, NEW c \in Int, NEW bound \in Int,
           b <= a + gain + 3 * (s - r), gain < 2 * (c - d)
    PROVE  b + (3 * (most - s) + 2 * (bound - c)) < a + (3 * (most - r) + 2 * (bound - d))
OBVIOUS

\* What a request costs is taken from its allowance.
LEMMA AllowancePays ==
    ASSUME FiniteInv, requests \in 0 .. MaxRequests, requests' \in 0 .. MaxRequests,
           IsFiniteSet(agenda'), deliveries' \in 0 .. MaxDeliveries,
           NEW gain \in Int, Load(agenda) \in Nat, Load(agenda') \in Nat,
           Load(agenda') <= Load(agenda) + gain + 3 * (requests' - requests),
           gain < 2 * (deliveries' - deliveries)
    PROVE  Pays
<1>1. /\ requests \in Int /\ requests' \in Int /\ MaxRequests \in Int
      /\ deliveries \in Int /\ deliveries' \in Int /\ MaxDeliveries \in Int
  BY EngineAssumption DEF FiniteInv
<1>2. /\ Allowance = 3 * (MaxRequests - requests) + 2 * (MaxDeliveries - deliveries)
      /\ Allowance' = 3 * (MaxRequests - requests') + 2 * (MaxDeliveries - deliveries')
  BY DEF Allowance
<1>3. Load(agenda) \in Int /\ Load(agenda') \in Int
  OBVIOUS
<1>4. Load(agenda') + (3 * (MaxRequests - requests') + 2 * (MaxDeliveries - deliveries'))
          < Load(agenda) + (3 * (MaxRequests - requests) + 2 * (MaxDeliveries - deliveries))
  BY <1>1, <1>3, Paying
<1>5. QED
  BY <1>2, <1>4 DEF Pays, FiniteInv

\* A delivery pays for the timeout it may arm.
LEMMA FeedPays ==
    ASSUME IInv, FiniteInv, NEW m \in stream, NEW t \in 0 .. Deadline, Feed(m, t)
    PROVE  Pays
<1>1. requests \in 0 .. MaxRequests
  BY DEF IInv, ServiceInv
<1>2. RequestRecovery(t, agenda, pending, token, generation) /\ IsFiniteSet(agenda)
  BY DEF Feed, FiniteInv
<1>3. /\ IsFiniteSet(agenda') /\ requests' \in 0 .. MaxRequests
      /\ Load(agenda) \in Nat /\ Load(agenda') \in Nat
      /\ Load(agenda') <= Load(agenda) + 1 + 3 * (requests' - requests)
  BY <1>1, <1>2, RequestPays
<1>4. deliveries' = deliveries + 1 /\ deliveries' \in 0 .. MaxDeliveries
  BY EngineAssumption DEF Feed, FiniteInv
<1>5. 1 < 2 * (deliveries' - deliveries)
  BY <1>4 DEF FiniteInv
<1>6. QED
  BY <1>1, <1>3, <1>4, <1>5, AllowancePays

\* So do the bootstrap and a live timeout.
LEMMA RecoveryPays ==
    ASSUME IInv, FiniteInv, NEW e \in agenda, Bootstrap(e) \/ RecoveryTimeout(e)
    PROVE  Pays
<1>1. requests \in 0 .. MaxRequests /\ deliveries' = deliveries
  BY DEF IInv, ServiceInv, Bootstrap, RecoveryTimeout, Open, Take
<1>2. /\ IsFiniteSet(Rest(e)) /\ Load(agenda) \in Nat /\ Load(Rest(e)) \in Nat
      /\ Load(agenda) = Weight(e) + Load(Rest(e))
  BY LoadRemove DEF FiniteInv, Rest
<1>3. 0 < 2 * (deliveries' - deliveries) + 1 /\ deliveries' \in 0 .. MaxDeliveries
  BY <1>1 DEF FiniteInv
<1>4. CASE Bootstrap(e)
  <2>1. RankOf(e) = BootstrapRank
        /\ RequestRecovery(TimeOf(e), Rest(e), pending, token, generation)
    BY <1>4 DEF Bootstrap, Open
  <2>2. Weight(e) = 2
    BY <2>1, Weights
  <2>3. /\ IsFiniteSet(agenda') /\ requests' \in 0 .. MaxRequests /\ Load(agenda') \in Nat
        /\ Load(agenda') <= Load(Rest(e)) + 1 + 3 * (requests' - requests)
    BY <1>1, <1>2, <2>1, RequestPays
  <2>4. Load(agenda') <= Load(agenda) + (-1) + 3 * (requests' - requests)
    BY <1>1, <1>2, <2>2, <2>3, EngineAssumption
  <2>5. -1 < 2 * (deliveries' - deliveries)
    BY <1>1 DEF FiniteInv
  <2>6. QED
    BY <1>1, <1>2, <1>3, <2>3, <2>4, <2>5, AllowancePays
<1>5. CASE RecoveryTimeout(e)
  <2>1. RankOf(e) = TimeoutRank
    BY <1>5 DEF RecoveryTimeout, Open
  <2>2. Weight(e) = 1
    BY <2>1, Weights
  <2>3. CASE requests < MaxRequests /\ ReadLatency # None
             /\ RequestRecovery(TimeOf(e), Rest(e), FALSE, token + 1, None)
    <3>1. MayAsk(FALSE)
      BY <2>3 DEF MayAsk
    <3>2. /\ IsFiniteSet(agenda') /\ requests' \in 0 .. MaxRequests /\ Load(agenda') \in Nat
          /\ Load(agenda') <= Load(Rest(e)) + 3 * (requests' - requests)
      BY <1>1, <1>2, <2>3, <3>1, RequestPays
    <3>3. Load(agenda') <= Load(agenda) + (-1) + 3 * (requests' - requests)
      BY <1>1, <1>2, <2>2, <3>2, EngineAssumption
    <3>4. -1 < 2 * (deliveries' - deliveries)
      BY <1>1 DEF FiniteInv
    <3>5. QED
      BY <1>1, <1>2, <1>3, <3>2, <3>3, <3>4, AllowancePays
  <2>4. CASE agenda' = Rest(e) /\ UNCHANGED requests
    BY <1>1, <2>4, EventPays
  <2>5. QED
    BY <1>5, <2>3, <2>4 DEF RecoveryTimeout
<1>6. QED
  BY <1>4, <1>5

\* An event of any other kind leads to one event at most.
LEMMA OthersPay ==
    ASSUME IInv, FiniteInv, NEW e \in agenda, Step(e), ~Bootstrap(e), ~RecoveryTimeout(e)
    PROVE  Pays
<1> USE DEF Open, Take, service
<1>1. requests \in 0 .. MaxRequests
  BY DEF IInv, ServiceInv
<1>2. CASE SnapshotRead(e)
  <2>1. requests' = requests /\ deliveries' = deliveries /\ RankOf(e) = ReadRank
    BY <1>2 DEF SnapshotRead
  <2>2. Weight(e) = 2
    BY <2>1, Weights
  <2>3. \A f : RankOf(f) = ResponseRank => Weight(f) = 1
    BY Weights
  <2>4. \/ agenda' = Rest(e)
        \/ \E f : agenda' = Rest(e) \cup {f} /\ RankOf(f) = ResponseRank
    BY <1>2 DEF SnapshotRead, RankOf
  <2>5. QED
    BY <1>1, <2>1, <2>2, <2>3, <2>4, EventPays
<1>3. CASE Arrival(e)
  <2>1. requests' = requests /\ deliveries' = deliveries /\ RankOf(e) = ArrivalRank
    BY <1>3 DEF Arrival
  <2>2. Weight(e) = 2
    BY <2>1, Weights
  <2>3. \A f : RankOf(f) = ReportRank => Weight(f) = 1
    BY Weights
  <2>4. \E f : agenda' = Rest(e) \cup {f} /\ RankOf(f) = ReportRank
    <3> DEFINE f == <<TimeOf(e) + ResponseLatency, ReportRank,
                      <<Carried(e), actual'.children[Carried(e)], market.seq>>>>
    <3>1. RankOf(f) = ReportRank
      BY DEF RankOf
    <3>2. agenda' = Rest(e) \cup {f}
      BY <1>3 DEF Arrival
    <3> HIDE DEF f
    <3>3. QED
      BY <3>1, <3>2
  <2>5. QED
    BY <1>1, <2>1, <2>2, <2>3, <2>4, EventPays
<1>4. CASE DecisionSubmit(e)
  <2>1. requests' = requests /\ deliveries' = deliveries /\ RankOf(e) = DecisionRank
    BY <1>4 DEF DecisionSubmit
  <2>2. Weight(e) = 3
    BY <2>1, Weights
  <2>3. \A f : RankOf(f) = ArrivalRank => Weight(f) = 2
    BY Weights
  <2>4. \E f : agenda' = Rest(e) \cup {f} /\ RankOf(f) = ArrivalRank
    <3> DEFINE f == <<TimeOf(e) + OrderLatency, ArrivalRank, Len(orders')>>
    <3>1. RankOf(f) = ArrivalRank
      BY DEF RankOf
    <3>2. agenda' = Rest(e) \cup {f}
      BY <1>4 DEF DecisionSubmit
    <3> HIDE DEF f
    <3>3. QED
      BY <3>1, <3>2
  <2>5. QED
    BY <1>1, <2>1, <2>2, <2>3, <2>4, EventPays
<1>5. CASE agenda' = Rest(e) /\ UNCHANGED <<requests, deliveries>>
  BY <1>1, <1>5, EventPays
<1>6. QED
  BY <1>2, <1>3, <1>4, <1>5
     DEF Step, MarketMessage, UseResponse, IgnoreResponse, IgnoreTimeout, DecisionSkip,
         ArrivalUnknown, Report, AtDeadline, Drop

\* The first heap is finite: a stream is, and so are the ticks.
LEMMA InitFinite == Init => FiniteInv
<1> SUFFICES ASSUME Init PROVE FiniteInv
  OBVIOUS
<1> DEFINE S == {n \in stream : n.time <= Deadline}
           M == {<<m.time, MarketRank, m>> : m \in S}
<1>1. IsFiniteSet(M)
  <2>1. IsFiniteSet(stream)
    BY MarketAssumption DEF Init
  <2>2. IsFiniteSet(S)
    BY <2>1, FS_Subset
  <2> DEFINE f == [m \in S |-> <<m.time, MarketRank, m>>]
  <2>3. f \in Surjection(S, M)
    BY DEF Surjection
  <2> HIDE DEF f, M
  <2>4. QED
    BY <2>2, <2>3, FS_Surjection
<1>2. IsFiniteSet(Decisions)
  <2>1. Decisions \subseteq DecisionsLeft
    BY DEF Init, DecisionsLeft, Decisions, RankOf
  <2>2. QED
    BY <2>1, InitCount, FS_Subset
<1>3. agenda = M \cup Decisions \cup {BootstrapEvent, DeadlineEvent}
  BY DEF Init, BootstrapEvent, DeadlineEvent
<1>4. IsFiniteSet({BootstrapEvent, DeadlineEvent})
  <2>1. IsFiniteSet({BootstrapEvent})
    BY FS_Singleton
  <2>2. IsFiniteSet({BootstrapEvent} \cup {DeadlineEvent})
    BY <2>1, FS_AddElement
  <2>3. {BootstrapEvent, DeadlineEvent} = {BootstrapEvent} \cup {DeadlineEvent}
    OBVIOUS
  <2>4. QED
    BY <2>2, <2>3
<1> HIDE DEF M
<1>5. IsFiniteSet(agenda)
  BY <1>1, <1>2, <1>3, <1>4, FS_Union
<1>6. deliveries \in 0 .. MaxDeliveries
  BY EngineAssumption DEF Init
<1>7. QED
  BY <1>5, <1>6 DEF FiniteInv

\* Every step pays.
LEMMA StepsPay ==
    ASSUME IInv, FiniteInv, Next
    PROVE  Pays \/ UNCHANGED vars
BY FeedPays, RecoveryPays, OthersPay DEF Next, Run, Finished

\* Whatever the feed delivers and the service answers, each step of the loop
\* uses up some of a number that is fixed at the start: no cycle of events,
\* of zero latency or not, keeps it going (_run_execution, while queue).
THEOREM NoStepIsFree == Spec => StepsRunOut
<1>1. IInv /\ FiniteInv /\ [Next]_vars
          => FiniteInv' /\ [StepsLeft' \in Nat /\ StepsLeft' < StepsLeft]_vars
  <2> SUFFICES ASSUME IInv, FiniteInv, [Next]_vars
               PROVE  FiniteInv' /\ [StepsLeft' \in Nat /\ StepsLeft' < StepsLeft]_vars
    OBVIOUS
  <2>1. CASE UNCHANGED vars
    BY <2>1 DEF vars, FiniteInv
  <2>2. CASE Pays
    <3>1. StepsLeft = Load(agenda) + Allowance /\ StepsLeft' = Load(agenda') + Allowance'
      <4>1. /\ requests \in 0 .. MaxRequests /\ requests' \in 0 .. MaxRequests
            /\ deliveries \in 0 .. MaxDeliveries /\ deliveries' \in 0 .. MaxDeliveries
            /\ Load(agenda) \in Nat /\ Load(agenda') \in Nat
        BY <2>2, LoadType DEF Pays, FiniteInv, IInv, ServiceInv
      <4>2. /\ StepsLeft = Load(agenda) + 3 * (MaxRequests - requests)
                               + 2 * (MaxDeliveries - deliveries)
            /\ StepsLeft' = Load(agenda') + 3 * (MaxRequests - requests')
                                + 2 * (MaxDeliveries - deliveries')
        BY DEF StepsLeft, Load, Weight, RankOf
      <4>3. QED
        BY <4>1, <4>2, EngineAssumption DEF Allowance
    <3>2. Load(agenda') \in Nat /\ Allowance' \in Nat
      BY <2>2, LoadType, EngineAssumption DEF Pays, FiniteInv, Allowance
    <3>3. QED
      BY <2>2, <3>1, <3>2 DEF Pays
  <2>3. QED
    BY <2>1, <2>2, StepsPay
<1>2. QED
  BY <1>1, InitFinite, Invariant, PTL DEF Spec, StepsRunOut

=============================================================================

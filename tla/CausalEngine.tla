---------------------------- MODULE CausalEngine ----------------------------
(***************************************************************************)
(* The event loop of lob_sim/engine.py (_run_execution): one clock, four   *)
(* separate states (raw market book, actual ledger, local feed book, known *)
(* orders), and a heap of events ordered by time, priority and insertion.  *)
(*                                                                         *)
(* The heap starts with every market message of the stream, the decision   *)
(* ticks, the bootstrap and the deadline.  Feed deliveries are also there  *)
(* from the start in the code; here each is chosen when its turn comes,    *)
(* which gives the same runs as any list of deliveries does.               *)
(*                                                                         *)
(* The trace, the decision records and the metrics are left out.  The      *)
(* stream passes _validate; messages that are bad only in content do too.  *)
(***************************************************************************)
EXTENDS KnownOrders, Schedule, Policy, FiniteSets

CONSTANTS
    Streams,            \* the market streams, sets of messages with the
                        \* fields of LocalRecovery's, in one session
    ResponseLatency,    \* CausalConfig; the recording starts at 0
    Model,              \* liquidity_model
    MaxReceiveAge, MaxStateAge, \* in Nat, or None
    MaxBuffer, Timeout, MaxRequests,    \* RecoveryConfig
    ReadLatency,        \* snapshot_read_latency_ns, None without a service
    SnapshotLatency,    \* snapshot_response_latency_ns
    MaxDeliveries       \* bound: feed deliveries of a run

ASSUME EngineAssumption ==
    /\ ResponseLatency \in Nat /\ None \notin Nat \X Nat
    /\ SnapshotLatency \in Nat /\ ReadLatency \in Nat \cup {None}
    /\ MaxReceiveAge \in Nat \cup {None} /\ MaxStateAge \in Nat \cup {None}
    /\ MaxBuffer \in Nat \ {0} /\ Timeout \in Nat \ {0}
    /\ MaxRequests \in Nat /\ MaxDeliveries \in Nat
    /\ Model \in Models

VARIABLES
    agenda,             \* the heap, a set of events
    cursor,             \* the latest <<time, rank>> reached
    deliveries,         \* feed deliveries so far
    stream,             \* the messages of this run
    market,             \* the raw market book
    actual,             \* the actual ledger
    known,              \* the known orders
    orders,             \* OrderRecord of every child
    requests, pending, token, generation,
                        \* requests, request_pending, request_token,
                        \* timeout_generation
    closed,             \* the deadline has passed
    halted,             \* not execution_known: the loop was left early
    \* the variables of LocalRecovery
    book, stateTime, lastReceive, clock, highWater, publication, provenance,
    since, updates, anchor, needsSnapshot, seenEvents, seenUpdates, seenSnapshots

\* Generated snapshot identities are above every supplied index.
GeneratedIndex == 1000

ServiceSnapshots ==
    [kind : {"snapshot"}, index : {n \in Nat : n > GeneratedIndex}, time : Nat,
     own : {TRUE}, sound : {TRUE}, seq : Nat, levels : Depth]

Local == INSTANCE LocalRecovery WITH
             Messages <- (UNION Streams) \cup ServiceSnapshots,
             MaxTime <- Deadline, History <- <<>>

\* What _validate leaves through: finitely many typed messages of this session,
\* of natural times and sequences, with identities below the generated ones.
ASSUME MarketAssumption ==
    /\ None \notin (UNION Streams) \cup ServiceSnapshots
    /\ \A S \in Streams : IsFiniteSet(S)
    /\ \A m \in UNION Streams :
           Local!IsMessage(m) /\ m.own /\ m.index \in 0 .. GeneratedIndex

localVars == <<book, stateTime, lastReceive, clock, highWater, publication,
               provenance, since, updates, anchor, needsSnapshot, seenEvents,
               seenUpdates, seenSnapshots>>
service == <<requests, pending, token, generation>>
vars == <<agenda, cursor, deliveries, stream, market, actual, known, orders,
          service, closed, halted, localVars>>

-----------------------------------------------------------------------------
\* Events: a time, a rank and what the event carries.  The rank orders the
\* priorities of one instant; the three kinds of priority 2 are told apart by
\* their insertion: deliveries, then the bootstrap, then service responses.

MarketRank == 0
ReadRank == 1
FeedRank == 2
BootstrapRank == 3
ResponseRank == 4
ArrivalRank == 5
ReportRank == 6
DecisionRank == 7
TimeoutRank == 8
DeadlineRank == 9

TimeOf(e) == e[1]
RankOf(e) == e[2]
Carried(e) == e[3]

Earlier(a, b) == a[1] < b[1] \/ (a[1] = b[1] /\ a[2] < b[2])

\* Market messages of one instant are queued in the order of their indices;
\* no other two events of one time and rank can both take effect.
Precedes(e, f) ==
    \/ Earlier(e, f)
    \/ /\ RankOf(e) = MarketRank /\ RankOf(f) = MarketRank
       /\ TimeOf(e) = TimeOf(f)
       /\ Carried(e).index < Carried(f).index

First(e) == e \in agenda /\ \A f \in agenda : ~Precedes(f, e)

Rest(e) == agenda \ {e}

\* The ticks of the schedule as events.
Decisions == {<<k[1], DecisionRank, k[2]>> : k \in Ticks}

Init ==
    /\ stream \in Streams
    /\ agenda = {<<m.time, MarketRank, m>> : m \in {n \in stream : n.time <= Deadline}}
                    \cup Decisions
                    \cup {<<0, BootstrapRank, None>>, <<Deadline, DeadlineRank, None>>}
    /\ cursor = <<0, MarketRank>> /\ deliveries = 0
    /\ market = InitBook /\ actual = EmptyLedger
    /\ known = UnknownOrders /\ orders = <<>>
    /\ requests = 0 /\ pending = FALSE /\ token = 0 /\ generation = None
    /\ closed = FALSE /\ halted = FALSE
    /\ Local!Init

-----------------------------------------------------------------------------
\* request_recovery, after a handler has changed the local book at time t and
\* left the heap `queue`, the flag `waiting` and the generation `armed`.  An
\* invalid book arms the timeout of its episode once and asks the service for
\* a snapshot unless an answer is still awaited.

MayAsk(waiting) == ReadLatency # None /\ ~waiting /\ requests < MaxRequests

Episode(t) == <<IF since' = Local!NoTime THEN t ELSE since', publication'>>

\* Mutant: the timeout of a repeated episode is due one tick early.
TimeoutEventEarly(t) ==
    <<Larger(t, Episode(t)[1] + Timeout - 1), TimeoutRank, Episode(t)>>

TimeoutEvent(t) ==
    <<Larger(t, Episode(t)[1] + Timeout), TimeoutRank, Episode(t)>>

\* Mutant: the timeout is armed only when a request is sent.
RequestWithTimer(t, queue, waiting, lastToken, armed) ==
    LET asking == MayAsk(waiting)
    IN  IF book'.valid \/ ~asking
        THEN /\ agenda' = queue /\ UNCHANGED requests
             /\ pending' = waiting /\ token' = lastToken /\ generation' = armed
        ELSE /\ agenda' = queue \cup {TimeoutEvent(t), <<t + ReadLatency, ReadRank, lastToken + 1>>}
             /\ generation' = Episode(t)
             /\ requests' = requests + 1 /\ token' = lastToken + 1 /\ pending' = TRUE

\* Mutant: a request is not counted.
RequestUncounted(t, queue, waiting, lastToken, armed) ==
    LET asked == IF MayAsk(waiting)
                 THEN {<<t + ReadLatency, ReadRank, lastToken + 1>>} ELSE {}
        timer == IF armed # Episode(t) THEN {TimeoutEvent(t)} ELSE {}
    IN  /\ agenda' = IF book'.valid THEN queue ELSE queue \cup timer \cup asked
        /\ generation' = IF book'.valid THEN armed ELSE Episode(t)
        /\ token' = IF book'.valid THEN lastToken ELSE lastToken + Cardinality(asked)
        /\ pending' = (waiting \/ (~book'.valid /\ asked # {}))
        /\ UNCHANGED requests

RequestRecovery(t, queue, waiting, lastToken, armed) ==
    LET asked == IF MayAsk(waiting)
                 THEN {<<t + ReadLatency, ReadRank, lastToken + 1>>} ELSE {}
        timer == IF armed # Episode(t) THEN {TimeoutEvent(t)} ELSE {}
    IN  IF book'.valid
        THEN /\ agenda' = queue /\ UNCHANGED requests
             /\ pending' = waiting /\ token' = lastToken /\ generation' = armed
        ELSE /\ agenda' = queue \cup timer \cup asked
             /\ generation' = Episode(t)
             /\ requests' = requests + Cardinality(asked)
             /\ token' = lastToken + Cardinality(asked)
             /\ pending' = (waiting \/ asked # {})

\* What a publication tells the known orders; `applied` are the messages new
\* in the provenance.
TellKnown ==
    known' = IF publication' = publication THEN known
             ELSE ObserveView(known, Model, book'.depth, provenance' \ provenance)

\* local_condition
Usable(t) ==
    /\ book.valid
    /\ MaxReceiveAge # None => t - lastReceive <= MaxReceiveAge
    /\ MaxStateAge # None => t - stateTime <= MaxStateAge

-----------------------------------------------------------------------------
\* One action per kind of event.

\* The loop takes the first event; once the deadline has passed only reports
\* are looked at.
Take(e) ==
    /\ First(e) /\ ~halted
    /\ cursor' = IF Earlier(cursor, e) THEN <<TimeOf(e), RankOf(e)>> ELSE cursor
    /\ UNCHANGED <<deliveries, stream>>

Open(e, rank) == Take(e) /\ ~closed /\ RankOf(e) = rank

\* The market takes or rejects a message; only an accepted one reaches the
\* actual ledger.
MarketMessage(e) ==
    LET m == Carried(e)
        accepted == Accepts(market, m)
    IN  /\ Open(e, MarketRank)
        /\ agenda' = Rest(e)
        /\ market' = IF accepted THEN Commit(market, m.seq, DepthAfter(market, m))
                     ELSE Reject(market, m.seq)
        /\ actual' = IF accepted THEN Observed(actual, Model, market'.depth, m) ELSE actual
        /\ UNCHANGED <<known, orders, service, closed, halted, localVars>>

\* A delivery of a message that exists, at any time left before the deadline.
Feed(m, t) ==
    /\ ~closed /\ ~halted /\ deliveries < MaxDeliveries
    /\ m \in stream /\ m.time <= t
    /\ ~Earlier(<<t, FeedRank>>, cursor)
    /\ \A e \in agenda : Earlier(<<t, FeedRank>>, e)
    /\ cursor' = <<t, FeedRank>>
    /\ deliveries' = deliveries + 1
    /\ Local!Receive(m, t)
    /\ TellKnown
    /\ RequestRecovery(t, agenda, pending, token, generation)
    /\ UNCHANGED <<stream, market, actual, orders, closed, halted>>

Bootstrap(e) ==
    /\ Open(e, BootstrapRank)
    /\ Local!CheckTimeout(TimeOf(e))
    /\ RequestRecovery(TimeOf(e), Rest(e), pending, token, generation)
    /\ UNCHANGED <<market, actual, known, orders, closed, halted>>

Awaited(id) == pending /\ id = token

\* Mutant: the service answers with the depth own orders have left.
ServiceSnapshotOfLedger(t, id) ==
    [kind |-> "snapshot", index |-> GeneratedIndex + id, time |-> t, own |-> TRUE,
     sound |-> TRUE, seq |-> market.seq, levels |-> actual.depth]

\* A generated message: the raw book under an index of its own.
ServiceSnapshot(t, id) ==
    [kind |-> "snapshot", index |-> GeneratedIndex + id, time |-> t, own |-> TRUE,
     sound |-> TRUE, seq |-> market.seq, levels |-> market.depth]

\* The service reads the raw market, unless the request is no longer needed.
\* Without a valid market there is no answer: the request stays outstanding
\* until the timeout.
SnapshotRead(e) ==
    LET id == Carried(e)
        t == TimeOf(e)
        answer == <<t + SnapshotLatency, ResponseRank, <<id, ServiceSnapshot(t, id)>>>>
    IN  /\ Open(e, ReadRank)
        /\ agenda' = IF Awaited(id) /\ ~book.valid /\ market.valid
                     THEN Rest(e) \cup {answer} ELSE Rest(e)
        /\ pending' = (pending /\ ~(Awaited(id) /\ book.valid))
        /\ UNCHANGED <<market, actual, known, orders, requests, token, generation,
                       closed, halted, localVars>>

IgnoreResponse(e) ==
    LET id == Carried(e)[1]
    IN  /\ Open(e, ResponseRank)
        /\ ~Awaited(id) \/ book.valid
        /\ agenda' = Rest(e)
        /\ pending' = (pending /\ id # token)
        /\ UNCHANGED <<market, actual, known, orders, requests, token, generation,
                       closed, halted, localVars>>

\* Mutant: an answer to an abandoned request is used.
UseAnyResponse(e) ==
    /\ Open(e, ResponseRank)
    /\ ~book.valid
    /\ agenda' = Rest(e)
    /\ pending' = FALSE
    /\ Local!Receive(Carried(e)[2], TimeOf(e))
    /\ TellKnown
    /\ UNCHANGED <<market, actual, orders, requests, token, generation, closed, halted>>

\* The answer is received like a message of the feed; a book that stays
\* invalid keeps its timeout and sends no further request now.
UseResponse(e) ==
    /\ Open(e, ResponseRank)
    /\ Awaited(Carried(e)[1]) /\ ~book.valid
    /\ agenda' = Rest(e)
    /\ pending' = FALSE
    /\ Local!Receive(Carried(e)[2], TimeOf(e))
    /\ TellKnown
    /\ UNCHANGED <<market, actual, orders, requests, token, generation, closed, halted>>

IgnoreTimeout(e) ==
    /\ Open(e, TimeoutRank)
    /\ book.valid \/ Carried(e) # generation
    /\ agenda' = Rest(e)
    /\ UNCHANGED <<market, actual, known, orders, service, closed, halted, localVars>>

\* Mutant: the expired request still counts as awaited.
RecoveryTimeoutAwaits(e) ==
    LET t == TimeOf(e)
    IN  /\ Open(e, TimeoutRank)
        /\ ~book.valid /\ Carried(e) = generation
        /\ Local!CheckTimeout(t)
        /\ \/ /\ requests < MaxRequests /\ ReadLatency # None
              /\ RequestRecovery(t, Rest(e), pending, token, None)
           \/ /\ requests >= MaxRequests \/ ReadLatency = None
              /\ agenda' = Rest(e) /\ generation' = None
              /\ UNCHANGED <<requests, pending, token>>
        /\ UNCHANGED <<market, actual, known, orders, closed, halted>>

\* A live timeout drops the candidate, makes requests in flight obsolete, and
\* asks again while requests are left.
RecoveryTimeout(e) ==
    LET t == TimeOf(e)
    IN  /\ Open(e, TimeoutRank)
        /\ ~book.valid /\ Carried(e) = generation
        /\ Local!CheckTimeout(t)
        /\ \/ /\ requests < MaxRequests /\ ReadLatency # None
              /\ RequestRecovery(t, Rest(e), FALSE, token + 1, None)
           \/ /\ requests >= MaxRequests \/ ReadLatency = None
              /\ agenda' = Rest(e)
              /\ pending' = FALSE /\ token' = token + 1 /\ generation' = None
              /\ UNCHANGED requests
        /\ UNCHANGED <<market, actual, known, orders, closed, halted>>

\* An order that meets an invalid market ends the run: nobody knows its fate.
ArrivalUnknown(e) ==
    /\ Open(e, ArrivalRank)
    /\ ~market.valid
    /\ agenda' = Rest(e)
    /\ orders' = [orders EXCEPT ![Carried(e)].status = "unknown"]
    /\ halted' = TRUE
    /\ UNCHANGED <<market, actual, known, service, closed, localVars>>

Arrival(e) ==
    LET i == Carried(e)
        done == TimeOf(e) + ResponseLatency
    IN  /\ Open(e, ArrivalRank)
        /\ market.valid
        /\ actual' = Executed(actual, i)
        /\ orders' = [orders EXCEPT
               ![i] = [@ EXCEPT !.status = actual'.children[i].status,
                                !.response = done, !.sequence = market.seq]]
        /\ agenda' = Rest(e) \cup
               {<<done, ReportRank, <<i, actual'.children[i], market.seq>>>>}
        /\ UNCHANGED <<market, known, service, closed, halted, localVars>>

\* The only event that still counts after the deadline.
Report(e) ==
    LET i == Carried(e)[1]
    IN  /\ Take(e) /\ RankOf(e) = ReportRank
        /\ agenda' = Rest(e)
        /\ known' = ReceiveReport(known, Model, i, Carried(e)[2], Carried(e)[3])
        /\ orders' = [orders EXCEPT ![i].received = TimeOf(e)]
        /\ UNCHANGED <<market, actual, service, closed, halted, localVars>>

\* Mutant: an order that cannot arrive in time is sent.
MaySendLate(t) == Usable(t)

MaySend(t) == Usable(t) /\ t + OrderLatency <= Deadline

\* What decide selects, on the local book and the known orders.
Chosen(e) ==
    Selected(book.depth, known.depth, known.children, Carried(e)[1], Carried(e)[2])

DecisionSubmit(e) ==
    LET t == TimeOf(e)
        qty == Chosen(e)
    IN  /\ Open(e, DecisionRank)
        /\ MaySend(t) /\ qty > 0
        /\ known' = Reserve(known, qty, LimitPrice)
        /\ actual' = Submitted(actual, qty, LimitPrice)
        /\ orders' = Append(orders, [arrival |-> t + OrderLatency, status |-> "pending",
                                     response |-> None, sequence |-> None,
                                     received |-> None])
        /\ agenda' = Rest(e) \cup {<<t + OrderLatency, ArrivalRank, Len(orders')>>}
        /\ UNCHANGED <<market, service, closed, halted, localVars>>

DecisionSkip(e) ==
    /\ Open(e, DecisionRank)
    /\ ~MaySend(TimeOf(e)) \/ Chosen(e) = 0
    /\ agenda' = Rest(e)
    /\ UNCHANGED <<market, actual, known, orders, service, closed, halted, localVars>>

AtDeadline(e) ==
    /\ Open(e, DeadlineRank)
    /\ agenda' = Rest(e)
    /\ closed' = TRUE
    /\ UNCHANGED <<market, actual, known, orders, service, halted, localVars>>

\* After the deadline every other event is dropped.
Drop(e) ==
    /\ Take(e) /\ closed /\ RankOf(e) # ReportRank
    /\ agenda' = Rest(e)
    /\ UNCHANGED <<market, actual, known, orders, service, closed, halted, localVars>>

Done == halted \/ agenda = {}

Finished == Done /\ UNCHANGED vars

Step(e) ==
    \/ MarketMessage(e) \/ Bootstrap(e)
    \/ SnapshotRead(e) \/ UseResponse(e) \/ IgnoreResponse(e)
    \/ RecoveryTimeout(e) \/ IgnoreTimeout(e)
    \/ DecisionSubmit(e) \/ DecisionSkip(e)
    \/ Arrival(e) \/ ArrivalUnknown(e) \/ Report(e)
    \/ AtDeadline(e) \/ Drop(e)

Run ==
    \/ \E e \in agenda : Step(e)
    \/ \E m \in stream, t \in 0 .. Deadline : Feed(m, t)

Next == Run \/ Finished

Spec == Init /\ [][Next]_vars

\* The loop is never preempted for good.
FairSpec == Spec /\ WF_vars(Run)

-----------------------------------------------------------------------------
\* Types and bounds.  LocalRecovery checks the types of its own variables.

Order == [arrival : Nat, status : {"pending", "unknown", "filled", "partial", "unfilled"},
          response : Nat \cup {None}, sequence : Nat \cup {None},
          received : Nat \cup {None}]

TypeOK ==
    /\ market \in BookState
    /\ actual.depth \in Depth /\ actual.debits \in [Keys -> Nat]
    /\ known.depth \in Depth /\ known.raw \in Depth
    /\ \A i \in DOMAIN orders : orders[i] \in Order
    /\ requests \in 0 .. MaxRequests /\ token \in Nat
    /\ pending \in BOOLEAN /\ closed \in BOOLEAN /\ halted \in BOOLEAN
    /\ \A e \in agenda : TimeOf(e) \in Nat /\ RankOf(e) \in MarketRank .. DeadlineRank

-----------------------------------------------------------------------------
\* Known orders and actual orders.

\* The strategy holds a child as it was sent, reserved in full, until its
\* report, and from then on as it really was executed; nothing of a hidden
\* execution shows before (docs/design.md, "Separate state and information").
\* An order of unknown fate keeps its reservation on both sides.
KnowsOnlyReports ==
    /\ Len(known.children) = Len(orders) /\ Len(actual.children) = Len(orders)
    /\ \A i \in DOMAIN orders :
           LET real == actual.children[i]
           IN  /\ IF orders[i].status \in {"pending", "unknown"}
                  THEN real.status = "reserved" ELSE real.status = orders[i].status
               /\ known.children[i] = IF orders[i].received = None
                                      THEN NewChild(real.qty, real.limit) ELSE real

\* What is filled or reserved never runs ahead of the schedule: it stays at
\* or below the largest target of a tick already reached.
NeverAheadOfSchedule ==
    \/ orders = <<>>
    \/ \E e \in Decisions \ agenda :
           Filled(actual.children) + Reserved(actual.children) <= Carried(e)[1]

\* The deadline leaves no order on its way, and the reports that follow it
\* leave nothing the two ledgers disagree about.
Reconciled ==
    /\ closed => \A i \in DOMAIN orders : orders[i].status # "pending"
    /\ Done /\ ~halted => known.children = actual.children

\* The engine uses the actual ledger as Execution allows: what the known
\* orders grant is never refused by it, a child is executed once, and it
\* observes the external book exactly when that book changes.
Actual == INSTANCE Execution WITH
              ledger <- actual, model <- Model, raw <- market.depth,
              Changes <- UNION Streams, Sizes <- 1 .. Quantity,
              Limits <- {LimitPrice}, MaxChildren <- Slices + 1

LedgerContract == Actual!Spec

-----------------------------------------------------------------------------
\* Local view and market.

\* At the same sequence the local book is the raw market book, whether it got
\* there by the feed, by the service or by both.
LocalIsMarket ==
    Local!Accepted /\ market.seq = book.seq => book.depth = market.depth

\* No update has the sequence of a snapshot, among the messages no consumer
\* refuses.
SnapshotsApart(session) ==
    \A m, n \in session :
        /\ m.kind = "update" /\ n.kind = "snapshot"
        /\ Local!WellFormed(m) /\ Local!WellFormed(n)
        => m.seq # n.seq

\* Where the two books are level, the depth the strategy believes it can trade
\* is never less than the executable one: no refresh or delayed report makes
\* it debit what the market has given back.  Under persistent_debit, with
\* every report received, the two are equal.  Under refresh_touched this needs SnapshotsApart: a
\* market that was invalid may take a snapshot, and drop its debits, at a
\* sequence whose update is all that the strategy receives.
KnownDepthFollows ==
    /\ book.valid /\ market.valid /\ market.seq = book.seq
    /\ Model = "persistent_debit" \/ SnapshotsApart(stream)
    =>  /\ \A k \in Keys : known.depth[k] >= actual.depth[k]
        /\ known.children = actual.children
               /\ (Model = "persistent_debit" \/ \A m \in seenEvents : m.index < GeneratedIndex)
           => known.depth = actual.depth

-----------------------------------------------------------------------------
\* Recovery.

Live(e) == RankOf(e) = TimeoutRank /\ Carried(e) = generation

\* From the bootstrap to the deadline an invalid local book never waits for
\* nothing: while a request is out or may still be sent, exactly one timeout
\* of the running episode is queued, at the end of that episode.
RetryIsArmed ==
    /\ ~closed /\ ~halted /\ ~book.valid /\ <<0, BootstrapRank, None>> \notin agenda
    /\ pending \/ MayAsk(pending)
    => /\ generation = <<since, publication>>
       /\ {e \in agenda : Live(e)} = {<<since + Timeout, TimeoutRank, generation>>}

\* A live timeout never comes early, nor once the deadline has passed: it
\* always ends the episode, drops the candidate and starts the next one.
LiveTimeoutExpires ==
    [][\A e \in agenda : RecoveryTimeout(e) =>
           /\ TimeOf(e) <= Deadline
           /\ since' = TimeOf(e) /\ updates' = {} /\ anchor' = None /\ needsSnapshot']_vars

\* The late answer to a request a timeout gave up, or one that comes after the
\* deadline, never reaches the local book, and no request is answered twice.
OnlyAwaitedAnswers ==
    [][\A e \in agenda \ agenda' :
           RankOf(e) = ResponseRank /\ seenEvents' # seenEvents =>
               /\ TimeOf(e) <= Deadline
               /\ Carried(e)[1] = token /\ pending /\ ~pending'
               /\ Carried(e)[2] \notin seenEvents]_vars

\* A comment in the engine says that a failed response waits for the existing
\* timeout (engine.py:342): once the answer to a request has left the book
\* invalid, the next request comes with the next episode.
FailedResponseWaits ==
    [][~book.valid /\ ~pending /\ generation = <<since, publication>>
           /\ requests' > requests => generation' # generation]_vars

\* The feed has fallen silent behind an invalid local book, the market stands
\* still and is usable, and a live timeout leaves the time, and the limit on
\* requests the room, for one more request and its answer.
RetryCanSucceed ==
    /\ ~closed /\ ~halted /\ ~book.valid
    /\ deliveries = MaxDeliveries
    /\ market.valid /\ \A e \in agenda : RankOf(e) # MarketRank
    /\ requests < MaxRequests /\ ReadLatency # None
    /\ ReadLatency + SnapshotLatency <= Timeout
    /\ \E e \in agenda :
           Live(e) /\ TimeOf(e) + ReadLatency + SnapshotLatency <= Deadline

\* Then the local book recovers without the feed: whatever became of earlier
\* requests (unanswered by an invalid market, outrun by the feed, given up),
\* the timeout lets go of them, asks again, and the answer is published.
SilenceRecovers == RetryCanSucceed ~> book.valid

\* Every event weighs its own step and those of the events it can lead to: a
\* read has its answer, a decision its arrival and its report, the bootstrap a
\* timeout.
Weight(e) ==
    CASE RankOf(e) = DecisionRank -> 3
      [] RankOf(e) \in {ReadRank, ArrivalRank, BootstrapRank} -> 2
      [] OTHER -> 1

\* The steps the loop has left at most: a request may still add a read, its
\* answer and a timeout, and a delivery a timeout.
StepsLeft ==
    SumFunctionOnSet([e \in agenda |-> Weight(e)], agenda)
        + 3 * (MaxRequests - requests) + 2 * (MaxDeliveries - deliveries)

\* However deliveries, faults, answers and timeouts follow each other, no step
\* of the loop is free: each one uses up some of a number fixed at the start,
\* so events never breed each other for ever.  What a request costs is paid
\* from max_requests, and what a delivery costs from the feed itself.
StepsRunOut == [][StepsLeft' \in Nat /\ StepsLeft' < StepsLeft]_vars

=============================================================================

# TLA+ models of the limit-order-book execution simulator

These modules specify the simulator of this repository: the normalized order
book (`lob_lab/book.py`), the recovery of a local book from an unreliable feed
(`lob_sim/recovery.py`), the execution ledgers (`lob_lab/execution.py`,
`lob_lab/timed_execution.py`), the decision schedule, its cost gate and the
money they count (`policy.py`, `valuation.py`), the three runners: the causal
event loop (`lob_sim/engine.py`), the older timed one and the historical replay
(`lob_lab/replay.py`). TLC checks every model on small instances; the TLA+
proof system proves the properties of the book, the recovery, the ledgers, the
walks over a book and the money they count, the timed runner, the historical replay, the known orders and the causal engine for
all values of their constants. Paths below are relative to the repository.

## 1. Inventory

The program is single-threaded and deterministic: one call of
`run_causal_execution` processes a heap of timed events. What makes it hard is
not threads but *information*: four states describe one market at different
times, messages between them are lost, late, repeated or wrong, and every
decision is taken on a view that may be out of date.

| Component | State | Operations | Talks to |
|---|---|---|---|
| Order book, `book.py` | one immutable `BookState`: depth, sequence, version, validity, recovery floor | `apply_snapshot`, `apply_update`; each commits a whole state or rejects and invalidates | owned by the engine (raw market), by `LocalRecovery` (candidates), by `replay.py` |
| Local recovery, `recovery.py` | published book, high water, buffer of deltas, anchor snapshot, identity history, episode clock, publication and provenance | `receive`, `check_timeout` | called by the engine on deliveries, service answers and timeouts; its view goes to decisions and known orders |
| Execution ledger, `execution.py` | parent, children, executable depth and their sums | `submit`, `cancel`, `execute` | base of the two ledgers below |
| Replay ledger, `timed_execution.py` | the above plus debits of own fills | `observe` of an external message, `execute` | the engine's *actual* ledger |
| Known orders, `engine.py` | children as reported, receipts, refresh marks, believed depth | `submit`, `observe` of a publication, `receive` of a report | fed by decisions, by the local view, by reports |
| Causal engine, `engine.py` | the event heap, requests and timers of the recovery service, the orders | one handler per event kind | everything above |
| Schedule, `_schedule` | none | slice targets and the catch-up tick | both execution runners |
| Policy, `policy.py` | none | `decide`: deficit, cost gate | both execution runners |
| Fill and cost estimates, `valuation.py`; `_metrics` | none | exact Decimal accounting | ledgers, policy, result |
| Timed runner, `run_timed_execution` | the heap, one visible book, the replay ledger, the orders, the date of the last accepted message | one handler per event kind: message, arrival, decision, cutoff | schedule, policy, replay ledger; not used by the engine |
| Historical replay, `replay.py` | one book, the dates of the last accepted message | events and queries in visible order | stand-alone |
| Demo, package files | none | input and output | - |

### What is hard, and what makes each component correct

* **Book.** A lost update must not be papered over by the next one, a rejected
  message proves that its sequence exists, and no late snapshot may take the
  book back. Correct: the depth is the source's at the accepted sequence; a
  usable book covers every sequence offered; versions move forward.
* **Recovery.** Deltas and snapshots arrive in any order, twice, under wrong
  identities, with content that only fails on its predecessor; the buffer is
  bounded; an episode has a timeout that faults must not postpone. Correct: the
  published book stands at the highest sequence ever shown or is not usable; it
  is explained by its provenance; it never rolls back; a good snapshot always
  ends the episode; the timer runs exactly while it is needed.
* **Ledgers.** Depth is consumed in place and recomputed from debits when the
  external book changes. Correct: the parent is never oversold, in-place and
  recomputed depth agree, no level gives more than it showed, best price first.
* **Known orders.** A report tells of an execution some time ago, and the feed
  may have refreshed the level since. Correct: only reports release
  reservations; belief never exceeds what the parent really has left; the
  believed depth is never below the executable one at the same sequence.
* **Schedule, policy, money.** Slices and the catch-up overlap children on their
  way; the gate combines two depths; a child is quoted by one walk over the book
  and consumed by another. Correct: nothing runs ahead of the schedule; what the
  gate let go is filled as it was quoted if nothing came in between; the two
  walks are one execution and their money is the money of the fills.
* **Timed runner.** Orders meet stale and invalid books and are released, later
  ticks send again, the rest expires. Correct: nothing stays open; an order is
  processed at its arrival or expires at the deadline; the catch-up completes
  the parent unless it or a child on its way failed.
* **Replay.** Correct: an answer depends on exactly the messages visible by then.
* **Engine.** Late answers of abandoned requests, timeouts of earlier episodes,
  events at and after the deadline, orders that meet an invalid market. Correct:
  an invalid book always has its retry armed; obsolete answers never count;
  after the deadline only reports have an effect; the ledgers agree at the end;
  the loop ends, as every step uses up some of a fixed number; when the feed falls
  silent a timeout that can still ask recovers the book.

## 2. Modules

    Book ── OrderBook ── Replay ── BookProofs        Replay refines OrderBook
     │ └─── FeedView (abstract) ◄── refined by ── LocalRecovery ── LocalRecoveryProofs
     └───── Ledger
              ├── LedgerProofs (lemmas)
              ├── Execution ── ExecutionHistory ── ExecutionProofs
              │       └─────── ChildExecution   (+ Costs)      refines Execution ── ExecutionProofs
              ├── KnownOrders ── OrderReports ── OrderReportsProofs
              ├── Schedule
              └── Costs ── Policy
            Schedule, Policy              ── TimedExecution    refines Execution ── TimedExecutionProofs
            KnownOrders, Schedule, Policy ── CausalEngine      refines Execution, LocalRecovery
                                               │   INSTANCE LocalRecovery (the local book)
                                               └── CausalEngineProofs   (+ LocalRecoveryProofs)

| Module | Models | Correspondence |
|---|---|---|
| `Book` | `BookState`, `_reject`, `_commit`, the conditions of both methods | operators on a record; a depth maps every (side, price) to its size, 0 for an absent level |
| `OrderBook` | class `OrderBook` | `AcceptSnapshot`, `AcceptUpdate`, `RejectMessage`; `offered` is a history variable |
| `FeedView` | what `LocalRecovery.view` promises | `Suspend` and `Publish` |
| `LocalRecovery` | class `LocalRecovery` | one operator per way out of `receive` and `check_timeout`; the variables are the attributes, with their names |
| `Ledger` | `StaticExecution` and `_ReplayLedger` as values | `Submitted`, `Cancelled`, `Executed`, `Observed`; sums as `_build` computes them |
| `Execution` | a `_ReplayLedger` under any legal calls | `Submit`, `Cancel`, `Execute`, `Observe` |
| `ExecutionHistory` | adds history variables to `Execution` | for `NoLevelOverdrawn` only |
| `KnownOrders` | `_KnownOrders` as values | `Reserve`, `ObserveView`, `ReceiveReport`, `Rebuilt` |
| `OrderReports` | class `_KnownOrders` on its own | one action per method; the channel may lose, repeat, reorder and contradict reports, which the engine's never does |
| `Schedule` | `_schedule` | the set of ticks |
| `Costs` | `estimate_cost`, `_metrics` | exact integers, in 1/20000 of a tick times a lot |
| `Policy` | `decide` | `Wanted` is the deficit, `GateOpens` the gate, `Selected` the result |
| `ChildExecution` | `execute` as the code runs it: `estimate_fill`, then `_consume` | one step per level of each walk, a step that publishes; the locals are `walk` |
| `TimedExecution` | `run_timed_execution` | one action per event kind and outcome |
| `Replay` | `run_replay` | one action per kind of item of the timeline and outcome; what a message does to the book is an action of `OrderBook` |
| `CausalEngine` | `_run_execution` | one action per event kind and outcome; `RequestRecovery` is the nested function of that name, used by three handlers |
| `NaturalSums` | least and greatest elements of finite sets of naturals, sums over finite sets | lemmas for the proofs |
| `LedgerProofs` | the operators of `Ledger`, `KnownOrders` and `Schedule` | lemmas for the proofs about the modules above it |
| `*Proofs` | the module of that name (`BookProofs`: `OrderBook` and `Replay`; `ExecutionProofs` also `ExecutionHistory` and `ChildExecution`) | theorems |
| `MC*` | small instances | inputs only |

### How the models abstract

* Prices and sizes are small naturals; a `Decimal` that is exact behaves the
  same in sums, minima and comparisons. The precision limits of the code
  (values too far apart in scale raise an error) are not modelled.
* A batch of level changes is a function from keys to sizes; everything that
  can be wrong with a single level (types, signs, a key named twice) is the
  flag `sound`, a field of the message. Crossing is computed.
* A fingerprint is the message content; two messages are the same when they
  agree in all but their index.
* `_accepted` is `book` without its validity (`_invalidate` changes only flags),
  and the version of a published book is `publication`. `required_snapshot_sequence`
  of the published view is an output nobody reads. The branch "no new state"
  of `_try_publish` (recovery.py:255) cannot be reached: without an anchor the
  chain reaches the high water only through a new delta, as every new delta
  above the published sequence raises the high water.
* The heap is a set of events `<<time, rank, payload>>`. The rank refines the
  code's priority by the insertion order of the three kinds of priority 2
  (deliveries before the bootstrap before service answers). Two events of one
  time and rank other than market messages never both take effect: there is
  at most one tick per time, one answer awaited and one live timeout; reports
  and arrivals at one time come from different ticks only with equal latencies,
  which their distinct decision times exclude.
* Feed deliveries are chosen when their turn comes, instead of being given at
  the start: every list of deliveries is a run, and the other way round.
* Slice targets are whole lots (`target * quantity \div slices`).
* The cost gate is exact. The code compares, in cash, the covered cost of `q`
  lots of notional `N` against a cap of basis points of their midpoint value;
  with best prices `b` and `a` and everything multiplied by 20000 that is
  `Sign * (2N - q(b + a)) * 10000 + 2N * FeeBps <= MaxCost * q(b + a)`, which
  has no division. Ratios and basis points that are only displayed are left out.
* `Execution` takes the execution of a child as one step, with its fills in
  closed form (`FillsOf`); `ChildExecution` has the two walks the code makes
  level by level and implements `Execution`. The walks work on private
  values (`walk`), published by one assignment, as in the code. The levels left
  to a walk are a set it visits best first, since the book has them sorted.
* An answer of the replay carries the book's state; the estimate the code adds
  is a pure function of that state and of the query.
* Generated snapshot identities start above every index of a stream, as in
  the code (2^63); they follow the request token instead of a counter of reads,
  which identifies the same answers, since a request is read at most once.

### Order of work

1. Book, recovery and their abstract view, with proofs (done).
2. Ledgers, known orders, the causal engine (done).
3. Schedule, policy, costs; the timed runner and the replay; the execution walk
   by walk; known orders on a bad channel (done).
4. Proofs about the ledger and its operators, the timed runner, the rest of the
   recovery, the known orders (done).
5. Proofs about the engine: its invariant, the two refinements, what its
   strategy knows, its timeouts and answers (done).
6. Proofs about the two sides of the engine: the local book against the raw
   market book, believed against executable depth (done).
7. Proofs about the two walks of an execution and their money (done).
8. Proof about the replay (done).
9. Proof that the loop's steps run out (done).
10. Out of reach of the provers, see the end of section 4: `SilenceRecovers`.

## 3. What is checked

Each run is one configuration; deadlock is checked in all of them (the engine
and the timed runner have an explicit `Finished` step, the replay a `Done` one).

| Run | Instance | Shows |
|---|---|---|
| `order_book` | 3 prices, a source of 8 states, 18 messages: each update, late snapshots, malformed, crossing and unnumbered messages, in any order and number | `TypeOK`, `ValidCoversOffered`, `TrueToSource`, `VersionsMoveForward` |
| `recovery_honest` | 2 prices, sequences 1 to 4, one repeated update under a second index, three snapshots and a truncated one, buffer 2, timeout 2, clock 0..3 | the published book is the source's, with a gapless provenance; the buffer is bounded; duplicates refresh nothing |
| `recovery_faulty` | reused index, two updates and two depths at one sequence, batches crossing alone and on their predecessor, source time going back, foreign session, faulty message ahead of all, buffer 1, timeout 2, clock 0..3 | usable only at the high water; a good snapshot rescues; no rollback; the clock runs while invalid, and once it runs only an overflow and an expiry restart it (`EpisodeClockMoves`); `LocalRecovery` implements `FeedView` |
| `execution` | a seller of 4 lots, three children of 1 or 3 lots with and without limit, five external changes in any order, both liquidity models | never oversold, depth is raw less debits, no level overdrawn, best price first with the status the fills come to |
| `engine_orders` | a gated buyer of 6 lots, 3 slices and catch-up, order latency 3, report latency 2, both freshness limits, a price limit, a market that shrinks and grows or is invalid for a while, up to 5 deliveries | known and actual ledgers: `KnowsOnlyReports`, `NeverAheadOfSchedule`, `Reconciled`, and that the engine uses its ledger as `Execution` allows |
| `engine_refresh` | a seller under `refresh_touched`, zero order latency, reports 1 late, a snapshot service of latency 0 + 1, two streams (levels refreshed one by one and all at once; a snapshot that ends an invalid market), up to 6 deliveries | `LocalIsMarket`, `KnownDepthFollows` |
| `engine_recovery` | buffer 1, timeout 2, three requests, two streams (overflow; a gap in the market itself), up to 6 deliveries, with fairness | `RetryIsArmed`, `LiveTimeoutExpires`, `OnlyAwaitedAnswers`, `StepsRunOut`, `SilenceRecovers` |
| `timed` | a gated buyer of 6 lots, 3 slices and catch-up, latency 3, maximal age 3, both liquidity models; a snapshot, two updates and a later snapshot, each visible at 0, 1, 3, 4 or after the deadline (625 streams) | `AllSettled`, `CatchUpCompletes`, `GatedAsQuoted`, and that the runner uses its ledger as `Execution` allows |
| `replay` | five messages, one malformed, indices unlike sequences, visible at any of four times; three queries, two at one time (1024 recordings) | `AnswersAreCausal` |
| `child_execution` | a buyer of 4 lots in two children of 1 or 3 lots, with and without limit, three ask levels that change, both liquidity models | `ExecutesAtomically` (the walks implement `Execution`), `ShortfallAddsUp` |
| `order_reports` | a seller of 4 lots in two children, five market messages, views that lag and jump, reports lost, repeated, reordered and contradicted, both liquidity models | `BelievesReports`, `KnownDepthFollows` |
| `failed_response` | as `engine_recovery` | a disagreement of comment and code, below |

**Bounds.** Four sequences and a buffer of one or two are enough for every branch of
`receive`: a gap, a repaired gap, an overflow, an anchor behind the high water,
an anchor that prunes. Timeout 2 on a clock of 4 instants has episodes that
expire, that are restarted by an overflow and that end just in time. Three
children cover one of each terminal status next to a reservation. In the engine
the streams are short, but the latencies are chosen so that decisions overlap
orders in flight, reports overlap later feed messages, answers overlap
timeouts, and the deadline falls between an arrival and its report. The prices,
sizes and times of `timed` were chosen until every outcome occurs in it: filled,
partial and unfilled children, both rejections, expiry, a gate that refuses for
cost, for depth and for a missing midpoint, and a child that is executed just as
it was quoted. A walk over three levels, with a limit before the last and sizes
that end on a level and inside one, has every way a walk can stop.
`MaxDeliveries`, `MaxChildren` and `MaxTime` bound only the model.

**Fairness.** `FairSpec` assumes weak fairness of `Run`, the union of all loop
steps: `_run_execution` is a `while queue` loop in one thread that returns only
when the heap is empty or an execution is unknown. Nothing is assumed about
deliveries, service answers or which event comes next (the heap determines it).
`SilenceRecovers` uses it: behind an invalid local book, with no delivery to come,
a usable market that stands still, and a live timeout that leaves the time and the
limit for one more request, the local book recovers. It needs the timeout to give
up whatever request is out (one that met an invalid market is never answered), to
ask again, and the answer to be acceptable after all that was received before.
That it can happen takes a service no slower than the timeout, which the property
names and the instance has (latency 0 + 1, timeout 2); the stream whose market is
invalid for a while is there for the unanswered request.

That the loop ends is `StepsRunOut`, a property of single steps that needs no
fairness: there is a number, fixed by the heap and the bounds at the start, that
every step makes smaller. The instance has a service of latency 1; that no cycle
of events at one instant exists when all latencies are zero is what the theorem
`NoStepIsFree` adds, which holds for any.

**The episode clock.** A feed of faults cannot postpone the timeout of recovery: a reset
for its content, a conflict or a foreign session leaves the clock as it is. A feed
that overflows the buffer can: that is a reset too, and it restarts the clock
(recovery.py:211, which `tests/test_causal_recovery.py` asserts). `EpisodeClockMoves`
states both, with `Overflows` the exact condition, and that
expiry and overflow always do restart it.

**A disagreement.** The comment at `lob_sim/engine.py:342` says that a failed
response waits for the existing timeout. The response handler sends no request,
but it clears `request_pending`, so the next feed message that leaves the book
invalid sends one at once (engine.py:306, 262-268), while the existing timeout
is still queued. The loop the comment wants to avoid does not arise
(`StepsRunOut`), but a burst of feed messages can use up `max_requests` inside
one episode. `failed_response` shows the shortest such run.

**What the checks say about the documents.** `docs/design.md` warns that the
locally estimated depth need not equal the actual one. `KnownDepthFollows` says
in which direction: at one sequence the believed depth is never below the
executable depth, and the two are equal once all reports are in, unless a
snapshot of the service has refreshed levels the actual ledger still debits
(`refresh_touched`: the service's snapshot is a message of the local feed but
not of the market). One more case breaks the bound, and `KnownDepthFollows`
excludes it with `SnapshotsApart`: a market that rejected update 2 may take a
snapshot of sequence 2 and drop its debits, while all the strategy receives is the
update, which refreshes the levels it names and no other; its debits elsewhere
then stand for depth the market has given back. Under `persistent_debit` nothing is
ever given back, and the bound holds without that condition. `docs/design.md`
promises neither, so this is a limit of the estimate and no disagreement.
`engine_refresh` checks the property inside the engine;
`order_reports` checks it without the service, with reports that come in any
order.

## 4. What is proved

Each theorem below holds for every value of the constants that satisfies the
assumptions named in the modules: `PricesAssumption`, `MessagesAssumption`,
`ConfigAssumption`, `FeedAssumption` (book and recovery); `ParentAssumption` (a
side, a natural quantity, and finitely many prices, since the sums over a book
are over the levels a session names), `CallerAssumption`, `ChangesAssumption`
and `StreamAssumption` (positive sizes; messages whose levels are sizes);
`ScheduleAssumption`, `PolicyAssumption`, `TimedAssumption` (what
`_validate_inputs` refuses otherwise); `EngineAssumption` and
`MarketAssumption` (the same for `CausalConfig`, `RecoveryConfig` and the stream
`_validate` lets through); and `RecordingsAssumption` (finitely many messages, unique
indices and ids, natural times: what `run_replay` lets through). TLC evaluates each of them in the runs.

| Theorem | States |
|---|---|
| `BookProofs!TypeCorrect` | the types of the book |
| `BookProofs!UsableCoversOffered` | a usable book covers every sequence offered |
| `BookProofs!VersionsRise` | versions stand for rising sequences |
| `BookProofs!HonestBookIsTrue` | an honest session's book is the source's |
| `BookProofs!ReplayUsesBook` | the replay implements `OrderBook` |
| `BookProofs!QueriesSeeThePast` | every query of a replay is answered from exactly the messages visible at its time |
| `LocalRecoveryProofs!TypeCorrect` | the types of the recovery |
| `LocalRecoveryProofs!UsableAtHighWater` | a usable view stands at the high water |
| `LocalRecoveryProofs!ClockRuns` | the episode clock runs while it is needed, and only then |
| `LocalRecoveryProofs!NoRollback` | publications never go back |
| `LocalRecoveryProofs!ImplementsFeedView` | `LocalRecovery` implements `FeedView` |
| `LocalRecoveryProofs!HonestViewIsTrue` | an honest session's view is the source's |
| `LocalRecoveryProofs!BufferIsBounded` | the buffer keeps its bound |
| `LocalRecoveryProofs!OnlyOverflowAndExpiryRestart` | an overflow and an expiry restart the clock of a running episode, a publication stops it, nothing else moves it |
| `LocalRecoveryProofs!SnapshotsRescue` | a good snapshot at the high water always makes the view usable |
| `LocalRecoveryProofs!OnlyNewsPublishes` | a repeated message publishes nothing |
| `LocalRecoveryProofs!ProvenanceExplains` | a usable view is one snapshot and a gapless chain of deltas |
| `ExecutionProofs!TypeCorrect` | the types of the ledger (its `TypeOK` is proved and in no run) |
| `ExecutionProofs!ParentNeverOversold` | filled and reserved fit the parent |
| `ExecutionProofs!DepthIsExact` | depth reduced in place is depth recomputed |
| `ExecutionProofs!TakesBestPricesFirst` | best prices first, never beyond the limit, and the status the fills come to |
| `ExecutionProofs!LevelsNotOverdrawn` | no level gives more than it showed |
| `ExecutionProofs!WalksAreAtomic` | the quote and the consuming walk are one execution of `Execution` |
| `ExecutionProofs!ShortfallIsExact` | the reported shortfall is what the fills cost above the parent at the reference |
| `TimedExecutionProofs!RunnerKeepsContract` | the timed runner implements `Execution` |
| `TimedExecutionProofs!RunsSettle` | nothing is open when the run ends |
| `TimedExecutionProofs!CatchUpsComplete` | a catch-up completes the parent unless some order on its way failed |
| `TimedExecutionProofs!FilledAsQuoted` | the gate's quote is the execution, if nothing came in between |
| `OrderReportsProofs!BelievesOnlyReports` | belief is submissions and true executions, on any channel |
| `OrderReportsProofs!DepthFollowsReports` | believed depth is never below the executable one at one sequence |
| `CausalEngineProofs!TypeCorrect` | the types of the engine |
| `CausalEngineProofs!ReportsTellAll` | an order is known as sent until its report, then as executed |
| `CausalEngineProofs!OnSchedule` | fills and reservations stay within a target already reached |
| `CausalEngineProofs!BothSidesAgree` | nothing is on its way after the deadline; an orderly end leaves the ledgers alike |
| `CausalEngineProofs!EngineKeepsContract` | the engine implements `Execution` |
| `CausalEngineProofs!EngineImplementsRecovery` | the engine implements `LocalRecovery` |
| `CausalEngineProofs!EngineViewIsLatest` | what it decides on is the newest view, and is never taken back |
| `CausalEngineProofs!InvalidBookIsRetried` | exactly one live timeout while an invalid book may still recover |
| `CausalEngineProofs!LiveTimeoutsExpire` | a live timeout is never early, nor after the deadline |
| `CausalEngineProofs!AnswersAreAwaited` | only the awaited answer reaches the local book, by the deadline and once |
| `CausalEngineProofs!LocalBookIsMarkets` | in truthful sessions, the local book at the market's sequence is the raw market book |
| `CausalEngineProofs!NoStepIsFree` | every step of the loop uses up some of a number fixed at the start |
| `CausalEngineProofs!DepthBeliefFollows` | in truthful sessions, where the books are level, believed depth is never below the executable one |

*The book.* The inductive invariant adds to the types that the recovery floor
lies above everything offered while the book is not usable, and one above its
sequence when it is (`FloorCovers`): `ValidCoversOffered` alone is not
inductive, as nothing in it keeps an old snapshot out of an invalid book.

*The replay.* The reference of `AnswersAreCausal` knows no queries and no loop: `Views`
gives what any set of messages leaves, by what the latest of them adds to what the others
leave. The invariant says that no item left sorts before one taken, that book
and dates are the view of the messages taken, and that every answer given is the one of the
reference. When a query comes, the messages taken are exactly those visible
by then, as any other sorts after it. Finite sets of messages have a latest one
(`SomeLatest`), and `Views` is defined on all of them by a least counterexample
(`ViewsExist`), which is how a recursive function is unfolded here. Every message of a recording is
one `OrderBook` may be offered, so the replay implements it (`ReplayUsesBook`) and what is
proved of the book holds of the replay's.

*The recovery.* `IInv` has two parts. `CoreInv` relates the published book, the
high water, the clock and the candidate behind the book. Its part `Fit` says what a
candidate is: every buffered delta is well-formed, above the published sequence
and at or below the high water; the anchor is well-formed, at or below the high
water, and does not regress from the published book. It is needed because a
publication uses messages received many steps before: `NeverRollsBack` and
`KeepsContract` hold of a step only if everything still waiting would pass the
checks of `receive` now. `CoreInv` also says that a usable book has nothing
waiting and stands at the high water, and when the episode clock runs. `SeenInv`
keeps the identity histories at or below the high water. `PublishDelivers` is
the central lemma: any fit candidate that is joined and clean gives what
`FeedView!Publish` promises. `HonestViewIsTrue` argues by a least
counterexample (`NaturalSums`, since induction over the chain is out of the
prover's reach) that replaying a gapless set of honest deltas over an honest
base gives the source's book at the end of the chain (`TrueReplay`), and that
all that was registered is true to one source (`Told`, `Shown`). The lemmas speak
of any truth, so the engine's proofs use them again. Further invariants
carry the rest: `BufferIsBounded` needs that what waits is finite and that the
overflow branch is taken exactly at the bound; `OnlyOverflowAndExpiryRestart` needs
the same (`EpisodeInv`), so that a snapshot, which only removes deltas, never
overflows the buffer; `ProvenanceExplains` that while the book is usable its
messages have distinct sequences that reach it without a gap, which a later
publication extends at its end or replaces.

*The ledger.* `NeverOversold` is not inductive: an execution moves a child's
quantity from `Reserved` to `Filled`, and only `FillsTotal` says that it moves no
more. `Sound` adds that a reserved child has filled nothing yet and that every
child filled at most its quantity. The fills of a child are a closed form over
all the levels ahead of each one, so `FillsTotal` (a child is filled by all that
its limit admits, up to its quantity) is an induction over the prices from the
best on. `LevelsNotOverdrawn` runs over the history variables of
`ExecutionHistory`: what was taken since a level was last set, and what is left
of it, are what it was set to.

*The two walks.* `FillsOf` gives a child's fills at once, from the levels ahead of each
price; the walks give them one level at a time. `WalkInv` holds between any two
levels. Of the first walk it says that what it has found, and paid, is what the
child takes at the levels behind it (`Quoting`); `WalkTotal` says that this is the
depth behind it or the quantity looked for, whichever is less, because the levels
behind are the best ones (`InOrder`), and so the next level gives what the child
takes there (`WalkStep`). When nothing is left to look for, or no level, the
rest of the fills are zero (`QuoteComplete`). Of the second walk `WalkInv` says
the same with the first one's answer for the quantity and no limit
(`Consuming`): `SecondWalk` shows that asking for what a limited walk has found,
without the limit, takes the same at every price. `PublishExecutes` then has the
published record be the one `Executed` gives, and the other steps leave the
ledger alone.

*The money.* Each child is booked the covered cost of its own fills
(`BookedInv`), which is the walks' agreement again, as the quote books and the second
walk fills. That cost is linear in what was paid and what was bought
(`CostIsLinear`), and so is the sum over the children (`SumLinear`); the shortfall
follows by an identity of polynomials (`SameMoney`). `MidType` is needed because a
midpoint exists only where both sides of the market do, which `Evaluable` guarantees.

*Sums.* `SumFunctionOnSet` unfolds to a `CHOOSE` of a recursive function over
sets, and the library's theorems for it take operators as parameters.
`NaturalSums` shows that the chosen function exists by taking a set of least
cardinality for which it would not, and from it what the proofs use: adding an
element, splitting a set, comparing and bounding sums.

*The timed runner.* The invariant ties the heap to the orders: an order is
pending exactly while its child is reserved; until the cutoff its arrival is in
the heap or after the deadline; the decisions left bound the children still to
come, which is where `MaxChildren = Slices + 1` of the contract comes from.
`RunnerKeepsContract` then maps every event to one step of `Execution` or none.
`CatchUpsComplete` and `FilledAsQuoted` need that events come in the order of
the heap (`Ordered`), that a quote stands while nothing was processed since
(`QuoteStands`), and what the catch-up found missing (`CaughtUp`).

*The known orders.* The invariant says for both ledgers whose fills weigh on a
level: in the market those executed since the level was last refreshed, by the
strategy's reckoning those reported at or after the last refresh it was shown
(`Weighed`, `Refreshed`). At one sequence the two criteria agree on every report
received (`SameForce`); a report still missing only leaves a debit out, which is
why belief can exceed the truth and never fall below it.

*The engine.* `KnowsOnlyReports` and `Reconciled` say nothing of what is queued,
so they are not inductive. `OrderOK` adds it: a pending order has exactly its
arrival in the heap, at or before a deadline that is still queued, an executed
order that is not reported has its report there, and what the report carries is
the child as it was executed; `EventOK` says the converse, event by event, so
that no arrival or report is met twice. `ScheduleInv` counts the decisions left
against the orders sent. `EngineKeepsContract` is then one step of `Execution`
or none per event; its hard case is a decision, which sizes an order by the
reported children: `KnownCovers` shows that what they leave of the parent is
never more than what the actual ledger has left. `EngineImplementsRecovery`
shows that every feed delivery, used answer, bootstrap and live timeout is a
step of `LocalRecovery` on messages it may receive, so its theorems hold of the
engine's local book without being proved again.

*The timeouts.* `RetryIsArmed` forgets about obsolete timeouts, which may be
those of an episode with the same publication. `TimerOK` says of each one in the
heap that it is not before the end of the episode it carries, that this episode
is not after the current one, and that it is exactly at the end when it is the
current one and a retry is still possible. `GenerationOK` keeps the armed
generation below the last publication behind a usable book and equal to the
episode behind another, and `Armed` is the property itself with the bootstrap
replaced by a running clock. What they need of the recovery are the
`Episode...` lemmas of `LocalRecoveryProofs`: a step publishes, or leaves the
clock running as it was or at the present; a snapshot never restarts it, since
only an overflow does; and a book that never started it has registered nothing.
`LiveTimeoutExpires` follows because a live timeout carries the running episode
and is never before its end.

*The two books.* The last two theorems assume `Truthful` sessions: for every
stream there is one book per sequence that all its well-formed messages agree
with, a snapshot by being it and an update by taking its predecessor there. Without
it a stream may say two things of one sequence, the market and the local book may
each believe another, and neither property holds. `StreamsAreTrue` has TLC evaluate the
hypothesis on the streams of all the runs. `TruthInv` carries one truth through
both sides: the raw book, if accepted, is the truth at its sequence; so is every
answer the service has under way, since it is a copy of the raw book; so is
all the local recovery has registered, by either way (`Told`), and by
`LocalRecoveryProofs!ShownKept` therefore its book. Two books at one sequence are then
one book.

*The two depths.* Level raw books leave the debits to compare. `DebitInv` gives
the market's: its own debits are what the orders took that still weigh (`Weighing`),
executed no earlier than the snapshot its book stands on (`BasedOn`) and not
refreshed since by an update of the level. `BeliefInv` gives the strategy's: what the
reported orders took that are in force by the refreshes it knows, and these are
the refreshes of the provenance, each by a message it heard. `BelievedWeighs`
shows that the second set lies in the first. A level local book is one snapshot and a
gapless chain of updates (`Recovery!ChainInv`), and a fill in force is not before
that snapshot. So every update the market processed after the fill has its sequence in
the chain, and is the update there: the local book hears only what the market
processed, or the service (`HeardInv`), and the market takes one message of a sequence. A
fill the strategy holds in force was therefore not refreshed in the market
either; that no snapshot of the market came after it is where
`SnapshotsApart` is needed. `WeighsBelieved` is the converse, once all reports are
in and no snapshot of the service has refreshed more than the market knows.
`FloorInv` orders the two kinds of events: everything processed lies
at or below the market's recovery floor and every fill below it, so that what comes
next refreshes what was traded before.

*The end of the loop.* Events make events: a timeout makes a request, which makes a
read, an answer and the next timeout, and a delivery may make a timeout too. `Weight`
charges every event with the steps it can lead to, and `StepsLeft` adds
what requests and deliveries may still cause, within `max_requests` and the deliveries the run
has. `EventPays` covers the events that lead to a lighter one or to none,
`RequestPays` the three handlers that call `request_recovery`: it arms at most one
timeout, and what it sends is paid from the requests left, so a live timeout that asks again,
heaviest of all, still pays for itself. The invariant needed is that the heap is
finite (`FiniteInv`), which is where the stream must be. A run therefore makes at most `StepsLeft`
steps, whatever its latencies; that it makes another one while an event is left is the
`while` loop itself.

Only model-checked, and why:

* `SilenceRecovers`: liveness under fairness is not provable with the installed
  prover. Its safety parts are: a live timeout is armed while a retry is possible
  (`InvalidBookIsRetried`), expires its episode (`LiveTimeoutsExpire`), and a good
  snapshot always rescues the view (`SnapshotsRescue`).

## 5. Not modelled

* The Decimal precision limits, and the averages, ratios and basis points that
  results display: divisions no decision reads. What is compared or summed is
  exact in the code and in `Costs`. `_schedule` is the exception: it divides,
  and the model's slice targets are whole lots.
* The trace, the decision records with their reasons, and the other fields of
  results that only report: outputs nothing reads again.
* Errors for malformed arguments (`TypeError`, `ValueError` of `_validate`, of
  the estimates and of the ledgers): they precede any change of state. What
  they guarantee is in the assumptions of the modules.
* The demo and package files: input and output.

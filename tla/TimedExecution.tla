--------------------------- MODULE TimedExecution ---------------------------
(***************************************************************************)
(* run_timed_execution of lob_lab/timed_execution.py, the older runner:    *)
(* one visible clock, one book that is both what decisions see and what    *)
(* orders meet, and confirmations at the instant of execution.  The heap   *)
(* holds the messages, the arrivals, the decision ticks and the cutoff,    *)
(* ordered by time, priority and index.  The trace and the decision        *)
(* records are left out.                                                   *)
(***************************************************************************)
EXTENDS Schedule, Policy

CONSTANTS
    Streams,            \* the event lists of a session, each a set of book
                        \* messages with event_index and visible_time_ns in
                        \* their fields index and time
    MaxBookAge          \* max_book_age_ns, in Nat, or None

ASSUME TimedAssumption ==
    /\ MaxBookAge \in Nat \cup {None}
    /\ \A stream \in Streams : \A m \in stream :
           /\ m.time \in Nat /\ m.seq \in Nat /\ m.index \in Nat
           /\ IF m.kind = "snapshot" THEN m.levels \in Depth ELSE IsBatch(m.levels)
           /\ \A n \in stream : n.index = m.index => n = m

VARIABLES
    agenda,             \* the heap, a set of events <<time, priority, item>>
    model,              \* liquidity_model
    book, ledger,
    lastVisible,        \* last_visible
    orders,             \* OrderTiming of every child
    ended               \* the loop has been left

vars == <<agenda, model, book, ledger, lastVisible, orders, ended>>

MarketPriority == 0
ArrivalPriority == 1
DecisionPriority == 2
CutoffPriority == 3

TimeOf(e) == e[1]
PriorityOf(e) == e[2]
Item(e) == e[3]

\* Two events of one time and priority are messages or arrivals.
IndexOf(e) ==
    CASE PriorityOf(e) = MarketPriority -> Item(e).index
      [] PriorityOf(e) = ArrivalPriority -> Item(e)
      [] OTHER -> 0

Precedes(e, f) ==
    \/ TimeOf(e) < TimeOf(f)
    \/ TimeOf(e) = TimeOf(f) /\ PriorityOf(e) < PriorityOf(f)
    \/ TimeOf(e) = TimeOf(f) /\ PriorityOf(e) = PriorityOf(f) /\ IndexOf(e) < IndexOf(f)

Init ==
    /\ \E stream \in Streams :
           agenda = {<<m.time, MarketPriority, m>> : m \in {n \in stream : n.time <= Deadline}}
                        \cup {<<k[1], DecisionPriority, k[2]>> : k \in Ticks}
                        \cup {<<Deadline, CutoffPriority, None>>}
    /\ model \in Models
    /\ book = InitBook /\ ledger = EmptyLedger
    /\ lastVisible = None
    /\ orders = <<>> /\ ended = FALSE

-----------------------------------------------------------------------------
\* The loop takes the first event.
Pop(e, priority) ==
    /\ ~ended /\ PriorityOf(e) = priority
    /\ \A f \in agenda : ~Precedes(f, e)
    /\ UNCHANGED model

\* condition; a valid book has been visible.
Condition(time) ==
    IF ~book.valid THEN "invalid"
    ELSE IF MaxBookAge # None /\ time - lastVisible > MaxBookAge THEN "stale"
    ELSE "usable"

AcceptMessage(e) ==
    LET m == Item(e)
    IN  /\ Pop(e, MarketPriority)
        /\ Accepts(book, m)
        /\ book' = Commit(book, m.seq, DepthAfter(book, m))
        /\ lastVisible' = TimeOf(e)
        /\ ledger' = Observed(ledger, model, book'.depth, m)
        /\ agenda' = agenda \ {e}
        /\ UNCHANGED <<orders, ended>>

\* Mutant: a rejected message still tells the ledger what it touched.
RejectMessageObserved(e) ==
    /\ Pop(e, MarketPriority)
    /\ ~Accepts(book, Item(e))
    /\ book' = Reject(book, Item(e).seq)
    /\ ledger' = Observed(ledger, model, book.depth, Item(e))
    /\ agenda' = agenda \ {e}
    /\ UNCHANGED <<lastVisible, orders, ended>>

RejectMessage(e) ==
    /\ Pop(e, MarketPriority)
    /\ ~Accepts(book, Item(e))
    /\ book' = Reject(book, Item(e).seq)
    /\ agenda' = agenda \ {e}
    /\ UNCHANGED <<ledger, lastVisible, orders, ended>>

Processed(i, t, status) ==
    orders' = [orders EXCEPT ![i] = [@ EXCEPT !.processed = t, !.status = status]]

ArrivalExecuted(e) ==
    LET i == Item(e)
    IN  /\ Pop(e, ArrivalPriority)
        /\ Condition(TimeOf(e)) = "usable"
        /\ ledger' = Executed(ledger, i)
        /\ Processed(i, TimeOf(e), ledger'.children[i].status)
        /\ agenda' = agenda \ {e}
        /\ UNCHANGED <<book, lastVisible, ended>>

\* An order that meets an unusable book is cancelled and its quantity free.
ArrivalRejected(e) ==
    LET error == Condition(TimeOf(e))
    IN  /\ Pop(e, ArrivalPriority)
        /\ error # "usable"
        /\ ledger' = Cancelled(ledger, Item(e))
        /\ Processed(Item(e), TimeOf(e), IF error = "invalid" THEN "rejected_invalid"
                                         ELSE "rejected_stale")
        /\ agenda' = agenda \ {e}
        /\ UNCHANGED <<book, lastVisible, ended>>

\* What decide selects, on the raw book and the ledger's depth.
Chosen(e) ==
    IF Condition(TimeOf(e)) = "usable"
    THEN Selected(book.depth, ledger.depth, ledger.children, Item(e)[1], Item(e)[2])
    ELSE 0

\* A child that cannot arrive in time is sent all the same.
DecisionSubmit(e) ==
    LET arrival == TimeOf(e) + OrderLatency
    IN  /\ Pop(e, DecisionPriority)
        /\ Chosen(e) > 0
        /\ ledger' = Submitted(ledger, Chosen(e), LimitPrice)
        /\ orders' = Append(orders, [decision |-> TimeOf(e), arrival |-> arrival,
                                     processed |-> None, status |-> "pending"])
        /\ agenda' = (agenda \ {e}) \cup {<<arrival, ArrivalPriority, Len(orders')>>}
        /\ UNCHANGED <<book, lastVisible, ended>>

DecisionSkip(e) ==
    /\ Pop(e, DecisionPriority)
    /\ Chosen(e) = 0
    /\ agenda' = agenda \ {e}
    /\ UNCHANGED <<book, ledger, lastVisible, orders, ended>>

Pending(i) == orders[i].status = "pending"

\* At the cutoff the children on their way expire, one by one.
Expire(e, i) ==
    /\ Pop(e, CutoffPriority)
    /\ Pending(i) /\ \A j \in 1 .. i - 1 : ~Pending(j)
    /\ ledger' = Cancelled(ledger, i)
    /\ Processed(i, TimeOf(e), "expired")
    /\ UNCHANGED <<agenda, book, lastVisible, ended>>

\* Mutant: the children on their way stay reserved.
CutoffWithPending(e) ==
    /\ Pop(e, CutoffPriority)
    /\ agenda' = agenda \ {e} /\ ended' = TRUE
    /\ UNCHANGED <<book, ledger, lastVisible, orders>>

\* The loop is left, with the arrivals of expired children still in the heap.
Cutoff(e) ==
    /\ Pop(e, CutoffPriority)
    /\ \A i \in DOMAIN orders : ~Pending(i)
    /\ agenda' = agenda \ {e} /\ ended' = TRUE
    /\ UNCHANGED <<book, ledger, lastVisible, orders>>

Step(e) ==
    \/ AcceptMessage(e) \/ RejectMessage(e)
    \/ ArrivalExecuted(e) \/ ArrivalRejected(e)
    \/ DecisionSubmit(e) \/ DecisionSkip(e)
    \/ (\E i \in DOMAIN orders : Expire(e, i)) \/ Cutoff(e)

Finished == ended /\ UNCHANGED vars

Next == (\E e \in agenda : Step(e)) \/ Finished

Spec == Init /\ [][Next]_vars

-----------------------------------------------------------------------------
\* When the run ends nothing is left open: no quantity is reserved, an order
\* was processed at its arrival exactly when that was no later than the
\* deadline, and otherwise expired there without a fill ("Arrivals at cutoff
\* execute; later ones expire without fills").
AllSettled ==
    ended =>
        /\ Reserved(ledger.children) = 0
        /\ \A i \in DOMAIN orders :
               LET o == orders[i]
                   fills == ledger.children[i].fills
               IN  IF o.arrival <= Deadline
                   THEN o.processed = o.arrival /\ o.status \notin {"pending", "expired"}
                   ELSE o.processed = Deadline /\ o.status = "expired" /\ fills = NoFills

\* A catch-up that was sent completes the parent, unless a child that was on
\* its way with it, or itself, was rejected or found too little depth: what
\* earlier children left open, rejected or not, is sent again by then.
CatchUpCompletes ==
    ended /\ CatchesUp /\ (\E i \in DOMAIN orders : orders[i].decision = CatchTime) =>
        \/ Filled(ledger.children) = Quantity
        \/ \E i \in DOMAIN orders :
               /\ orders[i].processed >= CatchTime
               /\ orders[i].status \in {"partial", "unfilled", "rejected_invalid",
                                        "rejected_stale"}

\* Between its decision and its arrival nothing has been accepted by the book
\* and no other child has been processed.
Undisturbed(i) ==
    /\ lastVisible <= orders[i].decision
    /\ \A j \in DOMAIN orders \ {i} :
           orders[j].processed = None \/ orders[j].processed <= orders[i].decision

ByGate(i) == MaxCost # None /\ <<orders[i].decision, <<Quantity, TRUE>>>> \notin Ticks

\* The gate quotes the depth execution uses: a child it let go that is still
\* on the book of its decision is filled whole, at a cost within the cap.
GatedAsQuoted ==
    [][\A i \in DOMAIN orders :
           /\ Pending(i) /\ ByGate(i) /\ Undisturbed(i)
           /\ orders'[i].status \in {"filled", "partial", "unfilled"}
           => /\ orders'[i].status = "filled"
              /\ WithinCap(ledger'.children[i].fills, TwiceMid(book.depth))]_vars

\* The runner uses its ledger as Execution allows: every child fits the
\* parent, is cancelled or executed once, and the ledger observes the book
\* exactly when that accepts a message.
Contract == INSTANCE Execution WITH
                raw <- book.depth, Changes <- UNION Streams, Sizes <- 1 .. Quantity,
                Limits <- {LimitPrice}, MaxChildren <- Slices + 1

LedgerContract == Contract!Spec

=============================================================================

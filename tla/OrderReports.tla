---------------------------- MODULE OrderReports ----------------------------
(***************************************************************************)
(* _KnownOrders of lob_sim/engine.py as a machine of its own, on a worse   *)
(* channel than the engine gives it: terminal reports are lost, repeated   *)
(* and reordered, and contradicting ones arrive.  The market is observed   *)
(* by the actual ledger at once and by the strategy later, through views   *)
(* that were published from deltas or from a snapshot of the stream.       *)
(***************************************************************************)
EXTENDS KnownOrders

CONSTANTS
    Stream,             \* the messages the market accepts, in their order
    Sizes,              \* the quantities a decision may choose
    LimitPrice,         \* limit_price
    MaxChildren         \* bound: children submitted

ASSUME StreamAssumption ==
    /\ Stream \in Seq(Range(Stream))
    /\ \A n \in DOMAIN Stream :
           /\ Stream[n].seq = n
           /\ \/ Stream[n].kind = "snapshot" /\ Stream[n].levels \in Depth
              \/ Stream[n].kind = "update" /\ IsBatch(Stream[n].levels)
    /\ Sizes \subseteq Nat \ {0} /\ MaxChildren \in Nat
    /\ LimitPrice \in Prices \cup {NoLimit}

VARIABLES
    model,              \* liquidity_model
    depths,             \* the market's depth after every message accepted
    actual,             \* the actual ledger
    shown,              \* the sequence of the published local view
    known,              \* the known orders
    sent                \* the reports of executions; one that was received
                        \* stays and may be received again

vars == <<model, depths, actual, shown, known, sent>>

\* The market has accepted Stream[1 .. position].
position == Len(depths)

\* The market's depth at a sequence.
DepthAt(n) == IF n = 0 THEN EmptyDepth ELSE depths[n]

Init ==
    /\ model \in Models
    /\ depths = <<>> /\ actual = EmptyLedger
    /\ shown = 0 /\ known = UnknownOrders /\ sent = {}

MarketMoves ==
    /\ position < Len(Stream)
    /\ LET m == Stream[position + 1]
           after == DepthAfter([depth |-> DepthAt(position)], m)
       IN  /\ depths' = Append(depths, after)
           /\ actual' = Observed(actual, model, after, m)
    /\ UNCHANGED <<model, shown, known, sent>>

\* A later view: every delta since the last one, or a snapshot on the way and
\* the deltas after it.
Publish(first, n) ==
    /\ shown < first /\ first <= n /\ n <= position
    /\ first = shown + 1 \/ Stream[first].kind = "snapshot"
    /\ shown' = n
    /\ known' = ObserveView(known, model, DepthAt(n), {Stream[i] : i \in first .. n})
    /\ UNCHANGED <<model, depths, actual, sent>>

\* A decision knows only what is known.
Submit(qty) ==
    /\ Len(known.children) < MaxChildren
    /\ qty <= Available(known.children)
    /\ known' = Reserve(known, qty, LimitPrice)
    /\ actual' = Submitted(actual, qty, LimitPrice)
    /\ UNCHANGED <<model, depths, shown, sent>>

Execute(i) ==
    /\ actual.children[i].status = "reserved"
    /\ actual' = Executed(actual, i)
    /\ sent' = sent \cup {[child |-> i, outcome |-> actual'.children[i], seq |-> position]}
    /\ UNCHANGED <<model, depths, shown, known>>

\* Reports that contradict the one received, in their fills or sequence, or
\* the submission, in their quantity.
Contradicting(r) ==
    (IF known.receipts[r.child] = NoSeq THEN {}
     ELSE {[r EXCEPT !.outcome.fills = NoFills], [r EXCEPT !.seq = @ + 1]})
        \cup {[r EXCEPT !.outcome.qty = @ + 1]}

Receive(r) ==
    /\ known' = ReceiveReport(known, model, r.child, r.outcome, r.seq)
    /\ UNCHANGED <<model, depths, actual, shown, sent>>

Next ==
    \/ MarketMoves
    \/ \E first, n \in DOMAIN Stream : Publish(first, n)
    \/ \E qty \in Sizes : Submit(qty)
    \/ \E i \in DOMAIN actual.children : Execute(i)
    \/ \E r \in sent : \E s \in {r} \cup Contradicting(r) : Receive(s)

Spec == Init /\ [][Next]_vars

-----------------------------------------------------------------------------
\* Of every child the strategy knows its submission or what became of it,
\* never anything else, whatever arrives twice, late or wrong: it cannot
\* believe that more of the parent is left than really is.
BelievesReports ==
    /\ \A i \in DOMAIN known.children :
           \/ /\ known.receipts[i] = NoSeq
              /\ known.children[i] =
                     NewChild(actual.children[i].qty, actual.children[i].limit)
           \/ [child |-> i, outcome |-> known.children[i], seq |-> known.receipts[i]] \in sent
    /\ Available(known.children) <= Available(actual.children)

\* Where the view is level with the market, the depth the strategy believes it
\* can trade is never less than the executable one, under either liquidity
\* model: no report, however late, debits what the market has given back.
\* Once every report is in, the two are equal.
KnownDepthFollows ==
    shown = position =>
        /\ \A k \in Keys : known.depth[k] >= actual.depth[k]
        /\ known.children = actual.children => known.depth = actual.depth

=============================================================================

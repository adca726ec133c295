--------------------------- MODULE ChildExecution ---------------------------
(***************************************************************************)
(* StaticExecution.execute and _ReplayLedger.execute as the two walks they *)
(* are: estimate_fill walks the levels inside the limit and says how much  *)
(* a child gets, at what cost; _consume then walks all levels of that side *)
(* for as much, and gives the fills and the depth left.  One is booked as  *)
(* money, the other as depth.  Both are private until they are published.  *)
(* The other operations are those of Execution.                            *)
(***************************************************************************)
EXTENDS Execution, Costs

VARIABLES
    booked,             \* the covered_cost of every child
    walk                \* the locals of the execution in progress, a record of
                        \*   phase        "quote" or "consume", or "idle"
                        \*   child        its index
                        \*   levels       the prices still to visit, the best one next
                        \*   remaining    the quantity still looked for
                        \*   filled, notional, unfilled     the FillEstimate
                        \*   fills, residual    of _consume, by price

allVars == <<vars, booked, walk>>

NoWalk == [phase |-> "idle", child |-> 0, levels |-> {}, remaining |-> 0,
           filled |-> 0, notional |-> 0, unfilled |-> 0,
           fills |-> NoFills, residual |-> NoFills]

ChildInit == Init /\ booked = <<>> /\ walk = NoWalk

-----------------------------------------------------------------------------
\* The levels of the side a child consumes; a walk goes from the best to the
\* worst, as the book has them sorted.
Levels(depth, limit) == {p \in Prices : depth[<<Opposite, p>>] > 0 /\ Eligible(limit, p)}

NextLevel == CHOOSE p \in walk.levels : \A q \in walk.levels \ {p} : Better(p, q)

Size(p) == ledger.depth[<<Opposite, p>>]

Take == Smaller(Size(NextLevel), walk.remaining)

\* Submissions, cancellations and observations come between executions.
Idle ==
    /\ walk = NoWalk
    /\ \/ \E qty \in Sizes, limit \in Limits :
              Submit(qty, limit) /\ booked' = Append(booked, 0)
       \/ /\ \/ \E i \in DOMAIN ledger.children : Cancel(i)
             \/ \E m \in Changes : Observe(m)
          /\ UNCHANGED booked
    /\ UNCHANGED walk

\* Mutant: the quote does not know the limit.
StartQuoteAnywhere(i) ==
    /\ walk = NoWalk /\ ledger.children[i].status = "reserved"
    /\ walk' = [NoWalk EXCEPT !.phase = "quote", !.child = i, !.remaining = ledger.children[i].qty,
                              !.levels = Levels(ledger.depth, NoLimit)]
    /\ UNCHANGED <<vars, booked>>

StartQuote(i) ==
    LET child == ledger.children[i]
    IN  /\ walk = NoWalk /\ child.status = "reserved"
        /\ walk' = [NoWalk EXCEPT !.phase = "quote", !.child = i,
                                  !.levels = Levels(ledger.depth, child.limit),
                                  !.remaining = child.qty]
        /\ UNCHANGED <<vars, booked>>

\* Mutant: a level is paid for as a whole.
QuoteWholeLevel ==
    LET p == NextLevel
    IN  /\ walk.phase = "quote" /\ walk.levels # {} /\ walk.remaining > 0
        /\ walk' = [walk EXCEPT !.filled = @ + Take, !.notional = @ + p * Size(p),
                                !.remaining = @ - Take, !.levels = @ \ {p}]
        /\ UNCHANGED <<vars, booked>>

QuoteLevel ==
    LET p == NextLevel
    IN  /\ walk.phase = "quote" /\ walk.levels # {} /\ walk.remaining > 0
        /\ walk' = [walk EXCEPT !.filled = @ + Take, !.notional = @ + p * Take,
                                !.remaining = @ - Take, !.levels = @ \ {p}]
        /\ UNCHANGED <<vars, booked>>

\* The second walk starts over, on every level, for the quantity quoted.
StartConsume ==
    /\ walk.phase = "quote" /\ (walk.levels = {} \/ walk.remaining = 0)
    /\ walk' = [walk EXCEPT !.phase = "consume", !.unfilled = walk.remaining,
                            !.levels = Levels(ledger.depth, NoLimit), !.remaining = walk.filled]
    /\ UNCHANGED <<vars, booked>>

ConsumeLevel ==
    LET p == NextLevel
    IN  /\ walk.phase = "consume" /\ walk.levels # {}
        /\ walk' = [walk EXCEPT !.fills[p] = Take, !.residual[p] = Size(p) - Take,
                                !.remaining = @ - Take, !.levels = @ \ {p}]
        /\ UNCHANGED <<vars, booked>>

\* The child as the quote describes it, with the fills of the second walk.
Executing ==
    [ledger.children[walk.child] EXCEPT
        !.fills = walk.fills,
        !.status = IF walk.unfilled = 0 THEN "filled"
                   ELSE IF walk.filled > 0 THEN "partial" ELSE "unfilled"]

Publish ==
    /\ walk.phase = "consume" /\ walk.levels = {}
    /\ ledger' = [depth |-> [k \in Keys |-> IF k[1] = Opposite THEN walk.residual[k[2]]
                                            ELSE ledger.depth[k]],
                  children |-> [ledger.children EXCEPT ![walk.child] = Executing],
                  debits |-> [k \in Keys |-> ledger.debits[k] + Taken(walk.fills, k)]]
    /\ booked' = [booked EXCEPT
           ![walk.child] = CoveredCost(walk.notional, walk.filled, 2 * ReferencePrice)]
    /\ walk' = NoWalk
    /\ UNCHANGED <<model, raw>>

ChildNext ==
    \/ Idle
    \/ \E i \in DOMAIN ledger.children : StartQuote(i)
    \/ QuoteLevel \/ StartConsume \/ ConsumeLevel \/ Publish

ChildSpec == ChildInit /\ [][ChildNext]_allVars

-----------------------------------------------------------------------------
\* The two walks are together one execution as Execution describes it: they
\* agree on how much is taken, no level behind the limit is touched although
\* the second walk does not know the limit, the status fits the fills, and
\* nothing shows before all of it does.
ExecutesAtomically == Spec

SumOver(f) == SumFunctionOnSet(f, DOMAIN f)

\* What _metrics reports as the shortfall, from the costs the quotes booked
\* and the market's midpoint, is what the fills the other walk made really
\* cost: against buying (or selling) the whole parent at the reference, with
\* the fee, and the rest at the midpoint.
ShortfallAddsUp ==
    LET open == Quantity - Filled(ledger.children)
        traded == SumOver([i \in DOMAIN ledger.children |-> Notional(ledger.children[i].fills)])
        rest == IF open = 0 THEN 0 ELSE open * TwiceMid(raw)
        paper == Quantity * 2 * ReferencePrice
    IN  Evaluable(open, raw, TRUE) =>
            ShortfallCash(SumOver(booked), open, raw)
                = Sign * (2 * traded + rest - paper) * 10000 + 2 * traded * FeeBps

=============================================================================

------------------------------- MODULE Ledger -------------------------------
(***************************************************************************)
(* The execution ledgers of lob_lab/execution.py (StaticExecution) and     *)
(* lob_lab/timed_execution.py (_ReplayLedger) as values and operators: a   *)
(* parent order, its children, and the depth they consume.                 *)
(*                                                                         *)
(* A ledger is a record                                                    *)
(*   depth     the executable depth (ExecutionState.bids and asks)         *)
(*   children  the children in submission order                            *)
(*   debits    what own fills took from each level of the external book    *)
(* and the sums of ExecutionState (filled, reserved, available) are        *)
(* operators of its children, as _build computes them.  Money is the       *)
(* subject of Costs; the exactness of Decimal arithmetic is left out.      *)
(***************************************************************************)
EXTENDS Book, Sequences, FiniteSets, Functions

CONSTANTS
    Side,               \* the parent's side, "BUY" or "SELL"
    Quantity,           \* the parent's quantity
    NoLimit             \* limit_price None

\* The messages and limits of a session name finitely many prices.
ASSUME ParentAssumption ==
    Side \in {"BUY", "SELL"} /\ Quantity \in Nat /\ IsFiniteSet(Prices)

Opposite == IF Side = "BUY" THEN "ASK" ELSE "BID"

Smaller(a, b) == IF a <= b THEN a ELSE b

\* The sum of a function of prices.
Total(f) == SumFunctionOnSet(f, Prices)

NoFills == [p \in Prices |-> 0]

\* A child order: its limit, its fills by price, and one of the statuses.
Statuses == {"reserved", "filled", "partial", "unfilled", "cancelled"}

Child == [qty : Nat, limit : Prices \cup {NoLimit}, status : Statuses,
          fills : [Prices -> Nat]]

NewChild(qty, limit) ==
    [qty |-> qty, limit |-> limit, status |-> "reserved", fills |-> NoFills]

-----------------------------------------------------------------------------
\* The sums of _build.

Filled(children) ==
    SumFunctionOnSet([i \in DOMAIN children |-> Total(children[i].fills)], DOMAIN children)

\* Mutant: a reservation is forgotten.
ReservedNothing(children) == 0

Held(child) == IF child.status = "reserved" THEN child.qty ELSE 0

Reserved(children) ==
    SumFunctionOnSet([i \in DOMAIN children |-> Held(children[i])], DOMAIN children)

Available(children) == Quantity - Filled(children) - Reserved(children)

-----------------------------------------------------------------------------
\* Consuming depth.

\* _eligible_sides: the limit protects the opposite side only.
Eligible(limit, price) ==
    \/ limit = NoLimit
    \/ IF Side = "BUY" THEN price <= limit ELSE price >= limit

Better(p, q) == IF Side = "BUY" THEN p < q ELSE p > q

\* The sizes on the side a child consumes.
Offered(depth) == [p \in Prices |-> depth[<<Opposite, p>>]]

\* Mutant: worse prices come first.
AheadOfWorse(depth, limit, p) ==
    SumFunctionOnSet(Offered(depth), {b \in Prices : Eligible(limit, b) /\ Better(p, b)})

\* What is offered at the eligible levels better than p.
Ahead(depth, limit, p) ==
    SumFunctionOnSet(Offered(depth), {b \in Prices : Eligible(limit, b) /\ Better(b, p)})

\* Mutant: a level gives more than it has.
FillsUnbounded(depth, qty, limit) ==
    [p \in Prices |->
        IF Eligible(limit, p) /\ depth[<<Opposite, p>>] > 0
        THEN Larger(0, qty - Ahead(depth, limit, p)) ELSE 0]

\* estimate_fill on the eligible side and _consume: at every eligible level,
\* what the better ones leave of the quantity and the level has.
FillsOf(depth, qty, limit) ==
    [p \in Prices |->
        IF Eligible(limit, p)
        THEN Smaller(depth[<<Opposite, p>>], Larger(0, qty - Ahead(depth, limit, p)))
        ELSE 0]

Taken(fills, k) == IF k[1] = Opposite THEN fills[k[2]] ELSE 0

Less(depth, fills) == [k \in Keys |-> depth[k] - Taken(fills, k)]

Outcome(child, fills) ==
    [child EXCEPT
        !.fills = fills,
        !.status = IF Total(fills) = child.qty THEN "filled"
                   ELSE IF Total(fills) = 0 THEN "unfilled" ELSE "partial"]

-----------------------------------------------------------------------------
\* What an external market message does to debits.

Models == {"persistent_debit", "refresh_touched"}

NoDebits == [k \in Keys |-> 0]

\* Mutant: an update refreshes every level.
RefreshAll(model, debits, m) ==
    IF model = "persistent_debit" THEN debits ELSE NoDebits

\* The debits a message leaves: under refresh_touched a snapshot supersedes
\* all, an update those of the levels it touches.
Refresh(model, debits, m) ==
    IF model = "persistent_debit" THEN debits
    ELSE IF m.kind = "snapshot" THEN NoDebits
    ELSE [k \in Keys |-> IF k \in DOMAIN m.levels THEN 0 ELSE debits[k]]

\* The depth left to own orders of an external depth.
Residual(raw, debits) == [k \in Keys |-> Larger(0, raw[k] - debits[k])]

-----------------------------------------------------------------------------
\* The operations; a raised error leaves the ledger as it is.

EmptyLedger == [depth |-> EmptyDepth, children |-> <<>>, debits |-> NoDebits]

Submitted(ledger, qty, limit) ==
    [ledger EXCEPT !.children = Append(@, NewChild(qty, limit))]

Cancelled(ledger, i) == [ledger EXCEPT !.children[i].status = "cancelled"]

\* Mutant: a fill leaves no debit.
ExecutedUndebited(ledger, i) ==
    LET child == ledger.children[i]
        fills == FillsOf(ledger.depth, child.qty, child.limit)
    IN  [ledger EXCEPT !.depth = Less(@, fills), !.children[i] = Outcome(child, fills)]

Executed(ledger, i) ==
    LET child == ledger.children[i]
        fills == FillsOf(ledger.depth, child.qty, child.limit)
    IN  [depth |-> Less(ledger.depth, fills),
         children |-> [ledger.children EXCEPT ![i] = Outcome(child, fills)],
         debits |-> [k \in Keys |-> ledger.debits[k] + Taken(fills, k)]]

\* _ReplayLedger.observe: external depth `raw`, just set by message m.
Observed(ledger, model, raw, m) ==
    LET debits == Refresh(model, ledger.debits, m)
    IN  [ledger EXCEPT !.depth = Residual(raw, debits), !.debits = debits]

=============================================================================

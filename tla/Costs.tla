------------------------------- MODULE Costs --------------------------------
(***************************************************************************)
(* Money in lob_lab/valuation.py (estimate_cost) and timed_execution.py    *)
(* (_metrics), exact as the code's Decimals are.  A reference price is     *)
(* given doubled, so that a midpoint is whole, and every cost is in units  *)
(* of 1/20000 tick times lot, so that half ticks and basis points are too. *)
(* The ratios (averages, basis points) are only ever displayed.            *)
(***************************************************************************)
EXTENDS Ledger, FiniteSetsExt

CONSTANTS
    FeeBps,             \* the parent's fee_bps
    ReferencePrice      \* and its reference_price

ASSUME CostAssumption == FeeBps \in Nat /\ ReferencePrice \in Nat \ {0}

Sign == IF Side = "BUY" THEN 1 ELSE -1

Notional(fills) == SumFunctionOnSet([p \in Prices |-> p * fills[p]], Prices)

\* covered_cost: what `filled` lots cost above the reference, and the fee.
CoveredCost(notional, filled, twiceReference) ==
    Sign * (2 * notional - filled * twiceReference) * 10000 + 2 * notional * FeeBps

OneSided(depth) == \E side \in Sides : \A p \in Prices : depth[<<side, p>>] = 0

\* Twice the midpoint of a book with two sides.
TwiceMid(depth) ==
    Max({p \in Prices : depth[<<"BID", p>>] > 0}) + Min({p \in Prices : depth[<<"ASK", p>>] > 0})

-----------------------------------------------------------------------------
\* _metrics: the implementation shortfall of a parent, given the covered cost
\* of its children together, its unfilled quantity and the market at the end.

\* evaluation_available
Evaluable(remaining, market, usable) == remaining = 0 \/ (usable /\ ~OneSided(market))

\* opportunity_cost
Opportunity(remaining, market) ==
    IF remaining = 0 THEN 0
    ELSE Sign * remaining * (TwiceMid(market) - 2 * ReferencePrice) * 10000

\* is_cash
ShortfallCash(covered, remaining, market) == covered + Opportunity(remaining, market)

=============================================================================

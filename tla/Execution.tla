------------------------------ MODULE Execution ------------------------------
(***************************************************************************)
(* One _ReplayLedger (a StaticExecution when nothing is observed) under    *)
(* any legal sequence of calls: run_timed_execution and the causal engine  *)
(* are two of its callers, and this module allows what either may do.      *)
(***************************************************************************)
EXTENDS Ledger

CONSTANTS
    Changes,            \* the market messages that may be observed
    Sizes,              \* the quantities and
    Limits,             \* the limits a caller may submit
    MaxChildren         \* bound: children submitted

ASSUME CallerAssumption ==
    /\ Sizes \subseteq Nat \ {0} /\ Limits \subseteq Prices \cup {NoLimit}
    /\ MaxChildren \in Nat

ASSUME ChangesAssumption ==
    \A m \in Changes :
        IF m.kind = "snapshot" THEN m.levels \in Depth ELSE IsBatch(m.levels)

VARIABLES
    ledger,             \* the ledger
    model,              \* _model, the liquidity model of the session
    raw                 \* depth of the market book observed last

vars == <<ledger, model, raw>>

TypeOK ==
    /\ ledger.depth \in Depth /\ ledger.debits \in [Keys -> Nat]
    /\ \A i \in DOMAIN ledger.children : ledger.children[i] \in Child
    /\ model \in Models /\ raw \in Depth

Init ==
    /\ ledger = EmptyLedger
    /\ model \in Models
    /\ raw = EmptyDepth

-----------------------------------------------------------------------------
\* submit: within the parent's unreserved remainder.
Submit(qty, limit) ==
    /\ Len(ledger.children) < MaxChildren
    /\ qty <= Available(ledger.children)
    /\ ledger' = Submitted(ledger, qty, limit)
    /\ UNCHANGED <<model, raw>>

Cancel(i) ==
    /\ ledger.children[i].status = "reserved"
    /\ ledger' = Cancelled(ledger, i)
    /\ UNCHANGED <<model, raw>>

Execute(i) ==
    /\ ledger.children[i].status = "reserved"
    /\ ledger' = Executed(ledger, i)
    /\ UNCHANGED <<model, raw>>

\* observe, called after the market book has accepted message m.
Observe(m) ==
    LET after == DepthAfter([depth |-> raw], m)
    IN  /\ ~Crossed(after)
        /\ raw' = after
        /\ ledger' = Observed(ledger, model, after, m)
        /\ UNCHANGED model

Next ==
    \/ \E qty \in Sizes, limit \in Limits : Submit(qty, limit)
    \/ \E i \in DOMAIN ledger.children : Cancel(i) \/ Execute(i)
    \/ \E m \in Changes : Observe(m)

Spec == Init /\ [][Next]_vars

-----------------------------------------------------------------------------
\* The parent is never oversold: what is filled and what children still hold
\* in reserve fit its quantity, through any mix of fills and cancellations.
NeverOversold ==
    Filled(ledger.children) + Reserved(ledger.children) <= Quantity

\* The executable depth, which execute shrinks in place and observe computes
\* afresh, is always the external depth less the debits still in force.
DepthIsRawLessDebits == ledger.depth = Residual(raw, ledger.debits)

\* Filled by this step.
Fresh(i) ==
    /\ i \in DOMAIN ledger.children
    /\ ledger.children[i].status = "reserved"
    /\ ledger'.children[i].status \in {"filled", "partial", "unfilled"}

Inside(child, p) ==
    \/ child.limit = NoLimit
    \/ Side = "BUY" /\ p <= child.limit
    \/ Side = "SELL" /\ p >= child.limit

Left(p) == ledger'.depth[<<Opposite, p>>]

\* The status tells what the fills come to.
StatusTells(child) ==
    LET filled == Total(child.fills)
    IN  /\ child.status = "filled" => filled = child.qty
        /\ child.status = "partial" => 0 < filled /\ filled < child.qty
        /\ child.status = "unfilled" => filled = 0

TookBest(child) ==
    /\ StatusTells(child)
    /\ \A p \in Prices : child.fills[p] > 0 =>
           Inside(child, p) /\ \A b \in Prices : Better(b, p) => Left(b) = 0
    /\ child.status # "filled" => \A p \in Prices : Inside(child, p) => Left(p) = 0

\* A child takes the best prices first and never trades through its limit:
\* a level it takes from is inside it, every better level is then empty, and
\* a child left short leaves no level inside it behind.  The status, which the
\* code takes from the quote, agrees with the fills, which the consuming walk
\* makes (execution.py:206).
BestPriceFirst ==
    [][\A i \in DOMAIN ledger.children : Fresh(i) => TookBest(ledger'.children[i])]_vars

=============================================================================

------------------------------- MODULE Policy -------------------------------
(***************************************************************************)
(* decide of lob_lab/policy.py: how much of the parent a decision tick     *)
(* sends, from a usable view (raw book, executable depth, children).  The  *)
(* reasons decide gives are only recorded.                                 *)
(***************************************************************************)
EXTENDS Costs

CONSTANTS
    None,               \* None
    LimitPrice,         \* limit_price
    MaxCost             \* LiquidityRule.max_cost_bps, None without a rule

ASSUME PolicyAssumption ==
    /\ LimitPrice \in Prices \cup {NoLimit} /\ MaxCost \in Nat \cup {None}
    /\ None \notin Nat

\* Mutant: reservations do not count.
WantedGross(children, target) == Larger(0, target - Filled(children))

\* The deficit of a target that is not filled or reserved yet.
Wanted(children, target) ==
    Smaller(Available(children),
            Larger(0, target - Filled(children) - Reserved(children)))

\* The exact cash comparison of the gate.
WithinCap(fills, twiceMid) ==
    CoveredCost(Notional(fills), Total(fills), twiceMid) <= MaxCost * Total(fills) * twiceMid

\* Mutant: depth that covers only a part of the child is good enough.
GateOpensForLess(raw, depth, qty, catchUp) ==
    \/ MaxCost = None \/ catchUp
    \/ ~OneSided(raw) /\ WithinCap(FillsOf(depth, qty, LimitPrice), TwiceMid(raw))

\* Without a rule, and at the catch-up, every child may go.  Otherwise its
\* fills in the executable depth inside the limit must cover it and cost no
\* more than the cap above the midpoint of the raw book.
GateOpens(raw, depth, qty, catchUp) ==
    \/ MaxCost = None \/ catchUp
    \/ LET quote == FillsOf(depth, qty, LimitPrice)
       IN  ~OneSided(raw) /\ Total(quote) = qty /\ WithinCap(quote, TwiceMid(raw))

\* selected_qty
Selected(raw, depth, children, target, catchUp) ==
    LET qty == Wanted(children, target)
    IN  IF GateOpens(raw, depth, qty, catchUp) THEN qty ELSE 0

=============================================================================

----------------------------- MODULE KnownOrders -----------------------------
(***************************************************************************)
(* _KnownOrders of lob_sim/engine.py as values and operators: what the     *)
(* strategy knows of its own orders.  A child is reserved in full from its *)
(* submission until its terminal report, and the depth it believes it can  *)
(* trade is the observed book less the reported fills still in force.      *)
(*                                                                         *)
(* A known ledger is a record                                              *)
(*   children       the children, reserved or as reported                  *)
(*   receipts       for every child the market sequence its report names,  *)
(*                  NoSeq before the report                                *)
(*   refreshAll     _refresh_all: the highest snapshot applied             *)
(*   refreshLevels  _refresh_levels: the last update applied to each level *)
(*   raw            _book: the depth observed last                         *)
(*   depth          ExecutionState.bids and asks                           *)
(***************************************************************************)
EXTENDS Ledger, FiniteSetsExt


UnknownOrders ==
    [children |-> <<>>, receipts |-> <<>>,
     refreshAll |-> NoSeq, refreshLevels |-> [k \in Keys |-> NoSeq],
     raw |-> EmptyDepth, depth |-> EmptyDepth]

\* Mutant: a fill at the sequence of the last refresh is superseded by it.
InForceStrictly(known, model, i, k) ==
    \/ model = "persistent_debit"
    \/ known.receipts[i] > Larger(known.refreshAll, known.refreshLevels[k])

\* The fills of child i at a level still weigh on the observed depth.
InForce(known, model, i, k) ==
    \/ model = "persistent_debit"
    \/ known.receipts[i] >= Larger(known.refreshAll, known.refreshLevels[k])

\* Mutant: of several fills at a level only the largest weighs.
RebuiltFromLargest(known, model) ==
    LET reported(k) == {i \in DOMAIN known.children :
                           known.receipts[i] # NoSeq /\ InForce(known, model, i, k)}
        debits == [k \in Keys |->
            Max({0} \cup {Taken(known.children[i].fills, k) : i \in reported(k)})]
    IN  [known EXCEPT !.depth = Residual(known.raw, debits)]

\* _rebuild: the depth belief, from the reports and the refreshes.
Rebuilt(known, model) ==
    LET reported(k) == {i \in DOMAIN known.children :
                           known.receipts[i] # NoSeq /\ InForce(known, model, i, k)}
        debits == [k \in Keys |->
            SumFunctionOnSet([i \in DOMAIN known.children |-> Taken(known.children[i].fills, k)],
                             reported(k))]
    IN  [known EXCEPT !.depth = Residual(known.raw, debits)]

\* submit
Reserve(known, qty, limit) ==
    [known EXCEPT !.children = Append(@, NewChild(qty, limit)),
                  !.receipts = Append(@, NoSeq)]

\* observe: a published book and the messages that were applied to reach it.
ObserveView(known, model, raw, applied) ==
    LET snapshots == {m.seq : m \in {n \in applied : n.kind = "snapshot"}}
        touching(k) == {m.seq : m \in {n \in applied :
                                          n.kind = "update" /\ k \in DOMAIN n.levels}}
    IN  Rebuilt([known EXCEPT
                    !.raw = raw,
                    !.refreshAll = Max(snapshots \cup {@}),
                    !.refreshLevels = [k \in Keys |-> Max(touching(k) \cup {@[k]})]],
                model)

\* Mutant: a report releases the reservation and loses the fills.
ReceiveWithoutFills(known, model, i, child, seq) ==
    Rebuilt([known EXCEPT !.children[i] = [child EXCEPT !.fills = NoFills],
                          !.receipts[i] = seq], model)

\* Mutant: the last report of a child wins.
ReceiveLast(known, model, i, child, seq) ==
    Rebuilt([known EXCEPT !.children[i] = child, !.receipts[i] = seq], model)

\* receive: the terminal report of child i, executed at market sequence seq.
\* A repetition changes nothing, nor does what raises: a report that differs
\* from the one received, or that does not match the submission.
ReceiveReport(known, model, i, child, seq) ==
    IF \/ known.receipts[i] # NoSeq
       \/ child.qty # known.children[i].qty \/ child.limit # known.children[i].limit
    THEN known
    ELSE Rebuilt([known EXCEPT !.children[i] = child, !.receipts[i] = seq], model)

=============================================================================

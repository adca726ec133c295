----------------------------- MODULE MCExecution -----------------------------
(***************************************************************************)
(* A seller of four lots on a book of two bid levels that grow, shrink,    *)
(* vanish and come back, by snapshots and by updates of one side, of both  *)
(* and of the other one.                                                   *)
(***************************************************************************)
EXTENDS ExecutionHistory, TLC

CONSTANT None           \* the model value for NoLimit

MCPrices == 1 .. 3

With(levels) == levels @@ EmptyDepth

Snapshot(levels) == [kind |-> "snapshot", levels |-> With(levels)]
Update(levels) == [kind |-> "update", levels |-> levels]

MCChanges ==
    {Snapshot(<<"BID", 1>> :> 2 @@ <<"BID", 2>> :> 1 @@ <<"ASK", 3>> :> 1),
     Snapshot(<<"BID", 1>> :> 1),
     Update(<<"BID", 2>> :> 2),
     Update(<<"BID", 1>> :> 1 @@ <<"ASK", 3>> :> 2),
     Update(<<"BID", 1>> :> 0 @@ <<"BID", 2>> :> 0)}

MCSizes == {1, 3}
MCLimits == {2, None}

=============================================================================

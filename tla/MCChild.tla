------------------------------- MODULE MCChild -------------------------------
(***************************************************************************)
(* A buyer of four lots in two children, with and without a limit, on a    *)
(* book of three ask levels that shrink, vanish and come back.             *)
(***************************************************************************)
EXTENDS ChildExecution, TLC

MCPrices == 1 .. 4

With(sizes) == sizes @@ EmptyDepth

MCChanges ==
    {[kind |-> "snapshot",
      levels |-> With(<<"BID", 1>> :> 1 @@ <<"ASK", 2>> :> 1 @@ <<"ASK", 3>> :> 1 @@ <<"ASK", 4>> :> 2)],
     [kind |-> "update", levels |-> <<"ASK", 3>> :> 2 @@ <<"BID", 1>> :> 0],
     [kind |-> "update", levels |-> <<"ASK", 2>> :> 0 @@ <<"BID", 2>> :> 1]}

MCSizes == {1, 3}

MCLimits == {3, NoLimit}

=============================================================================

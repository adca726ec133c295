------------------------------ MODULE MCReports ------------------------------
(***************************************************************************)
(* A seller of four lots in two children on two bid levels that are        *)
(* refreshed one by one, at smaller, unchanged and larger sizes, and then  *)
(* together by a snapshot, after which one of them changes again.          *)
(***************************************************************************)
EXTENDS OrderReports, TLC

MCPrices == 1 .. 3

BidsOneTwo == (<<"BID", 1>> :> 2) @@ (<<"BID", 2>> :> 2) @@ (<<"ASK", 3>> :> 1)

Message(seq, kind, levels) == [kind |-> kind, seq |-> seq, levels |-> levels]

MCStream ==
    <<Message(1, "snapshot", BidsOneTwo @@ EmptyDepth),
      Message(2, "update", <<"BID", 2>> :> 1),
      Message(3, "update", <<"BID", 1>> :> 2 @@ <<"ASK", 3>> :> 2),
      Message(4, "snapshot", BidsOneTwo @@ EmptyDepth),
      Message(5, "update", <<"BID", 2>> :> 3)>>

MCSizes == {1, 3}

=============================================================================

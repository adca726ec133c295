----------------------------- MODULE MCOrderBook -----------------------------
(***************************************************************************)
(* A source whose book changes sizes, gains and loses levels, swaps the    *)
(* side that holds the middle price and ends one-sided, with every update  *)
(* and snapshot it sends, malformed and crossing messages, an update whose *)
(* sequence is not a number, and a snapshot without any level.             *)
(***************************************************************************)
EXTENDS OrderBook, TLC

MCPrices == 1 .. 3

With(levels) == levels @@ EmptyDepth

MCHistory ==
    (0 :> With(<<"BID", 1>> :> 1 @@ <<"ASK", 3>> :> 1)) @@
    (1 :> With(<<"BID", 1>> :> 2 @@ <<"ASK", 3>> :> 1)) @@
    (2 :> With(<<"BID", 1>> :> 2 @@ <<"BID", 2>> :> 1 @@ <<"ASK", 3>> :> 1)) @@
    (3 :> With(<<"BID", 1>> :> 2 @@ <<"ASK", 2>> :> 1)) @@
    (4 :> With(<<"ASK", 2>> :> 1)) @@
    (5 :> EmptyDepth) @@
    (6 :> With(<<"BID", 3>> :> 1)) @@
    (7 :> With(<<"BID", 1>> :> 3 @@ <<"ASK", 2>> :> 2))

\* The batch that takes the book at n - 1 to the book at n.
Batch(n) ==
    LET touched == {k \in Keys : MCHistory[n - 1][k] # MCHistory[n][k]}
    IN  [k \in touched |-> MCHistory[n][k]]

Message(kind, seq, levels, sound) ==
    [kind |-> kind, seq |-> seq, levels |-> levels, sound |-> sound]

Crossing == (<<"BID", 3>> :> 1) @@ (<<"ASK", 1>> :> 1)

MCMessages ==
    {Message("update", n, Batch(n), TRUE) : n \in 1 .. 7}
        \cup {Message("snapshot", n, MCHistory[n], TRUE) : n \in {0, 2, 3, 5, 6}}
        \cup {Message("update", n, Batch(n), FALSE) : n \in {2, 4}}
        \cup {Message("snapshot", 4, MCHistory[4], FALSE),
              Message("snapshot", 3, With(Crossing), TRUE),
              Message("update", 1, Crossing, TRUE),
              Message("update", NoSeq, Batch(2), TRUE)}

=============================================================================

----------------------------- MODULE MCRecovery -----------------------------
(***************************************************************************)
(* Feeds for LocalRecovery.  The source's book gains, resizes and loses    *)
(* levels and moves the ask to the price the bid leaves.                   *)
(***************************************************************************)
EXTENDS LocalRecovery, TLC

MCPrices == 1 .. 2

With(levels) == levels @@ EmptyDepth

MCHistory ==
    (0 :> EmptyDepth) @@
    (1 :> With(<<"BID", 1>> :> 1 @@ <<"ASK", 2>> :> 1)) @@
    (2 :> With(<<"BID", 1>> :> 2 @@ <<"ASK", 2>> :> 1)) @@
    (3 :> With(<<"ASK", 1>> :> 1 @@ <<"ASK", 2>> :> 1)) @@
    (4 :> With(<<"ASK", 1>> :> 1))

Batch(n) ==
    LET touched == {k \in Keys : MCHistory[n - 1][k] # MCHistory[n][k]}
    IN  [k \in touched |-> MCHistory[n][k]]

Message(index, kind, seq, time, levels) ==
    [index |-> index, kind |-> kind, seq |-> seq, time |-> time,
     levels |-> levels, sound |-> TRUE, own |-> TRUE]

Update(index, n, time) == Message(index, "update", n, time, Batch(n))
Snapshot(index, n, time) == Message(index, "snapshot", n, time, MCHistory[n])

Truncated(m) == [m EXCEPT !.sound = FALSE]
Foreign(m) == [m EXCEPT !.own = FALSE]

\* Sequence n is the source's book from time n - 2 on; the same update may be
\* sent again under another index, and a snapshot may be truncated.
HonestMessages ==
    {Update(2, 2, 0), Update(3, 3, 1), Update(4, 4, 2), Update(5, 3, 1),
     Snapshot(11, 1, 0), Snapshot(12, 2, 1), Snapshot(13, 3, 1),
     Truncated(Snapshot(14, 4, 2))}

\* A session that contradicts itself: an index used twice, two updates and
\* two snapshots for one sequence, a batch that crosses alone and one that
\* crosses on its book, source times that go back, a foreign session ahead of
\* this one, and a faulty message ahead of everything.
FaultyMessages ==
    {Snapshot(1, 1, 0), Update(2, 2, 1), Update(3, 3, 1),
     [Update(2, 2, 1) EXCEPT !.time = 0],
     Message(4, "update", 2, 1, <<"BID", 2>> :> 1),
     Message(5, "snapshot", 3, 1, With(<<"BID", 1>> :> 3)),
     Snapshot(6, 3, 0), Snapshot(7, 3, 2),
     Foreign(Update(8, 4, 1)),
     Truncated(Update(9, 4, 1))}

=============================================================================

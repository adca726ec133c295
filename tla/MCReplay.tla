------------------------------ MODULE MCReplay ------------------------------
(***************************************************************************)
(* A snapshot, two updates, a malformed message and a late snapshot that   *)
(* become visible in any order, with recorded indices that differ from     *)
(* their sequences, and three queries, two of them at one time.            *)
(***************************************************************************)
EXTENDS Replay, TLC

MCPrices == 1 .. 2

With(levels) == levels @@ EmptyDepth

Message(index, kind, seq, levels, sound) ==
    [kind |-> kind, seq |-> seq, index |-> index, levels |-> levels, sound |-> sound,
     source |-> seq]

Feed == <<Message(4, "snapshot", 1, With(<<"BID", 1>> :> 1 @@ <<"ASK", 2>> :> 1), TRUE),
          Message(3, "update", 2, <<"ASK", 2>> :> 2, TRUE),
          Message(5, "update", 3, <<"BID", 1>> :> 0, TRUE),
          Message(1, "update", 4, <<"BID", 1>> :> 3, FALSE),
          Message(2, "snapshot", 5, With(<<"BID", 1>> :> 2), TRUE)>>

Visible(times) == {Feed[i] @@ [time |-> times[i]] : i \in 1 .. 5}

Queries == {[id |-> "a", place |-> 2, time |-> 1], [id |-> "b", place |-> 1, time |-> 1],
            [id |-> "c", place |-> 3, time |-> 3]}

MCRecordings == {<<Visible(times), Queries>> : times \in [1 .. 5 -> {0, 1, 2, 4}]}

\* All that a recording may hold; the source's own book is not looked at.
MCMessages == UNION {r[1] : r \in MCRecordings}

NoHistory == <<>>

=============================================================================

------------------------------- MODULE MCTimed -------------------------------
(***************************************************************************)
(* A buyer on a feed of four messages, a snapshot, two updates and a       *)
(* later snapshot, that become visible in every order: in sequence, with   *)
(* gaps, together, late or after the deadline.                             *)
(***************************************************************************)
EXTENDS TimedExecution, TLC

MCPrices == 1 .. 3

With(levels) == levels @@ EmptyDepth

AsksTwoThree == (<<"BID", 1>> :> 1) @@ (<<"ASK", 2>> :> 1) @@ (<<"ASK", 3>> :> 4)

AsksDeeper == (<<"BID", 1>> :> 1) @@ (<<"ASK", 2>> :> 3) @@ (<<"ASK", 3>> :> 4)

Message(index, kind, seq, levels) ==
    [kind |-> kind, seq |-> seq, index |-> index, levels |-> levels, sound |-> TRUE]

Feed == <<Message(1, "snapshot", 1, With(AsksTwoThree)),
          Message(2, "update", 2, <<"ASK", 2>> :> 1 @@ <<"BID", 1>> :> 0),
          Message(3, "update", 3, <<"ASK", 3>> :> 0 @@ <<"BID", 1>> :> 2),
          Message(4, "snapshot", 5, With(AsksDeeper))>>

Visible(times) == {Feed[i] @@ [time |-> times[i]] : i \in 1 .. 4}

MCStreams == {Visible(times) : times \in [1 .. 4 -> {0, 1, 3, 4, 7}]}

=============================================================================

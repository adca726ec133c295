------------------------------- MODULE MCEngine -------------------------------
(***************************************************************************)
(* Streams for the causal engine, one set for each question: orders and    *)
(* their reports, refreshed depth, and recovery.                           *)
(***************************************************************************)
EXTENDS CausalEngine, TLC

MCPrices == 1 .. 3

With(levels) == levels @@ EmptyDepth

Message(kind, seq, time, levels, sound) ==
    [kind |-> kind, seq |-> seq, time |-> time, levels |-> levels, sound |-> sound,
     index |-> seq, own |-> TRUE]

Snapshot(seq, time, levels) == Message("snapshot", seq, time, With(levels), TRUE)
Update(seq, time, levels) == Message("update", seq, time, levels, TRUE)
Malformed(seq, time) == Message("update", seq, time, <<"BID", 1>> :> 1, FALSE)

\* A buyer meets a level that shrinks and grows; or a market that is invalid
\* for a while, until a snapshot some sequences later.
AsksTwoThree == (<<"BID", 1>> :> 1) @@ (<<"ASK", 2>> :> 2) @@ (<<"ASK", 3>> :> 1)

OrderStreams == {
    {Snapshot(1, 0, AsksTwoThree), Update(2, 1, <<"ASK", 2>> :> 1 @@ <<"BID", 1>> :> 0),
     Update(3, 3, <<"ASK", 2>> :> 3 @@ <<"BID", 1>> :> 1)},
    {Snapshot(1, 0, AsksTwoThree), Malformed(2, 2), Snapshot(4, 4, AsksTwoThree)}}

\* A seller's levels are refreshed one by one, at unchanged and at new sizes,
\* and then all at once; or a fill is left behind by a snapshot that ends an
\* invalid market.
BidsOneTwo == (<<"BID", 1>> :> 2) @@ (<<"BID", 2>> :> 1) @@ (<<"ASK", 3>> :> 1)

RefreshStreams == {
    {Snapshot(1, 0, BidsOneTwo), Update(2, 1, <<"BID", 1>> :> 2),
     Update(3, 2, <<"BID", 2>> :> 2), Snapshot(4, 4, BidsOneTwo)},
    {Snapshot(1, 0, BidsOneTwo), Malformed(2, 2), Snapshot(3, 3, BidsOneTwo),
     Update(4, 4, <<"BID", 2>> :> 1)}}

\* More updates in flight than the buffer holds; or a gap in the market's own
\* stream, which leaves the service without an answer until the next snapshot.
RecoveryStreams == {
    {Snapshot(1, 0, AsksTwoThree), Update(2, 1, <<"ASK", 2>> :> 1),
     Update(3, 1, <<"ASK", 3>> :> 2), Update(4, 2, <<"BID", 1>> :> 2),
     Update(5, 4, <<"ASK", 2>> :> 2)},
    {Snapshot(1, 0, AsksTwoThree), Update(3, 1, <<"ASK", 2>> :> 1),
     Snapshot(4, 3, BidsOneTwo)}}

\* Every one of these streams tells of one book at every sequence: the books
\* that its own sound messages make, one after the other.  None has an update
\* at the sequence of a snapshot.
MCTruth(S) ==
    LET At(n) == {m \in S : m.seq = n /\ m.sound}
        truth[n \in Nat] ==
            IF At(n) = {} THEN IF n = 0 THEN EmptyDepth ELSE truth[n - 1]
            ELSE LET m == CHOOSE m \in At(n) : TRUE
                 IN IF m.kind = "snapshot" THEN m.levels ELSE Overlay(truth[n - 1], m.levels)
    IN truth

ASSUME StreamsAreTrue ==
    \A S \in OrderStreams \cup RefreshStreams \cup RecoveryStreams :
        SnapshotsApart(S) /\ \A m \in S : Local!TrueTo(MCTruth(S), m)

=============================================================================

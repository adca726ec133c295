-------------------------------- MODULE Book --------------------------------
(***************************************************************************)
(* The normalized price-aggregated book of lob_lab/book.py as values and   *)
(* operators: what OrderBook does to its immutable BookState.  Modules     *)
(* that own a book (OrderBook, LocalRecovery, CausalEngine,                *)
(* TimedExecution, Replay) build their actions from these operators.       *)
(*                                                                         *)
(* A depth gives every (side, price) an absolute size; size 0 is an absent *)
(* level, so a sorted tuple of levels and its dictionary are one value.    *)
(*                                                                         *)
(* A message is a record with, at least, the fields                        *)
(*   kind    "snapshot" or "update"                                        *)
(*   seq     its sequence number; NoSeq stands for a value that is not a   *)
(*           non-negative integer                                          *)
(*   levels  a snapshot's depth, or the changes of an update's batch: a    *)
(*           function from the keys it touches to their new absolute sizes *)
(*   sound   the batch passes the checks on single levels: sides, Decimal  *)
(*           prices and sizes, signs, containers, no key named twice       *)
(*                                                                         *)
(* In every module a definition introduced by "Mutant" is a mistaken form  *)
(* of the one after it.  No specification uses it: substituting it shows   *)
(* that some property would notice the mistake in the code.                *)
(***************************************************************************)
EXTENDS Integers

CONSTANT Prices         \* the price grid

ASSUME PricesAssumption == Prices \subseteq Nat

NoSeq == -1             \* BookState.sequence is None before the first commit

Larger(a, b) == IF a >= b THEN a ELSE b

Sides == {"BID", "ASK"}
Keys == Sides \X Prices
Depth == [Keys -> Nat]

\* An update's batch: absolute sizes for the keys it touches.
IsBatch(changes) ==
    DOMAIN changes \subseteq Keys /\ \A k \in DOMAIN changes : changes[k] \in Nat

EmptyDepth == [k \in Keys |-> 0]

\* Some bid meets or crosses some ask: best bid >= best ask.
Crossed(depth) ==
    \E b, a \in Prices :
        depth[<<"BID", b>>] > 0 /\ depth[<<"ASK", a>>] > 0 /\ b >= a

\* Absolute sizes replace the levels a batch touches; size 0 removes one.
Overlay(depth, changes) ==
    [k \in Keys |-> IF k \in DOMAIN changes THEN changes[k] ELSE depth[k]]

-----------------------------------------------------------------------------
\* BookState and the two outcomes of every method of OrderBook.

BookState == [depth : Depth, seq : Nat \cup {NoSeq}, version : Nat,
              valid : BOOLEAN, floor : Nat]

InitBook == [depth |-> EmptyDepth, seq |-> NoSeq, version |-> 0,
             valid |-> FALSE, floor |-> 0]

\* Mutant: a rejected message does not raise the recovery floor.
RejectKeepsFloor(book, seq) == [book EXCEPT !.valid = FALSE]

\* Mutant: the floor follows the rejected message down.
RejectTakesSequence(book, seq) == [book EXCEPT !.valid = FALSE, !.floor = seq]

\* OrderBook._reject: depth, sequence and version stay, usability is lost.
Reject(book, seq) ==
    [book EXCEPT !.valid = FALSE, !.floor = Larger(@, seq)]

\* Mutant: the accepted sequence itself may be offered again.
CommitKeepsSequence(book, seq, depth) ==
    [depth |-> depth, seq |-> seq, version |-> book.version + 1,
     valid |-> TRUE, floor |-> seq]

\* OrderBook._commit, the only publication point.
Commit(book, seq, depth) ==
    [depth |-> depth, seq |-> seq, version |-> book.version + 1,
     valid |-> TRUE, floor |-> seq + 1]

\* OrderBook.apply_snapshot up to its commit.
AcceptsSnapshot(book, m) ==
    /\ m.kind = "snapshot"
    /\ m.seq >= book.floor
    /\ m.sound
    /\ ~Crossed(m.levels)

\* Mutant: any later update is taken, as if none could be lost.
AcceptsAfterGap(book, m) ==
    /\ m.kind = "update" /\ book.valid /\ m.seq > book.seq /\ m.sound
    /\ ~Crossed(Overlay(book.depth, m.levels))

\* OrderBook.apply_update up to its commit: only the final batch is checked.
AcceptsUpdate(book, m) ==
    /\ m.kind = "update"
    /\ book.valid
    /\ m.seq = book.seq + 1
    /\ m.sound
    /\ ~Crossed(Overlay(book.depth, m.levels))

Accepts(book, m) == AcceptsSnapshot(book, m) \/ AcceptsUpdate(book, m)

\* The depth an accepted message leaves behind.
DepthAfter(book, m) ==
    IF m.kind = "snapshot" THEN m.levels ELSE Overlay(book.depth, m.levels)

=============================================================================

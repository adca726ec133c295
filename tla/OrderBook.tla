------------------------------ MODULE OrderBook ------------------------------
(***************************************************************************)
(* lob_lab/book.py, class OrderBook: one normalized session maintained     *)
(* from snapshots and incremental updates that may be lost, repeated,      *)
(* reordered or malformed on the way.  Every method either commits a whole *)
(* new state or rejects the message and asks for a snapshot.               *)
(***************************************************************************)
EXTENDS Book

CONSTANTS
    Messages,           \* what may be offered to the book, in any order
    History             \* the source's own book at each sequence number

ASSUME MessagesAssumption ==
    \A m \in Messages :
        /\ m.seq \in Nat \cup {NoSeq}
        /\ m.sound \in BOOLEAN
        /\ \/ m.kind = "snapshot" /\ m.levels \in Depth
           \/ m.kind = "update" /\ IsBatch(m.levels)

VARIABLES
    book,               \* OrderBook._state
    offered             \* history variable: highest sequence ever offered

vars == <<book, offered>>

TypeOK == book \in BookState /\ offered \in Nat \cup {NoSeq}

Init == book = InitBook /\ offered = NoSeq

Offer(m) == offered' = Larger(offered, m.seq)

AcceptSnapshot(m) ==
    /\ AcceptsSnapshot(book, m)
    /\ book' = Commit(book, m.seq, m.levels)
    /\ Offer(m)

AcceptUpdate(m) ==
    /\ AcceptsUpdate(book, m)
    /\ book' = Commit(book, m.seq, Overlay(book.depth, m.levels))
    /\ Offer(m)

\* Either method raises BookError: the caller sees an exception.
RejectMessage(m) ==
    /\ ~Accepts(book, m)
    /\ book' = Reject(book, m.seq)
    /\ Offer(m)

Next ==
    \E m \in Messages : AcceptSnapshot(m) \/ AcceptUpdate(m) \/ RejectMessage(m)

Spec == Init /\ [][Next]_vars

-----------------------------------------------------------------------------
\* Safety.

\* A usable book is never behind a sequence number it has been shown, even
\* by a message it rejected: no snapshot older than a lost message revives
\* it (the recovery floor of _reject, apply_snapshot's first check).
ValidCoversOffered == book.valid => book.seq >= offered

\* A message is honest when it tells what the source's book did, or carries
\* levels no book can have: a malformed batch, or one that crosses.
Honest(m) ==
    /\ m.sound /\ m.kind = "snapshot" /\ m.seq # NoSeq /\ ~Crossed(m.levels) =>
           m.levels = History[m.seq]
    /\ m.sound /\ m.kind = "update" /\ m.seq > 0 =>
           LET next == Overlay(History[m.seq - 1], m.levels)
           IN  ~Crossed(next) => next = History[m.seq]

\* Whatever is lost, repeated, reordered or malformed, as long as the
\* messages are honest the last accepted depth is the source's depth at that
\* sequence: apply_update's gap check and apply_snapshot's atomic replacement
\* never assemble a book the source did not have.
TrueToSource ==
    (\A m \in Messages : Honest(m)) /\ book.seq # NoSeq =>
        book.depth = History[book.seq]

\* A new version always stands for a strictly later point of the session:
\* no snapshot, however late, takes the book back or re-publishes a sequence
\* (class docstring: "must reach the recovery floor and exceed any accepted
\* sequence").
VersionsMoveForward ==
    [][book'.version # book.version => book'.seq > book.seq]_vars

=============================================================================

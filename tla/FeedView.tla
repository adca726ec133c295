------------------------------ MODULE FeedView ------------------------------
(***************************************************************************)
(* What LocalRecovery promises its consumers (LocalRecovery.view and the   *)
(* class docstring), without saying how: a book that is either current,    *)
(* standing at the highest sequence number the session has shown, or not   *)
(* usable, and that only ever moves forward.                               *)
(***************************************************************************)
EXTENDS Book

VARIABLES
    view,               \* the published book: depth, seq, valid
    high,               \* the highest sequence number shown
    asOf,               \* source time of the published book
    issue               \* publication number

vars == <<view, high, asOf, issue>>

Init ==
    /\ view = [depth |-> EmptyDepth, seq |-> NoSeq, valid |-> FALSE]
    /\ high = 0 /\ issue = 0 /\ asOf = -1

\* The book stops being usable; more may be known to exist than before.
Suspend ==
    /\ view' = [view EXCEPT !.valid = FALSE]
    /\ high' \in Nat /\ high' >= high
    /\ UNCHANGED <<asOf, issue>>

\* A new book is usable, complete up to everything shown, and not a rewrite
\* of one already published.
Publish ==
    /\ high' \in Nat /\ high' >= high
    /\ view' \in [depth : Depth, seq : {high'}, valid : {TRUE}]
    /\ ~Crossed(view'.depth)
    /\ view'.seq = view.seq => view'.depth = view.depth
    /\ asOf' \in Nat /\ asOf' >= asOf
    /\ issue' = issue + 1

Next == Suspend \/ Publish

Spec == Init /\ [][Next]_vars

=============================================================================

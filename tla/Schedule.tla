------------------------------ MODULE Schedule ------------------------------
(***************************************************************************)
(* _schedule of lob_lab/timed_execution.py: the predeclared decision ticks *)
(* both runners put into their heaps.  A tick is a pair of its time and    *)
(* <<target, whether it is the catch-up>>.  Slice targets are whole lots,  *)
(* rounded down, where the code divides Decimals.                          *)
(***************************************************************************)
EXTENDS Ledger

CONSTANTS
    StartTime, Deadline, OrderLatency,  \* start_time_ns, deadline_ns,
                                        \* order_latency_ns
    Slices, CatchUp     \* StrategySpec

ASSUME ScheduleAssumption ==
    /\ StartTime \in Nat /\ Deadline \in Nat /\ StartTime <= Deadline
    /\ OrderLatency \in Nat /\ CatchUp \in BOOLEAN
    /\ Slices \in Nat \ {0} /\ (Slices > 1 => Slices <= Deadline - StartTime)

\* Mutant: the catch-up is sent one tick too late to arrive.
CatchTimeLate == Deadline - OrderLatency + 1

\* The last moment from which a child still arrives at the deadline.
CatchTime == Deadline - OrderLatency

CatchesUp == CatchUp /\ CatchTime >= StartTime

SliceTime(i) == StartTime + (i * (Deadline - StartTime)) \div Slices

SliceTicks ==
    {<<SliceTime(i), <<((i + 1) * Quantity) \div Slices, FALSE>>>> : i \in 0 .. Slices - 1}

\* The catch-up replaces a slice of the same time.
Ticks ==
    IF CatchesUp
    THEN {k \in SliceTicks : k[1] # CatchTime} \cup {<<CatchTime, <<Quantity, TRUE>>>>}
    ELSE SliceTicks

=============================================================================

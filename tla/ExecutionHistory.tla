-------------------------- MODULE ExecutionHistory --------------------------
(***************************************************************************)
(* Execution with two history variables, for what only the past of a level *)
(* can tell.  They change no behaviour of the ledger.                      *)
(***************************************************************************)
EXTENDS Execution

VARIABLES
    peak,               \* the largest external size of each level, and
    taken               \* what own fills took from it, since a message last
                        \* superseded its debits

\* Under refresh_touched the message replaces what was known of the level.
Supersedes(m, k) ==
    model = "refresh_touched" /\ (m.kind = "snapshot" \/ k \in DOMAIN m.levels)

HistoryInit == Init /\ peak = EmptyDepth /\ taken = EmptyDepth

HistoryNext ==
    \/ /\ \/ \E qty \in Sizes, limit \in Limits : Submit(qty, limit)
          \/ \E i \in DOMAIN ledger.children : Cancel(i)
       /\ UNCHANGED <<peak, taken>>
    \/ \E i \in DOMAIN ledger.children :
           /\ Execute(i)
           /\ taken' = [k \in Keys |->
                  taken[k] + Taken(ledger'.children[i].fills, k)]
           /\ UNCHANGED peak
    \/ \E m \in Changes :
           /\ Observe(m)
           /\ peak' = [k \in Keys |->
                  IF Supersedes(m, k) THEN raw'[k] ELSE Larger(peak[k], raw'[k])]
           /\ taken' = [k \in Keys |-> IF Supersedes(m, k) THEN 0 ELSE taken[k]]

HistorySpec == HistoryInit /\ [][HistoryNext]_<<vars, peak, taken>>

\* Own orders never take more of a level than the market showed there at some
\* time since a message last superseded them; under persistent_debit nothing
\* ever does, and what was taken once is never offered again.
NoLevelOverdrawn == \A k \in Keys : taken[k] <= peak[k]

=============================================================================

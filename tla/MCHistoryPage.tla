--------------------------- MODULE MCHistoryPage ---------------------------
(* Days of 4 buckets, clocks that go forth or back by one in the second     *)
(* day, and data with a gap.                                                *)
EXTENDS HistoryPage, TLC

MCZones == {[at |-> 6, before |-> 1, after |-> 0], [at |-> 5, before |-> 0, after |-> 1]}
MCDatabases == {[b \in {0, 2, 5, 6, 7} |-> IF b = 5 THEN 3 ELSE 1], <<>>}
MCPeriods == {[f |-> 1, t |-> 1], [f |-> 0, t |-> 2]}
============================================================================

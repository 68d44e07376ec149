------------------------------ MODULE MCTimers ------------------------------
(* Timers of two and four seconds; one amount is too short.                 *)
EXTENDS Timers

MCScaleOf == [second |-> 1, minute |-> 2]
MCJumps == {-1, 3}
=============================================================================

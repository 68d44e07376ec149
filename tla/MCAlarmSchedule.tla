-------------------------- MODULE MCAlarmSchedule --------------------------
(* A day of eight minutes that keeps the order of the stages and has the    *)
(* first of them before midnight when the alarm is set for the morning.     *)
EXTENDS AlarmSchedule, TLC

MCStages == {"low", "ring", "off"}
MCOffset == [s \in MCStages |-> CASE s = "low" -> -3 [] s = "ring" -> 0 [] s = "off" -> 2]
MCTimes == {1, 5}
============================================================================

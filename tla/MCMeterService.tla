--------------------------- MODULE MCMeterService ---------------------------
(* The real constants, scaled: MinCount iterations are shorter than the     *)
(* durations, and history retries later than MinCount iterations.           *)
EXTENDS MeterService, TLC

MCKeys == {"poll", "login", "stale", "history", "keep_awake"}
MCBlockTimes == {0, 2}
MCClockSteps == {-2, 2}
============================================================================

---------------------------- MODULE MCMeterLink ----------------------------
(* Four commands, which can wait in a row, each undoing the one before,     *)
(* and four troubles: broker and service down twice each, or failed saves.  *)
EXTENDS MeterLink, TLC
============================================================================

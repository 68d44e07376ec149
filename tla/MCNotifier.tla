----------------------------- MODULE MCNotifier -----------------------------
(* The condition of paho's thread, among the one-shot events of the main    *)
(* loop: they share the rate cap and the queue.                             *)
EXTENDS Notifier, TLC

CONSTANT mqtt

MCKeys == {mqtt}
MCLinked == {mqtt}
MCFuses == {1}
============================================================================

---------------------------- MODULE MCHttpBridge ----------------------------
(* One page and the startup thread.                                         *)
EXTENDS HttpBridge
=============================================================================

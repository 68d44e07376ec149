----------------------------- MODULE MCReplayer -----------------------------
(* One bulb with two keys.  The shape of the real constants is kept: all    *)
(* the attempts time out well before the watch window does.                 *)
EXTENDS Replayer, TLC

MCKeys == {"state", "brightness"}
MCValues == {"on", "off", "dim", "full"}
MCPayloads == {[state |-> "off"], [state |-> "on", brightness |-> "dim"]}
MCBootStates == {[state |-> "on", brightness |-> "full"]}
============================================================================

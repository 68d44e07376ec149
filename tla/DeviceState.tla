---------------------------- MODULE DeviceState ----------------------------
(* lib/device_state_store.py: the calls of DeviceStateStore as operators on *)
(* the state dict.  Per MQTT topic the dict keeps a base layer (what the    *)
(* schedule wants) and an override layer (what a mode such as VRMode set).  *)
EXTENDS Naturals

CONSTANTS Topics,    \* the .../set topics of the devices
          Payloads,  \* the payloads that are sent to them
          None       \* Python's None, and a key that is absent

ASSUME NoneAssumption == None \notin Payloads /\ None \notin BOOLEAN

Entry == [base : Payloads \cup {None}, override : Payloads \cup {None}]
Store == [Topics -> Entry]
Answers == Payloads \cup {None} \cup BOOLEAN

(* The empty dict {}: a topic without an entry reads as two absent layers.  *)
EmptyStore == [t \in Topics |-> [base |-> None, override |-> None]]

(* A call is a record, so that it can wait while the file is locked.        *)
Calls == [kind : {"update_base", "set_override"}, topic : Topics, payload : Payloads]
           \cup [kind : {"clear_override", "get_state"}, topic : Topics]

OverrideActive(s, t) == s[t].override # None

EffectiveState(s, t) == IF OverrideActive(s, t) THEN s[t].override ELSE s[t].base

(* Mutant: clear_override drops the whole entry.                            *)
AfterCallPops(s, c) ==
  CASE c.kind = "update_base"    -> [s EXCEPT ![c.topic].base = c.payload]
    [] c.kind = "set_override"   -> [s EXCEPT ![c.topic].override = c.payload]
    [] c.kind = "clear_override" -> [s EXCEPT ![c.topic] = [base |-> None, override |-> None]]
    [] c.kind = "get_state"      -> s

(* What func(data) leaves in the dict ...                                   *)
AfterCall(s, c) ==
  CASE c.kind = "update_base"    -> [s EXCEPT ![c.topic].base = c.payload]
    [] c.kind = "set_override"   -> [s EXCEPT ![c.topic].override = c.payload]
    [] c.kind = "clear_override" -> [s EXCEPT ![c.topic].override = None]
    [] c.kind = "get_state"      -> s

(* ... and what the method returns.                                         *)
AnswerTo(s, c) ==
  CASE c.kind = "update_base"    -> ~OverrideActive(s, c.topic)
    [] c.kind = "set_override"   -> None
    [] c.kind = "clear_override" -> s[c.topic].base
    [] c.kind = "get_state"      -> EffectiveState(s, c.topic)
============================================================================

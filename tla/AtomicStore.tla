---------------------------- MODULE AtomicStore ----------------------------
(* What DeviceStateStore promises the processes that share it, whatever     *)
(* happens to the JSON file behind it: every method call is one step.       *)
EXTENDS DeviceState

CONSTANT Callers     \* the processes that use the store: main and the child

VARIABLES store,     \* topic -> its two layers
          answer     \* caller -> what its last call returned

vars == <<store, answer>>

Init == /\ store = EmptyStore                 \* device_state.reset()
        /\ answer = [p \in Callers |-> None]

Perform(p, c) == /\ store' = AfterCall(store, c)
                 /\ answer' = [answer EXCEPT ![p] = AnswerTo(store, c)]

(* The price of the file: a caller killed at the wrong moment takes every   *)
(* entry, and the answer it was about to get, with it.                      *)
Wipe(p) == /\ store' = EmptyStore
           /\ \E a \in Answers : answer' = [answer EXCEPT ![p] = a]

Next == \E p \in Callers : Wipe(p) \/ \E c \in Calls : Perform(p, c)

Spec == Init /\ [][Next]_vars
============================================================================

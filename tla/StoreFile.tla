----------------------------- MODULE StoreFile -----------------------------
(* lib/device_state_store.py, _transact: how the store is kept in one JSON  *)
(* file that the main process and the scheduler child open, lock, read,     *)
(* truncate and rewrite.  mqtt_listener.py, load_config, terminates the     *)
(* child wherever it happens to be and forks a new one.                     *)
EXTENDS DeviceState

CONSTANTS Callers,   \* the processes that use the store: main and the child
          Killable   \* those load_config terminates: the child

ASSUME KillableAssumption == Killable \subseteq Callers

CONSTANTS NoOne,     \* nobody holds the lock
          Truncated  \* the file holds no JSON document

ASSUME SentinelAssumption == NoOne \notin Callers /\ Truncated \notin Store

VARIABLES file,      \* what the file holds: a store, or Truncated
          lock,      \* the caller inside flock(LOCK_EX)
          pc,        \* where each caller is in _transact
          call,      \* the call each caller is making
          data,      \* its local copy, after func(data)
          result,    \* what func returned
          returned   \* what its last finished call returned

locals == <<call, data, result>>
vars == <<file, lock, pc, locals, returned>>

NoCall == [kind |-> "none"]

(* json.load: a truncated file raises JSONDecodeError, which reads as {}.   *)
Decode(f) == IF f = Truncated THEN EmptyStore ELSE f

Inside(p) == pc[p] \in {"loaded", "truncated"}

----------------------------------------------------------------------------
Init == /\ file = EmptyStore                  \* device_state.reset()
        /\ lock = NoOne
        /\ pc = [p \in Callers |-> "idle"]
        /\ call = [p \in Callers |-> NoCall]
        /\ data = [p \in Callers |-> EmptyStore]
        /\ result = [p \in Callers |-> None]
        /\ returned = [p \in Callers |-> None]

(* The locals of _transact go out of scope.                                 *)
Forget(p) == /\ call' = [call EXCEPT ![p] = NoCall]
             /\ data' = [data EXCEPT ![p] = EmptyStore]
             /\ result' = [result EXCEPT ![p] = None]

(* A public method opens the file and asks for the lock.                    *)
Open(p) == /\ pc[p] = "idle"
           /\ \E c \in Calls : call' = [call EXCEPT ![p] = c]
           /\ pc' = [pc EXCEPT ![p] = "waiting"]
           /\ UNCHANGED <<file, lock, data, result, returned>>

(* json.load and func(data) on the local copy.                              *)
Read(p) == /\ data' = [data EXCEPT ![p] = AfterCall(Decode(file), call[p])]
           /\ result' = [result EXCEPT ![p] = AnswerTo(Decode(file), call[p])]
           /\ pc' = [pc EXCEPT ![p] = "loaded"]
           /\ UNCHANGED <<file, call, returned>>

(* Mutant: the flock line is missing.                                       *)
LoadUnlocked(p) == pc[p] = "waiting" /\ lock' = p /\ Read(p)

(* flock is granted.                                                        *)
Load(p) == /\ pc[p] = "waiting"
           /\ lock = NoOne
           /\ lock' = p
           /\ Read(p)

(* f.seek(0); f.truncate().  A call that only reads does it too.            *)
Truncate(p) == /\ pc[p] = "loaded"
               /\ file' = Truncated
               /\ pc' = [pc EXCEPT ![p] = "truncated"]
               /\ UNCHANGED <<lock, locals, returned>>

(* json.dump fills the buffer; leaving the with-block writes it and closes  *)
(* the file, which releases the lock; the method returns.                   *)
Close(p) == /\ pc[p] = "truncated"
            /\ file' = data[p]
            /\ lock' = NoOne
            /\ returned' = [returned EXCEPT ![p] = result[p]]
            /\ pc' = [pc EXCEPT ![p] = "idle"]
            /\ Forget(p)

(* Mutant: the lock is left behind.                                         *)
TerminateHolding(p) == /\ p \in Killable
                       /\ pc[p] # "dead"
                       /\ pc' = [pc EXCEPT ![p] = "dead"]
                       /\ Forget(p)
                       /\ UNCHANGED <<file, lock, returned>>

(* proc.terminate(): SIGTERM without a handler, so nothing buffered is      *)
(* written; the kernel drops the lock.                                      *)
Terminate(p) == /\ p \in Killable
                /\ pc[p] # "dead"
                /\ pc' = [pc EXCEPT ![p] = "dead"]
                /\ lock' = IF lock = p THEN NoOne ELSE lock
                /\ Forget(p)
                /\ UNCHANGED <<file, returned>>

(* Process(target=scheduler.run).start() at the end of load_config.         *)
Fork(p) == /\ pc[p] = "dead"
           /\ pc' = [pc EXCEPT ![p] = "idle"]
           /\ UNCHANGED <<file, lock, locals, returned>>

Step(p) == Open(p) \/ Load(p) \/ Truncate(p) \/ Close(p) \/ Terminate(p) \/ Fork(p)

Next == \E p \in Callers : Step(p)

Spec == Init /\ [][Next]_vars

(* flock grants waiters in turn, and a caller inside goes on to the end.    *)
Fairness == \A p \in Callers : /\ SF_vars(Load(p))
                               /\ WF_vars(Truncate(p) \/ Close(p))

FairSpec == Spec /\ Fairness

----------------------------------------------------------------------------
(* The variables keep their types.                                          *)
TypeOK ==
  /\ file \in Store \cup {Truncated}
  /\ lock \in Callers \cup {NoOne}
  /\ pc \in [Callers -> {"idle", "waiting", "loaded", "truncated", "dead"}]
  /\ call \in [Callers -> Calls \cup {NoCall}]
  /\ data \in [Callers -> Store]
  /\ result \in [Callers -> Answers]
  /\ returned \in [Callers -> Answers]

(* Whoever works on the file holds the lock, and the lock is never left     *)
(* behind: not by a return, not by a child killed in the middle.            *)
LockHeldInside == \A p \in Callers : Inside(p) <=> lock = p

(* A caller under way knows what it was asked.                              *)
CallUnderWay == \A p \in Callers : pc[p] = "waiting" => call[p] \in Calls

(* What the caller inside is about to write, and to return, is what its     *)
(* call makes of the file as it stands: no update of another process is     *)
(* lost between its read and its write.                                     *)
FreshCopy == \A p \in Callers :
  pc[p] = "loaded" => \E c \in Calls : /\ data[p] = AfterCall(Decode(file), c)
                                       /\ result[p] = AnswerTo(Decode(file), c)

(* A caller that has truncated the file has not yet written it.             *)
TruncatedInside == \A p \in Callers : pc[p] = "truncated" => file = Truncated

----------------------------------------------------------------------------
(* A call takes effect when it truncates the file: from then on the local   *)
(* copy of the caller is the only one there is.                             *)
Writer == CHOOSE p \in Callers : pc[p] = "truncated"

Writing == \E p \in Callers : pc[p] = "truncated"

LogicalStore == IF Writing THEN data[Writer] ELSE Decode(file)

LogicalAnswer == [p \in Callers |-> IF pc[p] = "truncated" THEN result[p] ELSE returned[p]]

Atomic == INSTANCE AtomicStore WITH store <- LogicalStore, answer <- LogicalAnswer

(* To the main process and the scheduler child every call looks like one    *)
(* step on a shared dict (the class comment's "stay in sync"), unless       *)
(* load_config kills the child in the middle and the dict is gone.          *)
ImplementsAtomicStore == Atomic!Spec

(* No base state is ever forgotten, except by killing a child that has      *)
(* truncated the file and not yet written it.                               *)
LossOnlyByKill ==
  [][ \A t \in Topics :
        LogicalStore[t].base # None /\ LogicalStore'[t].base = None
          => \E p \in Killable : pc[p] = "truncated" /\ pc'[p] = "dead" ]_vars

(* No call waits for ever: a killed child never takes the lock to its grave,*)
(* so the main process, which serves MQTT with this call, gets its turn.    *)
CallsReturn == \A p \in Callers \ Killable : pc[p] = "waiting" ~> pc[p] = "idle"
============================================================================

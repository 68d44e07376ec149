---------------------------- MODULE LightingOnFile ----------------------------
(* mqtt_listener.py on lib/device_state_store.py: what Lighting does in one *)
(* step, a call of the store, takes four on the file (StoreFile), between   *)
(* which the other process goes on with its own calls and messages, and     *)
(* load_config may kill the child.                                          *)
EXTENDS Lighting

CONSTANTS NoOne,     \* nobody holds the lock
          Truncated  \* the file holds no JSON document

ASSUME FileAssumption == NoOne \notin Processes /\ Truncated \notin Store

VARIABLES file, lock, pc, call, data, result, returned   \* as in StoreFile

File == INSTANCE StoreFile WITH Callers <- Processes, Killable <- {Child}

(* Lighting's store is what the file held when it was last whole, a history *)
(* variable here: no action asks for it.                                    *)
fileVars == <<file, lock, pc, call, data, result, returned>>
all == <<vars, fileVars>>

FileInit == Init /\ File!Init

(* publish() and handle_bridge_event call the store for the next topic ...  *)
CallBegins(p) == /\ send[p] = Nothing /\ reply[p].items # <<>>
                 /\ File!Open(p) /\ call'[p] = CallOf(p)
                 /\ UNCHANGED vars

CallGoesOn(p) == (File!Load(p) \/ File!Truncate(p)) /\ UNCHANGED vars

(* ... and goes on with what it returns.                                    *)
CallReturns(p) == File!Close(p) /\ store' = file' /\ Answered(p, result[p])

(* An exception comes out of the job's own code, not of the store's.        *)
JobFailsOutside == JobFails /\ pc[Child] = "idle" /\ UNCHANGED fileVars

(* load_config: terminate() wherever the child is, and a new one.           *)
ReloadKills ==
  /\ ReloadConfig
  /\ pc' = [pc EXCEPT ![Child] = "idle"]
  /\ lock' = IF lock = Child THEN NoOne ELSE lock
  /\ File!Forget(Child)
  /\ UNCHANGED <<file, returned>>
  /\ store' = File!Decode(file)

Elsewhere == /\ \/ UserCommand \/ DeviceAnnounced \/ Replays \/ JobDue \/ Enqueue \/ PublishDirect
                \/ WorkerTake \/ WorkerPublish
             /\ UNCHANGED fileVars

FileNext == \/ \E p \in Processes : CallBegins(p) \/ CallGoesOn(p) \/ CallReturns(p)
            \/ JobFailsOutside \/ ReloadKills \/ Elsewhere

FileSpec == FileInit /\ [][FileNext]_all
============================================================================

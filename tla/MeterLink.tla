------------------------------ MODULE MeterLink ------------------------------
(* meter/meter_service.py, MqttPublisher and the switchable part of         *)
(* KeepAwake: the battery manager asks for fast sampling with a retained    *)
(* command; the service keeps the mode in a file of its own, because the    *)
(* broker forgets retained messages when it restarts, and mirrors mode and  *)
(* status as retained messages.                                             *)
(*                                                                          *)
(* Callbacks run on paho's network thread, one at a time, between its       *)
(* (re)connects.  What it publishes without a connection waits in outbox.   *)
(*                                                                          *)
(* Names that MeterService has too begin with Link here, so that one module *)
(* can be about both.                                                       *)
EXTENDS Integers, Sequences, SequencesExt

CONSTANTS Default,      \* keep_awake.enabled in config.yaml
          Absent,       \* no message, no file
          Unknown,      \* a payload in neither TRUTHY nor FALSY
          MaxAsks,      \* bound: commands of the battery manager
          MaxTroubles   \* bound: restarts, kills, write errors

ASSUME LinkAssumption ==
  /\ Default \in BOOLEAN /\ Unknown \notin BOOLEAN
  /\ Absent \notin BOOLEAN /\ Absent # Unknown /\ Absent # "online"
  /\ {MaxAsks, MaxTroubles} \subseteq Nat

VARIABLES
  broker,    \* is it up
  retained,  \* its retained messages: command, mirror and status
  peer,      \* our connection as the broker sees it: "none", "live", "dead"
  inbox,     \* commands on their way to the service
  process,   \* the service: "down", "up", "stopping"
  step,      \* handle_keep_awake_cmd: "ready", "set", "saved"
  flag,      \* KeepAwake._enabled
  file,      \* state_path
  outbox,    \* mirrors published, not yet sent
  asked,     \* history: the battery manager's last word
  unwritten, \* history: the last save failed
  asks, troubles  \* what happened so far, for the bounds

disk == <<file, unwritten>>
linkVars == <<broker, retained, peer, inbox, process, step, flag, disk, outbox,
              asked, asks, troubles>>

Forgotten == [cmd |-> Absent, mirror |-> Absent, status |-> Absent]

LinkInit == /\ broker = TRUE /\ retained = Forgotten /\ peer = "none"
            /\ inbox = <<>> /\ outbox = <<>>
            /\ process = "down" /\ step = "ready"
            /\ flag = FALSE /\ file = Absent /\ asked = Absent
            /\ unwritten = FALSE /\ asks = 0 /\ troubles = 0

Trouble == troubles < MaxTroubles /\ troubles' = troubles + 1

----------------------------------------------------------------------------
(* The battery manager and the broker.                                      *)

Commands == BOOLEAN \cup {Unknown}

Ask(v) == /\ broker
          /\ asks < MaxAsks /\ asks' = asks + 1
          /\ asked' = IF v = Unknown THEN asked ELSE v
          /\ retained' = [retained EXCEPT !.cmd = v]
          /\ inbox' = IF peer = "live" THEN Append(inbox, v) ELSE inbox
          /\ UNCHANGED <<broker, peer, process, step, flag, disk, outbox,
                         troubles>>

(* No persistence: whatever was retained is gone.  The commands that have   *)
(* reached the service's socket are still read.                             *)
BrokerStops == /\ broker /\ Trouble
               /\ broker' = FALSE
               /\ retained' = Forgotten
               /\ peer' = "none"
               /\ inbox' \in {inbox, <<>>}
               /\ UNCHANGED <<process, step, flag, disk, outbox, asked, asks>>

BrokerStarts == /\ ~broker
                /\ broker' = TRUE
                /\ UNCHANGED <<retained, peer, inbox, process, step, flag,
                               disk, outbox, asked, asks, troubles>>

(* The broker misses the keepalive, or the end of the connection: the will. *)
WillFires == /\ peer = "dead"
             /\ peer' = "none"
             /\ retained' = [retained EXCEPT !.status = "offline"]
             /\ UNCHANGED <<broker, inbox, process, step, flag, disk, outbox,
                            asked, asks, troubles>>

----------------------------------------------------------------------------
(* The life of the service.                                                 *)

(* Mutant: the configuration has the last word.                             *)
RestoredDefault == Default

(* KeepAwake.__init__: the file, if there is one, wins over config.yaml.    *)
Restored == IF file = Absent THEN Default ELSE file

(* main(), by systemd, Restart=always: the mirror is published before the   *)
(* network loop starts.                                                     *)
Start == /\ process = "down"
         /\ process' = "up"
         /\ flag' = Restored
         /\ outbox' = <<Restored>>
         /\ UNCHANGED <<broker, retained, peer, inbox, step, disk, asked,
                        asks, troubles>>

(* kill -9, or the pi goes down (then BrokerStops as well).                 *)
Crash == /\ process # "down" /\ Trouble
         /\ process' = "down" /\ step' = "ready"
         /\ inbox' = <<>> /\ outbox' = <<>>
         /\ peer' = IF peer = "live" THEN "dead" ELSE peer
         /\ UNCHANGED <<broker, retained, flag, disk, asked, asks>>

(* SIGTERM: "offline" and disconnect, while a callback may be under way ... *)
StopBegins == /\ process = "up" /\ Trouble
              /\ process' = "stopping"
              /\ inbox' = <<>>
              /\ IF peer = "live"
                   THEN /\ peer' = "none"
                        /\ retained' = [retained EXCEPT !.status = "offline"]
                   ELSE UNCHANGED <<peer, retained>>
              /\ UNCHANGED <<broker, step, flag, disk, outbox, asked, asks>>

(* ... which loop_stop waits for.                                           *)
StopEnds == /\ process = "stopping" /\ step = "ready"
            /\ process' = "down"
            /\ outbox' = <<>>
            /\ UNCHANGED <<broker, retained, peer, inbox, step, flag, disk,
                           asked, asks, troubles>>

----------------------------------------------------------------------------
(* paho's network thread.                                                   *)

(* Mutant: the handler is not yet in place when a retained command arrives. *)
SubscribedUnheard(cmd) == <<>>

(* What a subscription delivers.                                            *)
Subscribed(cmd) == IF cmd = Absent THEN <<>> ELSE <<cmd>>

(* Mutant: what waits is sent newest first.                                 *)
SentFirst == IF outbox = <<>> THEN retained.mirror ELSE Head(outbox)

(* What the mirror is after all that waits has been sent, in order.         *)
SentLast == IF outbox = <<>> THEN retained.mirror ELSE Last(outbox)

(* _on_connect, the redelivered command, and the publications that waited.  *)
(* A dead predecessor's will comes before.                                  *)
Connect == /\ process = "up" /\ step = "ready"
           /\ broker /\ peer # "live"
           /\ peer' = "live"
           /\ retained' = [retained EXCEPT !.status = "online", !.mirror = SentLast]
           /\ outbox' = <<>>
           /\ inbox' = Subscribed(retained.cmd)
           /\ UNCHANGED <<broker, process, step, flag, disk, asked, asks,
                          troubles>>

(* _on_message: a warning, and nothing else.                                *)
Discard == /\ process # "down" /\ step = "ready"
           /\ inbox # <<>> /\ Head(inbox) = Unknown
           /\ inbox' = Tail(inbox)
           /\ UNCHANGED <<broker, retained, peer, process, step, flag, disk, outbox,
                          asked, asks, troubles>>

(* set_enabled: nothing to do, or the flag first ...                        *)
Set == /\ process # "down" /\ step = "ready"
       /\ inbox # <<>> /\ Head(inbox) # Unknown
       /\ inbox' = Tail(inbox)
       /\ flag' = Head(inbox)
       /\ step' = IF Head(inbox) = flag THEN "ready" ELSE "set"
       /\ UNCHANGED <<broker, retained, peer, process, disk, outbox, asked,
                      asks, troubles>>

(* ... then the file, replaced in one piece ...                             *)
Save == /\ process # "down" /\ step = "set"
        /\ step' = "saved"
        /\ file' = flag /\ unwritten' = FALSE
        /\ UNCHANGED <<broker, retained, peer, inbox, process, flag, outbox,
                       asked, asks, troubles>>

SaveFails == /\ process # "down" /\ step = "set" /\ Trouble
             /\ step' = "saved"
             /\ unwritten' = TRUE
             /\ UNCHANGED <<broker, retained, peer, inbox, process, flag,
                            file, outbox, asked, asks>>

(* ... and publish_keep_awake.                                              *)
Mirror == /\ process # "down" /\ step = "saved"
          /\ step' = "ready"
          /\ IF peer = "live"
               THEN /\ retained' = [retained EXCEPT !.mirror = flag]
                    /\ UNCHANGED outbox
               ELSE outbox' = Append(outbox, flag) /\ UNCHANGED retained
          /\ UNCHANGED <<broker, peer, inbox, process, flag, disk, asked,
                         asks, troubles>>

LinkNext == \/ \E v \in Commands : Ask(v)
            \/ BrokerStops \/ BrokerStarts \/ WillFires
            \/ Start \/ Crash \/ StopBegins \/ StopEnds
            \/ Connect \/ Discard \/ Set \/ Save \/ SaveFails \/ Mirror

Fairness == /\ WF_linkVars(BrokerStarts) /\ WF_linkVars(Start) /\ WF_linkVars(StopEnds)
            /\ WF_linkVars(Connect) /\ WF_linkVars(Discard)
            /\ WF_linkVars(Set) /\ WF_linkVars(Save) /\ WF_linkVars(Mirror)

LinkSpec == LinkInit /\ [][LinkNext]_linkVars /\ Fairness

----------------------------------------------------------------------------
LinkMessages == [cmd : Commands \cup {Absent}, mirror : BOOLEAN \cup {Absent},
                 status : {"online", "offline", Absent}]

(* The variables keep their types.                                          *)
LinkTypeOK ==
  /\ broker \in BOOLEAN
  /\ retained \in LinkMessages /\ peer \in {"none", "live", "dead"}
  /\ inbox \in Seq(Commands) /\ outbox \in Seq(BOOLEAN)
  /\ process \in {"down", "up", "stopping"} /\ step \in {"ready", "set", "saved"}
  /\ flag \in BOOLEAN /\ file \in BOOLEAN \cup {Absent}
  /\ asked \in BOOLEAN \cup {Absent} /\ unwritten \in BOOLEAN
  /\ asks \in 0..MaxAsks /\ troubles \in 0..MaxTroubles

(* The service is connected and has nothing more to do.                     *)
Quiet == process = "up" /\ peer = "live" /\ inbox = <<>> /\ step = "ready"

(* Neither the broker nor the file holds the last command: it was lost      *)
(* before it was saved.                                                     *)
Lost == retained.cmd # asked /\ (file # asked \/ unwritten)

(* The battery manager has the last word: when all is quiet the mode is     *)
(* what it asked for last, unless the command was lost before it was saved. *)
(* So neither the broker's nor the service's restarts reset it silently.    *)
LastWord == Quiet /\ asked # Absent /\ flag # asked => Lost

(* A mirror that is there shows the mode the service is in, whatever        *)
(* waited for the connection.                                               *)
MirrorNeverWrong == Quiet => retained.mirror \in {flag, Absent}

(* The status is "online" exactly while the broker has a connection of      *)
(* ours, or has not yet noticed that it is dead.                            *)
StatusAgrees == retained.status = "online" <=> peer # "none"

(* A command is obeyed in the end, unless another follows or it is lost     *)
(* before it was saved.                                                     *)
CommandsObeyed == \A v \in BOOLEAN :
  asked = v ~> (process = "up" /\ flag = v) \/ asked # v \/ Lost
============================================================================

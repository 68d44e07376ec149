------------------------------ MODULE Replayer ------------------------------
(* lib/replayer.py, with handle_bridge_event and handle_device_state of     *)
(* mqtt_listener.py: after a bulb announces itself, a thread re-sends the   *)
(* state the store holds for it until a state report of zigbee2mqtt agrees. *)
(* The module follows one bulb: episodes of different bulbs share nothing   *)
(* but the lock around the dict of episodes.                                *)
(*                                                                          *)
(* Time runs in ticks, and a thread whose wait is over acts before the next *)
(* tick.  The messages to the bulb, and those of zigbee2mqtt to the MQTT    *)
(* callback, keep their order but take any time.                            *)
EXTENDS Integers, Sequences

CONSTANTS FirstSendDelay, AckTimeout, MaxAttempts, WatchWindow,
          Keys, Values,  \* "state", "brightness", ... and what they may be
          Payloads,      \* the /set payloads: some keys and their values
          BootStates,    \* the states a bulb may be in after power returns
          MaxBoots,      \* bound: how often the bulb's power returns
          MaxCommands,   \* bound: how often a user changes the stored state
          MaxReadBacks,  \* bound: spontaneous reports of zigbee2mqtt
          MaxLosses      \* bound: messages the radio link loses

ASSUME ReplayerAssumption ==
  /\ {FirstSendDelay, AckTimeout, MaxAttempts, WatchWindow} \subseteq Nat \ {0}
  /\ {MaxBoots, MaxCommands, MaxReadBacks, MaxLosses} \subseteq Nat

(* What a bulb may be in, and what may be asked of it: values of some keys. *)
States == UNION {[K -> Values] : K \in SUBSET Keys}

ASSUME StatesAssumption == Payloads \cup BootStates \subseteq States

VARIABLES
  pc,         \* the episode's thread; "none": the bulb is not in _episodes
  desired,    \* the payload captured when the episode began
  attempts, queue,
  wake,       \* ticks until the current sleep or get times out
  left,       \* ticks until the deadline of the watch window
  age,        \* history: ticks since the episode began
  lost,       \* history: messages lost since then
  disturbed,  \* history: something else touched the bulb since then
  want,       \* device_state.get_state of the bulb's topic
  bulb,       \* the state the bulb is really in
  air,        \* publish queue and zigbee2mqtt: payloads on their way to it
  inbox,      \* messages of zigbee2mqtt on their way to on_message
  boots, commands, readBacks, losses   \* what happened so far, for the bounds

thread == <<pc, desired, attempts, queue, wake, left>>
history == <<age, lost, disturbed>>
counters == <<boots, commands, readBacks, losses>>
vars == <<thread, history, want, bulb, air, inbox, counters>>

Announce == [type |-> "device_announce"]
Report(s) == [type |-> "state", state |-> s]
Messages == {Announce} \cup [type : {"state"}, state : States]

(* state_matches: keys that are not reported are ignored.                   *)
StateMatches(p, s) == \A k \in DOMAIN p \cap DOMAIN s : p[k] = s[k]

(* What the bulb makes of a command: keys not named stay as they are.       *)
Applied(p, s) == [k \in DOMAIN s |-> IF k \in DOMAIN p THEN p[k] ELSE s[k]]

Init == /\ pc = "none"
        /\ want \in Payloads
        /\ desired = want
        /\ attempts = 0 /\ queue = <<>> /\ wake = 0 /\ left = 0
        /\ age = 0 /\ lost = 0 /\ disturbed = FALSE
        /\ bulb \in BootStates
        /\ air = <<>> /\ inbox = <<>>
        /\ boots = 0 /\ commands = 0 /\ readBacks = 0 /\ losses = 0

----------------------------------------------------------------------------
(* The world around the replayer.                                           *)

(* The wall switch is turned on: the bulb boots and announces itself.       *)
PowerReturns == /\ boots < MaxBoots
                /\ boots' = boots + 1
                /\ bulb' \in BootStates
                /\ inbox' = Append(inbox, Announce)
                /\ disturbed' = (disturbed \/ pc # "none")
                /\ UNCHANGED <<thread, age, lost, want, air, commands, readBacks, losses>>

(* A user command: stored and queued, on the thread of on_message.          *)
UserCommand == /\ commands < MaxCommands
               /\ commands' = commands + 1
               /\ \E p \in Payloads : want' = p /\ air' = Append(air, p)
               /\ disturbed' = (disturbed \/ pc # "none")
               /\ UNCHANGED <<thread, age, lost, bulb, inbox, boots, readBacks, losses>>

(* A command reaches the bulb; zigbee2mqtt publishes the acknowledged state.*)
Arrives == /\ air # <<>>
           /\ bulb' = Applied(Head(air), bulb)
           /\ air' = Tail(air)
           /\ inbox' = Append(inbox, Report(bulb'))
           /\ UNCHANGED <<thread, history, want, counters>>

(* MacNoAck: zigbee2mqtt neither retries nor reports the failed command.    *)
Loses == /\ air # <<>>
         /\ losses < MaxLosses
         /\ losses' = losses + 1
         /\ lost' = lost + 1
         /\ air' = Tail(air)
         /\ UNCHANGED <<thread, age, disturbed, want, bulb, inbox, boots, commands, readBacks>>

(* zigbee2mqtt reads the real state back and publishes it.                  *)
ReadBack == /\ readBacks < MaxReadBacks
            /\ readBacks' = readBacks + 1
            /\ inbox' = Append(inbox, Report(bulb))
            /\ UNCHANGED <<thread, history, want, bulb, air, boots, commands, losses>>

----------------------------------------------------------------------------
(* The MQTT callback.                                                       *)

StartEpisode == /\ pc' = "delay"
                /\ desired' = want
                /\ attempts' = 0 /\ queue' = <<>>
                /\ wake' = FirstSendDelay /\ left' = WatchWindow
                /\ age' = 0 /\ lost' = 0
                /\ disturbed' = \/ \E i \in DOMAIN air : air[i] # want
                                \/ \E i \in 2..Len(inbox) : inbox[i] = Announce

(* handle_bridge_event and on_announce: an announce while the bulb is in    *)
(* _episodes is ignored.                                                    *)
OnAnnounce == /\ inbox # <<>>
              /\ Head(inbox).type = "device_announce"
              /\ inbox' = Tail(inbox)
              /\ IF pc = "none" THEN StartEpisode ELSE UNCHANGED <<thread, history>>
              /\ UNCHANGED <<want, bulb, air, counters>>

(* handle_device_state and on_state.                                        *)
OnState == /\ inbox # <<>>
           /\ Head(inbox).type = "state"
           /\ inbox' = Tail(inbox)
           /\ queue' = IF pc = "none" THEN queue
                       ELSE Append(queue, StateMatches(desired, Head(inbox).state))
           /\ UNCHANGED <<pc, desired, attempts, wake, left, history,
                          want, bulb, air, counters>>

----------------------------------------------------------------------------
(* _run, one episode.  "loop" is the head of its while loop.                *)

GoTo(label) == /\ pc' = label
               /\ UNCHANGED <<desired, attempts, left, want, bulb, inbox, counters, history>>

(* time.sleep(FIRST_SEND_DELAY)                                             *)
DelayOver == /\ pc = "delay" /\ wake = 0
             /\ GoTo("loop")
             /\ UNCHANGED <<queue, wake, air>>

(* self._publish(set_topic, payload)                                        *)
Send == /\ pc = "loop" /\ attempts < MaxAttempts
        /\ attempts' = attempts + 1
        /\ air' = Append(air, desired)
        /\ pc' = "acking" /\ wake' = AckTimeout
        /\ UNCHANGED <<desired, queue, left, history, want, bulb, inbox, counters>>

(* Mutant: the deadline of the watch starts with the watch.                 *)
AckRestartsWindow ==
  /\ pc = "acking" /\ queue # <<>>
  /\ queue' = Tail(queue)
  /\ pc' = IF Head(queue) THEN "watching" ELSE "loop"
  /\ left' = WatchWindow
  /\ UNCHANGED <<desired, attempts, want, bulb, inbox, counters, history, wake, air>>

(* queue.get(timeout=ACK_TIMEOUT): a report, whatever prompted it, is taken *)
(* for the answer to the last message ...                                   *)
AckOrNack == /\ pc = "acking" /\ queue # <<>>
             /\ queue' = Tail(queue)
             /\ GoTo(IF Head(queue) THEN "watching" ELSE "loop")
             /\ UNCHANGED <<wake, air>>

(* ... or Empty.                                                            *)
NoAck == /\ pc = "acking" /\ queue = <<>> /\ wake = 0
         /\ GoTo("loop")
         /\ UNCHANGED <<queue, wake, air>>

(* Mutant: the watch keeps listening after a contradiction.                 *)
WatchDeaf == /\ pc = "watching" /\ left > 0 /\ queue # <<>>
             /\ queue' = Tail(queue)
             /\ GoTo("watching")
             /\ UNCHANGED <<wake, air>>

(* _watch: a contradicting report ends it, others do not ...                *)
WatchReport == /\ pc = "watching" /\ left > 0 /\ queue # <<>>
               /\ queue' = Tail(queue)
               /\ GoTo(IF Head(queue) THEN "watching" ELSE "loop")
               /\ UNCHANGED <<wake, air>>

(* ... and the deadline ends it in any case, before the queue is looked at. *)
Confirmed == /\ pc = "watching" /\ left = 0
             /\ GoTo("confirmed")
             /\ UNCHANGED <<queue, wake, air>>

(* Mutant: one attempt short.                                               *)
GivesUpEarly == /\ pc = "loop" /\ attempts = MaxAttempts - 1
                /\ GoTo("gave_up")
                /\ UNCHANGED <<queue, wake, air>>

(* The head of the while loop, after MAX_ATTEMPTS.                          *)
GivesUp == /\ pc = "loop" /\ attempts = MaxAttempts
           /\ GoTo("gave_up")
           /\ UNCHANGED <<queue, wake, air>>

(* Mutant: an episode that gives up stays in _episodes.                     *)
LeaveConfirmed == /\ pc = "confirmed"
                  /\ pc' = "none"
                  /\ queue' = <<>>
                  /\ UNCHANGED <<desired, attempts, wake, left, history, want, bulb, air,
                                 inbox, counters>>

(* finally: self._episodes.pop                                              *)
Leave == /\ pc \in {"confirmed", "gave_up"}
         /\ pc' = "none"
         /\ queue' = <<>>
         /\ UNCHANGED <<desired, attempts, wake, left, history, want, bulb, air, inbox, counters>>

(* A tick passes while the thread really waits.                             *)
Waits == \/ pc = "delay" /\ wake > 0
         \/ pc = "acking" /\ wake > 0 /\ queue = <<>>
         \/ pc = "watching" /\ left > 0 /\ queue = <<>>

Minus1(n) == IF n = 0 THEN 0 ELSE n - 1

Tick == /\ Waits
        /\ wake' = Minus1(wake)
        /\ left' = Minus1(left)
        /\ age' = age + 1
        /\ UNCHANGED <<pc, desired, attempts, queue, lost, disturbed,
                       want, bulb, air, inbox, counters>>

ThreadStep == DelayOver \/ Send \/ AckOrNack \/ NoAck \/ WatchReport \/ Confirmed
                \/ GivesUp \/ Leave

Callback == OnAnnounce \/ OnState

World == PowerReturns \/ UserCommand \/ Arrives \/ Loses \/ ReadBack

Next == ThreadStep \/ Callback \/ World \/ Tick

Spec == Init /\ [][Next]_vars

(* The thread runs, time passes, MQTT delivers, the radio does something.   *)
Fairness == /\ WF_vars(ThreadStep) /\ WF_vars(Tick)
            /\ WF_vars(Callback) /\ WF_vars(Arrives)

FairSpec == Spec /\ Fairness

----------------------------------------------------------------------------
(* The variables keep their types.                                          *)
EpisodeOK ==
  /\ pc \in {"none", "delay", "loop", "acking", "watching", "confirmed", "gave_up"}
  /\ desired \in Payloads
  /\ attempts \in 0..MaxAttempts
  /\ wake \in Nat /\ left \in Nat /\ age \in Nat /\ lost \in Nat

LinksOK == /\ queue \in Seq(BOOLEAN) /\ air \in Seq(Payloads) /\ inbox \in Seq(Messages)
           /\ want \in Payloads /\ bulb \in States

TypeOK == EpisodeOK /\ LinksOK /\ disturbed \in BOOLEAN

(* When the last attempt of an episode can begin: each attempt but the      *)
(* first costs at most one ack timeout once the window is over.             *)
LongestEpisode ==
  (IF WatchWindow > FirstSendDelay + AckTimeout THEN WatchWindow
   ELSE FirstSendDelay + AckTimeout) + (MaxAttempts - 1) * AckTimeout

(* However acks, losses and contradictions interleave, an episode is over   *)
(* after LongestEpisode, so the bulb is not barred from a new one for long. *)
EpisodeIsShort == pc # "none" => age <= LongestEpisode

(* A report that contradicts the episode is still waiting, in its queue or  *)
(* behind a callback that is busy (on_message plays its sounds itself).     *)
ContradictionUnread ==
  \/ \E i \in DOMAIN queue : ~queue[i]
  \/ \E i \in DOMAIN inbox : /\ inbox[i].type = "state"
                             /\ ~StateMatches(desired, inbox[i].state)

(* If nothing but the episode touched the bulb, a confirmation is true,     *)
(* whatever prompted the report that was taken for the acknowledgement: an  *)
(* echo of an older attempt, or a read-back.  Only a contradiction that has *)
(* not been looked at yet can make it wrong.                                *)
ConfirmationIsTrue ==
  pc = "confirmed" /\ ~disturbed /\ ~StateMatches(desired, bulb) => ContradictionUnread

(* An episode fails only if the link lost every one of its messages: the    *)
(* reports that use up attempts cannot make it end early.                   *)
OneArrivalSuffices ==
  /\ pc = "gave_up" /\ ~disturbed /\ air = <<>>
  /\ lost < MaxAttempts
  => StateMatches(desired, bulb)

(* The bulb never stays barred from a new episode.                          *)
EpisodesEnd == pc # "none" ~> pc = "none"
============================================================================

------------------------------ MODULE Lighting ------------------------------
(* mqtt_listener.py: how a reply becomes messages to the Zigbee devices.    *)
(* The MQTT callback of the main process walks through the topics of a user *)
(* command; the scheduler child does the same for a scheduled job, at the   *)
(* same time.  Both share the device state store, one atomic call at a time *)
(* (StoreFile shows why).  The main process queues its messages for the     *)
(* publish worker, the child has no worker and publishes directly.  The     *)
(* replayer (lib/replayer.py) queues for the same worker, from its own      *)
(* threads, what the store held when a device announced itself.             *)
EXTENDS DeviceState, Sequences

CONSTANTS Main, Child,       \* the two processes
          Lamps, Sockets,    \* the topics the modes name, in their order
          On, Off, Dim,      \* payloads
          Release,           \* "<release-override>"
          Announced,         \* for a payload: the device is back, what is stored?
          Nothing,           \* nothing to send, nothing in hand
          UserReplies,       \* the replies users cause, through on_message
          JobReplies,        \* the replies scheduled jobs cause
          Announcers,        \* the topics whose devices announce themselves
          QueueBound         \* bound: users and replays wait while the queue is longer

ASSUME LightingAssumption ==
  /\ Main # Child
  /\ {On, Off, Dim} \subseteq Payloads
  /\ {Release, Announced} \cap Payloads = {} /\ Release # Announced
  /\ Announcers \subseteq Topics
  /\ Nothing \notin [topic : Topics, payload : Payloads]
  /\ QueueBound \in Nat

Processes == {Main, Child}

Items == [topic : Topics, payload : Payloads \cup {Release, Announced}]
Replies == [items : Seq(Items), override : BOOLEAN]
Sends == [topic : Topics, payload : Payloads]

ASSUME RepliesAssumption ==
  \A r \in UserReplies \cup JobReplies :
     r \in Replies /\ \A i \in DOMAIN r.items : r.items[i].payload # Announced

----------------------------------------------------------------------------
(* lib/receiver_zigbee.py: the replies of Zigbee.receive_intent.            *)

To(topics, p) == [i \in DOMAIN topics |-> [topic |-> topics[i], payload |-> p]]

Reply(items, override) == [items |-> items, override |-> override]

VRMode == Reply(To(Lamps, Off) \o To(Sockets, On), TRUE)
StealthMode == Reply(To(Lamps, Off), TRUE)
CineMode == Reply(To(SubSeq(Lamps, 1, 1), Dim) \o To(Tail(Lamps), Off), TRUE)
RLMode == Reply(To(Lamps, Release) \o To(Sockets, Off), FALSE)
ChangeLightState(group, p) == Reply(To(group, p), FALSE)
ChangeSocketState(socket, p) == Reply(To(<<socket>>, p), FALSE)
ResetSocket(socket) == Reply(To(<<socket>>, Off) \o To(<<socket>>, On), FALSE)

----------------------------------------------------------------------------
VARIABLES store,   \* the shared device state
          reply,   \* process -> what publish() has still to go through
          send,    \* process -> the message a store call has just asked for
          pubq,    \* _publish_queue
          hand,    \* the message the worker took from it
          replay,  \* topic -> the payload a running episode re-sends, or None
          alive,   \* is the scheduler child running
          device,  \* topic -> the last message the device got
          late,    \* history: scheduled base messages under this override
          cause    \* history: why a device may differ from the store

vars == <<store, reply, send, pubq, hand, replay, alive, device, late, cause>>

Done == Reply(<<>>, FALSE)

Busy(p) == reply[p].items # <<>> \/ send[p] # Nothing

Init == /\ store = EmptyStore
        /\ reply = [p \in Processes |-> Done]
        /\ send = [p \in Processes |-> Nothing]
        /\ pubq = <<>>
        /\ hand = Nothing
        /\ replay = [t \in Topics |-> None]
        /\ alive = TRUE
        /\ device = [t \in Topics |-> None]
        /\ late = [t \in Topics |-> 0]
        /\ cause = [t \in Topics |-> "none"]

(* on_message: a recognised command, routed to the Zigbee receiver.         *)
UserCommand == /\ ~Busy(Main)
               /\ Len(pubq) <= QueueBound
               /\ \E r \in UserReplies : reply' = [reply EXCEPT ![Main] = r]
               /\ UNCHANGED <<store, send, pubq, hand, replay, alive, device, late, cause>>

(* handle_bridge_event, on the same thread: a device announces itself, and  *)
(* the store is asked what it should be in.                                 *)
DeviceAnnounced ==
  /\ ~Busy(Main)
  /\ \E t \in Announcers :
       reply' = [reply EXCEPT ![Main] = Reply(To(<<t>>, Announced), FALSE)]
  /\ UNCHANGED <<store, send, pubq, hand, replay, alive, device, late, cause>>

(* on_scheduled, in the child: schedule.run_pending found a job that is due.*)
JobDue == /\ alive
          /\ ~Busy(Child)
          /\ \E r \in JobReplies : reply' = [reply EXCEPT ![Child] = r]
          /\ UNCHANGED <<store, send, pubq, hand, replay, alive, device, late, cause>>

----------------------------------------------------------------------------
(* publish(), one topic: the store call ...                                 *)
CallFor(override, i) ==
  CASE i.payload = Announced -> [kind |-> "get_state", topic |-> i.topic]
    [] i.payload = Release -> [kind |-> "clear_override", topic |-> i.topic]
    [] i.payload \in Payloads /\ override ->
         [kind |-> "set_override", topic |-> i.topic, payload |-> i.payload]
    [] i.payload \in Payloads /\ ~override ->
         [kind |-> "update_base", topic |-> i.topic, payload |-> i.payload]

(* Mutant: the scheduler ignores what update_base returns.                  *)
MessageAlways(p, c, a) ==
  CASE c.kind = "get_state"      -> None
    [] c.kind = "clear_override" -> a
    [] c.kind = "set_override"   -> c.payload
    [] c.kind = "update_base"    -> c.payload

(* Mutant: a release leaves the base for the next schedule to publish.      *)
MessageNoRestore(p, c, a) ==
  CASE c.kind = "get_state"      -> None
    [] c.kind = "clear_override" -> None
    [] c.kind = "set_override"   -> c.payload
    [] c.kind = "update_base"    -> IF p = Child /\ ~a THEN None ELSE c.payload

(* ... and what it asks to publish, given the answer; None is nothing.  The *)
(* answer of update_base is heeded for scheduled jobs only.                 *)
Message(p, c, a) ==
  CASE c.kind = "get_state"      -> None
    [] c.kind = "clear_override" -> a
    [] c.kind = "set_override"   -> c.payload
    [] c.kind = "update_base"    -> IF p = Child /\ ~a THEN None ELSE c.payload

(* The next topic, and what publish() does with the store's answer a; the   *)
(* answer to get_state begins an episode, if none is running (on_announce). *)
CallOf(p) == CallFor(reply[p].override, Head(reply[p].items))

Answered(p, a) ==
  /\ LET t == CallOf(p).topic
         m == Message(p, CallOf(p), a)
     IN  /\ send' = [send EXCEPT ![p] = IF m = None THEN Nothing
                                         ELSE [topic |-> t, payload |-> m]]
         /\ late' = [late EXCEPT ![t] = IF OverrideActive(store', t) THEN @ ELSE 0]
         /\ cause' = [cause EXCEPT ![t] =
              IF p = Child \/ m = None THEN @
              ELSE IF m # EffectiveState(store', t) THEN "base_under_override"
              ELSE "none"]
         /\ replay' = [replay EXCEPT ![t] =
              IF CallOf(p).kind = "get_state" /\ @ = None THEN a ELSE @]
  /\ reply' = [reply EXCEPT ![p].items = Tail(@)]
  /\ UNCHANGED <<pubq, hand, alive, device>>

StoreCall(p) ==
  /\ send[p] = Nothing
  /\ reply[p].items # <<>>
  /\ store' = AfterCall(store, CallOf(p))
  /\ Answered(p, AnswerTo(store, CallOf(p)))

(* A message of the main process to t is still under way.                   *)
UnderWay(t) == \/ send[Main] # Nothing /\ send[Main].topic = t
               \/ hand # Nothing /\ hand.topic = t
               \/ \E i \in DOMAIN pubq : pubq[i].topic = t

(* enqueue_publish(..., direct=False): queue it for the worker.             *)
Enqueue == /\ send[Main] # Nothing
           /\ pubq' = Append(pubq, send[Main])
           /\ send' = [send EXCEPT ![Main] = Nothing]
           /\ UNCHANGED <<store, reply, hand, replay, alive, device, late, cause>>

(* enqueue_publish(..., direct=True): client.publish in the child.          *)
PublishDirect ==
  /\ send[Child] # Nothing
  /\ LET t == send[Child].topic
         m == send[Child].payload
     IN  /\ device' = [device EXCEPT ![t] = m]
         /\ late' = [late EXCEPT ![t] =
              IF OverrideActive(store, t) /\ ~reply[Child].override THEN @ + 1 ELSE @]
         /\ cause' = [cause EXCEPT ![t] =
              IF UnderWay(t) THEN "overtook_queue"
              ELSE IF m # EffectiveState(store, t) THEN "stale_decision"
              ELSE "none"]
  /\ send' = [send EXCEPT ![Child] = Nothing]
  /\ UNCHANGED <<store, reply, pubq, hand, replay, alive>>

(* _publish_worker: take a message ...                                      *)
WorkerTake == /\ hand = Nothing
              /\ pubq # <<>>
              /\ hand' = Head(pubq)
              /\ pubq' = Tail(pubq)
              /\ UNCHANGED <<store, reply, send, replay, alive, device, late, cause>>

(* ... publish it, and sleep PUBLISH_DELAY before the next one.             *)
WorkerPublish == /\ hand # Nothing
                 /\ device' = [device EXCEPT ![hand.topic] = hand.payload]
                 /\ hand' = Nothing
                 /\ UNCHANGED <<store, reply, send, pubq, replay, alive, late, cause>>

(* Replayer._run: the thread of an episode queues what it was given at the  *)
(* announce, whatever the store holds by now, as often as it takes ...      *)
Resend(t) ==
  /\ replay[t] # None
  /\ Len(pubq) <= QueueBound
  /\ pubq' = Append(pubq, [topic |-> t, payload |-> replay[t]])
  /\ cause' = [cause EXCEPT ![t] =
       IF send[Main] # Nothing /\ send[Main].topic = t THEN @
       ELSE IF replay[t] # EffectiveState(store, t) THEN "replayed_old"
       ELSE "none"]
  /\ UNCHANGED <<store, reply, send, hand, replay, alive, device, late>>

(* ... until it is confirmed or gives up (Replayer says when).              *)
EpisodeEnds(t) == /\ replay[t] # None
                  /\ replay' = [replay EXCEPT ![t] = None]
                  /\ UNCHANGED <<store, reply, send, pubq, hand, alive, device, late, cause>>

----------------------------------------------------------------------------
(* An exception in a job (a missing slot, a broken alias, a closed socket)  *)
(* ends scheduler.run and with it the child.                                *)
JobFails == /\ alive
            /\ Busy(Child)
            /\ alive' = FALSE
            /\ reply' = [reply EXCEPT ![Child] = Done]
            /\ send' = [send EXCEPT ![Child] = Nothing]
            /\ cause' = [t \in Topics |-> IF send[Child] # Nothing /\ send[Child].topic = t
                                           THEN "died_before_publishing" ELSE cause[t]]
            /\ UNCHANGED <<store, pubq, hand, replay, device, late>>

(* load_config: terminate the child wherever it is and fork a new one.  If  *)
(* it was inside a store call the file may be empty (AtomicStore, Wipe).    *)
ReloadConfig ==
  /\ ~Busy(Main)
  /\ alive' = TRUE
  /\ reply' = [reply EXCEPT ![Child] = Done]
  /\ send' = [send EXCEPT ![Child] = Nothing]
  /\ cause' = [t \in Topics |-> IF send[Child] # Nothing /\ send[Child].topic = t
                                 THEN "died_before_publishing" ELSE cause[t]]
  /\ \/ UNCHANGED <<store, late>>
     \/ /\ send[Child] = Nothing /\ reply[Child].items # <<>>
        /\ store' = EmptyStore
        /\ late' = [t \in Topics |-> 0]
  /\ UNCHANGED <<pubq, hand, replay, device>>

Replays == \E t \in Topics : Resend(t) \/ EpisodeEnds(t)

Next == \/ UserCommand \/ DeviceAnnounced \/ StoreCall(Main) \/ Enqueue \/ ReloadConfig
        \/ JobDue \/ StoreCall(Child) \/ PublishDirect \/ JobFails
        \/ WorkerTake \/ WorkerPublish \/ Replays

Spec == Init /\ [][Next]_vars

----------------------------------------------------------------------------
(* The variables keep their types.                                          *)
TypeOK == /\ store \in Store
          /\ reply \in [Processes -> Replies]
          /\ send \in [Processes -> Sends \cup {Nothing}]
          /\ pubq \in Seq(Sends)
          /\ hand \in Sends \cup {Nothing}
          /\ replay \in [Topics -> Payloads \cup {None}]
          /\ alive \in BOOLEAN
          /\ device \in [Topics -> Payloads \cup {None}]
          /\ late \in [Topics -> Nat]
          /\ cause \in [Topics -> {"none", "base_under_override", "overtook_queue",
                                   "stale_decision", "died_before_publishing",
                                   "replayed_old"}]

(* update_base answers under the lock, but the child publishes after it:    *)
(* an override set in between is overwritten on the device.  It can happen  *)
(* to each override at most once, however many jobs run: the next job sees  *)
(* the override.  (A base the replayer captured before the override may     *)
(* come again and again: DeviceAgrees.)                                     *)
OneLateBaseAtMost == \A t \in Topics : late[t] <= 1

(* Nothing is on its way to a device.                                       *)
Quiet == ~Busy(Main) /\ ~Busy(Child) /\ pubq = <<>> /\ hand = Nothing

(* Once everything has been delivered the last message a device got is the  *)
(* state the store would report for it: the mode's under an override and    *)
(* the newest base state after a release.  The only exceptions are the five *)
(* recorded in cause: the main process published a base under an override,  *)
(* the child overtook a queued message, it published what had meanwhile     *)
(* been replaced, it died between the store and the device, or the replayer *)
(* re-sent what it had captured before a newer command was on its way.  An  *)
(* exception ends with the next message that is right, a replay included.   *)
DeviceAgrees ==
  Quiet => \A t \in Topics : \/ cause[t] # "none"
                             \/ EffectiveState(store, t) = None
                             \/ device[t] = EffectiveState(store, t)
============================================================================

------------------------------ MODULE Notifier ------------------------------
(* meter/notify.py: the notifier as three threads share it.  The main loop  *)
(* and paho's thread report conditions, without a lock; a daemon thread     *)
(* posts the queue to ntfy, one message at a time, and a post may fail.     *)
EXTENDS Alerts

CONSTANTS Linked,    \* the keys paho's callbacks report: "mqtt"
          Fuses,     \* the values of min_duration_s that callers use
          MaxTime,   \* bound: the clock stops there
          MaxRaced   \* bound: no checks overlap once so many messages have passed in overlaps

ASSUME NotifierAssumption ==
  Linked \subseteq Keys /\ Fuses \subseteq Nat /\ {MaxTime, MaxRaced} \subseteq Nat

Threads == {"main", "paho"}

(* meter_service.py: every other key is reported by the main loop.          *)
KeysOf(c) == IF c = "paho" THEN Linked ELSE Keys \ Linked

(* A call that has something to say, between the steps at which the other   *)
(* thread may come in.  "trim" up to "append" is _rate_ok; "astray" is      *)
(* "append" with the list replaced since it was measured.                   *)
Steps == {"idle", "trim", "assign", "check", "append", "astray", "put"}

Call == [step : Steps, key : Keys \cup {"event"}, kind : {"failure", "recovery", "event"},
         kept : SUBSET (Nat \ {0}),   \* the list _rate_ok is about to assign
         raced : BOOLEAN,             \* history: the other's _rate_ok ran meanwhile
         place : Nat]                 \* the position of the message in passed

NoCall == [step |-> "idle", key |-> "event", kind |-> "event",
           kept |-> {}, raced |-> FALSE, place |-> 0]

VARIABLES n,        \* the state the callers work on (Alerts)
          call,     \* thread -> the call it is in
          raced,    \* history: the messages whose check another one overlapped
          now,      \* time.monotonic()
          stop,     \* _stop
          worker,   \* _worker: "head", "waiting", "posting", "ended"
          hand,     \* the position of the message it is posting
          tried,    \* history: the messages it has posted, or failed to
          phone     \* key -> the last message that arrived

checks == <<call, raced>>
callers == <<n, checks, now, stop>>
thread == <<worker, hand, tried, phone>>
vars == <<callers, thread>>

Init == /\ n = FreshNotifier
        /\ call = [c \in Threads |-> NoCall]
        /\ raced = {}
        /\ now = 0
        /\ stop = FALSE
        /\ worker = "head" /\ hand = 0
        /\ tried = {}
        /\ phone = [k \in Keys |-> "recovery"]

----------------------------------------------------------------------------
(* The callers: conditions come and go in any way.  Each thread finishes a  *)
(* call before it makes the next.                                           *)
Ask(c, k, kind) ==
  call' = [call EXCEPT ![c] = [NoCall EXCEPT !.step = "trim", !.key = k, !.kind = kind]]

CallFailure(c) ==
  /\ call[c].step = "idle" /\ ~stop
  /\ \E k \in KeysOf(c), fuse \in Fuses :
       /\ n' = [n EXCEPT !.alerts[k] = Reported(@, fuse, now)]
       /\ IF Proven(n.alerts[k], fuse, now) THEN Ask(c, k, "failure") ELSE UNCHANGED call
  /\ UNCHANGED <<raced, now, stop, thread>>

CallResolved(c) ==
  /\ call[c].step = "idle" /\ ~stop
  /\ \E k \in KeysOf(c) :
       /\ n' = Popped(n, k)
       /\ IF Announced(n.alerts[k]) THEN Ask(c, k, "recovery") ELSE UNCHANGED call
  /\ UNCHANGED <<raced, now, stop, thread>>

(* event(): the history recorder, in the main loop.                         *)
CallEvent == /\ call["main"].step = "idle" /\ ~stop
             /\ Ask("main", "event", "event")
             /\ UNCHANGED <<n, raced, now, stop, thread>>

----------------------------------------------------------------------------
(* _rate_ok of thread c, and the put_nowait behind it.                      *)

(* It has read the list and not yet appended to it.                         *)
Checking(c) == call[c].step \in {"assign", "check", "append", "astray"}

(* The comprehension: what is left of _sent_times at the cutoff.            *)
Trim(c) ==
  /\ call[c].step = "trim"
  /\ LET crossed == \E d \in Threads \ {c} : Checking(d)
     IN /\ crossed => Cardinality(raced) < MaxRaced
        /\ call' = [d \in Threads |->
             IF d = c THEN [call[c] EXCEPT !.step = "assign", !.kept = StillRecent(n, now),
                                           !.raced = crossed]
             ELSE [call[d] EXCEPT !.raced = @ \/ Checking(d)]]
  /\ UNCHANGED <<n, raced, now, stop, thread>>

(* self._sent_times = ...: what the other thread has appended since is lost,*)
(* and what it is about to append may go to the old list.                   *)
Assign(c) ==
  /\ call[c].step = "assign"
  /\ n' = [n EXCEPT !.recent = call[c].kept]
  /\ call' = [d \in Threads |->
       IF d = c THEN [call[c] EXCEPT !.step = "check", !.kept = {}]
       ELSE IF call[d].step = "append" THEN [call[d] EXCEPT !.step = "astray"] ELSE call[d]]
  /\ UNCHANGED <<raced, now, stop, thread>>

(* len(self._sent_times) >= self.max_per_hour                               *)
Check(c) ==
  /\ call[c].step = "check"
  /\ IF Cardinality(n.recent) >= MaxPerHour
       THEN /\ n' = [n EXCEPT !.lost = @ \cup {call[c].key}]
            /\ call' = [call EXCEPT ![c] = NoCall]
       ELSE /\ call' = [call EXCEPT ![c].step = "append"]
            /\ UNCHANGED n
  /\ UNCHANGED <<raced, now, stop, thread>>

(* self._sent_times.append(time.monotonic()): the message has passed.       *)
Pass(c) ==
  /\ call[c].step \in {"append", "astray"}
  /\ LET place == Len(n.passed) + 1
         m == [key |-> call[c].key, kind |-> call[c].kind, at |-> now]
     IN /\ \/ n' = Noted(n, m)
           \/ call[c].step = "astray" /\ n' = [n EXCEPT !.passed = Append(@, m)]
        /\ raced' = IF call[c].raced THEN raced \cup {place} ELSE raced
        /\ call' = [call EXCEPT ![c] = [NoCall EXCEPT !.step = "put", !.key = call[c].key,
                                                      !.kind = call[c].kind, !.place = place]]
  /\ UNCHANGED <<now, stop, thread>>

(* put_nowait; queue.Full                                                   *)
Put(c) ==
  /\ call[c].step = "put"
  /\ n' = Queued(n, call[c].place, call[c].key)
  /\ call' = [call EXCEPT ![c] = NoCall]
  /\ UNCHANGED <<raced, now, stop, thread>>

(* shutdown(): put_nowait(None), if there is room.  Main calls it when      *)
(* loop_stop has joined paho's thread.                                      *)
Shutdown == /\ ~stop /\ \A c \in Threads : call[c].step = "idle"
            /\ stop' = TRUE
            /\ n' = IF Len(n.q) < QueueSize THEN [n EXCEPT !.q = Append(@, 0)] ELSE n
            /\ UNCHANGED <<checks, now, thread>>

Tick == /\ now < MaxTime
        /\ now' = now + 1
        /\ UNCHANGED <<n, checks, stop, thread>>

----------------------------------------------------------------------------
(* The worker.                                                              *)

(* while not self._stop.is_set()                                            *)
LoopHead == /\ worker = "head"
            /\ worker' = IF stop THEN "ended" ELSE "waiting"
            /\ UNCHANGED <<callers, hand, tried, phone>>

(* self._q.get(timeout=1.0)                                                 *)
Get == /\ worker = "waiting" /\ n.q # <<>>
       /\ n' = [n EXCEPT !.q = Tail(@)]
       /\ hand' = Head(n.q)
       /\ worker' = IF Head(n.q) = 0 THEN "ended" ELSE "posting"
       /\ UNCHANGED <<checks, now, stop, tried, phone>>

(* queue.Empty                                                              *)
GetTimesOut == /\ worker = "waiting" /\ n.q = <<>>
               /\ worker' = "head"
               /\ UNCHANGED <<callers, hand, tried, phone>>

Message == n.passed[hand]

(* session.post and raise_for_status succeed ...                            *)
Posted == /\ worker = "posting"
          /\ phone' = [k \in Keys |-> IF k = Message.key THEN Message.kind ELSE phone[k]]
          /\ tried' = tried \cup {hand}
          /\ worker' = "head" /\ hand' = 0
          /\ UNCHANGED callers

(* Mutant: the exception ends the thread.                                   *)
PostKills == /\ worker = "posting"
             /\ worker' = "ended" /\ hand' = 0
             /\ tried' = tried \cup {hand}
             /\ UNCHANGED <<callers, phone>>

(* ... or one of them raises.                                               *)
PostFails == /\ worker = "posting"
             /\ n' = [n EXCEPT !.lost = @ \cup {Message.key}]
             /\ tried' = tried \cup {hand}
             /\ worker' = "head" /\ hand' = 0
             /\ UNCHANGED <<checks, now, stop, phone>>

(* shutdown joins for 5 seconds, a post may take 10; the process exits.     *)
Exit == /\ stop /\ worker = "posting"
        /\ worker' = "ended"
        /\ UNCHANGED <<callers, hand, tried, phone>>

Says(c) == \/ CallFailure(c) \/ CallResolved(c)
           \/ Trim(c) \/ Assign(c) \/ Check(c) \/ Pass(c) \/ Put(c)

Next == \/ \E c \in Threads : Says(c)
        \/ CallEvent \/ Shutdown \/ Tick
        \/ LoopHead \/ Get \/ GetTimesOut \/ Posted \/ PostFails \/ Exit

Spec == Init /\ [][Next]_vars

(* The daemon thread runs, and every post has a timeout.                    *)
Fairness == /\ WF_vars(LoopHead) /\ WF_vars(Get) /\ WF_vars(GetTimesOut)
            /\ WF_vars(Posted \/ PostFails)

FairSpec == Spec /\ Fairness

----------------------------------------------------------------------------
(* The variables keep their types.                                          *)
TypeOK == /\ n \in Notifiers
          /\ call \in [Threads -> Call]
          /\ raced \subseteq 1..Len(n.passed)
          /\ now \in Nat
          /\ stop \in BOOLEAN
          /\ worker \in {"head", "waiting", "posting", "ended"}
          /\ hand \in 0..Len(n.passed) /\ (worker = "posting" => hand # 0)
          /\ tried \subseteq 1..Len(n.passed)
          /\ phone \in [Keys -> {"failure", "recovery"}]

(* README: "max_per_hour is a hard backstop".  It is one against all that a *)
(* thread says undisturbed: of the messages of less than an hour, whatever  *)
(* their keys and threads, those whose check no other check overlapped are  *)
(* at most MaxPerHour.  Two checks that overlap may both see the last place,*)
(* or one forget the other.                                                 *)
HourlyCap == \A i, j \in DOMAIN n.passed :
  n.passed[j].at - n.passed[i].at < Hour => Cardinality((i..j) \ raced) <= MaxPerHour

(* Nothing is on its way to the phone.                                      *)
Quiet == /\ \A c \in Threads : call[c].step = "idle"
         /\ n.q = <<>> /\ worker \in {"head", "waiting"}

(* If none of the messages of a key was lost, the phone shows the condition *)
(* as the notifier sees it as soon as nothing is on its way.                *)
PhoneAgrees ==
  Quiet => \A k \in Keys \ n.lost : phone[k] = "failure" <=> Announced(n.alerts[k])

(* Exactly one message per outage and one when it clears: no message that   *)
(* arrives repeats the one before it for its key, unless one was lost.      *)
NoRepeats ==
  [][ Posted /\ Message.key \in Keys \ n.lost => phone'[Message.key] # phone[Message.key] ]_vars

(* A message that found room in the queue is tried, unless the service stops*)
EveryMessageTried ==
  \A i \in 1..(3 * MaxPerHour) :
    (\E j \in DOMAIN n.q : n.q[j] = i) ~> (i \in tried \/ stop)
============================================================================

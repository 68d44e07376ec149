------------------------------- MODULE Alerts -------------------------------
(* meter/notify.py: the calls of Notifier as operators on its state, so that *)
(* a caller that makes several of them in one step can be written down.      *)
EXTENDS Integers, Sequences, FiniteSets

CONSTANTS Keys,         \* "poll", "login", "stale", ...
          MinCount,     \* min_count: reports that make a condition real
          MaxPerHour,   \* max_per_hour
          Hour,         \* the length of the window of the rate cap
          QueueSize,    \* Queue(maxsize=..)
          NoAlert       \* the key is not in _alerts

ASSUME AlertsAssumption ==
  /\ {MinCount, MaxPerHour, Hour, QueueSize} \subseteq Nat \ {0}
  /\ "event" \notin Keys

Alert == [since : Nat, count : 1..MinCount, notified : BOOLEAN]

ASSUME NoAlertAssumption == NoAlert \notin Alert

Messages == [key : Keys \cup {"event"}, kind : {"failure", "recovery", "event"}, at : Nat]

(* alerts: _alerts.  passed: history, the messages the rate cap let pass.    *)
(* recent: _sent_times, as positions in passed.  q: _q, likewise; 0 is the   *)
(* sentinel of shutdown.  lost: history, keys of which a message was lost.   *)
Notifiers == [alerts : [Keys -> Alert \cup {NoAlert}],
              passed : Seq(Messages),
              recent : SUBSET (Nat \ {0}),
              q : Seq(Nat),
              lost : SUBSET (Keys \cup {"event"})]

FreshNotifier == [alerts |-> [k \in Keys |-> NoAlert], passed |-> <<>>,
                  recent |-> {}, q |-> <<>>, lost |-> {}]

----------------------------------------------------------------------------
(* Mutant: the window is an hour too short by its boundary.                  *)
StillRecentLoose(n, t) == {i \in n.recent : n.passed[i].at > t - Hour + 1}

(* _rate_ok: the times that have left the window are forgotten ...           *)
StillRecent(n, t) == {i \in n.recent : n.passed[i].at > t - Hour}

(* ... and the message is noted, before anybody knows if the queue has room. *)
Noted(n, m) == [n EXCEPT !.passed = Append(@, m), !.recent = @ \cup {Len(n.passed) + 1}]

Queued(n, i, k) == IF Len(n.q) < QueueSize THEN [n EXCEPT !.q = Append(@, i)]
                   ELSE [n EXCEPT !.lost = @ \cup {k}]

(* _enqueue, undisturbed by another thread                                   *)
Enqueue(n, k, kind, t) ==
  LET pruned == [n EXCEPT !.recent = StillRecent(n, t)]
      m == [key |-> k, kind |-> kind, at |-> t]
  IN IF Cardinality(pruned.recent) >= MaxPerHour
       THEN [pruned EXCEPT !.lost = @ \cup {k}]
       ELSE Queued(Noted(pruned, m), Len(n.passed) + 1, k)

(* The count only matters up to MinCount.                                    *)
OneMore(c) == IF c < MinCount THEN c + 1 ELSE MinCount

(* What failure() makes of the alert of its key ...                          *)
Proven(a, fuse, t) == /\ a # NoAlert /\ ~a.notified
                      /\ t - a.since >= fuse \/ OneMore(a.count) >= MinCount

(* Mutant: an alert that has been sent is not marked.                        *)
ReportedUnmarked(a, fuse, t) ==
  IF a = NoAlert THEN [since |-> t, count |-> 1, notified |-> FALSE]
  ELSE [a EXCEPT !.count = OneMore(@)]

Reported(a, fuse, t) ==
  IF a = NoAlert THEN [since |-> t, count |-> 1, notified |-> FALSE]
  ELSE [a EXCEPT !.count = OneMore(@), !.notified = @ \/ Proven(a, fuse, t)]

(* failure(key, ..., min_duration_s=fuse): the first report is only noted,   *)
(* a condition that lasts is announced once.                                 *)
Failure(n, k, fuse, t) ==
  LET reported == [n EXCEPT !.alerts[k] = Reported(@, fuse, t)]
  IN IF Proven(n.alerts[k], fuse, t) THEN Enqueue(reported, k, "failure", t) ELSE reported

Announced(a) == a # NoAlert /\ a.notified

(* Mutant: the alert is read, not popped.                                    *)
PoppedKeeps(n, k) == n

Popped(n, k) == [n EXCEPT !.alerts[k] = NoAlert]

(* resolved(key): the all-clear of an alert that was marked as announced.    *)
Resolved(n, k, t) ==
  IF Announced(n.alerts[k]) THEN Enqueue(Popped(n, k), k, "recovery", t) ELSE Popped(n, k)
============================================================================

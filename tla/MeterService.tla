---------------------------- MODULE MeterService ----------------------------
(* meter/meter_service.py, run_loop: one thread that, every iteration, lets *)
(* the keep-awake poke and the history poll use the FRITZ!Box session, polls*)
(* the meter, publishes, and reports conditions to the notifier.  With the  *)
(* session of meter/fritz_source.py, which all three share, and the clocks  *)
(* of KeepAwake, HistoryRecorder and FreshnessTracker.                      *)
(*                                                                          *)
(* The monotonic clock counts poll intervals; the wall clock is ahead of it *)
(* by a drift that changes when somebody sets it.  A request is up to six   *)
(* HTTP calls, and every one of them may take a timeout.  What becomes of a *)
(* message is Notifier's part: here the queue is emptied after every        *)
(* iteration.                                                               *)
EXTENDS Alerts

CONSTANTS MinDuration, StaleFuse,      \* how long a condition must last
          StaleAfter,                  \* stale_after_s
          PokeEvery,                   \* keep_awake.interval_s
          HistoryEvery, HistoryRetry,  \* history.interval_s, retry_s
          BackoffInitial, BackoffMax,  \* of the login
          Timeout,                     \* of an HTTP call
          BlockTimes,                  \* what the box adds to a rejection
          ClockSteps,                  \* by how much the wall clock is set
          Nothing,
          MaxTime,                     \* bound: the clock stops there
          MaxEvents                    \* bound: changes in the world

ASSUME MeterAssumption ==
  /\ Keys = {"poll", "login", "stale", "history", "keep_awake"}
  /\ {MinDuration, StaleFuse, StaleAfter, PokeEvery, HistoryEvery, HistoryRetry,
      BackoffInitial, BackoffMax} \subseteq Nat \ {0}
  /\ {Timeout, MaxTime, MaxEvents} \subseteq Nat /\ BlockTimes \subseteq Nat
  /\ ClockSteps \subseteq Int

ASSUME NothingAssumption == Nothing \notin Nat \cup BOOLEAN

(* The box does not delay logins for ever longer.                           *)
ASSUME BlockTimesAssumption ==
  \E d \in BlockTimes \cup {BackoffMax} : \A e \in BlockTimes \cup {BackoffMax} : e <= d

VARIABLES
  t,          \* time.monotonic()
  drift,      \* utcnow() is t + drift
  pc,         \* run_loop: "keep_awake", "history", "poll", "wait"
  req,        \* the request under way: its next HTTP call, whether it logs
              \* in again after a 403, and when it began
  box,        \* is it up, how long does a call take, what are the rights of
              \* our login, is the device present and does it send other
              \* values, is our SID valid, until when does it delay logins
  session,    \* FritzSession: _sid, login_failures, _not_before
  poke,       \* KeepAwake: _enabled, _last_poke, last_error
  history,    \* HistoryRecorder: _next_poll, last_error
  tracker,    \* FreshnessTracker: is there a last_reading, ts_measured
  published,  \* the stale flag in the retained data/power message
  n,          \* the notifier
  started,    \* when this iteration began, by the wall clock ...
  began,      \* ... and by the other one
  heard,      \* history: when the last other values were read
  disturbed,  \* history: was the wall clock set since that iteration began
  streak,     \* history: polls that failed in a row
  rejected,   \* history: when the box last rejected a login
  fine,       \* history: since when all is well with the box
  events      \* what happened in the world so far, for the bound

clocks == <<drift, started, began>>
world == <<box, fine, events>>
ghosts == <<heard, disturbed, streak, rejected>>

(* What the three users of the session keep.                                *)
users == <<poke, history, tracker, published, n, heard, disturbed, streak>>

vars == <<t, clocks, pc, req, world, session, poke, history, tracker, published, n, ghosts>>

(* FritzSession.__init__                                                    *)
NoSession == [held |-> FALSE, failures |-> 0, notBefore |-> 0]

(* FreshnessTracker.__init__                                                *)
NoReading == [seen |-> FALSE, measured |-> 0]

Idle == [call |-> "none", again |-> FALSE, from |-> 0]

(* A _last_poke of 0.0: the monotonic clock has run for longer than that.   *)
LongAgo == -PokeEvery

Init == /\ t = 0 /\ drift = 0 /\ began = 0 /\ started = 0
        /\ pc = "keep_awake" /\ req = Idle
        /\ box \in [up : BOOLEAN, lag : {0, Timeout}, rights : {"all", "login", "none"},
                   present : {TRUE}, sends : {TRUE}, valid : {FALSE}, delay : {0}]
        /\ session = NoSession
        /\ poke \in [on : BOOLEAN, last : {LongAgo}, error : {FALSE}]
        /\ history = [next |-> 0, error |-> FALSE]
        /\ tracker = NoReading
        /\ published = Nothing
        /\ n = FreshNotifier
        /\ heard = 0 /\ disturbed = FALSE
        /\ streak = 0 /\ rejected = Nothing /\ fine = 0 /\ events = 0

----------------------------------------------------------------------------
(* The world: the box goes away and comes back, answers (or fails to) at    *)
(* once or late, loses our session, has the rights of its user account      *)
(* changed (all, only to log in, none), loses the device; the device falls  *)
(* silent; the wall clock is set; MQTT toggles keep_awake.                  *)
AllWell(b) == b.up /\ b.rights = "all" /\ b.present

(* A box that changes while a request logs in again may answer it another   *)
(* 403: from then on it must be fine again.                                 *)
BoxChanges ==
  /\ events < MaxEvents
  /\ events' = events + 1
  /\ box' \in {[box EXCEPT !.up = ~@, !.valid = FALSE], [box EXCEPT !.present = ~@],
               [box EXCEPT !.sends = ~@], [box EXCEPT !.valid = FALSE]}
              \cup {[box EXCEPT !.lag = by] : by \in 0..Timeout}
              \cup {[box EXCEPT !.rights = r] : r \in {"all", "login", "none"}}
  /\ box' # box
  /\ fine' = IF AllWell(box) /\ ~req.again THEN fine ELSE t
  /\ UNCHANGED <<t, clocks, pc, req, session, poke, history, tracker, published, n, ghosts>>

(* NTP, or a person, sets the wall clock.                                   *)
ClockSet == /\ events < MaxEvents
            /\ events' = events + 1
            /\ \E by \in ClockSteps : drift' = drift + by
            /\ disturbed' = TRUE
            /\ UNCHANGED <<t, started, began, pc, req, box, fine, session, poke, history,
                           tracker, published, n, heard, streak, rejected>>

(* handle_keep_awake_cmd, on the thread of paho: set_enabled.               *)
KeepAwakeCommand ==
  /\ events < MaxEvents
  /\ events' = events + 1
  /\ poke' = IF poke.on THEN [poke EXCEPT !.on = FALSE]
             ELSE [poke EXCEPT !.on = TRUE, !.last = LongAgo]
  /\ UNCHANGED <<t, clocks, pc, req, box, fine, session, history, tracker, published, n,
                 ghosts>>

----------------------------------------------------------------------------
(* After a poll: the tracker, the messages, the reports.                    *)

(* tracker.update(reading, now), for a reading without ts_device: are its   *)
(* values others than those of the last one?                                *)
Fresh == box.sends \/ ~tracker.seen

Updated == [seen |-> TRUE, measured |-> IF Fresh THEN t' + drift ELSE tracker.measured]

IsStale(tr) == t' + drift - tr.measured > StaleAfter

(* Mutant: the report of one kind of failure resolves the other kind.       *)
ReportEither(m, answer, s, stale) ==
  IF answer = "ok" THEN Resolved(Resolved(m, "poll", t'), "stale", t')
  ELSE IF answer = "rejected" THEN Failure(Resolved(m, "poll", t'), "login", MinDuration, t')
  ELSE Failure(Resolved(m, "login", t'), "poll", MinDuration, t')

(* The notifier's calls after a poll that came to answer ...                *)
Report(m, answer, s, stale) ==
  IF answer = "ok"
    THEN LET reached == Resolved(m, "poll", t')
         IN  IF stale THEN Failure(reached, "stale", StaleFuse, t')
             ELSE Resolved(reached, "stale", t')
    ELSE Failure(m, IF answer = "rejected" \/ s.failures > 0 THEN "login" ELSE "poll",
                 MinDuration, t')

(* ... and those on behalf of the two others, about their last error.       *)
ReportOthers(m) ==
  LET poked == IF poke.error THEN Failure(m, "keep_awake", MinDuration, t')
               ELSE IF poke.on THEN Resolved(m, "keep_awake", t') ELSE m
  IN IF history.error THEN Failure(poked, "history", MinDuration, t')
     ELSE Resolved(poked, "history", t')

(* The queue is empty, and no message counts against the cap.               *)
Emptied(m) == [m EXCEPT !.passed = <<>>, !.recent = {}, !.q = <<>>]

(* Mutant: nothing is published while the box is away.                      *)
PublishesReadings(answer, tr) == IF answer = "ok" THEN IsStale(tr) ELSE published

(* The power message: the new reading, or the last one with its stale flag. *)
Publishes(answer, tr) == IF tr.seen THEN IsStale(tr) ELSE published

(* parse_devicelist: the box has answered, but without the device there is  *)
(* no reading.                                                              *)
Parsed(answer) == IF answer = "ok" /\ ~box.present THEN "absent" ELSE answer

PollEnds(answer) ==
  LET ok == answer = "ok"
      fresh == ok /\ Fresh
  IN  /\ pc' = "wait"
      /\ tracker' = IF ok THEN Updated ELSE tracker
      /\ published' = Publishes(answer, tracker')
      /\ n' = ReportOthers(Report(Emptied(n), answer, session', IsStale(tracker')))
      /\ streak' = IF ok THEN 0 ELSE streak + 1
      /\ heard' = IF fresh THEN t' ELSE heard
      /\ disturbed' = IF fresh THEN started # began + drift ELSE disturbed
      /\ UNCHANGED <<poke, history>>

----------------------------------------------------------------------------
(* FritzSession.request, called by the keep-awake poke, the history and the *)
(* poll: every HTTP call is a step, the world may change in between.        *)

(* The poke and the history read the clock before their request.            *)
PokeEnds(answer) ==
  /\ pc' = "history"
  /\ poke' = [poke EXCEPT !.error = answer # "ok"]
  /\ UNCHANGED <<history, tracker, published, n, heard, disturbed, streak>>

HistoryEnds(answer) ==
  /\ pc' = "poll"
  /\ history' = IF answer = "ok" THEN [next |-> req.from + HistoryEvery, error |-> FALSE]
                ELSE [next |-> req.from + HistoryRetry, error |-> TRUE]
  /\ UNCHANGED <<poke, tracker, published, n, heard, disturbed, streak>>

Begins == /\ req' = [call |-> IF session.held THEN "get" ELSE "info", again |-> FALSE, from |-> t]
          /\ UNCHANGED <<t, clocks, pc, world, session, history, tracker, published, n, ghosts>>

Goes(next) == /\ req' = next
              /\ UNCHANGED <<pc, users>>

Ends(answer) == /\ req' = Idle
                /\ \/ pc = "keep_awake" /\ PokeEnds(answer)
                   \/ pc = "history" /\ HistoryEnds(answer)
                   \/ pc = "poll" /\ PollEnds(Parsed(answer))

(* An HTTP call takes up to the timeout, with or without an answer.         *)
Takes == /\ t' = t + box.lag
         /\ UNCHANGED <<clocks, fine, events>>

Least(a, b) == IF a < b THEN a ELSE b
Most(a, b) == IF a > b THEN a ELSE b

(* Mutant: the backoff has no maximum.                                      *)
BackoffUncapped(failures) == BackoffInitial * 2 ^ (failures - 1)

(* min(backoff_initial_s * 2 ** (login_failures - 1), backoff_max_s)        *)
Backoff(failures) == Least(BackoffInitial * 2 ^ (failures - 1), BackoffMax)

(* What the box reports as BlockTime.                                       *)
BlockTime == Most(0, box.delay - t)

Accepted == [session EXCEPT !.held = TRUE, !.failures = 0]

(* Mutant: the box's BlockTime replaces the backoff.                        *)
RejectedShort(delay) ==
  [session EXCEPT !.failures = @ + 1, !.notBefore = t' + delay]

Rejected(delay) ==
  [session EXCEPT !.failures = @ + 1,
                  !.notBefore = t' + Most(Backoff(session.failures + 1), delay)]

(* login(): not before the backoff is over ...                              *)
LoginBlocked == /\ req.call = "info" /\ session.notBefore > t
                /\ UNCHANGED <<t, clocks, fine, events, box, session, rejected>>
                /\ Ends("blocked")

(* ... with a challenge, or the box's own delay, to begin with ...          *)
LoginInfo ==
  /\ req.call = "info" /\ session.notBefore <= t
  /\ Takes
  /\ \/ /\ ~box.up
        /\ UNCHANGED session
        /\ Ends("unreachable")
     \/ /\ box.up /\ BlockTime > 0
        /\ session' = [session EXCEPT !.notBefore = t' + BlockTime]
        /\ Ends("blocked")
     \/ /\ box.up /\ BlockTime = 0
        /\ Goes([req EXCEPT !.call = "post"])
        /\ UNCHANGED session
  /\ UNCHANGED <<box, rejected>>

(* ... and then the response to it.                                         *)
LoginPost ==
  /\ req.call = "post"
  /\ Takes
  /\ \/ /\ ~box.up
        /\ UNCHANGED <<session, box, rejected>>
        /\ Ends("unreachable")
     \/ /\ box.up /\ box.rights # "none"
        /\ session' = Accepted
        /\ box' = [box EXCEPT !.valid = TRUE]
        /\ Goes([req EXCEPT !.call = "get"])
        /\ UNCHANGED rejected
     \/ /\ box.up /\ box.rights = "none"
        /\ \E delay \in BlockTimes : /\ session' = Rejected(delay)
                                     /\ box' = [box EXCEPT !.delay = t + delay]
        /\ rejected' = t'
        /\ Ends("rejected")

(* The page; after a first 403 the request logs in again, a second one is an*)
(* error (raise_for_status).                                                *)
Get ==
  /\ req.call = "get"
  /\ Takes
  /\ LET served == box.valid /\ box.rights = "all"
     IN \/ /\ ~box.up \/ served \/ req.again
           /\ UNCHANGED session
           /\ Ends(IF ~box.up THEN "unreachable" ELSE IF served THEN "ok" ELSE "forbidden")
        \/ /\ box.up /\ ~served /\ ~req.again
           /\ session' = [session EXCEPT !.held = FALSE]
           /\ Goes([req EXCEPT !.call = "info", !.again = TRUE])
  /\ UNCHANGED <<box, rejected>>

HttpCall == LoginBlocked \/ LoginInfo \/ LoginPost \/ Get

----------------------------------------------------------------------------
(* One iteration of run_loop: the side channels come before the poll.       *)

Skips(next) == /\ pc' = next
               /\ UNCHANGED <<t, clocks, req, world, session, poke, history, tracker,
                              published, n, ghosts>>

(* keep_awake.tick(source)                                                  *)
KeepAwakeTick ==
  /\ pc = "keep_awake" /\ req = Idle
  /\ IF poke.on /\ t - poke.last >= PokeEvery
       THEN Begins /\ poke' = [poke EXCEPT !.last = t]
       ELSE Skips("history")

(* history.tick(source)                                                     *)
HistoryTick ==
  /\ pc = "history" /\ req = Idle
  /\ IF t >= history.next THEN Begins /\ UNCHANGED poke ELSE Skips("poll")

(* source.poll()                                                            *)
Poll == /\ pc = "poll" /\ req = Idle
        /\ Begins /\ UNCHANGED poke

(* stop.wait(max(0.0, interval_s - elapsed)), elapsed by the wall clock     *)
Wait == /\ pc = "wait"
        /\ t < MaxTime
        /\ pc' = "keep_awake"
        /\ t' = t + Most(0, 1 - (t + drift - started))
        /\ began' = t' /\ started' = t' + drift
        /\ UNCHANGED <<drift, req, world, session, poke, history, tracker, published, n,
                       ghosts>>

Iteration == KeepAwakeTick \/ HistoryTick \/ Poll \/ HttpCall \/ Wait

Next == Iteration \/ BoxChanges \/ ClockSet \/ KeepAwakeCommand

Spec == Init /\ [][Next]_vars

----------------------------------------------------------------------------
(* The variables keep their types.                                          *)
TypeOK ==
  /\ t \in Nat /\ began \in Nat /\ heard \in Nat /\ streak \in Nat /\ fine \in Nat
  /\ drift \in Int /\ started \in Int /\ events \in 0..MaxEvents /\ disturbed \in BOOLEAN
  /\ pc \in {"keep_awake", "history", "poll", "wait"}
  /\ req \in [call : {"none", "info", "post", "get"}, again : BOOLEAN, from : Nat]
  /\ box \in [up : BOOLEAN, lag : 0..Timeout, rights : {"all", "login", "none"},
              present : BOOLEAN, sends : BOOLEAN, valid : BOOLEAN, delay : Nat]
  /\ session \in [held : BOOLEAN, failures : Nat, notBefore : Nat]
  /\ poke \in [on : BOOLEAN, last : Int, error : BOOLEAN]
  /\ history \in [next : Nat, error : BOOLEAN]
  /\ tracker \in [seen : BOOLEAN, measured : Int]
  /\ published \in BOOLEAN \cup {Nothing}
  /\ n \in Notifiers
  /\ rejected \in Nat \cup {Nothing}

(* "Do not hammer the box": however the three users of the session fall     *)
(* together, two rejected logins are a backoff apart, one that grows.       *)
LoginSpacing ==
  [][ session'.failures > session.failures /\ session.failures > 0
        => t - rejected >= Backoff(session.failures) ]_vars

(* The backoff does not lock the meter out: once the box is up, accepts our *)
(* login and has the device for longer than the longest backoff (and than a *)
(* late answer took), polls succeed.                                        *)
LongestBlock == CHOOSE d \in BlockTimes \cup {BackoffMax} :
                  \A e \in BlockTimes \cup {BackoffMax} : e <= d

RecoversInTime ==
  /\ pc = "wait" /\ AllWell(box)
  /\ began - fine > LongestBlock + Timeout
  => streak = 0

(* An outage is announced however its polls divide between unreachable,     *)
(* blocked, rejected, forbidden and a device that is not there: neither of  *)
(* the two keys is resolved in between.  The first report of a key is only  *)
(* noted, even if MinCount is 1.                                            *)
OutageAnnounced ==
  streak >= 2 * Most(MinCount, 2) - 1
    => \E k \in {"poll", "login"} : n.alerts[k] # NoAlert /\ n.alerts[k].notified

(* "The controller can freeze even while the box is away": whatever the box,*)
(* the device and the two side channels do, a retained power message that   *)
(* does not say stale shows values that were read at most stale_after, a    *)
(* wait and the longest iteration ago: three requests of six HTTP calls (a  *)
(* login, the page, a 403, a login, the page).  Unless somebody set the wall*)
(* clock, by which staleness and the wait are reckoned, since the iteration *)
(* that read them.                                                          *)
FreshIsRecent ==
  published = FALSE /\ ~disturbed => t - heard <= StaleAfter + 1 + 3 * 6 * Timeout
============================================================================

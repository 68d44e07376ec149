# Specifications of GLaDOSHomeAssistant

TLA+ modules for the parts of this repository that have state, share it, and must
keep it right while threads, processes, messages and reboots interleave: the voice
assistant's light, alarm and timer handling (`mqtt_listener.py`, `lib/`), the
bridge that serves its web page (`http_bridge.py`) and the power meter service
with its history page (`meter/`). TLC checks them on small instances; TLAPS proves
the most important results for every instance.

    tlc -config MCLighting.cfg MCLighting.tla     # a run
    tlapm ReplayerProofs.tla                      # the proofs of a module

`PROJECT.json` lists components, runs, the lines every definition models,
hazards and theorems. Paths below are relative to the repository.

## 1. The system

Four programs run on one Raspberry Pi. Two talk to a mosquitto broker that keeps
nothing across a restart, two serve web pages. The Pi reboots every night.

**The assistant** (`mqtt_listener.py`) is *two processes*. The main process is
an MQTT callback plus a thread, the publish worker, that drains
`_publish_queue`, plus one thread per replay episode. The *scheduler child* is
forked by `load_config` with a copy of everything, runs the daily jobs of
`config.yaml`, and is terminated and forked anew at every reload. What the two
share is the JSON file of `DeviceStateStore`, under an `flock`.

**The meter service** (`meter/meter_service.py`) is one loop: keep-awake poke,
history poll, meter poll, reports; they share one FRITZ!Box session. Beside it
run paho's network thread (the keep-awake command) and the notifier's daemon
thread, which posts to ntfy.

**The HTTP bridge** (`http_bridge.py`) serves the assistant's web page from a
threading server. It shares with Rhasspy, a container of its own, a slot file
with the names of the pictures, which it writes and Rhasspy is trained on.

**The history page** (`meter/history_web.py`) reads the recorder's database and
ships a script that keeps its own state in each browser: fetches, a refresh
every five minutes, and a user who clicks meanwhile.

### 1.1 Inventory

| component | state it keeps | operations | talks to | hard |
|---|---|---|---|---|
| device state store `lib/device_state_store.py` | per topic a base state, optionally an override; a JSON file | `update_base`, `set_override`, `clear_override`, `get_state`, `reset` | called by both processes | two processes rewrite one file; one may be killed at any instruction |
| command and publish pipeline `mqtt_listener.py` | publish queue, scheduler child, loaded configuration | `on_message`, `on_scheduled`, `publish`, `_publish_worker`, `load_config` | store, receivers, zigbee2mqtt | decision under the lock, publication after it; child overtakes the queue; reload in the middle |
| Zigbee receiver `lib/receiver_zigbee.py` | none | one reply per intent | pipeline | modes must undo each other |
| replayer `lib/replayer.py` | dict of episodes; per episode thread, queue, attempts, window | `on_announce`, `on_state`, `_run`, `_watch` | bulbs through zigbee2mqtt | losses, stale echoes, timeouts against late answers |
| scheduler child `lib/scheduler.py` | jobs, the configuration at the fork | `setup`, `run` | `on_scheduled` | stale copy; one exception ends it |
| alarm receiver `lib/receiver_alarm.py` | `config.yaml` | arm, disarm, re-time; armed check | file, reload, child | rewriting in place; time wraps at midnight; reload in the minute of a job |
| system receiver `lib/receiver_system.py` | none | reboot, shutdown, health check | the Pi | reboots at any moment |
| notifier `meter/notify.py` | alerts per key, times of the last hour, bounded queue, worker | `failure`, `resolved`, `event`, `shutdown` | ntfy | two threads in an unlocked cap check; bookkeeping before delivery; full queue; shutdown races |
| box session `meter/fritz_source.py` | SID, failures, not-before | `request`, `login` | box | three users, one backoff; up to six HTTP calls in a request |
| meter loop `meter/meter_service.py` | tracker, clocks | `run_loop` | all of the above | side channels delay the poll; outages that change their face; ages by a wall clock that may be set |
| MQTT side and keep-awake mode `meter/meter_service.py` | flag, state file, will, mirror | command handler, connect, start, shutdown | broker, battery manager | broker forgets; crash between flag, file and mirror |
| history recorder `meter/history.py` | SQLite rows, last success | `tick`, the queries | box buffer | polls too late, answers without samples, two commits, clock behind after boot |
| timers `lib/receiver_timer.py` | dict of ids and processes | set, remove, query | a process per timer | dict and processes share nothing but two clocks; positions move |
| HTTP bridge `http_bridge.py` | slot file, mtimes | `_sync_picture_slot`, `command_templates`, startup thread | Rhasspy | trainings outlive requests; files compared by mtime; git |
| sentence templates `lib/sentence_templates.py` | cache of an expansion | `parse_ini`, `build_templates` | bridge | cycles, empty alternatives, a file half typed |
| history page `meter/history_web.py` | `DAYS`, `CUR`, `PERIOD`, `PROF`, the inputs | `loadAll`, `loadDay`, `loadPeriod`, `loadProfile`, `refresh` | queries | answers in any order; days of 23 and 25 hours |

Not modelled:

- the rest of `http_bridge.py`: `/intent`, `/query` and `/api/command` pass a
  request on and keep nothing; the picture frame actions fetch, draw and post
  once, and nothing depends on the result;
- `lib/picture_frame_util.py`, `lib/kvv_response_parser.py`: drawing, and fields
  taken from XML; text and pixels only;
- `meter/sim_source.py`, the command line and the commissioning dumps: tools;
- sound and LED output: hardware, without state that is read again;
- receivers without state (table look-ups, a dice roll, unused hardware).

### 1.2 What makes each part correct

- *Store*: calls of two processes behave like atomic calls; a kill may lose the
  whole dict but never strands the lock.
- *Pipeline*: when nothing is under way a device shows what the store says.
- *Replayer*: an episode ends soon, and neither confirms what is false nor
  gives up on what has got through.
- *Alarm*: acts at the agreed times only, once, and rings when armed and left alone.
- *Notifier*: no storm, no repetition, agrees with the condition, tries all.
- *Meter loop and session*: does not hammer the box, does not lock itself out,
  announces every outage, never passes old values for fresh ones for long.
- *Keep-awake mode*: the battery manager has the last word across restarts.
- *History*: nothing is lost that a poll could still have saved, and a loss is
  told.
- *Timers*: the list says what really sleeps; who removes what was described
  removes that; every timer rings or is removed.
- *Bridge*: a slot that Rhasspy has not learned is noticed; what the page
  suggests can be said.
- *Templates*: the page shows exactly the language of the grammar, or an error.
- *History page*: chart and numbers are of what is selected; a graph is of the
  period it stands next to, or there is a reason it is not; the refresh does not
  change the period.

## 2. Modules

| module | models | depends on |
|---|---|---|
| `DeviceState` | the pure part of the store: layers, effect and answer of each call | |
| `AtomicStore` | abstract specification: every call is one step, a kill may wipe | `DeviceState` |
| `StoreFile` | `_transact` step by step on the shared file | implements `AtomicStore` |
| `Lighting` | replies, both publishing processes, queue and worker, devices, with atomic calls of the store | `DeviceState` |
| `LightingOnFile` | the same processes, calling the store on its file, step by step | `Lighting`, `StoreFile`; implements `Lighting` |
| `Replayer` | one bulb's episodes, callback, radio link | |
| `AlarmSchedule` | `config.yaml`, alarm receiver, reload, scheduler child | |
| `Alerts` | the notifier's calls as operators on its state | |
| `Notifier` | callers against the daemon thread | `Alerts` |
| `MeterService` | `run_loop`, session, keep-awake and history clocks | `Alerts` (its reports) |
| `History` | recorder, database, box buffer, clock of the Pi | |
| `MeterLink` | command, flag, state file, mirror, will, broker | |
| `Timers` | timer dict, timer processes, the two clocks | |
| `HttpBridge` | slot and graph files, syncs, Rhasspy's trainings | |
| `SentenceTemplates` | the grammar's parser and expander, as recursive operators | |
| `CommandPage` | a `sentences.ini` being typed, and the language it means | `SentenceTemplates` |
| `HistoryQueries` | the queries and the calendar | |
| `HistoryPage` | the page's script against a recorder that writes | `HistoryQueries` |
| `StoreFileProofs`, `LightingProofs`, `ReplayerProofs`, `NotifierProofs`, `HttpBridgeProofs` | proofs about the component they are named for | it |
| `AlarmTimerProofs` | proofs | `AlarmSchedule`, `Timers` |
| `MeterProofs` | proofs | `MeterLink`, `MeterService` |
| `HistoryProofs` | proofs | `History`, `HistoryPage` |

Components that share a proof module have names of their own (`TimerInit`,
`LinkNext`, `PageSpec`, …), so that it can extend both.

`MC*.tla` and `MC*.cfg` are the instances for TLC. Definitions whose comment
begins with "Mutant:" are deliberate faults: putting one in place of the
definition below it breaks a property, which shows that the property says
something about the code. They are used nowhere else.

### 2.1 How state and actions correspond to the code

**StoreFile.** A caller goes `idle → waiting → loaded → truncated → idle`:
`Open` is the call up to `flock`, `Load` is getting the lock, reading and
applying the call, `Truncate` is `seek`/`truncate`, `Close` the flush and the
release. `file` is a dict or `Truncated`, which `Decode` reads as `{}` as line
40 does. `Terminate` is `proc.terminate()`, at any step, after which the kernel
drops the lock; `Fork` starts the next child.

**Lighting.** `reply[p]` is what `publish()` of process `p` still has to go
through, `send[p]` the message that a store call has just asked for. `StoreCall`
and the publication are two steps, because the lock is released in between. The
child's `PublishDirect` reaches the device at once, the main process goes
through `Enqueue`, `WorkerTake`, `WorkerPublish`. An announced device gets
its state from the store (`DeviceAnnounced`), and an episode, which puts it on the
same queue as often as it likes (`Resend`), whatever has been commanded since,
until it ends. `ReloadConfig` kills the child anywhere. `late` and `cause` are
history.

**LightingOnFile.** The composition. `StoreCall` is replaced by the steps of
`StoreFile`: `CallBegins` is `Open` with the call of the next topic, `CallGoesOn`
is `Load` or `Truncate`, and `CallReturns` is `Close`, after which `publish()`
goes on with what the call returned. `ReloadKills` terminates a child in any of
them. `store` becomes a history variable, what the file held when it was last
whole; the code's part of the state is `file`.

**Replayer.** `pc` is the line the thread is in (`delay`, `loop`, `acking`,
`watching`, …); `wake` and `left` are the remaining times of its current wait
and of its window. `air` are messages to the bulb, `inbox` those from
zigbee2mqtt to the callback, both in order and with any delay. Bulb and
zigbee2mqtt are the environment: a message arrives, or is lost silently; a
read-back may come at any time; the bulb may lose and regain power.

**AlarmSchedule.** The main process is `idle`, `writing` (the file is torn),
`reload`, `dead` or `off`. The child has the configuration it was forked with and
the jobs due in this minute. `DueAtSetup` is empty: `schedule` puts a time that
has come, by however little, on the next day. `Possible` is what an alarm may do
in this minute, `Wanted` what it must: a disarmed alarm whose time was set by
voice does ring (section 6), and no property asks that it should.

**Alerts, Notifier.** The state is the record `n`: alerts, messages that passed
the cap (`passed`, history), those still counted (`recent`), the queue of their
numbers (0 is the sentinel), keys that lost a message (`lost`, history). Two
threads call it, the main loop and paho's callbacks. `call` is where each of them
is: `Trim` (the comprehension of `_rate_ok`), `Assign`, `Check`, `Pass` (the
append, to the old list if the other thread has assigned a new one), `Put`. A
message is `raced` if the checks of both overlapped.
`worker` walks through `_worker`; `phone` is what arrived last for each key.
`Enqueue` of `Alerts` is the same in one step, for `MeterService`, which is one
thread.

**MeterService.** An iteration is `KeepAwakeTick`, `HistoryTick`, `Poll`,
`Wait`, in this order. Each of the first three may begin a request of
`FritzSession`, whose HTTP calls are steps: `Get` is the page, `LoginInfo` and
`LoginPost` the two calls of `login`; a first 403 leads to another login and
`Get`, a second one is an error. Six calls at most, each of them taking up to a
`Timeout`, between any two of which the world may change. `Parsed` is a device
list that yields no reading. The tracker and the wait go by the wall clock,
`t + drift`, which `ClockSet` moves; all other times are monotonic, as in the
code. The queue of the notifier is emptied after each iteration: its contents are
`Notifier`'s business.

**History.** Time is counted in samples. A mean stands for the set of samples it
was taken from, so "complete" and "degraded" are visible. An answer may bring no
samples; it then goes the same way with nothing to store (`StoreNothing`), and is
noted as a success. `emptied` says that meta was last written for such an answer.
`Fetch`, `Store`,
`Note`, `Finish` are the four points of `tick` between which a crash makes a
difference (fetched, rows committed, meta committed, told); `Fails` is an
exception from the database. `behind` is the error of the Pi's clock, which
stands still without power until the network sets it.

**MeterLink.** `Absent` stands for no message and for no file. `retained` is the
broker's memory, `peer` our connection as the broker sees it, `inbox` commands on
their way, `outbox` mirrors published while there was no connection. `Set`,
`Save`, `Mirror` are the steps of `handle_keep_awake_cmd`. They and `Connect` run
on one thread, so that `Connect` waits for the handler.

**Timers.** `timerDict` maps an id to its process and to the place of its key: a
Python dict is enumerated in the order in which keys came, and a key that is
assigned again keeps its place. Position `i` is the id with `i - 1` others
`Ahead` of it. `sleeper` are all processes ever started with what they still
sleep. `Cleaned` runs at the start of every intent, as in the code. `wall` is
`time.time()` and may be set (`SetClock`); the sleeps do not follow it. `astray`
are the processes whose entry another one took, or that saw the clock set.

**HttpBridge.** A caller is a page load or the startup thread; its place is the
line of `_sync_picture_slot` it is in: `waiting` for the lock, `listed` the
folder, `opened` (truncated) the slot file, `checks` the mtimes, `posts` the
training, `training`, then `fetching` sentences and slots. Of mtimes the model
keeps the order (`later`) and whether they are ahead of the clock (`future`).
`trainings` belong to Rhasspy: they read the slot when they begin and write
`graph` when they end, with or without somebody who waits.

**SentenceTemplates, CommandPage.** A line is what `_TOKEN.findall` returns.
What kind of line it is, its tokens decide, as `parse_ini` does: `Blank` lines
say nothing, `IsSection` is a pair of brackets with something between them (so
`[a]` begins an intent and is no optional), `IsRule` a name and an equals sign.
The operators have the names of the methods; a result carries the cache, as
`self.cache` is written while the recursion is under way, and `raised` for the
`ValueError`. `CommandPage` types a rule and a sentence token by token.
`Language` defines what a grammar says without the expander: by splitting at
bars and brackets, with sets, and references followed to a depth.

**HistoryQueries, HistoryPage.** Times are buckets, a zone changes its offset
once, a mean is a sum and a count. `asked` holds the fetches under way by the
panel they paint; an answer (`Answer`) is computed from the database as it was at
some moments since the fetch, two for a route with two queries. What a call does
before its `await` is the action of the click, what it does after it the
`Show...` action. The two halves of the page share the database and the refresh
only, so each behaviour follows one of them (`focus`). `dropProfile` clears the
graph on display (`GraphAfter`), and nothing else: a graph still under way is
painted when it arrives (`ShowProfile`), whatever the period is by then. `excuse`
is history, one of four reasons why a graph may stand next to statistics of
another period. `GraphBelongsToPeriod` has three parts:
`StatsBelongToPeriod`, `GraphIsOfPeriod`, and what the graph counts. The rows are
folded in their order (`ORDER BY ts`): the fold takes the greatest bucket off,
folds the others, and adds it.

## 3. Runs

All bounds are named constants. States and times are from two workers.

| run | distinct states | shows |
|---|---|---|
| `store` | 80 320 | `StoreFile` implements `AtomicStore` while the child is killed at every step; a base state is lost only by a kill; the main process always gets its answer |
| `lighting` | 4 605 113 | on the file and its lock, with replays, and with the child killed inside a call: devices agree with the store when all is quiet, up to five named causes; a scheduled base reaches an overridden lamp at most once per override |
| `replayer` | 221 446 | length of episodes, truth of confirmations, no giving up after an arrival, termination |
| `alarm` | 28 983 | no old time survives a change; no stage runs twice; stages are missed only in disturbed minutes; an armed alarm left alone rings every day |
| `notifier` | 627 114 | hourly cap in every window, but for checks of two threads that overlap; phone agrees with the alerts; no repeated message; everything queued is tried |
| `meter` | 4 700 947 | recovery within the backoff; outages are announced; a message that does not say stale is recent; logins stay apart |
| `history` | 1 918 055 | nothing lost while polls with samples are close enough; retries; losses told, and no false alarm, but for empty answers |
| `link` | 30 523 | last word of the battery manager; the mirror; every command obeyed |
| `timers` | 213 961 | list and processes agree unless the clock was set or an id doubled; a described timer is the one removed; timers ring |
| `bridge` | 174 714 | an untrained slot is noticed; what an untouched page suggests is trained; pictures can be named in the end |
| `templates` | 338 945 | for every grammar of the bound, the page is its language, or raises where it is wrong or too large; cycles end and say nothing wrong |
| `page` | 367 743 | the chart is the selected local day; statistics, graph and period belong together, up to four named excuses; the refresh keeps the period |

Type invariants are no properties of runs: they are theorems of every component
but `CommandPage`, whose `TypeOK` documents the state.

### 3.1 Bounds, and why they are enough

- `store`: two processes, as in the program; two topics, so that a call on one
  can destroy the other; one payload, as payloads are never compared.
- `lighting`: one lamp (wanted by modes, users and jobs), one socket (wanted by
  two modes), `QueueBound` 0 keeps users from further commands, and replays from
  further messages, while one waits; a reply may still queue all of its own, so
  overtaking happens, and an old replay lands between two commands. Both processes
  may be inside a call at once, at any step.
- `replayer`: two attempts and a window longer than both their timeouts, as in the
  code (five attempts of 0.5 s, a window of 4 s); two boots, one user command, one
  read-back, two losses: enough for every attempt to be lost, or for stale echoes
  of both.
- `alarm`: a day of eight minutes, three stages at -3, 0 and +2, so that they
  wrap around midnight; three changes, one crash, one failure.
- `notifier`: `MinCount` 3, cap 1 per hour of 2 ticks, queue of 1, three ticks:
  cap, full queue and window edge are all hit. One key, of paho's thread, and the
  events of the main loop share the cap; `MaxRaced` lets one message pass whose
  check overlapped. The proof of `HourlyCap` covers any keys and any number.
- `meter`: the order of the real durations is kept (count shorter than
  duration, stale fuse longer, history retry longer than the count); thirteen
  intervals and two changes of the world, the wall clock set forth or back by two
  among them. An HTTP call takes no time, or a timeout as long as an interval.
- `history`: bucket 3, buffer 6, interval 3, retry 1 (really 30, 360, 300, 6
  samples): an outage may end anywhere within a bucket and outlast the buffer;
  three troubles among outages, empty answers, crashes and failing commits.
- `link`: four commands, four troubles.
- `timers`: three timers of two or four seconds (so that one can overtake
  another, or double its id), positions 1 and 2; one trouble, the clock set
  back by one or ahead by three (more than a short timer), or a reboot.
- `bridge`: the startup thread and one page are enough for two syncs that race;
  `UntrainedIsNoticed` and `SuggestionsAreKnown` are proved for any number. Two
  versions of the folder, two attempts, one change from outside, two troubles.
- `templates`: five tokens, of ten kinds, shared by a rule and another line, which
  may turn out blank or a section; brackets of both kinds, bars, a word, local,
  foreign, unknown and cyclic references, a slot with brackets in its values.
  `MaxTemplates` is 4, so the limit is reached.
- `page`: three clicks, four fetches under way, one refresh, one accident (a lost
  answer or a write); days of four buckets, zones that go forth and back by one,
  a database with a gap and an empty one.

Counters that
only bound a run (`troubles`, `events`, `changes`, …) appear in guards and
nowhere else. `CHECK_DEADLOCK FALSE` stands where the bounds, or the end of the
clock, stop the system.

### 3.2 Fairness

- `StoreFile`: strong fairness of `Load` (the kernel grants `flock` to waiters
  in turn), weak fairness of the steps inside.
- `Replayer`: thread, clock and callback run, and the radio does something with
  each message. Nothing says that a message arrives.
- `AlarmSchedule`: both processes run, time passes, the power comes back.
- `Notifier`: the daemon thread runs; a post ends, as `requests` has a timeout.
- `MeterLink`: systemd (`Restart=always`) and docker start service and broker
  again, paho reconnects and calls back. Restarts themselves are not fair and
  are bounded, so in the end they stop.

- `Timers`: the processes run and time passes.
- `HttpBridge`: the threads run; the lock is granted to one who asks again and
  again (strong fairness of `Enter`); docker starts Rhasspy again; a training
  ends; the clock catches up. Loading pages is not fair: `PicturesGetNamed` has
  it as a premise.

`LightingOnFile`, `MeterService` and `History` have no liveness property: theirs are
stated with the clock instead ("within …"). `CommandPage` and `HistoryPage` have
none: nothing obliges a user, and a lost answer is never asked for again.

## 4. Proofs

No constant is fixed: processes, topics, payloads, keys, times and bounds are
arbitrary, up to the named `ASSUME` of each module.

**StoreFileProofs** — `TypeCorrect`, `LockDiscipline`, `NoLostUpdate`,
`Refinement`, `BaseLostOnlyByKill`. The inductive invariant is `TypeOK`,
`LockHeldInside`, `CallUnderWay` (a waiting caller has a call), `FreshCopy` and
`TruncatedInside` (the file is empty while somebody has truncated it). The
second and the last give the refinement: the store that everybody sees is the
copy of the one caller that has truncated, else the file; `Truncate` is the step
of `AtomicStore`, a kill after it is `Wipe`, everything else stutters.

**ReplayerProofs** — `TypeCorrect`, `EpisodesAreShort`, `ConfirmationsAreTrue`,
`OneArrivalIsEnough`. `OnTime` relates the age of an episode to where its thread
is and to the attempts used (`Budget`). `LastIsTrue`: the newest report on its
way tells how the bulb is. `Undisturbed`: until one of its messages arrives,
every report the episode can see contradicts it, and every message it sent is
lost or in the air.

**LightingProofs** — `TypeCorrect`, `LateBaseIsOne`, `DevicesAgree`, for any
replies of users and jobs, not only those of the Zigbee receiver. `Agreeing`:
the newest message that the main process has for an unmarked device, wherever it
is between store and bulb (`Newest`), carries what the store says, unless the
child is about to publish. `LateRule`: a base counted as late was decided before
the override, so the child has none left when the first one is counted.
`CallsAreAtomic` is the refinement of `Lighting` by `LightingOnFile`, step by
step. `CopiesAreFresh`: what a caller with the lock is about to write and to be
told is what its call makes of the store as it is; `CallsAreMade`: it has no
message in hand and still goes through the topic of its call; `StoreIsTheFile`:
the file is the store, or empty while somebody has truncated it. Then
`CallReturns` is `StoreCall`, the other steps of a call are invisible, and the
kill of a child that has truncated is the wipe of `ReloadConfig`.
`TheFileIsTheStore` says that the history variable tells the truth about the
file, `PromisesOnFile` carries the two properties over.

**AlarmTimerProofs** — about the alarm `TypeCorrect`, `ChildRunsTheAgreed`,
`ActsAtItsTime`, `StagesOnce`, `MissesOnlyByDisturbance`, for a day of any
length, any stages and offsets. `FileSays` and `ChildRuns`: a whole file is the
configuration of the alarm asked for, and the child runs that of the alarm agreed
upon at the last reload. `DueNow` and `OnceEach` keep a stage in one place only
(due, under way, done); `NothingMissed` says that in an undisturbed minute these
places hold all that is wanted. About timers `TimerTypeCorrect`, `ListIsTrue`,
`RemovesTheRightOne`. `Alone`: entries differ in process and place. `Found` and
`NoneIsOver` are the two directions of `ListedTruly`. `Described`: the timer that
was described has its old position until it, or one ahead of it, rings. Counting
what is ahead makes positions a matter of cardinalities, which cleaning does not
change if it takes nothing ahead.

**NotifierProofs** — `TypeCorrect`, `CapHolds`, `PhoneShowsTheLast`,
`NoMessageRepeats`, for any callers and keys. `Cap`: messages pass in the order of
time, and all of the last hour whose check no other overlapped are still in
`recent`, or in the list that a thread is about to assign (`Counted`), however the
two threads overwrite each other's; two of them inside know of each other
(`Crossed`), and what is alone keeps the room it found (`Room`). `Told`
says of each key that lost no message: failures and recoveries alternate, and the
last one says how its alert stands, unless one that does is about to pass
(`Spoken`); what was not tried yet is, in order, in the hand, in the queue or on
its way into it (`InOrder`, `Kept`); and the phone has the last that was tried
(`Shows`).

**MeterProofs** — about the MQTT side `LinkTypeCorrect`, `LastWordHolds`,
`MirrorIsNeverWrong`, `StatusIsRight`. Neither of the first two properties is
inductive: a command may be anywhere between broker and file. `Delivered` says
that a command the broker holds has been obeyed or is the last on its way to a
connected service; `FileAgrees` that outside a save the mode is what a
well-written file says, so a restart changes nothing; `MirrorFollows` that what
waits for a connection ends with the mode. About the loop `ServiceTypeCorrect`,
`FreshMessagesAreRecent`, `LoginsAreSpaced`, `PollsRecover`,
`OutagesAreAnnounced`, for any timing constants and any changes of box, device,
mode and wall clock between two HTTP calls. `InTime` counts the calls an iteration
has made (`Calls`), each of a timeout at most; `Steady` says that what is
published was fresh enough when it was, and that both clocks go together unless
one was set. `Spaced`: the next login waits for the backoff after the last
rejection, which the lemmas on powers of two bound. `BlocksEnd`: every delay that
is still in force was imposed while something was wrong, and is no longer than
`LongestBlock`; hence recovery within it, as a request that has logged in again
while all is well has a session that counts (`LoggedIn`). `BlockTimesAssumption`
says that the delays of the box have a greatest one; without it nothing could be
promised. `Reported`: the polls of an outage are all counted under `poll` or
`login`, and an alert that was not announced has a small count, so a long outage
under changing faces is announced under one of the two.

**HistoryProofs** — `TypeCorrect`, `NothingIsLost`, `PollsAreInTime`,
`LossesAreTold`, `AlarmsAreTrue`. `InOrder` keeps the times of clock, polls and
buffer in their order. `OwnSamples` (a row has samples of its bucket only) and
`NothingLost` itself carry the data: by the lemma `WholeBucket` a bucket that is
wholly in the buffer replaces its row, and a complete row is not degraded.
`OnSchedule`: the next poll is due an interval after the latest stored one, or
within a retry of the last trouble, if no empty answer came after it.
`NotedIsStored`, `LossIsDated`, `NothingIsOwed` and `JustNoted` follow a loss from
the poll that finds it to the message that tells it, over both commits.

The same module proves of the page `PageTypeCorrect`, `DayShown`, `PeriodKept`,
`StatsShown`, `GraphShown`, for any finite database, any clicks, refreshes, writes
and lost answers, and any number of fetches under way. `PageInv`: requests of a
panel become late in their order (`InTurn`), and the newest one that is not late
is about what is selected, else what is shown is (`DayAwaited`, `StatsAwaited`);
the chart is the rows of its day at the moments it was asked for (`ChartIsTrue`);
nothing that would fill the inputs is awaited while a period is chosen
(`PeriodStays`). That the chart is a *local day* needs arithmetic: `DateOfBucket`
shows that the bounds of a day enclose exactly the buckets of its date, of 23 and
25 hours too, from the assumption that a change of the clock does not leap over a
midnight (in Germany clocks change at two and at three); and that the first and
the last bucket of a finite table exist (`Extremes`, by well-founded minima).
`GraphInv`: a graph without an excuse, on display or asked for, is of the period
of the statistics, or of the one that the newest request for them will make it
(`GraphFits`).

`GraphCounts` proves all of `GraphBelongsToPeriod`, for any finite database. What
the queries compute is an induction over the rows, which the library's theorems
do not give here; `PartsInduction` has it for sets of sets instead, by way of a
smallest part that has not the property, and `Additive` sums and the fold of the
profile are found by it to be what they should (`TotalByClass`: a sum is the sum
of the sums of its classes). The closed form of the profile is `Points`: one
point per slot, with the rows of that slot, and the days counted by comparing
with the last day seen are the days there are, since the dates of rows in order
are in order. `WrittenOutIsAll`: the dates of the first and the last row, which
the page writes into the inputs, enclose all rows. `TruthInv` ties this to the
page: statistics and graph are what the queries say of some of the databases
there were, of a period that was asked for.

**HttpBridgeProofs** — `TypeCorrect`, `UntrainedNoticed`, `SuggestionsKnown`, for
any number of pages. `OneInside`: at most one caller holds the lock.
`TrainingIsCurrent`: a training that a sync waits for, and that git has not
overtaken, has read the slot as it is. `AnswersAreKnown`: a caller that fetches
with the slot of its sync has it trained. `StillTrying`: the startup thread
ends with its last attempt.

Only model-checked:

- all liveness, and everything about fairness, which this prover cannot treat:
  `CallsReturn`, `EpisodesEnd`, `AlarmRings`, `EveryMessageTried`,
  `CommandsObeyed`, `TimersRing`, `PicturesGetNamed`;
- `TemplatesAreTheLanguage` and `CyclesAreCut`: `SentenceTemplates` is recursive
  like the code, and so excluded; they too would need induction over data.

## 5. Abstractions

- Texts, colours, sounds, numbers and scaling are left out. That a sound blocks
  the MQTT callback is in `Replayer`: its inbox may wait for any time.
- A kill is a stop between two modelled steps; disks do what `fsync`-less Linux
  does when only a process dies. A torn sector after a power cut is not modelled.
- QoS 1 publications that wait for a connection are delivered once, in order.
- The box's buffer survives the outages of `History`: they are those of network
  and service, not of the box itself.
- `Replayer` follows one bulb, and knows nothing of the store; `Lighting` has its
  messages, at any time an episode might send them, and not its reasons.
- An empty answer of the box is modelled, a single missing sample in an answer
  (a zero, which the parser drops) is not.
- In `MeterService` an HTTP call takes as long as the box takes at that moment, up
  to a timeout. Of the wall clock the model keeps the distance to the other one.
- `Timers` counts whole seconds, and a sleep that is over rings within its second.
- Git in `HttpBridge` replaces folder and slot file at once, and not between the
  truncation and the write of a sync. The content of a torn slot differs from
  every version.
- Tags, substitutions and converters are gone before a line is tokens; a number
  range is a word, as it is expanded like one. The equals sign is typed only as
  part of the rule that is there from the beginning.
- Drawing, hovering and rounding of the history page are left out.
- Hourly and every-x-minutes jobs, hotword and speech messages, and the random
  intents add no state and are left out.

## 6. Known divergences without a run

Found while modelling, and either excluded in a property's statement or outside
the modules:

- "atomic read-modify-write" (`lib/device_state_store.py:30`): a child killed
  between truncate and flush wipes the state of all devices. `Wipe` of
  `AtomicStore`.
- "From here, only if alarm is armed" (`lib/receiver_alarm.py:20`): the jobs
  that `ChangeAlarmTime` writes (`:114`–`:118`) name the aliases and never pass
  this check, so an alarm whose time was set by voice rings when it is disarmed.
  The properties neither ask for it nor forbid it (`Possible`, `Wanted`).
- One job that raises ends the scheduler child (`lib/scheduler.py:34`), and
  nothing starts it again before the next reload: until then the alarm is silent.
  `alive` in `MissedOnlyByDisturbance` and `Settled`.
- "`max_per_hour` (12) is a hard backstop" (`meter/README.md:264`): `_rate_ok` has
  no lock (`meter/notify.py:160`), and the main loop and paho's thread may both
  pass on the last place, or one forget the message of the other. `HourlyCap`
  counts the messages whose check was alone.
- Staleness and the wait between two polls go by the wall clock
  (`meter/meter_service.py:171`, `:511`): after a step of it old values pass for
  fresh ones, or the next iteration comes too late. `disturbed` in
  `FreshIsRecent`.
- "Only a SUCCESS consumes the full interval" (`meter/history.py:186`) is true of
  an answer without samples too (`:76`): it stores nothing, puts the next poll off
  by the interval and is remembered as the last success, so that a loss around it
  is never told. `emptied` in the properties of `History`.
- "A condition that never alerted never sends an all clear"
  (`meter/README.md:262`): the alert is marked before it can be dropped or fail
  to post (`meter/notify.py:107`); its recovery may arrive alone.
- "stale needs a longer fuse than a poll error" (`meter/meter_service.py:423`):
  count *or* duration announces (`meter/notify.py:106`), and the count is
  reached within a minute.
- `/intent/RemoveTimer?index=1` hands over the index as text, which
  `lib/receiver_timer.py:42` subtracts from: the handler raises. `Timers` has
  numbers, as Rhasspy sends.
- Two timers of the same length within a second have one id: the first one
  rings and cannot be removed. It is `astray`; so is one that lives through a
  setting of the clock, which may be forgotten early or listed too long.
- Within mutually recursive rules the cache keeps what a rule said while another
  one was open (`lib/sentence_templates.py:128`), so what the page suggests then
  depends on the order of evaluation. `CyclesAreCut` asks only for truth.
- A training that its request gave up, or that git overtook, or a clock that is
  behind when the slot is written, make an untrained slot look trained: mtimes
  say no more. `cutOff` and `behind` in `UntrainedIsNoticed`.
- The refresh "must preserve whatever the user is looking at"
  (`meter/history_web.py:376`) but ends in `loadDay` of the last day, whatever
  day was selected. An answer of `loadDay` that is overtaken by an older one
  leaves another day in the chart (`spoilt` in `DayIsShown`).
- An answer of `/api/days` that was read before the first bucket was recorded and
  arrives late empties the list, while the chart that is already there keeps its
  buttons (`days # {}` in `DayIsShown`).
- A graph next to a different period "would be a lie" (`meter/history_web.py:408`),
  but `dropProfile` clears what is on display only, when the answer of the call is
  there: a graph that is under way while the period changes is painted next to the
  other one (`:442`, `overtaken`), and one stays if that call fails (`undropped`).
- The graph asks for what is in the inputs, applied or not (`unapplied`), and a
  refresh applies them without dropping the graph (`refreshed`); an answer of
  `loadAll` in flight when Average is pressed fills them with everything, which
  the next refresh takes for the period (`crossed`).
- A bucket of which only a part was recorded counts as a whole one in energy and
  covered hours (`meter/history.py`).
- After `RLMode` the sockets of `VRMode` are off, but their overrides stay
  (`lib/receiver_zigbee.py:45`); a user command under an override shows at once,
  while the store keeps reporting the override (`mqtt_listener.py:212`). Both
  are `base_under_override` in `Lighting`.
- The replayer re-sends the payload it captured, over a newer user command
  (`replayed_old` in `Lighting`), and ignores an announce during an episode
  (`lib/replayer.py:71`; `disturbed` in `Replayer`).
- A history outage of more than 55 and less than 60 minutes loses a bucket
  without `history_gap`: the bucket that the previous poll cut in two has left
  the buffer in part. `meter/README.md:194` counts ten minutes of slack; it is
  five. `NothingLost` fails with `Span` in place of `Span - Bucket + 1`.
- `powermeter/health/keep_awake` is published at start and on change only, so
  after a restart of the broker alone it is missing until the next change
  (`meter/README.md:136`). `MirrorNeverWrong` allows exactly that.
- `--test-notify` calls `shutdown` right after `event`: the worker looks at
  `_stop` before the queue and may end with the message unsent
  (`meter/notify.py:139,170`).
- After boot the first keep-awake poke waits until the monotonic clock exceeds
  the interval (`meter/meter_service.py:246`).
- Nothing resolves `login`, so a second rejection is never announced
  (`meter/meter_service.py:462`); one failed history poll is reported in every
  iteration until its retry and so announced (`:500`); one disconnect from the
  broker is one report, and one report is never announced (`:344`).

## 7. Plan

Done, in this order: `StoreFile` with its refinement; `Lighting`; `Replayer`;
`AlarmSchedule`; `Alerts`/`Notifier`; `MeterService`; `History`; `MeterLink`;
`Timers`; `HttpBridge`; `SentenceTemplates`/`CommandPage`;
`HistoryQueries`/`HistoryPage`; `LightingOnFile`; proofs of every safety property
that the runs check, but for what section 4 lists as only model-checked.

Left:

1. The notifier's reports from `MeterLink`'s callbacks.
2. The picture frame actions of `http_bridge.py`, if they come to keep state.

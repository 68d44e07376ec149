------------------------------ MODULE History ------------------------------
(* meter/history.py: 5-minute means of the power, recorded from a buffer in *)
(* the FRITZ!Box that holds the samples of the last hour.  What is in the   *)
(* database must survive that the box, the service or the pi is away, and a *)
(* crash between any two commits.                                           *)
(*                                                                          *)
(* The box measures one sample per tick of its clock.  A mean stands for    *)
(* the set of samples it was taken from.  A poll takes less than a tick.    *)
(* An answer holds what the buffer holds, or nothing (zeros, no datatime).  *)
EXTENDS Integers, FiniteSets

CONSTANTS Bucket,      \* BUCKET_S: samples to a bucket
          Span,        \* BUFFER_SPAN_S: samples in the box's buffer
          Interval,    \* interval_s
          Retry,       \* retry_s
          None,        \* nothing yet
          MaxTime,     \* bound: the clock stops there
          MaxTroubles  \* bound: outages and empty answers of the box, crashes,
                       \* database errors

ASSUME HistoryAssumption ==
  /\ {Bucket, Span, Interval, Retry} \subseteq Nat \ {0}
  /\ {MaxTime, MaxTroubles} \subseteq Nat
  /\ None \notin Int

VARIABLES
  now,          \* the box's clock
  behind,       \* how far time.time() of the pi is behind it
  reachable,    \* does the box answer
  up,           \* does the service run
  pc,           \* tick(): "idle", "fetched", "stored", "noted"
  due,          \* ticks until _next_poll
  samples,      \* what the box has answered
  rows,         \* power_5min: bucket -> the samples of its mean
  lastSuccess,  \* meta, last_success_ts
  gap,          \* what _note_success returned
  first,        \* history: the oldest sample the first poll saw
  stored,       \* history: when samples were last stored
  worst,        \* history: the longest time between two such moments
  owed,         \* history: samples were lost and nobody has been told
  unnoted,      \* history: trouble between a commit of rows and of meta
  untold,       \* history: a crash between the commit of meta and the event
  lagged,       \* history: the clock was behind when meta was written
  emptied,      \* history: meta was written for an answer without samples
  steady,       \* history: ticks without trouble, up to Retry + 1
  troubles      \* what happened so far, for the bound

database == <<rows, lastSuccess>>
history == <<first, stored, worst, owed, unnoted, untold, lagged, emptied>>
vars == <<now, behind, reachable, up, pc, due, samples, database, gap, history,
          steady, troubles>>

Buckets == 0 .. MaxTime \div Bucket
SamplesOf(b) == b * Bucket .. b * Bucket + Bucket - 1

Init == /\ now = 0 /\ behind = 0
        /\ reachable = TRUE /\ up = TRUE
        /\ pc = "idle" /\ due = 0 /\ samples = {}
        /\ rows = [b \in Buckets |-> {}]
        /\ lastSuccess = None /\ gap = None
        /\ first = None /\ stored = None /\ worst = 0
        /\ owed = FALSE /\ unnoted = FALSE /\ untold = FALSE
        /\ lagged = FALSE /\ emptied = FALSE
        /\ steady = 0 /\ troubles = 0

----------------------------------------------------------------------------
(* What happens to the box and the pi.                                      *)

Trouble == /\ troubles < MaxTroubles
           /\ troubles' = troubles + 1
           /\ steady' = 0

BoxChanges == /\ Trouble
              /\ pc = "idle"
              /\ reachable' = ~reachable
              /\ UNCHANGED <<now, behind, up, pc, due, samples, database, gap, history>>

(* There are rows that meta does not know of.                               *)
Unnoted == pc = "stored" /\ samples # {}

(* The service is killed, or the pi loses power, at any point.              *)
Crash == /\ Trouble
         /\ up
         /\ up' = FALSE
         /\ pc' = "idle" /\ due' = 0 /\ samples' = {} /\ gap' = None
         /\ unnoted' = (Unnoted \/ (unnoted /\ pc # "noted"))
         /\ untold' = (untold \/ pc = "noted")
         /\ lagged' = IF pc = "noted" THEN behind > 0 ELSE lagged
         /\ emptied' = IF pc = "noted" THEN samples = {} ELSE emptied
         /\ UNCHANGED <<now, behind, reachable, database, first, stored, worst, owed>>

(* main(): _next_poll is 0, so the first tick is due.                       *)
Start == /\ ~up
         /\ up' = TRUE
         /\ steady' = 0
         /\ UNCHANGED <<now, behind, reachable, pc, due, samples, database, gap, history,
                        troubles>>

(* The pi has no clock of its own: it learns the time from the network.     *)
ClockIsSet == /\ pc = "idle" /\ behind > 0
              /\ behind' = 0
              /\ UNCHANGED <<now, reachable, up, pc, due, samples, database, gap, history,
                             steady, troubles>>

(* A tick; while the service is down the pi, and its clock, may be off.  A  *)
(* poll that is due comes first.                                            *)
Tick == /\ now < MaxTime
        /\ pc = "idle" /\ (up => due > 0)
        /\ now' = now + 1
        /\ behind' \in IF up THEN {behind} ELSE {behind, behind + 1}
        /\ due' = IF up THEN due - 1 ELSE due
        /\ steady' = IF up /\ reachable /\ steady <= Retry THEN steady + 1 ELSE steady
        /\ UNCHANGED <<reachable, up, pc, samples, database, gap, history, troubles>>

----------------------------------------------------------------------------
(* tick(): a poll is due.                                                   *)

(* parse_power_stats: the samples the buffer still holds, or none, which is *)
(* not an error.                                                            *)
Buffer == {s \in 0..now : s > now - Span}

Fetch == /\ up /\ pc = "idle" /\ due = 0 /\ reachable
         /\ \/ samples' = Buffer /\ UNCHANGED <<steady, troubles>>
            \/ samples' = {} /\ Trouble
         /\ pc' = "fetched"
         /\ UNCHANGED <<now, behind, reachable, up, due, database, gap, history>>

(* Mutant: a failure, too, uses up the interval.                            *)
FetchFailsSlowly == /\ up /\ pc = "idle" /\ due = 0 /\ ~reachable
                    /\ due' = Interval
                    /\ UNCHANGED <<now, behind, reachable, up, pc, samples, database, gap,
                                   history, steady, troubles>>

FetchFails == /\ up /\ pc = "idle" /\ due = 0 /\ ~reachable
              /\ due' = Retry
              /\ UNCHANGED <<now, behind, reachable, up, pc, samples, database, gap,
                             history, steady, troubles>>

(* bucket_samples                                                           *)
Bucketed(ss) == [b \in Buckets |-> ss \cap SamplesOf(b)]

(* Mutant: the newer mean always wins.                                      *)
UpsertedNewest(old, new) == [b \in Buckets |-> IF new[b] # {} THEN new[b] ELSE old[b]]

(* upsert_buckets: only a mean of strictly more samples replaces another.   *)
Upserted(old, new) ==
  [b \in Buckets |-> IF Cardinality(new[b]) > Cardinality(old[b]) THEN new[b] ELSE old[b]]

Later(a, b) == IF a > b THEN a ELSE b

(* upsert_buckets of nothing returns at once.                               *)
StoreNothing ==
  /\ pc = "fetched" /\ samples = {}
  /\ pc' = "stored"
  /\ owed' = (owed \/ (stored # None /\ now - stored > Span))
  /\ UNCHANGED <<now, behind, reachable, up, due, samples, database, gap, first, stored,
                 worst, unnoted, untold, lagged, emptied, steady, troubles>>

Store ==
  /\ pc = "fetched" /\ samples # {}
  /\ rows' = Upserted(rows, Bucketed(samples))
  /\ pc' = "stored"
  /\ stored' = now
  /\ IF stored = None
       THEN first' = (IF now < Span THEN 0 ELSE now - Span + 1) /\ UNCHANGED <<worst, owed>>
       ELSE /\ worst' = Later(worst, now - stored)
            /\ owed' = (owed \/ now - stored > Span)
            /\ UNCHANGED first
  /\ UNCHANGED <<now, behind, reachable, up, due, samples, lastSuccess, gap,
                 unnoted, untold, lagged, emptied, steady, troubles>>

(* Mutant: what meta remembers is when the service last tried.              *)
FailsNoted == /\ pc \in {"fetched", "stored"}
              /\ Trouble
              /\ lastSuccess' = now - behind
              /\ due' = Retry
              /\ pc' = "idle" /\ samples' = {}
              /\ unnoted' = (unnoted \/ Unnoted)
              /\ UNCHANGED <<now, behind, reachable, up, rows, gap, first, stored, worst,
                             owed, untold, lagged, emptied>>

(* The database raises (a full disk, a lock) at either commit.              *)
Fails == /\ pc \in {"fetched", "stored"}
         /\ Trouble
         /\ due' = Retry
         /\ pc' = "idle" /\ samples' = {}
         /\ unnoted' = (unnoted \/ Unnoted)
         /\ UNCHANGED <<now, behind, reachable, up, database, gap, first, stored, worst,
                        owed, untold, lagged, emptied>>

(* Mutant: the first success is remembered for ever.                        *)
NoteFirst == /\ pc = "stored"
             /\ lastSuccess' = IF lastSuccess = None THEN now - behind ELSE lastSuccess
             /\ gap' = IF lastSuccess = None THEN None ELSE now - behind - lastSuccess
             /\ pc' = "noted"
             /\ UNCHANGED <<now, behind, reachable, up, due, samples, rows, history,
                            steady, troubles>>

(* _note_success, by the clock of the pi.                                   *)
Note == /\ pc = "stored"
        /\ lastSuccess' = now - behind
        /\ gap' = IF lastSuccess = None THEN None ELSE now - behind - lastSuccess
        /\ pc' = "noted"
        /\ UNCHANGED <<now, behind, reachable, up, due, samples, rows, history,
                       steady, troubles>>

(* "history_gap", and a message.                                            *)
TellsGap == gap # None /\ gap > Span

Finish == /\ pc = "noted"
          /\ due' = Interval
          /\ pc' = "idle" /\ samples' = {} /\ gap' = None
          /\ owed' = FALSE /\ unnoted' = FALSE /\ untold' = FALSE
          /\ lagged' = (behind > 0) /\ emptied' = (samples = {})
          /\ UNCHANGED <<now, behind, reachable, up, database, first, stored, worst,
                         steady, troubles>>

Next == \/ BoxChanges \/ Crash \/ Start \/ ClockIsSet \/ Tick
        \/ Fetch \/ FetchFails \/ StoreNothing \/ Store \/ Fails \/ Note \/ Finish

Spec == Init /\ [][Next]_vars

----------------------------------------------------------------------------
(* The variables keep their types.                                          *)
Times == 0 .. MaxTime

TypeOK ==
  /\ now \in Times /\ behind \in Times
  /\ reachable \in BOOLEAN /\ up \in BOOLEAN
  /\ pc \in {"idle", "fetched", "stored", "noted"}
  /\ due \in Nat /\ samples \subseteq Times
  /\ rows \in [Buckets -> SUBSET Times]
  /\ lastSuccess \in Times \cup {None} /\ gap \in Int \cup {None}
  /\ first \in Times \cup {None} /\ stored \in Times \cup {None} /\ worst \in Times
  /\ owed \in BOOLEAN /\ unnoted \in BOOLEAN
  /\ untold \in BOOLEAN /\ lagged \in BOOLEAN /\ emptied \in BOOLEAN
  /\ steady \in 0 .. Retry + 1 /\ troubles \in 0..MaxTroubles

(* Every bucket that began in the first poll's buffer and had ended by the  *)
(* latest one is the mean of all its samples.                               *)
Complete ==
  \A b \in Buckets : /\ stored # None
                     /\ first <= b * Bucket
                     /\ b * Bucket + Bucket - 1 <= stored
                     => rows[b] = SamplesOf(b)

(* As long as the polls that bring samples are no further apart than the    *)
(* buffer is long, less the bucket that was cut in two by the poll before,  *)
(* nothing is lost: not by a retry, a restart, a failing commit, an empty   *)
(* answer, or a later poll that sees only the end of a bucket.              *)
(* (meter/README.md:194 has the whole length as slack.)                     *)
NothingLost == worst <= Span - Bucket + 1 => Complete

(* A failure does not use up the interval: once box and service have been   *)
(* there for longer than a retry, the latest poll is younger than Interval, *)
(* unless it brought no samples: an empty answer does use up the interval.  *)
PollsInTime == /\ up /\ pc = "idle" /\ steady > Retry /\ ~emptied
               => stored # None /\ now - stored <= Interval

(* If samples have been lost, the next poll that succeeds says so, however  *)
(* many crashes and failures lie between, unless it is the first that meta  *)
(* hears of, the pi's clock is behind, a crash fell between the commit of   *)
(* meta and the message, or meta was last written for an empty answer: such *)
(* an answer counts as a success, and what is lost around it may never be   *)
(* told.                                                                    *)
LossIsTold ==
  [][ Finish /\ owed /\ gap # None /\ ~untold /\ ~emptied /\ behind = 0
        => TellsGap ]_vars

(* If it says so, samples have been lost, unless the poll before this one   *)
(* was stored and not noted, noted by a clock that was behind, or empty.    *)
NoFalseAlarm == [][ Finish /\ TellsGap => owed \/ unnoted \/ lagged \/ emptied ]_vars
============================================================================

---------------------------- MODULE HistoryProofs ----------------------------
(* Proofs about meter/history.py, for buckets, buffers, intervals and       *)
(* retries of any length, any troubles, and a clock that goes on for any    *)
(* time: what the recorder keeps, when it polls, and what it tells.         *)
(* Then about the page of meter/history_web.py, for any clock change that   *)
(* spares midnight, any database and periods, and any number of clicks,     *)
(* refreshes, answers under way and lost: what the page shows when nothing  *)
(* is awaited.                                                              *)
EXTENDS History, HistoryPage, FiniteSetTheorems, SequenceTheorems, WellFoundedInduction,
        TLAPS

(* Between Fetch and Finish no time passes, and the pi's clock is behind,   *)
(* never ahead.                                                             *)
InOrder ==
  /\ behind <= now /\ (stored # None => stored <= now)
  /\ (first = None) = (stored = None)
  /\ pc \in {"stored", "noted"} /\ samples # {} => stored # None /\ stored = now
  /\ pc # "idle" => samples \in {Buffer, {}}

(* A mean is never taken from samples of another bucket.                    *)
OwnSamples == \A b \in Buckets : rows[b] \subseteq SamplesOf(b)

(* The next poll is due an interval after the one that was stored last, if  *)
(* no empty one came after it, or within a retry of the last trouble.       *)
OnSchedule ==
  /\ ~up => due = 0 /\ pc = "idle"
  /\ ~reachable => steady = 0
  /\ up /\ pc = "idle" /\ ~emptied =>
       \/ stored # None /\ now - stored + due = Interval
       \/ due + steady <= Retry

(* What meta remembers is not later than what was stored, except when it    *)
(* was written for an empty answer.                                         *)
NotedEmpty == emptied \/ (pc = "noted" /\ samples = {})

NotedIsStored ==
  lastSuccess # None => /\ lastSuccess <= now
                        /\ ~NotedEmpty => stored # None /\ lastSuccess <= stored

(* Lost samples lie behind what meta remembers, until the message.          *)
LossIsDated ==
  owed /\ ~untold /\ ~emptied =>
    /\ pc # "noted" /\ lastSuccess # None => now - lastSuccess > Span
    /\ pc = "noted" /\ gap # None /\ behind = 0 => gap > Span

(* When nothing is owed, meta remembers what was stored last, or, until it  *)
(* is written, something of the same hour.                                  *)
NothingIsOwed ==
  ~owed /\ ~unnoted /\ ~lagged /\ ~emptied =>
    /\ lastSuccess # None /\ ~(pc = "noted" \/ Unnoted) => lastSuccess = stored
    /\ lastSuccess # None /\ pc = "stored" => now - lastSuccess <= Span
    /\ pc = "noted" => gap = None \/ gap <= Span

(* When the clock is not behind, meta has just been written.                *)
JustNoted == pc = "noted" => lastSuccess = now - behind

IInv ==
  /\ TypeOK /\ InOrder /\ OwnSamples /\ NothingLost
  /\ OnSchedule /\ NotedIsStored /\ LossIsDated /\ NothingIsOwed /\ JustNoted

-----------------------------------------------------------------------------
LEMMA InitInv == Init => IInv
<1> SUFFICES ASSUME Init PROVE IInv
  OBVIOUS
<1>1. TypeOK
  <2>1. /\ owed \in BOOLEAN /\ unnoted \in BOOLEAN
        /\ untold \in BOOLEAN /\ lagged \in BOOLEAN /\ emptied \in BOOLEAN
    BY DEF Init
  <2> QED BY <2>1, HistoryAssumption DEF Init, TypeOK, Times
<1>2. InOrder /\ OwnSamples /\ OnSchedule
  BY HistoryAssumption DEF Init, InOrder, OwnSamples, OnSchedule
<1>3. NothingLost
  BY DEF Init, NothingLost, Complete
<1>4. NotedIsStored /\ LossIsDated /\ NothingIsOwed /\ JustNoted
  BY DEF Init, NotedIsStored, LossIsDated, NothingIsOwed, JustNoted, Unnoted
<1> QED BY <1>1, <1>2, <1>3, <1>4 DEF IInv

(* What bucket_samples and upsert_buckets return.                           *)
LEMMA MeansAreSamples ==
  ASSUME TypeOK, NEW ss \in SUBSET Times
  PROVE  Upserted(rows, Bucketed(ss)) \in [Buckets -> SUBSET Times]
BY DEF TypeOK, Upserted, Bucketed

(* What becomes of the marks of what has not been noted or told.            *)
LEMMA MarksAtCrash ==
  ASSUME TypeOK, Crash
  PROVE  /\ unnoted' \in BOOLEAN /\ untold' \in BOOLEAN
         /\ lagged' \in BOOLEAN /\ emptied' \in BOOLEAN
         /\ pc = "noted" => untold' /\ (~lagged' => behind = 0) /\ (~emptied' => samples # {})
         /\ pc # "noted" => /\ untold' = untold /\ lagged' = lagged /\ emptied' = emptied
                            /\ (~unnoted' => ~unnoted /\ ~Unnoted)
<1>1. /\ unnoted' = (Unnoted \/ (unnoted /\ pc # "noted"))
      /\ untold' = (untold \/ pc = "noted")
      /\ lagged' = IF pc = "noted" THEN behind > 0 ELSE lagged
      /\ emptied' = IF pc = "noted" THEN samples = {} ELSE emptied
  BY DEF Crash
<1>2. /\ (Unnoted \/ (unnoted /\ pc # "noted")) \in BOOLEAN
      /\ (untold \/ pc = "noted") \in BOOLEAN
      /\ (behind > 0) \in BOOLEAN /\ (samples = {}) \in BOOLEAN
  OBVIOUS
<1>3. /\ unnoted' \in BOOLEAN /\ untold' \in BOOLEAN
      /\ lagged' \in BOOLEAN /\ emptied' \in BOOLEAN
  BY <1>1, <1>2, Zenon DEF TypeOK
<1>4. CASE pc # "noted"
  <2>1. untold' = untold /\ lagged' = lagged /\ emptied' = emptied
    BY <1>1, <1>4, Zenon DEF TypeOK
  <2>2. ~unnoted' => ~unnoted /\ ~Unnoted
    BY <1>1, <1>4, Zenon
  <2> QED BY <2>1, <2>2, <1>3, <1>4
<1>5. CASE pc = "noted"
  <2>1. untold' /\ lagged' = (behind > 0) /\ emptied' = (samples = {})
    BY <1>1, <1>5
  <2>2. ~(behind > 0) => behind = 0
    BY DEF TypeOK, Times
  <2>3. (~lagged' => behind = 0) /\ (~emptied' => samples # {})
    BY <2>1, <2>2, Zenon
  <2> QED BY <2>1, <2>3, <1>3, <1>5
<1> QED BY <1>4, <1>5

LEMMA MarksAtFinish ==
  ASSUME TypeOK, Finish
  PROVE  /\ lagged' \in BOOLEAN /\ (~lagged' => behind = 0)
         /\ emptied' \in BOOLEAN /\ (~emptied' => samples # {})
<1>1. lagged' = (behind > 0) /\ emptied' = (samples = {})
  BY DEF Finish
<1>2. ~(behind > 0) => behind = 0
  BY DEF TypeOK, Times
<1>3. (behind > 0) \in BOOLEAN /\ (samples = {}) \in BOOLEAN
  OBVIOUS
<1> QED BY <1>1, <1>2, <1>3, Zenon

LEMMA TypesStep ==
  ASSUME TypeOK, InOrder, [Next]_vars
  PROVE  TypeOK'
<1>1. CASE BoxChanges
  BY <1>1, HistoryAssumption DEF BoxChanges, Trouble, TypeOK, InOrder, Times, database, history
<1>2. CASE Crash
  <2>1. /\ troubles' \in 0..MaxTroubles /\ steady' = 0
        /\ up' = FALSE /\ pc' = "idle" /\ due' = 0 /\ samples' = {} /\ gap' = None
        /\ UNCHANGED <<now, behind, reachable, rows, lastSuccess, first, stored, worst, owed>>
    BY <1>2, HistoryAssumption DEF Crash, Trouble, TypeOK, database
  <2>2. /\ unnoted' \in BOOLEAN /\ untold' \in BOOLEAN
        /\ lagged' \in BOOLEAN /\ emptied' \in BOOLEAN
    BY <1>2, MarksAtCrash
  <2>3. steady' \in 0..Retry + 1 /\ gap' \in Int \cup {None} /\ samples' \subseteq Times /\ due' \in Nat
    BY <2>1, HistoryAssumption
  <2>4. /\ now' \in Times /\ behind' \in Times /\ reachable' \in BOOLEAN /\ owed' \in BOOLEAN
        /\ rows' \in [Buckets -> SUBSET Times] /\ lastSuccess' \in Times \cup {None}
        /\ first' \in Times \cup {None} /\ stored' \in Times \cup {None} /\ worst' \in Times
    BY <2>1, Zenon DEF TypeOK
  <2>5. up' \in BOOLEAN /\ pc' \in {"idle", "fetched", "stored", "noted"}
    BY <2>1
  <2> QED BY <2>1, <2>2, <2>3, <2>4, <2>5, Zenon DEF TypeOK
<1>3. CASE Start
  BY <1>3, HistoryAssumption DEF Start, TypeOK, InOrder, Times, database, history
<1>4. CASE ClockIsSet
  BY <1>4, HistoryAssumption DEF ClockIsSet, TypeOK, InOrder, Times, database, history
<1>5. CASE Tick
  BY <1>5, HistoryAssumption DEF Tick, TypeOK, InOrder, Times, database, history
<1>6. CASE Fetch
  BY <1>6, HistoryAssumption DEF Fetch, Trouble, Buffer, TypeOK, InOrder, Times, database, history
<1>7. CASE FetchFails
  BY <1>7, HistoryAssumption DEF FetchFails, TypeOK, InOrder, Times, database, history
<1>8. CASE Store
  <2>1. owed' \in BOOLEAN
    <3>1. owed' = owed \/ owed' = (owed \/ now - stored > Span)
      BY <1>8 DEF Store
    <3> QED BY <3>1, Zenon DEF TypeOK
  <2>2. rows' \in [Buckets -> SUBSET Times]
    BY <1>8, MeansAreSamples DEF Store, TypeOK
  <2>3. worst' \in Times /\ first' \in Times \cup {None} /\ stored' \in Times \cup {None}
    BY <1>8, HistoryAssumption DEF Store, Later, TypeOK, InOrder, Times
  <2> QED BY <1>8, <2>1, <2>2, <2>3 DEF Store, TypeOK
<1>9. CASE Fails
  BY <1>9, HistoryAssumption DEF Fails, Trouble, TypeOK, InOrder, Times, database, history
<1>10. CASE Note
  BY <1>10, HistoryAssumption DEF Note, TypeOK, InOrder, Times, database, history
<1>11. CASE Finish
  <2> QED BY <1>11, MarksAtFinish, HistoryAssumption DEF Finish, TypeOK, database
<1>13. CASE StoreNothing
  <2>1. owed' \in BOOLEAN
    BY <1>13, Zenon DEF StoreNothing
  <2> QED BY <1>13, <2>1 DEF StoreNothing, TypeOK, database
<1>12. CASE UNCHANGED vars
  BY <1>12 DEF vars, database, history, TypeOK, InOrder, Times, database, history
<1> QED BY <1>1, <1>2, <1>3, <1>4, <1>5, <1>6, <1>7, <1>8, <1>9, <1>10, <1>11, <1>12, <1>13 DEF Next

LEMMA OrderStep ==
  ASSUME TypeOK, InOrder, [Next]_vars
  PROVE  InOrder'
<1>1. CASE BoxChanges
  BY <1>1, HistoryAssumption
     DEF BoxChanges, Trouble, TypeOK, InOrder, Times, Buffer, database, history
<1>2. CASE Crash
  BY <1>2, HistoryAssumption DEF Crash, Trouble, TypeOK, InOrder, Times, Buffer, database, history
<1>3. CASE Start
  BY <1>3, HistoryAssumption DEF Start, TypeOK, InOrder, Times, Buffer, database, history
<1>4. CASE ClockIsSet
  BY <1>4, HistoryAssumption DEF ClockIsSet, TypeOK, InOrder, Times, Buffer, database, history
<1>5. CASE Tick
  BY <1>5, HistoryAssumption DEF Tick, TypeOK, InOrder, Times, Buffer, database, history
<1>6. CASE Fetch
  BY <1>6, HistoryAssumption DEF Fetch, Trouble, TypeOK, InOrder, Times, Buffer, database, history
<1>7. CASE FetchFails
  BY <1>7, HistoryAssumption DEF FetchFails, TypeOK, InOrder, Times, Buffer, database, history
<1>8. CASE Store
  BY <1>8, HistoryAssumption DEF Store, Later, TypeOK, InOrder, Times, Buffer, database, history
<1>9. CASE Fails
  BY <1>9, HistoryAssumption DEF Fails, Trouble, TypeOK, InOrder, Times, Buffer, database, history
<1>10. CASE Note
  BY <1>10, HistoryAssumption DEF Note, TypeOK, InOrder, Times, Buffer, database, history
<1>11. CASE Finish
  BY <1>11, HistoryAssumption DEF Finish, TypeOK, InOrder, Times, Buffer, database, history
<1>13. CASE StoreNothing
  BY <1>13, HistoryAssumption DEF StoreNothing, TypeOK, InOrder, Times, Buffer, database, history
<1>12. CASE UNCHANGED vars
  BY <1>12 DEF vars, database, history, TypeOK, InOrder, Times, Buffer, database, history
<1> QED BY <1>1, <1>2, <1>3, <1>4, <1>5, <1>6, <1>7, <1>8, <1>9, <1>10, <1>11, <1>12, <1>13 DEF Next

LEMMA ScheduleStep ==
  ASSUME TypeOK, InOrder, OnSchedule, [Next]_vars
  PROVE  OnSchedule'
<1>1. CASE BoxChanges
  BY <1>1, HistoryAssumption
     DEF BoxChanges, Trouble, TypeOK, InOrder, OnSchedule, Times, database, history
<1>2. CASE Crash
  BY <1>2, HistoryAssumption
     DEF Crash, Trouble, TypeOK, InOrder, OnSchedule, Times, database, history
<1>3. CASE Start
  BY <1>3, HistoryAssumption DEF Start, TypeOK, InOrder, OnSchedule, Times, database, history
<1>4. CASE ClockIsSet
  BY <1>4, HistoryAssumption DEF ClockIsSet, TypeOK, InOrder, OnSchedule, Times, database, history
<1>5. CASE Tick
  BY <1>5, HistoryAssumption DEF Tick, TypeOK, InOrder, OnSchedule, Times, database, history
<1>6. CASE Fetch
  BY <1>6, HistoryAssumption
     DEF Fetch, Trouble, TypeOK, InOrder, OnSchedule, Times, database, history
<1>7. CASE FetchFails
  BY <1>7, HistoryAssumption DEF FetchFails, TypeOK, InOrder, OnSchedule, Times, database, history
<1>8. CASE Store
  BY <1>8, HistoryAssumption DEF Store, TypeOK, InOrder, OnSchedule, Times, database, history
<1>9. CASE Fails
  BY <1>9, HistoryAssumption
     DEF Fails, Trouble, TypeOK, InOrder, OnSchedule, Times, database, history
<1>10. CASE Note
  BY <1>10, HistoryAssumption DEF Note, TypeOK, InOrder, OnSchedule, Times, database, history
<1>11. CASE Finish
  BY <1>11, HistoryAssumption DEF Finish, TypeOK, InOrder, OnSchedule, Times, database, history
<1>13. CASE StoreNothing
  BY <1>13, HistoryAssumption
     DEF StoreNothing, TypeOK, InOrder, OnSchedule, Times, database, history
<1>12. CASE UNCHANGED vars
  BY <1>12 DEF vars, database, history, TypeOK, InOrder, OnSchedule, Times, database, history
<1> QED BY <1>1, <1>2, <1>3, <1>4, <1>5, <1>6, <1>7, <1>8, <1>9, <1>10, <1>11, <1>12, <1>13 DEF Next

LEMMA TellingStep ==
  ASSUME TypeOK, InOrder, NotedIsStored, LossIsDated, NothingIsOwed, JustNoted, [Next]_vars
  PROVE  NotedIsStored' /\ LossIsDated' /\ NothingIsOwed' /\ JustNoted'
<1>1. CASE BoxChanges
  BY <1>1, HistoryAssumption
     DEF BoxChanges, Trouble, TypeOK, InOrder, NotedIsStored, NotedEmpty, Unnoted,
         LossIsDated, NothingIsOwed, JustNoted, Times, database, history
<1>2. CASE Crash
  <2>2. pc' = "idle" /\ UNCHANGED <<now, behind, lastSuccess, stored, owed>>
    BY <1>2 DEF Crash, database
  <2>6. ~Unnoted'
    BY <2>2 DEF Unnoted
  <2>3. JustNoted'
    BY <2>2 DEF JustNoted
  <2>7. NotedIsStored'
    <3>1. CASE pc = "noted"
      <4>1. ~emptied' => samples # {}
        BY <1>2, <3>1, MarksAtCrash
      <4> QED BY <4>1, <3>1, <2>2 DEF NotedIsStored, NotedEmpty, JustNoted, InOrder, TypeOK, Times
    <3>2. CASE pc # "noted"
      BY <1>2, <3>2, <2>2, MarksAtCrash DEF NotedIsStored, NotedEmpty, TypeOK
    <3> QED BY <3>1, <3>2
  <2>4. LossIsDated'
    BY <1>2, <2>2, MarksAtCrash DEF LossIsDated, TypeOK
  <2>5. NothingIsOwed'
    <3>1. CASE pc = "noted"
      <4>1. (~lagged' => behind = 0) /\ (~emptied' => samples # {})
        BY <1>2, <3>1, MarksAtCrash
      <4> QED BY <4>1, <3>1, <2>2 DEF NothingIsOwed, JustNoted, InOrder, TypeOK, Times
    <3>2. CASE pc # "noted"
      BY <1>2, <3>2, <2>2, <2>6, MarksAtCrash DEF NothingIsOwed, TypeOK
    <3> QED BY <3>1, <3>2
  <2> QED BY <2>3, <2>4, <2>5, <2>7
<1>3. CASE Start
  BY <1>3, HistoryAssumption
     DEF Start, TypeOK, InOrder, NotedIsStored, NotedEmpty, Unnoted, LossIsDated,
         NothingIsOwed, JustNoted, Times, database, history
<1>4. CASE ClockIsSet
  BY <1>4, HistoryAssumption
     DEF ClockIsSet, TypeOK, InOrder, NotedIsStored, NotedEmpty, Unnoted, LossIsDated,
         NothingIsOwed, JustNoted, Times, database, history
<1>5. CASE Tick
  BY <1>5, HistoryAssumption
     DEF Tick, TypeOK, InOrder, NotedIsStored, NotedEmpty, Unnoted, LossIsDated,
         NothingIsOwed, JustNoted, Times, database, history
<1>6. CASE Fetch
  BY <1>6, HistoryAssumption
     DEF Fetch, Trouble, TypeOK, InOrder, NotedIsStored, NotedEmpty, Unnoted, LossIsDated,
         NothingIsOwed, JustNoted, Times, database, history
<1>7. CASE FetchFails
  BY <1>7, HistoryAssumption
     DEF FetchFails, TypeOK, InOrder, NotedIsStored, NotedEmpty, Unnoted, LossIsDated,
         NothingIsOwed, JustNoted, Times, database, history
<1>8. CASE Store
  <2>1. /\ pc = "fetched" /\ pc' = "stored" /\ stored' = now /\ samples # {} /\ samples' = samples
        /\ UNCHANGED <<now, behind, lastSuccess, unnoted, untold, lagged, emptied>>
    BY <1>8 DEF Store
  <2>2. /\ stored = None => owed' = owed
        /\ stored # None => owed' = (owed \/ now - stored > Span)
    BY <1>8, Zenon DEF Store
  <2>6. /\ owed' => owed \/ (stored # None /\ now - stored > Span)
        /\ ~owed' => ~owed /\ (stored # None => ~(now - stored > Span))
    <3>1. CASE stored = None
      <4>1. owed' = owed
        BY <2>2, <3>1, Zenon
      <4>2. owed \in BOOLEAN
        BY Zenon DEF TypeOK
      <4> QED BY <4>1, <4>2, <3>1
    <3>2. CASE stored # None
      BY <2>2, <3>2, Zenon
    <3> QED BY <3>1, <3>2, Zenon
  <2>3. NotedIsStored' /\ JustNoted'
    BY <2>1, HistoryAssumption DEF NotedIsStored, NotedEmpty, JustNoted, InOrder, TypeOK, Times
  <2>4. LossIsDated'
    BY <2>1, <2>6, HistoryAssumption
    DEF LossIsDated, NotedIsStored, NotedEmpty, InOrder, TypeOK, Times
  <2>5. NothingIsOwed'
    BY <2>1, <2>6, HistoryAssumption
    DEF NothingIsOwed, NotedIsStored, NotedEmpty, Unnoted, InOrder, TypeOK, Times
  <2> QED BY <2>3, <2>4, <2>5
<1>9. CASE Fails
  BY <1>9, HistoryAssumption
     DEF Fails, Trouble, TypeOK, InOrder, NotedIsStored, NotedEmpty, Unnoted, LossIsDated,
         NothingIsOwed, JustNoted, Times, database, history
<1>10. CASE Note
  BY <1>10, HistoryAssumption
     DEF Note, TypeOK, InOrder, NotedIsStored, NotedEmpty, Unnoted, LossIsDated,
         NothingIsOwed, JustNoted, Times, database, history
<1>11. CASE Finish
  <2>1. /\ pc = "noted" /\ pc' = "idle" /\ ~owed' /\ lagged' = (behind > 0)
        /\ UNCHANGED <<now, behind, lastSuccess, stored>>
    BY <1>11 DEF Finish, database
  <2>2. (~lagged' => behind = 0) /\ (~emptied' => samples # {})
    BY <1>11, MarksAtFinish
  <2>3. NotedIsStored' /\ LossIsDated' /\ JustNoted'
    BY <2>1, <2>2
    DEF NotedIsStored, NotedEmpty, LossIsDated, JustNoted, InOrder, TypeOK, Times
  <2>4. NothingIsOwed'
    BY <2>1, <2>2 DEF NothingIsOwed, Unnoted, JustNoted, InOrder, TypeOK, Times
  <2> QED BY <2>3, <2>4
<1>13. CASE StoreNothing
  <2>1. /\ pc = "fetched" /\ pc' = "stored" /\ samples = {} /\ samples' = {}
        /\ UNCHANGED <<now, behind, lastSuccess, stored, unnoted, untold, lagged, emptied>>
    BY <1>13 DEF StoreNothing, database
  <2>2. /\ owed' => owed \/ (stored # None /\ now - stored > Span)
        /\ ~owed' => ~owed /\ (stored # None => ~(now - stored > Span))
    BY <1>13, Zenon DEF StoreNothing
  <2>3. NotedIsStored' /\ JustNoted'
    BY <2>1 DEF NotedIsStored, NotedEmpty, JustNoted
  <2>4. LossIsDated'
    BY <2>1, <2>2, HistoryAssumption
    DEF LossIsDated, NotedIsStored, NotedEmpty, InOrder, TypeOK, Times
  <2>5. NothingIsOwed'
    <3>1. ~Unnoted /\ ~Unnoted'
      BY <2>1 DEF Unnoted
    <3> QED BY <2>1, <2>2, <3>1, HistoryAssumption
            DEF NothingIsOwed, NotedIsStored, NotedEmpty, InOrder, TypeOK, Times
  <2> QED BY <2>3, <2>4, <2>5
<1>12. CASE UNCHANGED vars
  BY <1>12
     DEF vars, database, history, TypeOK, InOrder, NotedIsStored, NotedEmpty, Unnoted,
         LossIsDated, NothingIsOwed, JustNoted, Times
<1> QED BY <1>1, <1>2, <1>3, <1>4, <1>5, <1>6, <1>7, <1>8, <1>9, <1>10, <1>11, <1>12, <1>13 DEF Next

-----------------------------------------------------------------------------
(* A bucket that is all in the buffer takes its place, and one that was     *)
(* complete keeps it.                                                       *)
LEMMA WholeBucket ==
  ASSUME TypeOK, OwnSamples, NEW ss \in SUBSET Times, NEW b \in Buckets,
         SamplesOf(b) \subseteq ss \/ rows[b] = SamplesOf(b)
  PROVE  Upserted(rows, Bucketed(ss))[b] = SamplesOf(b)
<1> DEFINE own == SamplesOf(b)
           new == ss \cap own
<1>1. IsFiniteSet(own)
  <2>1. b * Bucket \in Int /\ b * Bucket + Bucket - 1 \in Int
    BY HistoryAssumption DEF Buckets
  <2> QED BY <2>1, FS_Interval DEF SamplesOf
<1>2. new \in SUBSET own /\ rows[b] \in SUBSET own
  BY DEF OwnSamples
<1>3. /\ Cardinality(own) \in Nat /\ Cardinality(new) \in Nat /\ Cardinality(rows[b]) \in Nat
      /\ Cardinality(new) <= Cardinality(own) /\ Cardinality(rows[b]) <= Cardinality(own)
      /\ Cardinality(own) = Cardinality(rows[b]) => own = rows[b]
  BY <1>1, <1>2, FS_Subset, FS_CardinalityType
<1>4. Upserted(rows, Bucketed(ss))[b]
        = IF Cardinality(new) > Cardinality(rows[b]) THEN new ELSE rows[b]
  BY DEF Upserted, Bucketed
<1>5. CASE rows[b] = own
  BY <1>3, <1>4, <1>5
<1>6. CASE own \subseteq ss
  <2>1. new = own
    BY <1>6
  <2> QED BY <2>1, <1>3, <1>4
<1> QED BY <1>5, <1>6

LEMMA OwnSamplesStep ==
  ASSUME TypeOK, OwnSamples, [Next]_vars
  PROVE  OwnSamples'
<1>1. CASE Store
  BY <1>1 DEF Store, OwnSamples, Upserted, Bucketed
<1>2. CASE ~Store
  BY <1>2 DEF Next, vars, database, OwnSamples, BoxChanges, Crash, Start, ClockIsSet, Tick,
     Fetch, FetchFails, StoreNothing, Fails, Note, Finish
<1> QED BY <1>1, <1>2

(* A bucket that is complete after a poll was so before, or is all in the   *)
(* buffer, since the poll before left at most what began less than a bucket *)
(* before it.                                                               *)
LEMMA StoreKeeps ==
  ASSUME TypeOK, InOrder, OwnSamples, NothingLost, Store
  PROVE  NothingLost'
<1> SUFFICES ASSUME worst' <= Span - Bucket + 1, NEW b \in Buckets,
                    first' <= b * Bucket, b * Bucket + Bucket - 1 <= now
             PROVE  rows'[b] = SamplesOf(b)
  BY DEF Store, NothingLost, Complete
<1> DEFINE from == b * Bucket
<1>1. from \in Nat
  BY HistoryAssumption DEF Buckets
<1>2. samples = Buffer /\ rows' = Upserted(rows, Bucketed(samples)) /\ samples \in SUBSET Times
  BY DEF Store, InOrder, TypeOK
<1>3. now - Span < from => SamplesOf(b) \subseteq samples
  <2> SUFFICES ASSUME now - Span < from, NEW s \in SamplesOf(b) PROVE s \in samples
    OBVIOUS
  <2>1. s \in Int /\ from <= s /\ s <= from + Bucket - 1 /\ from + Bucket - 1 <= now
    BY <1>1, HistoryAssumption DEF SamplesOf
  <2> HIDE DEF from
  <2> QED BY <1>1, <1>2, <2>1, HistoryAssumption DEF Buffer, TypeOK, Times
<1>4. now - Span < from \/ rows[b] = SamplesOf(b)
  <2>1. CASE stored = None
    <3>1. first' = IF now < Span THEN 0 ELSE now - Span + 1
      BY <2>1 DEF Store
    <3> HIDE DEF from
    <3> QED BY <1>1, <3>1, HistoryAssumption DEF TypeOK, Times, from
  <2>2. CASE stored # None
    <3>1. first' = first /\ worst' = Later(worst, now - stored) /\ stored <= now
      BY <2>2 DEF Store, InOrder
    <3>2. now - stored <= Span - Bucket + 1 /\ worst <= Span - Bucket + 1
      BY <2>2, <3>1, HistoryAssumption DEF Later, TypeOK, Times
    <3>3. CASE from + Bucket - 1 <= stored
      BY <2>2, <3>1, <3>2, <3>3 DEF NothingLost, Complete
    <3>4. CASE ~(from + Bucket - 1 <= stored)
      <4> HIDE DEF from
      <4> QED BY <1>1, <2>2, <3>2, <3>4, HistoryAssumption DEF TypeOK, Times
    <3> QED BY <3>3, <3>4
  <2> QED BY <2>1, <2>2
<1> QED BY <1>2, <1>3, <1>4, WholeBucket

LEMMA LostStep ==
  ASSUME TypeOK, InOrder, OwnSamples, NothingLost, [Next]_vars
  PROVE  NothingLost'
<1>1. CASE Store
  BY <1>1, StoreKeeps
<1>2. CASE ~Store
  BY <1>2 DEF Next, vars, database, history, NothingLost, Complete, BoxChanges, Crash, Start,
     ClockIsSet, Tick, Fetch, FetchFails, StoreNothing, Fails, Note, Finish
<1> QED BY <1>1, <1>2

LEMMA StepInv == IInv /\ [Next]_vars => IInv'
BY TypesStep, OrderStep, ScheduleStep, TellingStep, OwnSamplesStep, LostStep DEF IInv

LEMMA Invariance == Spec => []IInv
BY InitInv, StepInv, PTL DEF Spec

(* The state keeps its type, for any lengths and any number of troubles.    *)
THEOREM TypeCorrect == Spec => []TypeOK
<1>1. IInv => TypeOK
  BY DEF IInv
<1> QED BY <1>1, Invariance, PTL

(* While polls that bring samples are no further apart than the buffer is   *)
(* long, less a bucket, every bucket between the first poll and the last    *)
(* one is the mean of all its samples: no retry, restart or failing commit  *)
(* degrades one.                                                            *)
THEOREM NothingIsLost == Spec => []NothingLost
<1>1. IInv => NothingLost
  BY DEF IInv
<1> QED BY <1>1, Invariance, PTL

(* A failed poll does not use up the interval, whatever interval and retry  *)
(* are configured, but an empty answer does.                                *)
THEOREM PollsAreInTime == Spec => []PollsInTime
<1>1. IInv => PollsInTime
  BY HistoryAssumption DEF IInv, PollsInTime, OnSchedule, TypeOK, Times
<1> QED BY <1>1, Invariance, PTL

(* Lost samples are told by the next poll that succeeds, with the           *)
(* exceptions that LossIsTold names.                                        *)
THEOREM LossesAreTold == Spec => LossIsTold
<1>1. IInv /\ [Next]_vars =>
        [Finish /\ owed /\ gap # None /\ ~untold /\ ~emptied /\ behind = 0 => TellsGap]_vars
  BY DEF IInv, LossIsDated, Finish, TellsGap
<1> QED BY <1>1, Invariance, PTL DEF Spec, LossIsTold

(* What is told has been lost, with the exceptions that NoFalseAlarm names. *)
THEOREM AlarmsAreTrue == Spec => NoFalseAlarm
<1>1. IInv /\ [Next]_vars => [Finish /\ TellsGap => owed \/ unnoted \/ lagged \/ emptied]_vars
  BY HistoryAssumption DEF IInv, NothingIsOwed, Finish, TellsGap, TypeOK
<1> QED BY <1>1, Invariance, PTL DEF Spec, NoFalseAlarm

-----------------------------------------------------------------------------
(* The page, from here on.  First the calendar: a local day is what lies    *)
(* between two timestamps.                                                  *)

(* Division by the length of a day, of which SMT knows little.              *)
LEMMA Divided ==
  ASSUME NEW x \in Int, NEW d \in Nat \ {0}
  PROVE  /\ x \div d \in Int /\ (x % d) \in 0..d - 1
         /\ x = d * (x \div d) + (x % d)
OBVIOUS

LEMMA Products ==
  ASSUME NEW d \in Nat \ {0}, NEW q \in Int, NEW r \in Int, q < r
  PROVE  d * q + d <= d * r
<1>1. r - q - 1 \in Nat
  OBVIOUS
<1>2. d * (r - q - 1) >= 0
  <2>1. PICK n \in Nat : n = r - q - 1
    BY <1>1
  <2>2. d * n \in Nat
    OBVIOUS
  <2> QED BY <2>1, <2>2
<1>3. d * (r - q - 1) = d * r - d * q - d
  OBVIOUS
<1>4. d * r \in Int /\ d * q \in Int
  OBVIOUS
<1> QED BY <1>2, <1>3, <1>4

(* The quotient is the one whose multiples enclose the number.              *)
LEMMA Enclosed ==
  ASSUME NEW x \in Int, NEW d \in Nat \ {0}, NEW q \in Int
  PROVE  x \div d = q <=> q * d <= x /\ x < (q + 1) * d
<1> DEFINE p == x \div d
<1> DEFINE m == x % d
<1>1. p \in Int /\ m \in 0..d - 1 /\ x = d * p + m
  BY Divided
<1>2. d * p \in Int /\ d * q \in Int /\ q * d = d * q /\ (q + 1) * d = d * q + d
  BY <1>1
<1> HIDE DEF p, m
<1>3. CASE p = q
  BY <1>1, <1>2, <1>3 DEF p
<1>4. CASE p < q
  <2>1. d * p + d <= d * q
    BY <1>1, <1>4, Products
  <2>2. PICK s \in Int : s = d * p
    BY <1>2
  <2>3. PICK t \in Int : t = d * q
    BY <1>2
  <2>4. x < t
    BY <1>1, <2>1, <2>2, <2>3
  <2> QED BY <1>2, <1>4, <2>3, <2>4 DEF p
<1>5. CASE q < p
  <2>1. d * q + d <= d * p
    BY <1>1, <1>5, Products
  <2>2. PICK s \in Int : s = d * p
    BY <1>2
  <2>3. PICK t \in Int : t = d * q
    BY <1>2
  <2>4. x >= t + d
    BY <1>1, <2>1, <2>2, <2>3
  <2> QED BY <1>2, <1>5, <2>3, <2>4 DEF p
<1> QED BY <1>1, <1>3, <1>4, <1>5

(* A multiple leaves no remainder.                                          *)
LEMMA NoRemainder ==
  ASSUME NEW d \in Nat \ {0}, NEW q \in Int
  PROVE  q * d \in Int /\ (q * d) % d = 0
<1>1. PICK x \in Int : x = q * d
  OBVIOUS
<1>2. (q + 1) * d = x + d
  BY <1>1
<1>3. x \div d = q
  BY <1>1, <1>2, Enclosed
<1>4. x = d * q + (x % d) /\ (x % d) \in 0..d - 1
  BY <1>3, Divided
<1>5. d * q = x
  BY <1>1
<1> QED BY <1>1, <1>4, <1>5
-----------------------------------------------------------------------------
(* A finite set of numbers has a largest and a smallest member.             *)
LEMMA Extremes ==
  ASSUME NEW S \in SUBSET Int, IsFiniteSet(S), S # {}
  PROVE  /\ Max(S) \in S /\ \A y \in S : y <= Max(S)
         /\ Min(S) \in S /\ \A y \in S : Min(S) <= y
<1> DEFINE above(x) == {y \in S : y > x}
<1> DEFINE below(x) == {y \in S : y < x}
<1>0. IsWellFoundedOn(StrictSubsetOrdering(S), FiniteSubsetsOf(S))
  BY FS_StrictSubsetOrderingWellFounded
<1>1. \A T \in SUBSET S : T \in FiniteSubsetsOf(S)
  BY FS_Subset DEF FiniteSubsetsOf
<1>2. \A T, U \in SUBSET S : U \subseteq T /\ U # T => <<U, T>> \in StrictSubsetOrdering(S)
  BY DEF StrictSubsetOrdering
<1>3. \E x \in S : \A y \in S : x >= y
  <2> DEFINE tops == {above(x) : x \in S}
  <2>1. tops \subseteq FiniteSubsetsOf(S) /\ tops # {}
    BY <1>1
  <2>2. PICK T \in tops : \A U \in tops : <<U, T>> \notin StrictSubsetOrdering(S)
    BY <1>0, <2>1, WFMin
  <2>3. PICK x \in S : T = above(x)
    BY <2>2
  <2>4. ASSUME NEW y \in S, y > x PROVE FALSE
    <3>0. \A z \in S : z > y => z > x
      BY <2>4
    <3>1. above(y) \subseteq above(x)
      BY <3>0
    <3>3. y \in above(x)
      BY <2>4
    <3>4. y \notin above(y)
      OBVIOUS
    <3>2. above(y) \in SUBSET S /\ above(x) \in SUBSET S /\ above(y) \in tops
      OBVIOUS
    <3> QED BY <1>2, <2>2, <2>3, <3>1, <3>2, <3>3, <3>4, <3>3, <3>4
  <2> QED BY <2>4
<1>4. \E x \in S : \A y \in S : x =< y
  <2> DEFINE bottoms == {below(x) : x \in S}
  <2>1. bottoms \subseteq FiniteSubsetsOf(S) /\ bottoms # {}
    BY <1>1
  <2>2. PICK T \in bottoms : \A U \in bottoms : <<U, T>> \notin StrictSubsetOrdering(S)
    BY <1>0, <2>1, WFMin
  <2>3. PICK x \in S : T = below(x)
    BY <2>2
  <2>4. ASSUME NEW y \in S, y < x PROVE FALSE
    <3>0. \A z \in S : z < y => z < x
      BY <2>4
    <3>1. below(y) \subseteq below(x)
      BY <3>0
    <3>3. y \in below(x)
      BY <2>4
    <3>4. y \notin below(y)
      OBVIOUS
    <3>2. below(y) \in SUBSET S /\ below(x) \in SUBSET S /\ below(y) \in bottoms
      OBVIOUS
    <3> QED BY <1>2, <2>2, <2>3, <3>1, <3>2, <3>3, <3>4, <3>3, <3>4
  <2> QED BY <2>4
<1> QED BY <1>3, <1>4 DEF Max, Min
-----------------------------------------------------------------------------
(* Local days are what lies between two timestamps, because no change of    *)
(* the clock leaps over a midnight.                                         *)
Midnight(date) == date * DayLength

LEMMA ZoneTypes ==
  ASSUME NEW z \in Zones
  PROVE  z.at \in Int /\ z.before \in Int /\ z.after \in Int
BY PageAssumption

LEMMA MidnightsAreSpared ==
  ASSUME NEW z \in Zones, NEW date \in Int, NEW low \in {z.before, z.after},
         NEW high \in {z.before, z.after}
  PROVE  /\ Midnight(date) \in Int
         /\ Midnight(date) <= z.at + low \/ Midnight(date) >= z.at + high
<1>1. Midnight(date) \in Int /\ Midnight(date) % DayLength = 0
  BY NoRemainder, QueriesAssumption DEF Midnight
<1>2. Midnight(date) \notin z.at + low + 1 .. z.at + high - 1
  BY <1>1, PageAssumption
<1> QED BY <1>1, <1>2, ZoneTypes

LEMMA FromMidnightOn ==
  ASSUME NEW z \in Zones, NEW date \in Int, NEW b \in Int
  PROVE  /\ Timestamp(z, Midnight(date)) \in Int /\ Local(z, b) \in Int
         /\ b >= Timestamp(z, Midnight(date)) <=> Local(z, b) >= Midnight(date)
<1> DEFINE m == Midnight(date)
<1>1. /\ m \in Int
      /\ m <= z.at + z.before \/ m >= z.at + z.after
      /\ m <= z.at + z.after \/ m >= z.at + z.before
  BY MidnightsAreSpared
<1>2. Midnight(date) = m
  OBVIOUS
<1> HIDE DEF m
<1> QED BY <1>1, <1>2, ZoneTypes DEF Timestamp, Local, Larger

LEMMA DateOfBucket ==
  ASSUME NEW z \in Zones, NEW date \in Int, NEW b \in Int
  PROVE  /\ DateOf(z, b) \in Int
         /\ DayBounds(z, date).start \in Int /\ DayBounds(z, date).end \in Int
         /\ b >= DayBounds(z, date).start /\ b < DayBounds(z, date).end
              <=> DateOf(z, b) = date
<1>1. /\ DayBounds(z, date).start = Timestamp(z, Midnight(date))
      /\ DayBounds(z, date).end = Timestamp(z, Midnight(date + 1))
  BY DEF DayBounds, Midnight
<1>2. /\ Timestamp(z, Midnight(date)) \in Int /\ Local(z, b) \in Int
      /\ b >= Timestamp(z, Midnight(date)) <=> Local(z, b) >= Midnight(date)
  BY FromMidnightOn
<1>3. /\ Timestamp(z, Midnight(date + 1)) \in Int
      /\ b >= Timestamp(z, Midnight(date + 1)) <=> Local(z, b) >= Midnight(date + 1)
  BY FromMidnightOn
<1>4. DateOf(z, b) = date <=> Local(z, b) >= Midnight(date) /\ ~(Local(z, b) >= Midnight(date + 1))
  <2>1. Local(z, b) \div DayLength = date
          <=> date * DayLength <= Local(z, b) /\ Local(z, b) < (date + 1) * DayLength
    BY <1>2, Enclosed, QueriesAssumption
  <2>2. date * DayLength \in Int /\ (date + 1) * DayLength \in Int
    BY NoRemainder, QueriesAssumption
  <2> QED BY <1>2, <2>1, <2>2 DEF DateOf, Midnight
<1>5. DateOf(z, b) \in Int
  BY <1>2, Divided, QueriesAssumption DEF DateOf
<1> QED BY <1>1, <1>2, <1>3, <1>4, <1>5
-----------------------------------------------------------------------------
(* The requests of one panel: when one is answered or fails, those before   *)
(* it are late.                                                             *)
Marked(q, k) == [i \in DOMAIN q |-> IF i < k THEN [q[i] EXCEPT !.late = TRUE] ELSE q[i]]
Cut(q, k) == RemoveAt(Marked(q, k), k)

LateFirst(q) == \A i, j \in DOMAIN q : i < j /\ q[j].late => q[i].late

(* What is shown is about this, or the newest request will show it.         *)
Awaited(q, about, shown) ==
  IF q # <<>> /\ ~q[Len(q)].late THEN q[Len(q)].about = about ELSE shown

LEMMA RequestFields ==
  ASSUME NEW r \in Requests
  PROVE  /\ [r EXCEPT !.late = TRUE] \in Requests /\ [r EXCEPT !.late = TRUE].late
         /\ [r EXCEPT !.late = TRUE].call = r.call /\ [r EXCEPT !.late = TRUE].about = r.about
         /\ [r EXCEPT !.late = TRUE].excuse = r.excuse
         /\ [r EXCEPT !.excuse = "overtaken"] \in Requests
         /\ [r EXCEPT !.excuse = "overtaken"].late = r.late
         /\ [r EXCEPT !.excuse = "overtaken"].call = r.call
         /\ [r EXCEPT !.excuse = "overtaken"].about = r.about
         /\ [r EXCEPT !.excuse = "overtaken"].excuse = "overtaken"
         /\ r.late \in BOOLEAN /\ r.call \in Calls /\ r.since \in Nat \ {0}
BY DEF Requests, Excuses

LEMMA MarkedRequests ==
  ASSUME NEW q \in Seq(Requests), NEW k \in 1..Len(q)
  PROVE  /\ Marked(q, k) \in Seq(Requests) /\ Len(Marked(q, k)) = Len(q)
         /\ \A i \in 1..Len(q) : /\ Marked(q, k)[i].call = q[i].call
                                 /\ Marked(q, k)[i].about = q[i].about
                                 /\ Marked(q, k)[i].excuse = q[i].excuse
                                 /\ i < k => Marked(q, k)[i].late
                                 /\ i >= k => Marked(q, k)[i] = q[i]
<1>1. /\ DOMAIN q = 1..Len(q) /\ Len(q) \in Nat
      /\ \A i \in 1..Len(q) : q[i] \in Requests
  BY ElementOfSeq
<1>2. \A i \in 1..Len(q) :
        Marked(q, k)[i] = IF i < k THEN [q[i] EXCEPT !.late = TRUE] ELSE q[i]
  BY <1>1 DEF Marked
<1>3. \A i \in 1..Len(q) : Marked(q, k)[i] \in Requests
  <2> TAKE i \in 1..Len(q)
  <2>1. q[i] \in Requests
    BY <1>1
  <2>2. [q[i] EXCEPT !.late = TRUE] \in Requests
    BY <2>1, RequestFields
  <2> QED BY <1>2, <2>1, <2>2
<1>4. Marked(q, k) = [i \in 1..Len(q) |-> Marked(q, k)[i]]
  BY <1>1 DEF Marked
<1>5. Marked(q, k) \in [1..Len(q) -> Requests]
  <2> DEFINE m == Marked(q, k)
  <2>1. m = [i \in 1..Len(q) |-> m[i]] /\ \A i \in 1..Len(q) : m[i] \in Requests
    BY <1>3, <1>4
  <2> HIDE DEF m
  <2>2. m \in [1..Len(q) -> Requests]
    BY <2>1
  <2> QED BY <2>2 DEF m
<1>6. Marked(q, k) \in Seq(Requests) /\ Len(Marked(q, k)) = Len(q)
  BY <1>1, <1>5, SeqDef, LenProperties
<1>7. ASSUME NEW i \in 1..Len(q)
      PROVE  /\ Marked(q, k)[i].call = q[i].call /\ Marked(q, k)[i].about = q[i].about
             /\ Marked(q, k)[i].excuse = q[i].excuse
             /\ i < k => Marked(q, k)[i].late
             /\ i >= k => Marked(q, k)[i] = q[i]
  <2>1. q[i] \in Requests /\ i \in Int /\ k \in Int
    BY <1>1
  <2>2. /\ [q[i] EXCEPT !.late = TRUE].late /\ [q[i] EXCEPT !.late = TRUE].call = q[i].call
        /\ [q[i] EXCEPT !.late = TRUE].about = q[i].about
        /\ [q[i] EXCEPT !.late = TRUE].excuse = q[i].excuse
    BY <2>1, RequestFields
  <2>3. CASE i < k
    <3>1. PICK r : r = [q[i] EXCEPT !.late = TRUE]
      OBVIOUS
    <3>2. Marked(q, k)[i] = r /\ r.late /\ r.call = q[i].call /\ r.about = q[i].about
          /\ r.excuse = q[i].excuse
      BY <1>2, <2>2, <2>3, <3>1
    <3> QED BY <2>1, <2>3, <3>2
  <2>4. CASE ~(i < k)
    <3>1. Marked(q, k)[i] = q[i]
      BY <1>2, <2>4
    <3> QED BY <2>1, <2>4, <3>1
  <2> QED BY <2>3, <2>4
<1> QED BY <1>6, <1>7

LEMMA CutRequests ==
  ASSUME NEW q \in Seq(Requests), NEW k \in 1..Len(q)
  PROVE  /\ Cut(q, k) \in Seq(Requests) /\ Len(Cut(q, k)) = Len(q) - 1
         /\ \A i \in 1..Len(q) - 1 :
              /\ i < k => /\ Cut(q, k)[i].call = q[i].call /\ Cut(q, k)[i].late
                           /\ Cut(q, k)[i].about = q[i].about /\ Cut(q, k)[i].excuse = q[i].excuse
              /\ i >= k => Cut(q, k)[i] = q[i + 1]
<1> DEFINE m == Marked(q, k)
<1> DEFINE n == Len(q)
<1> DEFINE left == SubSeq(m, 1, k - 1)
<1> DEFINE right == SubSeq(m, k + 1, n)
<1>1. n \in Nat /\ k \in Int /\ 1 <= k /\ k <= n
  OBVIOUS
<1>2. /\ m \in Seq(Requests) /\ Len(m) = n
      /\ \A i \in 1..n : /\ m[i].call = q[i].call /\ m[i].about = q[i].about
                         /\ m[i].excuse = q[i].excuse
                         /\ i < k => m[i].late
                         /\ i >= k => m[i] = q[i]
  BY MarkedRequests
<1>3. \A i \in 1..n : m[i] \in Requests
  BY <1>2, ElementOfSeq
<1>4. Cut(q, k) = left \o right
  BY <1>2 DEF Cut, RemoveAt
<1> HIDE DEF m, n
<1>5. /\ left \in Seq(Requests) /\ Len(left) = k - 1
      /\ \A i \in 1..k - 1 : left[i] = m[i]
  <2>1. \A i \in 1..k - 1 : m[i] \in Requests
    BY <1>1, <1>3
  <2>2. /\ left \in Seq(Requests)
        /\ Len(left) = IF 1 <= k - 1 THEN k - 1 - 1 + 1 ELSE 0
        /\ \A i \in 1..k - 1 - 1 + 1 : left[i] = m[1 + i - 1]
    BY <1>1, <2>1, SubSeqProperties
  <2> QED BY <1>1, <2>2
<1>6. /\ right \in Seq(Requests) /\ Len(right) = n - k
      /\ \A i \in 1..n - k : right[i] = m[k + i]
  <2>1. \A i \in k + 1..n : m[i] \in Requests
    BY <1>1, <1>3
  <2>2. /\ right \in Seq(Requests)
        /\ Len(right) = IF k + 1 <= n THEN n - (k + 1) + 1 ELSE 0
        /\ \A i \in 1..n - (k + 1) + 1 : right[i] = m[k + 1 + i - 1]
    BY <1>1, <2>1, SubSeqProperties
  <2> QED BY <1>1, <2>2
<1> HIDE DEF left, right
<1>7. /\ left \o right \in Seq(Requests) /\ Len(left \o right) = n - 1
      /\ \A i \in 1..n - 1 : (left \o right)[i] = IF i < k THEN m[i] ELSE m[i + 1]
  <2>1. /\ left \o right \in Seq(Requests)
        /\ Len(left \o right) = Len(left) + Len(right)
        /\ \A i \in 1..Len(left) + Len(right) : (left \o right)[i] =
             IF i <= Len(left) THEN left[i] ELSE right[i - Len(left)]
    BY <1>5, <1>6, ConcatProperties
  <2>2. ASSUME NEW i \in 1..n - 1
        PROVE  (left \o right)[i] = IF i < k THEN m[i] ELSE m[i + 1]
    <3>1. CASE i < k
      BY <1>1, <1>5, <1>6, <2>1, <3>1
    <3>2. CASE ~(i < k)
      <4>1. right[i - (k - 1)] = m[k + (i - (k - 1))]
        BY <1>1, <1>6, <3>2
      <4> QED BY <1>1, <1>5, <1>6, <2>1, <3>2, <4>1
    <3> QED BY <3>1, <3>2
  <2> QED BY <1>1, <1>5, <1>6, <2>1, <2>2
<1>8. ASSUME NEW i \in 1..n - 1
      PROVE  /\ i < k => /\ Cut(q, k)[i].call = q[i].call /\ Cut(q, k)[i].late
                          /\ Cut(q, k)[i].about = q[i].about /\ Cut(q, k)[i].excuse = q[i].excuse
             /\ i >= k => Cut(q, k)[i] = q[i + 1]
  <2>1. CASE i < k
    BY <1>1, <1>2, <1>4, <1>7, <2>1
  <2>2. CASE ~(i < k)
    BY <1>1, <1>2, <1>4, <1>7, <2>2
  <2> QED BY <2>1, <2>2
<1> QED BY <1>4, <1>7, <1>8 DEF n

LEMMA CutKeepsLateFirst ==
  ASSUME NEW q \in Seq(Requests), NEW k \in 1..Len(q), LateFirst(q)
  PROVE  LateFirst(Cut(q, k))
<1> DEFINE c == Cut(q, k)
<1>1. /\ DOMAIN c = 1..Len(q) - 1 /\ DOMAIN q = 1..Len(q) /\ Len(q) \in Nat
      /\ \A i \in 1..Len(q) - 1 : i < k => c[i].late
      /\ \A i \in 1..Len(q) - 1 : i >= k => c[i] = q[i + 1]
  <2>1. /\ c \in Seq(Requests) /\ Len(c) = Len(q) - 1
        /\ \A i \in 1..Len(q) - 1 :
              /\ i < k => c[i].call = q[i].call /\ c[i].late /\ c[i].about = q[i].about
              /\ i >= k => c[i] = q[i + 1]
    BY CutRequests
  <2> QED BY <2>1
<1> HIDE DEF c
<1>2. ASSUME NEW i \in DOMAIN c, NEW j \in DOMAIN c, i < j, c[j].late
      PROVE  c[i].late
  <2>1. i \in Int /\ j \in Int /\ k \in Int
    BY <1>1
  <2>2. CASE i < k
    BY <1>1, <2>2
  <2>3. CASE ~(i < k)
    <3>1. c[i] = q[i + 1] /\ c[j] = q[j + 1]
      BY <1>1, <1>2, <2>1, <2>3
    <3>2. i + 1 \in DOMAIN q /\ j + 1 \in DOMAIN q /\ i + 1 < j + 1
      BY <1>1, <1>2, <2>1
    <3> QED BY <1>2, <3>1, <3>2 DEF LateFirst
  <2> QED BY <2>2, <2>3
<1>3. LateFirst(c)
  BY <1>2 DEF LateFirst
<1> QED BY <1>3 DEF c

(* A request that is answered, or fails, leaves behind what the newest one  *)
(* will show, if it was not the newest one, and otherwise what it shows.    *)
LEMMA CutAwaits ==
  ASSUME NEW q \in Seq(Requests), NEW k \in 1..Len(q), LateFirst(q),
         NEW about, NEW old \in BOOLEAN, NEW new \in BOOLEAN,
         Awaited(q, about, old),
         q[k].late /\ old => new,
         ~q[k].late /\ q[k].about = about => new
  PROVE  Awaited(Cut(q, k), about, new)
<1> DEFINE c == Cut(q, k)
<1> DEFINE n == Len(q)
<1>1. /\ c \in Seq(Requests) /\ Len(c) = n - 1 /\ n \in Nat /\ k \in 1..n
      /\ DOMAIN q = 1..n
      /\ \A i \in 1..n - 1 : i < k => c[i].late
      /\ \A i \in 1..n - 1 : i >= k => c[i] = q[i + 1]
  <2>1. /\ c \in Seq(Requests) /\ Len(c) = n - 1
        /\ \A i \in 1..n - 1 :
              /\ i < k => c[i].call = q[i].call /\ c[i].late /\ c[i].about = q[i].about
              /\ i >= k => c[i] = q[i + 1]
    BY CutRequests
  <2> QED BY <2>1
<1>2. q # <<>>
  OBVIOUS
<1> HIDE DEF c
<1>3. CASE k = n
  <2>1. c # <<>> => c[Len(c)].late
    <3> SUFFICES ASSUME c # <<>> PROVE c[n - 1].late
      BY <1>1
    <3>1. n - 1 \in 1..n - 1 /\ n - 1 < k
      BY <1>1, <1>3
    <3> QED BY <1>1, <3>1
  <2>2. new
    <3>1. CASE q[k].late
      BY <1>2, <1>3, <3>1 DEF Awaited
    <3>2. CASE ~q[k].late
      BY <1>2, <1>3, <3>2 DEF Awaited
    <3> QED BY <3>1, <3>2
  <2> QED BY <2>1, <2>2 DEF Awaited, c
<1>4. CASE k # n
  <2>1. n - 1 \in 1..n - 1 /\ n - 1 >= k /\ k < n /\ n \in DOMAIN q
    BY <1>1, <1>4
  <2>2. c[n - 1] = q[n - 1 + 1] /\ c # <<>>
    BY <1>1, <2>1
  <2>3. c[Len(c)] = q[n]
    BY <1>1, <2>2
  <2>4. CASE q[n].late
    <3>1. old
      BY <2>4 DEF Awaited
    <3>2. new
      <4>1. CASE q[k].late
        BY <3>1, <4>1
      <4>2. CASE ~q[k].late
        <5>1. FALSE
          BY <1>1, <2>1, <2>4, <4>2 DEF LateFirst
        <5> QED BY <5>1
      <4> QED BY <4>1, <4>2
    <3> QED BY <2>3, <2>4, <3>2 DEF Awaited, c
  <2>5. CASE ~q[n].late
    BY <1>2, <2>2, <2>3, <2>5 DEF Awaited, c
  <2> QED BY <2>4, <2>5
<1> QED BY <1>3, <1>4
-----------------------------------------------------------------------------
(* What is asked.                                                           *)
Abouts == Int \cup Spans \cup {Everything, Unset}
            \cup [period : Spans \cup {Everything}, step : Steps]

LEMMA NoExcuse == "none" \in Excuses
BY DEF Excuses

LEMMA QueryFields ==
  ASSUME NEW call \in Calls, NEW about \in Abouts, NEW excuse \in Excuses,
         dbs \in Seq(Tables), dbs # <<>>
  PROVE  /\ Query(call, about, excuse) \in Requests /\ ~Query(call, about, excuse).late
         /\ Query(call, about, excuse).call = call /\ Query(call, about, excuse).about = about
<1>1. Len(dbs) \in Nat \ {0}
  <2>1. Len(dbs) \in Nat
    OBVIOUS
  <2>2. Len(dbs) # 0
    BY EmptySeq
  <2> QED BY <2>1, <2>2
<1>2. Requests = [call : Calls, about : Abouts, excuse : Excuses, since : Nat \ {0}, late : BOOLEAN]
  BY DEF Requests, Abouts
<1>3. Query(call, about, excuse) =
        [call |-> call, about |-> about, excuse |-> excuse, since |-> Len(dbs), late |-> FALSE]
  BY DEF Query
<1>4. Query(call, about, excuse) \in Requests
  BY <1>1, <1>2, <1>3
<1> QED BY <1>3, <1>4

Waiting == [Panels -> Seq(Requests)]

LEMMA AskingAdds ==
  ASSUME NEW requests \in Waiting, NEW r \in Requests
  PROVE  /\ Asking(requests, r) \in Waiting
         /\ \A p \in Panels : Asking(requests, r)[p] =
              IF p = PanelOf(r.call) /\ p \in Half[focus]
              THEN Append(requests[p], r) ELSE requests[p]
<1>1. PanelOf(r.call) \in Panels
  BY RequestFields DEF PanelOf, Calls, Panels
<1>2. Append(requests[PanelOf(r.call)], r) \in Seq(Requests)
  BY <1>1, AppendProperties DEF Waiting
<1>3. CASE PanelOf(r.call) \notin Half[focus]
  BY <1>1, <1>3 DEF Asking, Waiting
<1>4. CASE PanelOf(r.call) \in Half[focus]
  <2>1. Asking(requests, r) =
          [requests EXCEPT ![PanelOf(r.call)] = Append(requests[PanelOf(r.call)], r)]
    BY <1>4 DEF Asking
  <2>2. \A p \in Panels : Asking(requests, r)[p] =
              IF p = PanelOf(r.call) THEN Append(requests[p], r) ELSE requests[p]
    BY <1>1, <2>1 DEF Waiting
  <2>3. Asking(requests, r) \in Waiting
    BY <1>1, <1>2, <2>1 DEF Waiting
  <2> QED BY <1>4, <2>2, <2>3
<1> QED BY <1>3, <1>4

LEMMA OvertakenKeeps ==
  ASSUME NEW requests \in Waiting, NEW ps
  PROVE  /\ Overtaken(requests, ps) \in Waiting
         /\ \A p \in Panels \ {"profile"} : Overtaken(requests, ps)[p] = requests[p]
         /\ Overtaken(requests, ps)["profile"] = <<>> <=> requests["profile"] = <<>>
<1> DEFINE q == requests["profile"]
<1> DEFINE d == [i \in DOMAIN q |-> Excused(q[i], ps, "overtaken")]
<1>1. q \in Seq(Requests)
  BY DEF Waiting, Panels
<1>2. /\ DOMAIN q = 1..Len(q) /\ Len(q) \in Nat
      /\ \A i \in 1..Len(q) : q[i] \in Requests
  BY <1>1, ElementOfSeq
<1>3. \A i \in 1..Len(q) : Excused(q[i], ps, "overtaken") \in Requests
  <2> TAKE i \in 1..Len(q)
  <2>1. q[i] \in Requests /\ [q[i] EXCEPT !.excuse = "overtaken"] \in Requests
    BY <1>2, RequestFields
  <2> QED BY <2>1 DEF Excused
<1>4. d \in Seq(Requests) /\ Len(d) = Len(q)
  <2>1. d = [i \in 1..Len(q) |-> d[i]] /\ \A i \in 1..Len(q) : d[i] \in Requests
    BY <1>2, <1>3
  <2> HIDE DEF d
  <2>2. d \in [1..Len(q) -> Requests]
    BY <2>1
  <2> QED BY <1>2, <2>2, SeqDef, LenProperties
<1>5. Overtaken(requests, ps) = [requests EXCEPT !["profile"] = d]
  BY DEF Overtaken
<1> HIDE DEF d
<1>6. d = <<>> <=> q = <<>>
  BY <1>1, <1>4, EmptySeq
<1>7. "profile" \in Panels
  BY DEF Panels
<1>8. Overtaken(requests, ps) \in Waiting
  BY <1>4, <1>5, <1>7 DEF Waiting
<1>9. /\ \A p \in Panels \ {"profile"} : Overtaken(requests, ps)[p] = requests[p]
      /\ Overtaken(requests, ps)["profile"] = d
  BY <1>5, <1>7 DEF Waiting
<1> QED BY <1>6, <1>8, <1>9

LEMMA WithoutCuts ==
  ASSUME asked \in Waiting, NEW panel \in Panels, NEW k \in DOMAIN asked[panel]
  PROVE  /\ Without(panel, k) \in Waiting
         /\ \A p \in Panels : Without(panel, k)[p] =
              IF p = panel THEN Cut(asked[p], k) ELSE asked[p]
         /\ asked[panel] \in Seq(Requests) /\ k \in 1..Len(asked[panel])
         /\ asked[panel][k] \in Requests
<1>1. asked[panel] \in Seq(Requests)
  BY DEF Waiting
<1>2. k \in 1..Len(asked[panel])
  BY <1>1
<1>3. Cut(asked[panel], k) \in Seq(Requests)
  BY <1>1, <1>2, CutRequests
<1>4. Without(panel, k) = [asked EXCEPT ![panel] = Cut(asked[panel], k)]
  BY DEF Without, Cut, Marked
<1>5. asked[panel][k] \in Requests
  BY <1>1, <1>2, ElementOfSeq
<1>6. Without(panel, k) \in Waiting
  BY <1>3, <1>4 DEF Waiting
<1>7. \A p \in Panels : Without(panel, k)[p] = IF p = panel THEN Cut(asked[p], k) ELSE asked[p]
  BY <1>4 DEF Waiting
<1> QED BY <1>1, <1>2, <1>5, <1>6, <1>7

(* The newest request is the last one.                                      *)
LEMMA AppendAwaits ==
  ASSUME NEW q \in Seq(Requests), NEW r \in Requests, ~r.late, NEW shown
  PROVE  /\ Awaited(Append(q, r), r.about, shown)
         /\ LateFirst(q) => LateFirst(Append(q, r))
         /\ Append(q, r) # <<>>
<1> DEFINE s == Append(q, r)
<1>1. /\ s \in Seq(Requests) /\ Len(s) = Len(q) + 1 /\ Len(q) \in Nat
      /\ \A i \in 1..Len(q) : s[i] = q[i]
      /\ s[Len(s)] = r /\ s[Len(q) + 1] = r /\ s # <<>>
      /\ DOMAIN s = 1..Len(q) + 1 /\ DOMAIN q = 1..Len(q)
  BY AppendProperties
<1> HIDE DEF s
<1>2. Awaited(s, r.about, shown)
  BY <1>1 DEF Awaited
<1>3. ASSUME LateFirst(q), NEW i \in DOMAIN s, NEW j \in DOMAIN s, i < j, s[j].late
      PROVE  s[i].late
  <2>1. j # Len(q) + 1
    BY <1>1, <1>3
  <2>2. i \in DOMAIN q /\ j \in DOMAIN q /\ s[i] = q[i] /\ s[j] = q[j]
    BY <1>1, <1>3, <2>1
  <2> QED BY <1>3, <2>2 DEF LateFirst
<1>4. LateFirst(q) => LateFirst(s)
  BY <1>3 DEF LateFirst
<1> QED BY <1>1, <1>2, <1>4 DEF s
-----------------------------------------------------------------------------
(* What the answers are made of.                                            *)
FiniteTables == {db \in Tables : IsFiniteSet(DOMAIN db)}

LEMMA TableMembers ==
  ASSUME NEW db
  PROVE  db \in FiniteTables <=>
           /\ db = [x \in DOMAIN db |-> db[x]] /\ \A x \in DOMAIN db : db[x] \in Nat
           /\ DOMAIN db \subseteq Int /\ IsFiniteSet(DOMAIN db)
<1>1. ASSUME db \in FiniteTables
      PROVE  /\ db = [x \in DOMAIN db |-> db[x]] /\ \A x \in DOMAIN db : db[x] \in Nat
             /\ DOMAIN db \subseteq Int /\ IsFiniteSet(DOMAIN db)
  <2>1. PICK bs \in SUBSET Int : db \in [bs -> Nat]
    BY <1>1 DEF FiniteTables, Tables
  <2> QED BY <1>1, <2>1 DEF FiniteTables
<1>2. ASSUME db = [x \in DOMAIN db |-> db[x]], \A x \in DOMAIN db : db[x] \in Nat,
             DOMAIN db \subseteq Int, IsFiniteSet(DOMAIN db)
      PROVE  db \in FiniteTables
  <2>1. db \in [DOMAIN db -> Nat] /\ DOMAIN db \in SUBSET Int
    BY <1>2
  <2> QED BY <1>2, <2>1 DEF FiniteTables, Tables
<1> QED BY <1>1, <1>2

LEMMA RowsAreTables ==
  ASSUME NEW db \in FiniteTables, NEW range
  PROVE  Rows(db, range) \in FiniteTables
<1>1. /\ \A x \in DOMAIN db : db[x] \in Nat
      /\ DOMAIN db \subseteq Int /\ IsFiniteSet(DOMAIN db)
  BY TableMembers
<1>2. ASSUME NEW bs \in SUBSET DOMAIN db PROVE Restrict(db, bs) \in FiniteTables
  <2> DEFINE r == Restrict(db, bs)
  <2>1. /\ r = [x \in DOMAIN r |-> r[x]] /\ \A x \in DOMAIN r : r[x] \in Nat
        /\ DOMAIN r \subseteq Int /\ DOMAIN r = bs
    BY <1>1 DEF Restrict
  <2>2. IsFiniteSet(bs)
    BY <1>1, FS_Subset
  <2> QED BY <2>1, <2>2, TableMembers
<1>3. CASE range = Everything
  BY <1>3 DEF Rows
<1>4. CASE range # Everything
  BY <1>2, <1>4 DEF Rows
<1> QED BY <1>3, <1>4

LEMMA EmptyTable ==
  ASSUME NEW db \in FiniteTables
  PROVE  db = <<>> <=> DOMAIN db = {}
<1>1. db = [x \in DOMAIN db |-> db[x]]
  BY TableMembers
<1>2. DOMAIN <<>> = {}
  OBVIOUS
<1>3. <<>> = [x \in {} |-> db[x]]
  OBVIOUS
<1> QED BY <1>1, <1>2, <1>3

LEMMA Summaries ==
  ASSUME NEW db \in FiniteTables, NEW range
  PROVE  /\ Summary(db, range).buckets = Cardinality(DOMAIN Rows(db, range))
         /\ Summary(db, range).buckets \in Nat
         /\ Summary(db, range).buckets > 0 =>
              /\ Summary(db, range).total = Total(Rows(db, range))
              /\ Summary(db, range).first \in Int /\ Summary(db, range).last \in Int
              /\ Summary(db, range).first = Min(DOMAIN Rows(db, range))
              /\ Summary(db, range).last = Max(DOMAIN Rows(db, range))
<1> DEFINE found == Rows(db, range)
<1>1. /\ found \in FiniteTables
      /\ DOMAIN found \subseteq Int /\ IsFiniteSet(DOMAIN found)
      /\ found = <<>> <=> DOMAIN found = {}
  BY RowsAreTables, TableMembers, EmptyTable
<1>2. Cardinality(DOMAIN found) \in Nat /\ (Cardinality(DOMAIN found) = 0 <=> DOMAIN found = {})
  BY <1>1, FS_CardinalityType, FS_EmptySet
<1>3. CASE found = <<>>
  <2>1. Summary(db, range) = [buckets |-> 0]
    BY <1>3 DEF Summary
  <2> QED BY <1>1, <1>2, <1>3, <2>1
<1>4. CASE found # <<>>
  <2>1. Max(DOMAIN found) \in Int /\ Min(DOMAIN found) \in Int
    BY <1>1, <1>4, Extremes
  <2>2. /\ Summary(db, range).buckets = Cardinality(DOMAIN found)
        /\ Summary(db, range).total = Total(found)
        /\ Summary(db, range).first = Min(DOMAIN found)
        /\ Summary(db, range).last = Max(DOMAIN found)
    BY <1>4 DEF Summary
  <2> QED BY <1>2, <2>1, <2>2
<1> QED BY <1>3, <1>4

LEMMA DatesOfBuckets ==
  ASSUME NEW z \in Zones, NEW db \in FiniteTables
  PROVE  /\ {DateOf(z, b) : b \in DOMAIN db} \subseteq Int
         /\ IsFiniteSet({DateOf(z, b) : b \in DOMAIN db})
<1> DEFINE dates == {DateOf(z, b) : b \in DOMAIN db}
<1> DEFINE f == [b \in DOMAIN db |-> DateOf(z, b)]
<1>1. DOMAIN db \subseteq Int /\ IsFiniteSet(DOMAIN db)
  BY TableMembers
<1>2. \A b \in DOMAIN db : DateOf(z, b) \in Int
  <2> TAKE b \in DOMAIN db
  <2> QED BY <1>1, DateOfBucket
<1>3. f \in Surjection(DOMAIN db, dates)
  BY DEF Surjection
<1>4. IsFiniteSet(dates)
  BY <1>1, <1>3, FS_Surjection
<1> QED BY <1>2, <1>4

LEMMA ChangedTable ==
  ASSUME NEW db \in FiniteTables, NEW b \in Int, NEW w \in Nat
  PROVE  [x \in DOMAIN db \cup {b} |-> IF x = b THEN w ELSE db[x]] \in FiniteTables
<1> DEFINE f == [x \in DOMAIN db \cup {b} |-> IF x = b THEN w ELSE db[x]]
<1>1. /\ \A x \in DOMAIN db : db[x] \in Nat
      /\ DOMAIN db \subseteq Int /\ IsFiniteSet(DOMAIN db)
  BY TableMembers
<1>2. /\ DOMAIN f = DOMAIN db \cup {b} /\ f = [x \in DOMAIN f |-> f[x]]
      /\ \A x \in DOMAIN f : f[x] \in Nat /\ DOMAIN f \subseteq Int
  BY <1>1
<1>3. IsFiniteSet(DOMAIN db \cup {b})
  BY <1>1, FS_AddElement
<1> HIDE DEF f
<1>4. f \in FiniteTables
  <2>1. IsFiniteSet(DOMAIN f)
    BY <1>2, <1>3
  <2> QED BY <1>1, <1>2, <2>1, TableMembers
<1> QED BY <1>4 DEF f
-----------------------------------------------------------------------------
(* Sums over the parts of a table, and what the pass over its rows yields.  *)
(* Induction over the parts of a finite set, for a set of good parts.       *)
LEMMA PartsInduction ==
  ASSUME NEW D, IsFiniteSet(D), NEW good,
         \A s \in SUBSET D : (\A x \in s : s \ {x} \in good) => s \in good
  PROVE  \A s \in SUBSET D : s \in good
<1> SUFFICES ASSUME NEW b \in SUBSET D, b \notin good PROVE FALSE
  OBVIOUS
<1> DEFINE bad == {s \in SUBSET D : s \notin good}
<1>1. IsWellFoundedOn(StrictSubsetOrdering(D), FiniteSubsetsOf(D))
  BY FS_StrictSubsetOrderingWellFounded
<1>2. bad \subseteq FiniteSubsetsOf(D) /\ bad # {}
  BY FS_Subset DEF FiniteSubsetsOf
<1>3. PICK s \in bad : \A u \in bad : <<u, s>> \notin StrictSubsetOrdering(D)
  BY <1>1, <1>2, WFMin
<1>4. ASSUME NEW x \in s PROVE s \ {x} \in good
  <2>1. <<s \ {x}, s>> \in StrictSubsetOrdering(D)
    BY DEF StrictSubsetOrdering
  <2> QED BY <1>3, <2>1
<1> QED BY <1>3, <1>4

Additive(f, w, D) ==
  \A s \in SUBSET D :
    /\ f[s] \in Int /\ (s = {} => f[s] = 0)
    /\ \A x \in s : f[s] = w[x] + f[s \ {x}]

SumFn(w) ==
  CHOOSE f : f = [s \in SUBSET DOMAIN w |->
                    IF s = {} THEN 0 ELSE w[CHOOSE x \in s : TRUE] + f[s \ {CHOOSE x \in s : TRUE}]]

LEMMA TotalIsSum == ASSUME NEW w PROVE Total(w) = SumFn(w)[DOMAIN w]
BY DEF Total, SumFn, MapThenSumSet, MapThenFoldSet

LEMMA AdditiveExists ==
  ASSUME NEW D, IsFiniteSet(D), NEW w, \A x \in D : w[x] \in Int
  PROVE  \E f : Additive(f, w, D)
<1> DEFINE good == {s \in SUBSET D : \E f : Additive(f, w, s)}
<1>1. ASSUME NEW s \in SUBSET D, \A x \in s : s \ {x} \in good PROVE s \in good
  <2>1. CASE s = {}
    <3> DEFINE f == [u \in {{}} |-> 0]
    <3>1. Additive(f, w, s)
      BY <2>1 DEF Additive
    <3> QED BY <3>1
  <2>2. CASE s # {}
    <3>1. PICK x \in s : s \ {x} \in good
      BY <1>1, <2>2
    <3>2. PICK g : Additive(g, w, s \ {x})
      BY <3>1
    <3> DEFINE f == [u \in SUBSET s |-> IF x \in u THEN w[x] + g[u \ {x}] ELSE g[u]]
    <3>3. ASSUME NEW u \in SUBSET s
          PROVE  /\ f[u] \in Int /\ (u = {} => f[u] = 0)
                 /\ \A y \in u : f[u] = w[y] + f[u \ {y}]
      <4>1. /\ u \ {x} \in SUBSET (s \ {x}) /\ w[x] \in Int /\ g[u \ {x}] \in Int
            /\ x \notin u => u \ {x} = u
        BY <3>2 DEF Additive
      <4>2. f[u] = IF x \in u THEN w[x] + g[u \ {x}] ELSE g[u]
        OBVIOUS
      <4>3. u = {} => g[u] = 0
        BY <3>2 DEF Additive
      <4>4. ASSUME NEW y \in u PROVE f[u] = w[y] + f[u \ {y}]
        <5>1. f[u \ {y}] = IF x \in u \ {y} THEN w[x] + g[(u \ {y}) \ {x}] ELSE g[u \ {y}]
          OBVIOUS
        <5> HIDE DEF f
        <5>2. CASE y = x
          BY <4>2, <5>1, <5>2
        <5>3. CASE y # x
          <6>1. /\ y \in u \ {x} /\ (u \ {y}) \ {x} = (u \ {x}) \ {y}
                /\ (u \ {x}) \ {y} \in SUBSET (s \ {x})
            BY <5>3
          <6>2. /\ g[u \ {x}] = w[y] + g[(u \ {x}) \ {y}]
                /\ g[(u \ {x}) \ {y}] \in Int /\ w[y] \in Int
            BY <3>2, <4>1, <6>1 DEF Additive
          <6>3. CASE x \in u
            <7>1. f[u] = w[x] + g[u \ {x}]
              BY <4>2, <6>3
            <7>2. x \in u \ {y}
              BY <5>3, <6>3
            <7>3. f[u \ {y}] = w[x] + g[(u \ {x}) \ {y}]
              BY <5>1, <6>1, <7>2
            <7> QED BY <4>1, <6>2, <7>1, <7>3
          <6>4. CASE x \notin u
            <7>1. u \ {x} = u
              BY <6>4
            <7>2. f[u] = g[u] /\ f[u \ {y}] = g[u \ {y}]
              BY <4>2, <5>1, <6>4
            <7>3. g[u] = w[y] + g[u \ {y}]
              BY <6>2, <7>1, Zenon
            <7> QED BY <7>2, <7>3, Zenon
          <6> QED BY <6>3, <6>4
        <5> QED BY <5>2, <5>3
      <4>5. f[u] \in Int
        <5> HIDE DEF f
        <5>1. x \notin u => g[u] \in Int
          BY <4>1
        <5> QED BY <4>1, <4>2, <5>1
      <4>6. u = {} => f[u] = 0
        BY <4>2, <4>3
      <4> QED BY <4>4, <4>5, <4>6
    <3> HIDE DEF f
    <3>4. Additive(f, w, s)
      BY <3>3 DEF Additive
    <3> QED BY <3>4
  <2> QED BY <2>1, <2>2
<1> HIDE DEF good
<1>2. \A s \in SUBSET D : (\A x \in s : s \ {x} \in good) => s \in good
  BY <1>1
<1>3. \A s \in SUBSET D : s \in good
  BY <1>2, PartsInduction
<1> QED BY <1>3 DEF good

(* A sum has one value, in whatever order it is taken.                      *)
LEMMA TotalIs ==
  ASSUME NEW w, IsFiniteSet(DOMAIN w), NEW f, Additive(f, w, DOMAIN w)
  PROVE  Total(w) = f[DOMAIN w]
<1> DEFINE D == DOMAIN w
<1> DEFINE some(s) == CHOOSE x \in s : TRUE
<1> DEFINE g == [s \in SUBSET D |-> f[s]]
<1>1. \A s \in SUBSET D : s # {} => some(s) \in s
  OBVIOUS
<1>2. g = [s \in SUBSET D |-> IF s = {} THEN 0 ELSE w[some(s)] + g[s \ {some(s)}]]
  <2>1. ASSUME NEW s \in SUBSET D
        PROVE  f[s] = IF s = {} THEN 0 ELSE w[some(s)] + g[s \ {some(s)}]
    <3>1. s # {} => g[s \ {some(s)}] = f[s \ {some(s)}] /\ some(s) \in s
      BY <1>1
    <3> QED BY <3>1 DEF Additive
  <2> QED BY <2>1
<1> DEFINE h == SumFn(w)
<1>3. h = [s \in SUBSET D |-> IF s = {} THEN 0 ELSE w[some(s)] + h[s \ {some(s)}]]
  <2> HIDE DEF g
  <2> QED BY <1>2 DEF SumFn
<1> HIDE DEF h, g, D
<1> DEFINE good == {s \in SUBSET D : h[s] = f[s]}
<1>4. ASSUME NEW s \in SUBSET D, \A x \in s : s \ {x} \in good PROVE s \in good
  <2>1. h[s] = IF s = {} THEN 0 ELSE w[some(s)] + h[s \ {some(s)}]
    BY <1>3
  <2>2. s # {} => h[s \ {some(s)}] = f[s \ {some(s)}] /\ some(s) \in s
    BY <1>1, <1>4
  <2> QED BY <2>1, <2>2 DEF Additive, D
<1> HIDE DEF good
<1>5. \A s \in SUBSET D : (\A x \in s : s \ {x} \in good) => s \in good
  BY <1>4
<1>6. IsFiniteSet(D)
  BY DEF D
<1>7. \A s \in SUBSET D : s \in good
  BY <1>5, <1>6, PartsInduction
<1>8. h[D] = f[D]
  BY <1>7 DEF good
<1> QED BY <1>8, TotalIsSum DEF h, D

(* One function is additive for all parts of a table.                       *)
LEMMA PartsTotal ==
  ASSUME NEW w, IsFiniteSet(DOMAIN w), NEW f, Additive(f, w, DOMAIN w), NEW s \in SUBSET DOMAIN w
  PROVE  Total(Restrict(w, s)) = f[s] /\ f[s] \in Int
<1> DEFINE r == Restrict(w, s)
<1>1. DOMAIN r = s /\ IsFiniteSet(s) /\ \A x \in s : r[x] = w[x]
  BY FS_Subset DEF Restrict
<1> HIDE DEF r
<1>2. Additive(f, r, s)
  <2>1. ASSUME NEW u \in SUBSET s
        PROVE  /\ f[u] \in Int /\ (u = {} => f[u] = 0)
               /\ \A x \in u : f[u] = r[x] + f[u \ {x}]
    <3>1. u \in SUBSET DOMAIN w /\ \A x \in u : r[x] = w[x]
      BY <1>1
    <3> QED BY <3>1 DEF Additive
  <2> QED BY <2>1 DEF Additive
<1>3. Total(r) = f[s]
  BY <1>1, <1>2, TotalIs
<1> QED BY <1>3 DEF r, Additive

LEMMA TotalSplit ==
  ASSUME NEW w, IsFiniteSet(DOMAIN w), \A x \in DOMAIN w : w[x] \in Int,
         NEW s \in SUBSET DOMAIN w
  PROVE  /\ Total(Restrict(w, s)) \in Int
         /\ s = {} => Total(Restrict(w, s)) = 0
         /\ \A x \in s : Total(Restrict(w, s)) = w[x] + Total(Restrict(w, s \ {x}))
<1>1. PICK f : Additive(f, w, DOMAIN w)
  BY AdditiveExists
<1>2. \A u \in SUBSET DOMAIN w : Total(Restrict(w, u)) = f[u] /\ f[u] \in Int
  BY <1>1, PartsTotal
<1>3. \A x \in s : s \ {x} \in SUBSET DOMAIN w
  OBVIOUS
<1> QED BY <1>1, <1>2, <1>3 DEF Additive

LEMMA RestrictAll ==
  ASSUME NEW w, w = [x \in DOMAIN w |-> w[x]] PROVE Restrict(w, DOMAIN w) = w
BY DEF Restrict

LEMMA TotalZero ==
  ASSUME NEW D, IsFiniteSet(D) PROVE Total([x \in D |-> 0]) = 0
<1> DEFINE w == [x \in D |-> 0]
<1> DEFINE f == [s \in SUBSET D |-> 0]
<1>1. Additive(f, w, D) /\ DOMAIN w = D /\ f[D] = 0
  BY DEF Additive
<1> HIDE DEF w, f
<1>2. Total(w) = 0
  BY <1>1, TotalIs
<1> QED BY <1>2 DEF w

LEMMA TotalOnes ==
  ASSUME NEW D, IsFiniteSet(D) PROVE Total([x \in D |-> 1]) = Cardinality(D)
<1> DEFINE w == [x \in D |-> 1]
<1> DEFINE f == [s \in SUBSET D |-> Cardinality(s)]
<1>1. ASSUME NEW s \in SUBSET D
      PROVE  /\ f[s] \in Int /\ (s = {} => f[s] = 0)
             /\ \A x \in s : f[s] = w[x] + f[s \ {x}]
  <2>1. IsFiniteSet(s) /\ Cardinality(s) \in Nat /\ f[s] = Cardinality(s)
    BY FS_Subset, FS_CardinalityType
  <2>2. s = {} => Cardinality(s) = 0
    BY FS_EmptySet
  <2>3. ASSUME NEW x \in s PROVE f[s] = w[x] + f[s \ {x}]
    <3>1. Cardinality(s \ {x}) = Cardinality(s) - 1
      BY <2>1, FS_RemoveElement
    <3>2. s \ {x} \in SUBSET D /\ x \in D
      OBVIOUS
    <3>3. f[s \ {x}] = Cardinality(s \ {x}) /\ w[x] = 1
      BY <3>2
    <3>4. f[s] = Cardinality(s)
      BY <2>1
    <3> HIDE DEF f, w
    <3> QED BY <2>1, <3>1, <3>3, <3>4
  <2> HIDE DEF f, w
  <2> QED BY <2>1, <2>2, <2>3
<1>2. DOMAIN w = D /\ f[D] = Cardinality(D)
  OBVIOUS
<1> HIDE DEF w, f
<1>3. Additive(f, w, D)
  BY <1>1 DEF Additive
<1>4. Total(w) = Cardinality(D)
  BY <1>2, <1>3, TotalIs
<1> QED BY <1>4 DEF w

(* The sum of the sums of the classes of a table, among any finite set of   *)
(* classes, is the sum of the table.                                        *)
ClassOf(s, c, k) == {x \in s : c[x] = k}
ByClass(w, s, c, K) == [k \in K |-> Total(Restrict(w, ClassOf(s, c, k)))]

LEMMA TotalByClass ==
  ASSUME NEW w, IsFiniteSet(DOMAIN w), \A x \in DOMAIN w : w[x] \in Int,
         NEW K, IsFiniteSet(K), NEW c, \A x \in DOMAIN w : c[x] \in K
  PROVE  Total(ByClass(w, DOMAIN w, c, K)) = Total(Restrict(w, DOMAIN w))
<1> DEFINE D == DOMAIN w
<1> DEFINE good == {s \in SUBSET D : Total(ByClass(w, s, c, K)) = Total(Restrict(w, s))}
<1>1. ASSUME NEW s \in SUBSET D, \A x \in s : s \ {x} \in good
      PROVE  Total(ByClass(w, s, c, K)) = Total(Restrict(w, s))
  <2>1. CASE s = {}
    <3>1. \A k \in K : ClassOf(s, c, k) = {}
      BY <2>1 DEF ClassOf
    <3>2. {} \in SUBSET D /\ Total(Restrict(w, {})) = 0
      BY TotalSplit
    <3>3. ByClass(w, s, c, K) = [k \in K |-> 0]
      BY <3>1, <3>2 DEF ByClass
    <3> QED BY <2>1, <3>2, <3>3, TotalZero
  <2>2. CASE s # {}
    <3>1. PICK x \in s : s \ {x} \in good
      BY <1>1, <2>2
    <3> DEFINE u == s \ {x}
    <3> DEFINE k == c[x]
    <3> DEFINE p == ByClass(w, s, c, K)
    <3> DEFINE q == ByClass(w, u, c, K)
    <3>2. /\ u \in SUBSET D /\ k \in K /\ w[x] \in Int
          /\ Total(q) = Total(Restrict(w, u))
          /\ Total(Restrict(w, s)) = w[x] + Total(Restrict(w, u))
      BY <3>1, TotalSplit
    <3>3. \A j \in K \ {k} : ClassOf(s, c, j) = ClassOf(u, c, j)
      BY DEF ClassOf
    <3>4. x \in ClassOf(s, c, k) /\ ClassOf(s, c, k) \ {x} = ClassOf(u, c, k)
      BY DEF ClassOf
    <3>5. \A v \in SUBSET D, j \in K : ClassOf(v, c, j) \in SUBSET D
      BY DEF ClassOf
    <3>6. /\ DOMAIN p = K /\ DOMAIN q = K
          /\ \A j \in K : p[j] = Total(Restrict(w, ClassOf(s, c, j)))
          /\ \A j \in K : q[j] = Total(Restrict(w, ClassOf(u, c, j)))
      BY DEF ByClass
    <3>7. ASSUME NEW j \in K PROVE p[j] \in Int /\ q[j] \in Int
      <4>1. ClassOf(s, c, j) \in SUBSET DOMAIN w /\ ClassOf(u, c, j) \in SUBSET DOMAIN w
        BY <3>2, <3>5
      <4>2. /\ Total(Restrict(w, ClassOf(s, c, j))) \in Int
            /\ Total(Restrict(w, ClassOf(u, c, j))) \in Int
        BY <4>1, TotalSplit
      <4> QED BY <3>6, <4>2
    <3>8. p[k] = w[x] + q[k]
      <4>1. ClassOf(s, c, k) \in SUBSET DOMAIN w
        BY <3>2, <3>5
      <4>2. Total(Restrict(w, ClassOf(s, c, k)))
              = w[x] + Total(Restrict(w, ClassOf(s, c, k) \ {x}))
        BY <3>4, <4>1, TotalSplit
      <4> QED BY <3>2, <3>4, <3>6, <4>2
    <3>9. \A j \in K \ {k} : p[j] = q[j]
      BY <3>3, <3>6
    <3>10. p = [j \in K |-> p[j]] /\ q = [j \in K |-> q[j]]
      BY DEF ByClass
    <3> HIDE DEF p, q, k, u
    <3>11. Restrict(p, K \ {k}) = Restrict(q, K \ {k})
      BY <3>9 DEF Restrict
    <3>12. /\ Restrict(p, K) = p /\ Restrict(q, K) = q
      BY <3>10 DEF Restrict
    <3>13. /\ K \in SUBSET DOMAIN p /\ K \in SUBSET DOMAIN q /\ K \ {k} \in SUBSET DOMAIN q
           /\ IsFiniteSet(DOMAIN p) /\ IsFiniteSet(DOMAIN q)
      BY <3>6
    <3>14. /\ Total(Restrict(p, K)) = p[k] + Total(Restrict(p, K \ {k}))
      BY <3>2, <3>6, <3>7, <3>13, TotalSplit
    <3>15. /\ Total(Restrict(q, K)) = q[k] + Total(Restrict(q, K \ {k}))
           /\ Total(Restrict(q, K \ {k})) \in Int
      BY <3>2, <3>6, <3>7, <3>13, TotalSplit
    <3>16. Total(p) = w[x] + Total(q)
      BY <3>2, <3>7, <3>8, <3>11, <3>12, <3>14, <3>15
    <3> QED BY <3>2, <3>16 DEF p, q
  <2> QED BY <2>1, <2>2
<1>2. \A s \in SUBSET D : (\A x \in s : s \ {x} \in good) => s \in good
  BY <1>1
<1> HIDE DEF good
<1>3. \A s \in SUBSET D : s \in good
  BY <1>2, PartsInduction
<1> QED BY <1>3 DEF good
-----------------------------------------------------------------------------
(* Later buckets are not of earlier dates.                                  *)
LEMMA DatesInOrder ==
  ASSUME NEW z \in Zones, NEW a \in Int, NEW b \in Int, a <= b
  PROVE  DateOf(z, a) <= DateOf(z, b)
<1> DEFINE d == DateOf(z, a)
<1> DEFINE e == DateOf(z, b)
<1>1. d \in Int /\ e \in Int
  BY DateOfBucket
<1>2. /\ Local(z, a) \in Int /\ Local(z, b) \in Int /\ Timestamp(z, Midnight(d)) \in Int
      /\ a >= Timestamp(z, Midnight(d)) <=> Local(z, a) >= Midnight(d)
      /\ b >= Timestamp(z, Midnight(d)) <=> Local(z, b) >= Midnight(d)
  <2> HIDE DEF d, e
  <2> QED BY <1>1, FromMidnightOn
<1>3. d * DayLength \in Int /\ (e + 1) * DayLength \in Int
  <2> HIDE DEF d, e
  <2>1. e + 1 \in Int
    BY <1>1
  <2> QED BY <1>1, <2>1, NoRemainder, QueriesAssumption
<1>4. d * DayLength <= Local(z, a)
  <2>1. Local(z, a) \div DayLength = d
    BY DEF DateOf
  <2> HIDE DEF d, e
  <2> QED BY <1>1, <1>2, <2>1, Enclosed, QueriesAssumption
<1>5. Local(z, b) < (e + 1) * DayLength
  <2>1. Local(z, b) \div DayLength = e
    BY DEF DateOf
  <2> HIDE DEF d, e
  <2> QED BY <1>1, <1>2, <2>1, Enclosed, QueriesAssumption
<1> HIDE DEF d, e
<1>6. Local(z, b) >= d * DayLength
  BY <1>2, <1>3, <1>4 DEF Midnight
<1>7. ASSUME e < d PROVE FALSE
  <2>1. DayLength * e + DayLength <= DayLength * d
    BY <1>1, <1>7, Products, QueriesAssumption
  <2>2. DayLength * e + DayLength = (e + 1) * DayLength /\ DayLength * d = d * DayLength
    BY <1>1, QueriesAssumption
  <2>3. (e + 1) * DayLength <= d * DayLength
    BY <2>1, <2>2
  <2> QED BY <1>2, <1>3, <1>5, <1>6, <2>3
<1> QED BY <1>1, <1>7 DEF d, e

(* What the pass over the rows has gathered when it has seen some of them.  *)
SlotOf(z, step, b) == (TimeOf(z, b) \div step) * step
InSlot(z, step, s, k) == {b \in s : SlotOf(z, step, b) = k}
Slots(z, step, s) == {SlotOf(z, step, b) : b \in s}
PointOf(z, found, own) ==
  [total |-> Total(Restrict(found, own)), n |-> Cardinality(own),
   min |-> Min({found[b] : b \in own}), max |-> Max({found[b] : b \in own}),
   days |-> Cardinality({DateOf(z, b) : b \in own}), last |-> DateOf(z, Max(own))]
Points(z, found, step, s) ==
  [k \in Slots(z, step, s) |-> PointOf(z, found, InSlot(z, step, s, k))]

(* A larger number, put to a set, is its maximum, and the like.             *)
LEMMA Largest ==
  ASSUME NEW S \in SUBSET Int, NEW x \in S, \A y \in S : y <= x
  PROVE  Max(S) = x
<1>1. \A y \in S : x >= y
  OBVIOUS
<1>2. \A z \in S : (\A y \in S : z >= y) => z = x
  OBVIOUS
<1> QED BY <1>1, <1>2 DEF Max
LEMMA Least ==
  ASSUME NEW S \in SUBSET Int, NEW x \in S, \A y \in S : x <= y
  PROVE  Min(S) = x
<1>1. \A z \in S : (\A y \in S : z =< y) => z = x
  OBVIOUS
<1> QED BY <1>1 DEF Min
LEMMA OneMore ==
  ASSUME NEW S \in SUBSET Int, IsFiniteSet(S), S # {}, NEW x \in Int
  PROVE  /\ Min(S \cup {x}) = Min({Min(S), x})
         /\ Max(S \cup {x}) = Max({Max(S), x})
<1>1. /\ Max(S) \in S /\ \A y \in S : y <= Max(S)
      /\ Min(S) \in S /\ \A y \in S : Min(S) <= y
  BY Extremes
<1> DEFINE low == Min(S)
<1> DEFINE high == Max(S)
<1> HIDE DEF low, high
<1>2. /\ high \in S /\ high \in Int /\ \A y \in S : y <= high
      /\ low \in S /\ low \in Int /\ \A y \in S : low <= y
  BY <1>1 DEF low, high
<1>3. Max(S \cup {x}) = Max({high, x})
  <2>1. CASE x <= high
    <3>1. Max(S \cup {x}) = high
      BY <1>2, <2>1, Largest
    <3>2. Max({high, x}) = high
      BY <1>2, <2>1, Largest
    <3> QED BY <3>1, <3>2
  <2>2. CASE high <= x
    <3>1. Max(S \cup {x}) = x
      BY <1>2, <2>2, Largest
    <3>2. Max({high, x}) = x
      BY <1>2, <2>2, Largest
    <3> QED BY <3>1, <3>2
  <2> QED BY <1>2, <2>1, <2>2
<1>4. Min(S \cup {x}) = Min({low, x})
  <2>1. CASE low <= x
    <3>1. Min(S \cup {x}) = low
      BY <1>2, <2>1, Least
    <3>2. Min({low, x}) = low
      BY <1>2, <2>1, Least
    <3> QED BY <3>1, <3>2
  <2>2. CASE x <= low
    <3>1. Min(S \cup {x}) = x
      BY <1>2, <2>2, Least
    <3>2. Min({low, x}) = x
      BY <1>2, <2>2, Least
    <3> QED BY <3>1, <3>2
  <2> QED BY <1>2, <2>1, <2>2
<1> QED BY <1>3, <1>4 DEF low, high

(* The first row of a slot.                                                 *)
LEMMA FirstPoint ==
  ASSUME NEW z \in Zones, NEW found \in FiniteTables, NEW b \in DOMAIN found
  PROVE  PointOf(z, found, {b}) =
           [total |-> found[b], n |-> 1, min |-> found[b], max |-> found[b],
            days |-> 1, last |-> DateOf(z, b)]
<1>1. /\ \A x \in DOMAIN found : found[x] \in Int
      /\ DOMAIN found \subseteq Int /\ IsFiniteSet(DOMAIN found)
  BY TableMembers
<1>2. Total(Restrict(found, {b})) = found[b]
  <2>1. {b} \in SUBSET DOMAIN found /\ {} \in SUBSET DOMAIN found /\ {b} \ {b} = {} /\ b \in {b}
    OBVIOUS
  <2>2. Total(Restrict(found, {b})) = found[b] + Total(Restrict(found, {b} \ {b}))
    BY <1>1, <2>1, TotalSplit
  <2>3. Total(Restrict(found, {})) = 0
    BY <1>1, <2>1, TotalSplit
  <2>4. Total(Restrict(found, {b} \ {b})) = 0
    BY <2>1, <2>3, Zenon
  <2>5. found[b] \in Int
    BY <1>1
  <2> QED BY <2>2, <2>4, <2>5
<1>3. Cardinality({b}) = 1 /\ Cardinality({DateOf(z, b)}) = 1
  BY FS_Singleton
<1>4. {found[x] : x \in {b}} = {found[b]} /\ {DateOf(z, x) : x \in {b}} = {DateOf(z, b)}
  OBVIOUS
<1>5. Min({found[b]}) = found[b] /\ Max({found[b]}) = found[b] /\ Max({b}) = b
  <2>1. ASSUME NEW x \in Int PROVE Min({x}) = x /\ Max({x}) = x
    <3>1. {x} \in SUBSET Int /\ x \in {x} /\ \A y \in {x} : y <= x /\ x <= y
      OBVIOUS
    <3> QED BY <3>1, Least, Largest
  <2> QED BY <1>1, <2>1
<1> QED BY <1>2, <1>3, <1>4, <1>5 DEF PointOf

(* A later row of a slot: its date is new, or is that of the row before.    *)
LEMMA NextPoint ==
  ASSUME NEW z \in Zones, NEW found \in FiniteTables, NEW own \in SUBSET DOMAIN found,
         own # {}, NEW b \in DOMAIN found, \A x \in own : x < b
  PROVE  PointOf(z, found, own \cup {b}) =
           LET a == PointOf(z, found, own)
           IN  [total |-> a.total + found[b], n |-> a.n + 1,
                min |-> Min({a.min, found[b]}), max |-> Max({a.max, found[b]}),
                days |-> a.days + (IF DateOf(z, b) = a.last THEN 0 ELSE 1),
                last |-> DateOf(z, b)]
<1>1. /\ \A x \in DOMAIN found : found[x] \in Int
      /\ DOMAIN found \subseteq Int /\ IsFiniteSet(DOMAIN found)
  BY TableMembers
<1>2. /\ own \subseteq Int /\ IsFiniteSet(own) /\ b \in Int /\ b \notin own
      /\ own \cup {b} \in SUBSET DOMAIN found /\ (own \cup {b}) \ {b} = own
  <2>1. IsFiniteSet(own)
    BY <1>1, FS_Subset
  <2> QED BY <1>1, <2>1
<1>3. Total(Restrict(found, own \cup {b})) = Total(Restrict(found, own)) + found[b]
  <2>1. /\ Total(Restrict(found, own \cup {b}))
            = found[b] + Total(Restrict(found, (own \cup {b}) \ {b}))
        /\ Total(Restrict(found, own)) \in Int /\ found[b] \in Int
    BY <1>1, <1>2, TotalSplit
  <2>2. Total(Restrict(found, (own \cup {b}) \ {b})) = Total(Restrict(found, own))
    BY <1>2, Zenon
  <2> QED BY <2>1, <2>2
<1>4. Cardinality(own \cup {b}) = Cardinality(own) + 1
  BY <1>2, FS_AddElement
<1> DEFINE watts == {found[x] : x \in own}
<1> DEFINE dates == {DateOf(z, x) : x \in own}
<1>5. /\ {found[x] : x \in own \cup {b}} = watts \cup {found[b]}
      /\ {DateOf(z, x) : x \in own \cup {b}} = dates \cup {DateOf(z, b)}
  OBVIOUS
<1>6. watts \in SUBSET Int /\ IsFiniteSet(watts) /\ watts # {}
  <2>1. [x \in own |-> found[x]] \in Surjection(own, watts)
    BY DEF Surjection
  <2>2. IsFiniteSet(watts)
    BY <1>2, <2>1, FS_Surjection
  <2>3. watts \in SUBSET Int /\ watts # {}
    BY <1>1
  <2> QED BY <2>2, <2>3
<1>7. /\ Min(watts \cup {found[b]}) = Min({Min(watts), found[b]})
      /\ Max(watts \cup {found[b]}) = Max({Max(watts), found[b]})
  <2> HIDE DEF watts
  <2> QED BY <1>1, <1>6, OneMore
<1>8. Max(own \cup {b}) = b
  <2>1. \A x \in own \cup {b} : x <= b
    BY <1>2
  <2> QED BY <1>2, <2>1, Largest
<1>9. IsFiniteSet(dates)
  <2>1. [x \in own |-> DateOf(z, x)] \in Surjection(own, dates)
    BY DEF Surjection
  <2> QED BY <1>2, <2>1, FS_Surjection
<1>10. Cardinality(dates \cup {DateOf(z, b)})
         = Cardinality(dates) + (IF DateOf(z, b) = DateOf(z, Max(own)) THEN 0 ELSE 1)
  <2>1. Max(own) \in own /\ \A x \in own : x <= Max(own)
    BY <1>2, Extremes
  <2>2. CASE DateOf(z, b) = DateOf(z, Max(own))
    <3>1. dates \cup {DateOf(z, b)} = dates
      BY <2>1, <2>2
    <3>2. Cardinality(dates) \in Nat
      BY <1>9, FS_CardinalityType
    <3> QED BY <2>2, <3>1, <3>2
  <2>3. CASE DateOf(z, b) # DateOf(z, Max(own))
    <3>1. ASSUME NEW x \in own PROVE DateOf(z, x) # DateOf(z, b)
      <4> DEFINE m == Max(own)
      <4>1. m \in Int /\ x \in Int /\ x <= m /\ m <= b
        BY <1>2, <2>1
      <4> HIDE DEF m
      <4>2. /\ DateOf(z, x) \in Int /\ DateOf(z, m) \in Int /\ DateOf(z, b) \in Int
        BY <1>2, <4>1, DateOfBucket
      <4>3. DateOf(z, x) <= DateOf(z, m) /\ DateOf(z, m) <= DateOf(z, b)
        BY <1>2, <4>1, DatesInOrder
      <4>4. DateOf(z, b) # DateOf(z, m)
        BY <2>3 DEF m
      <4> QED BY <4>2, <4>3, <4>4
    <3>2. DateOf(z, b) \notin dates
      BY <3>1
    <3>3. Cardinality(dates \cup {DateOf(z, b)}) = Cardinality(dates) + 1
      <4> HIDE DEF dates
      <4> QED BY <1>9, <3>2, FS_AddElement
    <3> QED BY <2>3, <3>3
  <2> QED BY <2>2, <2>3
<1> DEFINE a == PointOf(z, found, own)
<1>11. /\ a.total = Total(Restrict(found, own)) /\ a.n = Cardinality(own)
       /\ a.min = Min(watts) /\ a.max = Max(watts)
       /\ a.days = Cardinality(dates) /\ a.last = DateOf(z, Max(own))
  BY DEF PointOf
<1>12. PointOf(z, found, own \cup {b}) =
         [total |-> Total(Restrict(found, own \cup {b})), n |-> Cardinality(own \cup {b}),
          min |-> Min(watts \cup {found[b]}), max |-> Max(watts \cup {found[b]}),
          days |-> Cardinality(dates \cup {DateOf(z, b)}), last |-> DateOf(z, Max(own \cup {b}))]
  BY <1>5 DEF PointOf
<1> HIDE DEF a, watts, dates
<1>13. PointOf(z, found, own \cup {b}) =
         [total |-> a.total + found[b], n |-> a.n + 1,
          min |-> Min({a.min, found[b]}), max |-> Max({a.max, found[b]}),
          days |-> a.days + (IF DateOf(z, b) = a.last THEN 0 ELSE 1),
          last |-> DateOf(z, b)]
  BY <1>3, <1>4, <1>7, <1>8, <1>10, <1>11, <1>12
<1> QED BY <1>13 DEF a

(* One row more.                                                            *)
LEMMA FoldedPoints ==
  ASSUME NEW z \in Zones, NEW found \in FiniteTables, NEW step \in Nat \ {0},
         NEW s \in SUBSET DOMAIN found, s # {}
  PROVE  LET b == Max(s)
         IN  Folded(z, found, step, Points(z, found, step, s \ {b}), b) = Points(z, found, step, s)
<1>1. /\ DOMAIN found \subseteq Int /\ IsFiniteSet(DOMAIN found)
  BY TableMembers
<1>2. Max(s) \in s /\ \A x \in s : x <= Max(s)
  <2>1. IsFiniteSet(s) /\ s \in SUBSET Int
    BY <1>1, FS_Subset
  <2> QED BY <2>1, Extremes
<1> DEFINE b == Max(s)
<1> DEFINE u == s \ {b}
<1> DEFINE k == SlotOf(z, step, b)
<1> DEFINE p == Points(z, found, step, u)
<1> DEFINE q == Points(z, found, step, s)
<1>3. /\ b \in DOMAIN found /\ b \in Int /\ b \in s /\ u \in SUBSET DOMAIN found /\ b \notin u
      /\ \A x \in u : x \in Int /\ x < b
  BY <1>1, <1>2
<1> DEFINE fresh == [total |-> found[b], n |-> 1, min |-> found[b], max |-> found[b],
                     days |-> 1, last |-> DateOf(z, b)]
<1> DEFINE a == p[k]
<1> DEFINE next == [total |-> a.total + found[b], n |-> a.n + 1,
                    min |-> Min({a.min, found[b]}), max |-> Max({a.max, found[b]}),
                    days |-> a.days + (IF DateOf(z, b) = a.last THEN 0 ELSE 1),
                    last |-> DateOf(z, b)]
<1>4. Folded(z, found, step, p, b) =
        [j \in DOMAIN p \cup {k} |->
           IF j = k THEN (IF k \notin DOMAIN p THEN fresh ELSE next) ELSE p[j]]
  BY DEF Folded, SlotOf
<1>5. /\ DOMAIN p = Slots(z, step, u) /\ DOMAIN q = Slots(z, step, s)
      /\ p = [j \in DOMAIN p |-> p[j]] /\ q = [j \in DOMAIN q |-> q[j]]
      /\ \A j \in DOMAIN p : p[j] = PointOf(z, found, InSlot(z, step, u, j))
      /\ \A j \in DOMAIN q : q[j] = PointOf(z, found, InSlot(z, step, s, j))
  BY DEF Points
<1>6. /\ Slots(z, step, s) = Slots(z, step, u) \cup {k}
      /\ \A j : j # k => InSlot(z, step, s, j) = InSlot(z, step, u, j)
      /\ InSlot(z, step, s, k) = InSlot(z, step, u, k) \cup {b}
  <2>1. s = u \cup {b} /\ k = SlotOf(z, step, b)
    BY <1>3
  <2> HIDE DEF u, b, k
  <2> QED BY <2>1 DEF Slots, InSlot
<1>7. k \in Slots(z, step, u) <=> InSlot(z, step, u, k) # {}
  BY DEF Slots, InSlot
<1>8. CASE k \notin DOMAIN p
  <2>1. InSlot(z, step, s, k) = {b}
    BY <1>5, <1>6, <1>7, <1>8
  <2>2. q[k] = fresh
    <3>1. q[k] = PointOf(z, found, {b})
      BY <1>5, <1>6, <2>1
    <3> QED BY <1>3, <3>1, FirstPoint
  <2> HIDE DEF p, q, fresh, k
  <2>3. DOMAIN q = DOMAIN p \cup {k}
    BY <1>5, <1>6
  <2>4. \A j \in DOMAIN p : j # k /\ q[j] = p[j]
    BY <1>5, <1>6, <1>8, <2>3
  <2>5. q = [j \in DOMAIN p \cup {k} |-> IF j = k THEN fresh ELSE p[j]]
    BY <1>5, <2>2, <2>3, <2>4
  <2> QED BY <1>4, <1>8, <2>5 DEF p, q
<1>9. CASE k \in DOMAIN p
  <2> DEFINE own == InSlot(z, step, u, k)
  <2>1. /\ own \in SUBSET DOMAIN found /\ own # {} /\ \A x \in own : x < b
    BY <1>3, <1>5, <1>7, <1>9 DEF InSlot
  <2>2. q[k] = next
    <3>1. q[k] = PointOf(z, found, own \cup {b}) /\ a = PointOf(z, found, own)
      BY <1>5, <1>6, <1>9
    <3> HIDE DEF own, a, q, p, k
    <3> QED BY <1>3, <2>1, <3>1, NextPoint
  <2> HIDE DEF p, q, next, k
  <2>3. DOMAIN q = DOMAIN p
    BY <1>5, <1>6, <1>9
  <2>4. \A j \in DOMAIN p : j # k => q[j] = p[j]
    BY <1>5, <1>6, <2>3
  <2>5. q = [j \in DOMAIN p \cup {k} |-> IF j = k THEN next ELSE p[j]]
    BY <1>5, <1>9, <2>2, <2>3, <2>4
  <2> QED BY <1>4, <1>9, <2>5 DEF p, q
<1> QED BY <1>8, <1>9

ProfileFn(z, found, step) ==
  CHOOSE f : f = [s \in SUBSET DOMAIN found |->
                    IF s = {} THEN <<>> ELSE Folded(z, found, step, f[s \ {Max(s)}], Max(s))]

LEMMA ProfileIsFold ==
  ASSUME NEW z, NEW db, NEW range, NEW step
  PROVE  AverageProfile(z, db, range, step) =
           ProfileFn(z, Rows(db, range), step)[DOMAIN Rows(db, range)]
BY DEF AverageProfile, ProfileFn, MapThenFoldSet

(* What the pass yields, whatever the rows are.                             *)
LEMMA ProfileIs ==
  ASSUME NEW z \in Zones, NEW db \in FiniteTables, NEW range, NEW step \in Nat \ {0}
  PROVE  AverageProfile(z, db, range, step) =
           Points(z, Rows(db, range), step, DOMAIN Rows(db, range))
<1> DEFINE found == Rows(db, range)
<1> DEFINE D == DOMAIN found
<1>1. found \in FiniteTables
  BY RowsAreTables
<1>2. IsFiniteSet(D) /\ D \subseteq Int
  BY <1>1, TableMembers
<1> DEFINE h == ProfileFn(z, found, step)
<1>3. AverageProfile(z, db, range, step) = h[D]
  BY ProfileIsFold
<1> HIDE DEF found
<1> DEFINE g == [s \in SUBSET D |-> Points(z, found, step, s)]
<1>4. Points(z, found, step, {}) = <<>>
  BY DEF Points, Slots
<1>5. ASSUME NEW s \in SUBSET D, s # {}
      PROVE  /\ Max(s) \in s /\ s \ {Max(s)} \in SUBSET D
             /\ Points(z, found, step, s) =
                  Folded(z, found, step, Points(z, found, step, s \ {Max(s)}), Max(s))
  <2>1. IsFiniteSet(s) /\ s \in SUBSET Int
    BY <1>2, FS_Subset
  <2>2. Max(s) \in s
    BY <1>5, <2>1, Extremes
  <2> QED BY <1>1, <1>5, <2>2, FoldedPoints
<1>6. g = [s \in SUBSET D |->
             IF s = {} THEN <<>> ELSE Folded(z, found, step, g[s \ {Max(s)}], Max(s))]
  <2>1. ASSUME NEW s \in SUBSET D
        PROVE  Points(z, found, step, s) =
                 IF s = {} THEN <<>> ELSE Folded(z, found, step, g[s \ {Max(s)}], Max(s))
    <3>1. s # {} => g[s \ {Max(s)}] = Points(z, found, step, s \ {Max(s)})
      BY <1>5
    <3> QED BY <1>4, <1>5, <3>1
  <2> QED BY <2>1
<1>7. h = [s \in SUBSET D |->
             IF s = {} THEN <<>> ELSE Folded(z, found, step, h[s \ {Max(s)}], Max(s))]
  <2> HIDE DEF g
  <2> QED BY <1>6 DEF ProfileFn
<1> HIDE DEF h, g, D
<1> DEFINE good == {s \in SUBSET D : h[s] = Points(z, found, step, s)}
<1>8. ASSUME NEW s \in SUBSET D, \A x \in s : s \ {x} \in good PROVE s \in good
  <2>1. h[s] = IF s = {} THEN <<>> ELSE Folded(z, found, step, h[s \ {Max(s)}], Max(s))
    BY <1>7
  <2>2. s # {} => h[s \ {Max(s)}] = Points(z, found, step, s \ {Max(s)})
    BY <1>5, <1>8
  <2>3. h[s] = Points(z, found, step, s)
    BY <1>4, <1>5, <2>1, <2>2
  <2> QED BY <2>3
<1>9. \A s \in SUBSET D : (\A x \in s : s \ {x} \in good) => s \in good
  BY <1>8
<1> HIDE DEF good
<1>10. \A s \in SUBSET D : s \in good
  BY <1>2, <1>9, PartsInduction
<1>11. h[D] = Points(z, found, step, D)
  BY <1>10 DEF good
<1> QED BY <1>3, <1>11 DEF found, D
-----------------------------------------------------------------------------
(* A day and all later ones begin where the day before ends.                *)
LEMMA FromDateOn ==
  ASSUME NEW z \in Zones, NEW date \in Int, NEW b \in Int
  PROVE  /\ b >= DayBounds(z, date).start <=> date <= DateOf(z, b)
         /\ b < DayBounds(z, date).end <=> DateOf(z, b) <= date
<1>1. ASSUME NEW d \in Int
      PROVE  b >= Timestamp(z, Midnight(d)) <=> d <= DateOf(z, b)
  <2> DEFINE e == DateOf(z, b)
  <2>1. e \in Int /\ e = Local(z, b) \div DayLength
    BY DateOfBucket DEF DateOf
  <2>2. /\ Local(z, b) \in Int
        /\ b >= Timestamp(z, Midnight(d)) <=> Local(z, b) >= Midnight(d)
    BY FromMidnightOn
  <2> HIDE DEF e
  <2>3. e * DayLength <= Local(z, b) /\ Local(z, b) < (e + 1) * DayLength
    BY <2>1, <2>2, Enclosed, QueriesAssumption
  <2>4. d * DayLength \in Int /\ e * DayLength \in Int /\ (e + 1) * DayLength \in Int
    <3>1. e + 1 \in Int
      BY <2>1
    <3> QED BY <2>1, <3>1, NoRemainder, QueriesAssumption
  <2>5. CASE d = e
    BY <2>1, <2>2, <2>3, <2>4, <2>5 DEF Midnight, e
  <2>6. CASE d < e
    <3>1. DayLength * d + DayLength <= DayLength * e
      BY <2>1, <2>6, Products, QueriesAssumption
    <3>2. DayLength * d = d * DayLength /\ DayLength * e = e * DayLength /\ DayLength > 0
      BY <2>1, QueriesAssumption
    <3>3. d * DayLength <= e * DayLength
      BY <2>4, <3>1, <3>2, QueriesAssumption
    <3> QED BY <2>1, <2>2, <2>3, <2>4, <2>6, <3>3 DEF Midnight, e
  <2>7. CASE e < d
    <3>1. DayLength * e + DayLength <= DayLength * d
      BY <2>1, <2>7, Products, QueriesAssumption
    <3>2. DayLength * d = d * DayLength /\ DayLength * e + DayLength = (e + 1) * DayLength
      BY <2>1, QueriesAssumption
    <3>3. (e + 1) * DayLength <= d * DayLength
      BY <3>1, <3>2
    <3> QED BY <2>1, <2>2, <2>3, <2>4, <2>7, <3>3 DEF Midnight, e
  <2> QED BY <2>1, <2>5, <2>6, <2>7
<1>2. /\ DayBounds(z, date).start = Timestamp(z, Midnight(date))
      /\ DayBounds(z, date).end = Timestamp(z, Midnight(date + 1))
  BY DEF DayBounds, Midnight
<1>3. DateOf(z, b) \in Int /\ DayBounds(z, date).end \in Int
  BY DateOfBucket
<1>4. b >= Timestamp(z, Midnight(date + 1)) <=> date + 1 <= DateOf(z, b)
  BY <1>1
<1>5. b < DayBounds(z, date).end <=> DateOf(z, b) <= date
  BY <1>2, <1>3, <1>4
<1> QED BY <1>1, <1>2, <1>5

(* The rows of a period are those of its dates.                             *)
LEMMA RowsOfPeriod ==
  ASSUME NEW z \in Zones, NEW db \in FiniteTables, NEW p \in Spans
  PROVE  Rows(db, Window(z, p)) = Restrict(db, {b \in DOMAIN db : DateOf(z, b) \in p.f..p.t})
<1>1. /\ p.f \in Int /\ p.t \in Int /\ p # Everything
      /\ DOMAIN db \subseteq Int
  <2>1. p.f \in Int /\ p.t \in Int
    BY DEF Spans
  <2>2. p # Everything
    BY PageAssumption DEF Spans
  <2> QED BY <2>1, <2>2, TableMembers
<1> DEFINE begin == DayBounds(z, p.f).start
<1> DEFINE end == DayBounds(z, p.t).end
<1>2. Window(z, p) = [start |-> begin, end |-> end]
  BY <1>1 DEF Window
<1>3. begin \in Int /\ end \in Int
  BY <1>1, DateOfBucket
<1>4. Window(z, p) # Everything
  <2>1. [start |-> begin, end |-> end] \in [start : Int, end : Int]
    BY <1>3
  <2> QED BY <1>2, <2>1, QueriesAssumption
<1>5. /\ Window(z, p).start = begin /\ Window(z, p).end = end
  BY <1>2
<1>6. ASSUME NEW b \in DOMAIN db
      PROVE  b >= begin /\ b < end <=> DateOf(z, b) \in p.f..p.t
  <2>1. b \in Int
    BY <1>1
  <2>2. b >= begin <=> p.f <= DateOf(z, b)
    BY <1>1, <2>1, FromDateOn
  <2>3. b < end <=> DateOf(z, b) <= p.t
    BY <1>1, <2>1, FromDateOn
  <2>4. DateOf(z, b) \in Int
    BY <2>1, <1>1, DateOfBucket
  <2> QED BY <1>1, <2>2, <2>3, <2>4
<1> HIDE DEF begin, end
<1>7. {b \in DOMAIN db : b >= begin /\ b < end} = {b \in DOMAIN db : DateOf(z, b) \in p.f..p.t}
  BY <1>6
<1>8. Rows(db, Window(z, p)) = Restrict(db, {b \in DOMAIN db : b >= begin /\ b < end})
  BY <1>4, <1>5 DEF Rows
<1> QED BY <1>7, <1>8

(* A slot is an interval of the times of day.                               *)
LEMMA SlotIsInterval ==
  ASSUME NEW z \in Zones, NEW step \in Nat \ {0}, NEW a \in Int, NEW b \in Int
  PROVE  LET s == SlotOf(z, step, a)
         IN  s \in Int /\ (TimeOf(z, b) \in s..s + step - 1 <=> SlotOf(z, step, b) = s)
<1>1. \A x \in Int : TimeOf(z, x) \in Int
  <2> TAKE x \in Int
  <2>1. Local(z, x) \in Int
    BY FromMidnightOn
  <2> QED BY <2>1, Divided, QueriesAssumption DEF TimeOf
<1> DEFINE q == TimeOf(z, a) \div step
<1> DEFINE r == TimeOf(z, b) \div step
<1> DEFINE x == TimeOf(z, b)
<1>2. q \in Int /\ r \in Int /\ x \in Int /\ r = x \div step
  BY <1>1, Divided
<1>3. SlotOf(z, step, a) = q * step /\ SlotOf(z, step, b) = r * step
  BY DEF SlotOf
<1> HIDE DEF q, r, x
<1>4. q * step \in Int /\ r * step \in Int /\ (q + 1) * step = q * step + step
      /\ q * step = step * q /\ r * step = step * r
  BY <1>2, NoRemainder
<1>5. r = q <=> q * step <= x /\ x < (q + 1) * step
  BY <1>2, Enclosed
<1>6. x \in q * step..q * step + step - 1 <=> r = q
  BY <1>2, <1>4, <1>5
<1>7. r * step = q * step <=> r = q
  <2>1. ASSUME r < q PROVE r * step # q * step
    <3>1. step * r + step <= step * q
      BY <1>2, <2>1, Products
    <3> QED BY <1>4, <3>1
  <2>2. ASSUME q < r PROVE r * step # q * step
    <3>1. step * q + step <= step * r
      BY <1>2, <2>2, Products
    <3> QED BY <1>4, <3>1
  <2> QED BY <1>2, <2>1, <2>2
<1> QED BY <1>3, <1>4, <1>6, <1>7 DEF x

(* The points of a graph count every row once.                              *)
LEMMA PointsTotals ==
  ASSUME NEW z \in Zones, NEW found \in FiniteTables, NEW step \in Nat \ {0}
  PROVE  LET p == Points(z, found, step, DOMAIN found)
         IN  /\ Total([s \in DOMAIN p |-> p[s].n]) = Cardinality(DOMAIN found)
             /\ Total([s \in DOMAIN p |-> p[s].total]) = Total(found)
<1> DEFINE D == DOMAIN found
<1> DEFINE K == Slots(z, step, D)
<1> DEFINE c == [b \in D |-> SlotOf(z, step, b)]
<1> DEFINE p == Points(z, found, step, D)
<1>1. /\ IsFiniteSet(D) /\ D \subseteq Int /\ \A x \in D : found[x] \in Int
      /\ found = [x \in D |-> found[x]]
  BY TableMembers
<1>2. IsFiniteSet(K) /\ \A x \in D : c[x] \in K
  <2>1. c \in Surjection(D, K)
    BY DEF Surjection, Slots
  <2> QED BY <1>1, <2>1, FS_Surjection DEF Slots
<1>3. \A k : ClassOf(D, c, k) = InSlot(z, step, D, k)
  BY DEF ClassOf, InSlot
<1>4. DOMAIN p = K /\ \A k \in K : p[k] = PointOf(z, found, InSlot(z, step, D, k))
  BY DEF Points
<1>5. \A k \in K : /\ p[k].n = Cardinality(InSlot(z, step, D, k))
                    /\ p[k].total = Total(Restrict(found, InSlot(z, step, D, k)))
  <2> TAKE k \in K
  <2>1. p[k] = PointOf(z, found, InSlot(z, step, D, k))
    BY <1>4
  <2> HIDE DEF p
  <2> QED BY <2>1 DEF PointOf
<1>6. Total([s \in DOMAIN p |-> p[s].total]) = Total(found)
  <2>1. [s \in DOMAIN p |-> p[s].total] = ByClass(found, D, c, K)
    <3> HIDE DEF p, K, c
    <3> QED BY <1>3, <1>4, <1>5 DEF ByClass
  <2>2. Total(ByClass(found, D, c, K)) = Total(Restrict(found, D))
    <3> HIDE DEF K, c
    <3> QED BY <1>1, <1>2, TotalByClass
  <2>3. Restrict(found, D) = found
    BY <1>1, RestrictAll
  <2> QED BY <2>1, <2>2, <2>3
<1>7. Total([s \in DOMAIN p |-> p[s].n]) = Cardinality(D)
  <2> DEFINE one == [x \in D |-> 1]
  <2>1. DOMAIN one = D /\ \A x \in D : one[x] \in Int
    OBVIOUS
  <2>2. Restrict(one, D) = one
    <3>1. one = [x \in DOMAIN one |-> one[x]]
      OBVIOUS
    <3> HIDE DEF one
    <3> QED BY <2>1, <3>1, RestrictAll
  <2>3. ASSUME NEW k \in K PROVE Total(Restrict(one, ClassOf(D, c, k))) = p[k].n
    <3> DEFINE own == InSlot(z, step, D, k)
    <3>1. own \subseteq D /\ IsFiniteSet(own)
      <4>1. own \subseteq D
        BY DEF InSlot
      <4> QED BY <1>1, <4>1, FS_Subset
    <3>2. Restrict(one, own) = [x \in own |-> 1]
      <4> HIDE DEF own
      <4> QED BY <3>1 DEF Restrict
    <3>3. Total([x \in own |-> 1]) = Cardinality(own)
      <4> HIDE DEF own
      <4> QED BY <3>1, TotalOnes
    <3>4. ClassOf(D, c, k) = own
      BY <1>3
    <3>5. p[k].n = Cardinality(own)
      BY <1>5
    <3> HIDE DEF own, one, p, c, D
    <3> QED BY <3>2, <3>3, <3>4, <3>5
  <2>4. [s \in DOMAIN p |-> p[s].n] = ByClass(one, D, c, K)
    <3> HIDE DEF p, K, c, one
    <3> QED BY <1>4, <2>3 DEF ByClass
  <2>5. Total(ByClass(one, D, c, K)) = Total(Restrict(one, D))
    <3> HIDE DEF K, c, one
    <3> QED BY <1>1, <1>2, <2>1, TotalByClass
  <2>6. Total(one) = Cardinality(D)
    BY <1>1, TotalOnes
  <2> QED BY <2>2, <2>4, <2>5, <2>6
<1> QED BY <1>6, <1>7

(* Nor does the energy of the days leave a row out.                         *)
LEMMA DaysTotal ==
  ASSUME NEW z \in Zones, NEW db \in FiniteTables, NEW range, DOMAIN Rows(db, range) # {}
  PROVE  DayEnergy(z, db, range).total = Total(Rows(db, range))
<1> DEFINE found == Rows(db, range)
<1> DEFINE D == DOMAIN found
<1> DEFINE K == {DateOf(z, b) : b \in D}
<1> DEFINE c == [b \in D |-> DateOf(z, b)]
<1> DEFINE g == DaysWithData(z, db, range)
<1>0. found \in FiniteTables
  BY RowsAreTables
<1>1. /\ IsFiniteSet(D) /\ D \subseteq Int /\ \A x \in D : found[x] \in Int
      /\ found = [x \in D |-> found[x]]
  BY <1>0, TableMembers
<1>2. IsFiniteSet(K) /\ \A x \in D : c[x] \in K
  <2>1. IsFiniteSet({DateOf(z, b) : b \in DOMAIN found})
    BY <1>0, DatesOfBuckets
  <2> QED BY <2>1
<1>3. /\ DOMAIN g = K
      /\ \A d \in K : g[d].total = Total(Restrict(found, {b \in D : DateOf(z, b) = d}))
  BY DEF DaysWithData
<1>4. g # <<>>
  <2>1. K # {}
    OBVIOUS
  <2>2. DOMAIN <<>> = {}
    OBVIOUS
  <2> HIDE DEF g, K
  <2> QED BY <1>3, <2>1, <2>2
<1>5. DayEnergy(z, db, range).total = Total([d \in DOMAIN g |-> g[d].total])
  BY <1>4 DEF DayEnergy
<1>6. [d \in DOMAIN g |-> g[d].total] = ByClass(found, D, c, K)
  <2>1. \A d : ClassOf(D, c, d) = {b \in D : DateOf(z, b) = d}
    BY DEF ClassOf
  <2> HIDE DEF g, K, c
  <2> QED BY <1>3, <2>1 DEF ByClass
<1>7. Total(ByClass(found, D, c, K)) = Total(Restrict(found, D))
  <2> HIDE DEF K, c, found
  <2> QED BY <1>1, <1>2, TotalByClass
<1>8. Restrict(found, D) = found
  <2> HIDE DEF found
  <2> QED BY <1>1, RestrictAll
<1> QED BY <1>5, <1>6, <1>7, <1>8
-----------------------------------------------------------------------------
(* The invariant.                                                           *)

(* Every state of the database is finite, and so is the list of days.       *)
Kept == dbs # <<>> /\ dbs \in Seq(FiniteTables) /\ IsFiniteSet(days)
Typed == PageTypeOK /\ Kept

(* Nothing is asked for the half of the page that is not looked at.         *)
OneHalf ==
  /\ focus = "period" => chart = Unset /\ asked["day"] = <<>> /\ asked["days"] = <<>>
  /\ focus = "day" => /\ stats = Unset /\ button
                      /\ asked["stats"] = <<>> /\ asked["profile"] = <<>>

(* The inputs are not emptied.                                              *)
InputsFilled == inputs = Unset => period = Unset

(* Requests become late in their order.                                     *)
DayOrder ==
  /\ LateFirst(asked["day"])
  /\ \A i \in DOMAIN asked["day"] : asked["day"][i].about \in Int
InTurn == DayOrder /\ LateFirst(asked["stats"])

(* The selected day, and the period, are what the newest request is about,  *)
(* or are shown, unless an answer was lost or overtaken.                    *)
ChartFollows ==
  "day" \notin spoilt /\ chart # Unset =>
    /\ chart.date = cur
    /\ days # {} =>
         /\ chart.prev = (\E d \in days : d < cur /\ cur \in days)
         /\ chart.next = (\E d \in days : d > cur /\ cur \in days)
DayAwaited == Awaited(asked["day"], cur, ChartFollows)

Target == IF period = Unset THEN Everything ELSE period
StatsFollow == "stats" \notin spoilt /\ stats # Unset => stats.about = Target
StatsAwaited == Awaited(asked["stats"], Target, StatsFollow)

ButtonReturns == button \/ asked["profile"] # <<>>

(* The chart is the rows of its day.                                        *)
ChartIsTrue ==
  chart # Unset =>
    /\ chart.date \in Int
    /\ chart.seen[1] \in 1..Len(dbs) /\ chart.seen[2] \in 1..Len(dbs)
    /\ chart.axis = DayBounds(zone, chart.date)
    /\ chart.series = Rows(dbs[chart.seen[1]], chart.axis)
    /\ chart.meta = Summary(dbs[chart.seen[2]], chart.axis)

(* No answer that would change the inputs is awaited.                       *)
PeriodStays ==
  period # Unset /\ ~crossed =>
    ~Loading("all") /\ ~Loading("reset") /\ (~typed => inputs = period)

PageInv ==
  /\ Typed /\ OneHalf /\ InputsFilled /\ InTurn
  /\ DayAwaited /\ StatsAwaited /\ ButtonReturns /\ ChartIsTrue /\ PeriodStays
-----------------------------------------------------------------------------
LEMMA PanelNames ==
  /\ Panels = {"stats", "days", "day", "profile"}
  /\ DOMAIN Half = {"day", "period"}
  /\ Half["day"] = {"days", "day"} /\ Half["period"] = {"stats", "profile"}
  /\ PanelOf("all") = "stats" /\ PanelOf("reset") = "stats" /\ PanelOf("period") = "stats"
  /\ PanelOf("again") = "stats" /\ PanelOf("days") = "days" /\ PanelOf("day") = "day"
  /\ PanelOf("profile") = "profile"
BY DEF Panels, Half, PanelOf

LEMMA Abroad ==
  /\ Everything \in Abouts /\ Unset \in Abouts /\ Int \subseteq Abouts /\ Spans \subseteq Abouts
  /\ \A p \in Spans \cup {Everything}, s \in Steps : [period |-> p, step |-> s] \in Abouts
BY DEF Abouts

(* A request is added to its panel, if that is looked at.                   *)
LEMMA QueryAdds ==
  ASSUME NEW requests \in Waiting, NEW call \in Calls, NEW about \in Abouts,
         NEW excuse \in Excuses, Typed
  PROVE  /\ Asking(requests, Query(call, about, excuse)) \in Waiting
         /\ \A p \in Panels : Asking(requests, Query(call, about, excuse))[p] =
              IF p = PanelOf(call) /\ p \in Half[focus]
              THEN Append(requests[p], Query(call, about, excuse)) ELSE requests[p]
<1>1. dbs \in Seq(Tables) /\ dbs # <<>>
  BY DEF Typed, Kept, PageTypeOK
<1>2. Query(call, about, excuse) \in Requests /\ Query(call, about, excuse).call = call
  BY <1>1, QueryFields
<1> QED BY <1>2, AskingAdds

LEMMA NeighboursAreDays ==
  ASSUME Typed, NEW date, NEW n
  PROVE  Neighbours(date, n) \subseteq days
<1> DEFINE side == {d \in days : IF n = 1 THEN d > date ELSE d < date}
<1>1. days \subseteq Int /\ IsFiniteSet(days)
  BY DEF Typed, Kept, PageTypeOK
<1>2. side \in SUBSET Int /\ IsFiniteSet(side) /\ side \subseteq days
  BY <1>1, FS_Subset
<1>3. Neighbours(date, n) \subseteq {} \/ (side # {} /\ Neighbours(date, n) \subseteq {Min(side), Max(side)})
  BY DEF Neighbours
<1> HIDE DEF side
<1>4. side # {} => Min(side) \in side /\ Max(side) \in side
  BY <1>2, Extremes
<1> QED BY <1>2, <1>3, <1>4

LEMMA StartTyped ==
  ASSUME PageInit
  PROVE  Typed /\ asked \in Waiting
           /\ \A p \in Panels : asked[p] =
                IF p = "stats" /\ focus = "period" THEN <<Query("all", Everything, "none")>>
                ELSE IF p = "days" /\ focus = "day" THEN <<Query("days", Unset, "none")>>
                ELSE <<>>
<1>1. PICK db \in Databases : dbs = <<db>>
  BY DEF PageInit
<1>2. db \in FiniteTables
  <2>1. db \in [DOMAIN db -> Nat] /\ DOMAIN db \subseteq Int /\ IsFiniteSet(DOMAIN db)
    BY PageAssumption
  <2> QED BY <2>1, TableMembers
<1>3. dbs \in Seq(FiniteTables) /\ dbs \in Seq(Tables) /\ dbs # <<>>
  BY <1>1, <1>2 DEF FiniteTables
<1>4. IsFiniteSet({}) /\ days = {}
  BY FS_EmptySet DEF PageInit
<1>5. Min(Steps) \in Steps
  BY Extremes, PageAssumption
<1> DEFINE none == [p \in Panels |-> <<>>]
<1> DEFINE all == Query("all", Everything, "none")
<1> DEFINE dayList == Query("days", Unset, "none")
<1>6. /\ all \in Requests /\ all.call = "all"
      /\ dayList \in Requests /\ dayList.call = "days"
  <2>1. /\ "all" \in Calls /\ "days" \in Calls /\ Everything \in Abouts /\ Unset \in Abouts
        /\ TRUE \in BOOLEAN
    BY Abroad DEF Calls
  <2>2. all \in Requests /\ all.call = "all"
    BY <1>3, <2>1, QueryFields, NoExcuse
  <2>3. dayList \in Requests /\ dayList.call = "days"
    BY <1>3, <2>1, QueryFields, NoExcuse
  <2> QED BY <2>2, <2>3
<1>7. none \in Waiting
  BY DEF Waiting
<1>8. asked = Asking(Asking(none, all), dayList)
  BY DEF PageInit
<1>9. focus \in {"day", "period"}
  BY PanelNames DEF PageInit
<1> HIDE DEF all, dayList
<1>10. /\ Asking(none, all) \in Waiting
       /\ \A p \in Panels : Asking(none, all)[p] =
            IF p = "stats" /\ p \in Half[focus] THEN Append(<<>>, all) ELSE <<>>
  <2>1. \A p \in Panels : none[p] = <<>>
    OBVIOUS
  <2> HIDE DEF none
  <2>2. /\ Asking(none, all) \in Waiting
        /\ \A p \in Panels : Asking(none, all)[p] =
             IF p = PanelOf(all.call) /\ p \in Half[focus]
             THEN Append(none[p], all) ELSE none[p]
    BY <1>6, <1>7, AskingAdds
  <2>3. PanelOf(all.call) = "stats"
    BY <1>6, PanelNames
  <2> QED BY <2>1, <2>2, <2>3
<1>11. /\ asked \in Waiting
       /\ \A p \in Panels : asked[p] =
            IF p = "days" /\ p \in Half[focus]
            THEN Append(Asking(none, all)[p], dayList) ELSE Asking(none, all)[p]
  BY <1>6, <1>8, <1>10, AskingAdds, PanelNames
<1>12. \A p \in Panels : asked[p] =
         IF p = "stats" /\ focus = "period" THEN <<all>>
         ELSE IF p = "days" /\ focus = "day" THEN <<dayList>> ELSE <<>>
  <2>1. Append(<<>>, all) = <<all>> /\ Append(<<>>, dayList) = <<dayList>>
    OBVIOUS
  <2> QED BY <1>9, <1>10, <1>11, <2>1, PanelNames
<1>13. Typed
  <2>1. Kept
    BY <1>3, <1>4 DEF Kept
  <2>2. /\ zone \in Zones /\ focus \in DOMAIN Half /\ days \subseteq Int /\ cur \in Int \cup {Unset}
        /\ period \in Spans \cup {Unset} /\ inputs \in Spans \cup {Unset}
        /\ stepSize \in Steps /\ {button, typed, crossed} \subseteq BOOLEAN
        /\ spoilt \subseteq Panels /\ {clicks, refreshes, accidents} \subseteq Nat
    <3>1. button \in BOOLEAN /\ typed \in BOOLEAN /\ crossed \in BOOLEAN
      BY DEF PageInit
    <3>2. /\ zone \in Zones /\ focus \in DOMAIN Half /\ days = {} /\ cur = Unset
          /\ period = Unset /\ inputs = Unset /\ spoilt = {}
          /\ clicks = 0 /\ refreshes = 0 /\ accidents = 0 /\ stepSize = Min(Steps)
      BY DEF PageInit
    <3> QED BY <1>5, <3>1, <3>2
  <2> QED BY <1>3, <1>11, <2>1, <2>2 DEF Typed, PageTypeOK, Waiting
<1> QED BY <1>11, <1>12, <1>13 DEF all, dayList
-----------------------------------------------------------------------------
(* Types.                                                                   *)
LEMMA TypedNow ==
  ASSUME Typed
  PROVE  /\ asked \in Waiting /\ \A p \in Panels : asked[p] \in Seq(Requests)
         /\ dbs \in Seq(FiniteTables) /\ dbs # <<>>
         /\ Len(dbs) \in Nat \ {0} /\ \A i \in 1..Len(dbs) : dbs[i] \in FiniteTables
         /\ Last(dbs) \in FiniteTables
         /\ zone \in Zones /\ focus \in {"day", "period"}
         /\ days \subseteq Int /\ IsFiniteSet(days) /\ cur \in Int \cup {Unset}
         /\ period \in Spans \cup {Unset} /\ inputs \in Spans \cup {Unset}
         /\ stepSize \in Steps
         /\ button \in BOOLEAN /\ typed \in BOOLEAN /\ crossed \in BOOLEAN
         /\ spoilt \subseteq Panels
         /\ clicks \in Nat /\ refreshes \in Nat /\ accidents \in Nat
<1>1. dbs \in Seq(FiniteTables) /\ dbs # <<>>
  BY DEF Typed, Kept
<1>2. Len(dbs) \in Nat \ {0}
  <2>1. Len(dbs) \in Nat /\ Len(dbs) # 0
    BY <1>1, EmptySeq
  <2> QED BY <2>1
<1>3. \A i \in 1..Len(dbs) : dbs[i] \in FiniteTables
  BY <1>1, ElementOfSeq
<1>4. Last(dbs) \in FiniteTables
  BY <1>2, <1>3 DEF Last
<1>5. asked \in Waiting /\ \A p \in Panels : asked[p] \in Seq(Requests)
  BY DEF Typed, PageTypeOK, Waiting
<1>6. button \in BOOLEAN /\ typed \in BOOLEAN /\ crossed \in BOOLEAN
  BY DEF Typed, PageTypeOK
<1> QED BY <1>1, <1>2, <1>3, <1>4, <1>5, <1>6, PanelNames DEF Typed, Kept, PageTypeOK

LEMMA TypedAgain ==
  ASSUME Typed, asked' \in Waiting, dbs' \in Seq(FiniteTables), dbs' # <<>>,
         days' \subseteq Int, IsFiniteSet(days'), cur' \in Int \cup {Unset},
         period' \in Spans \cup {Unset}, inputs' \in Spans \cup {Unset},
         stepSize' \in Steps, button' \in BOOLEAN, typed' \in BOOLEAN, crossed' \in BOOLEAN,
         spoilt' \subseteq Panels, clicks' \in Nat, refreshes' \in Nat, accidents' \in Nat,
         zone' = zone, focus' = focus
  PROVE  Typed'
<1>1. dbs' \in Seq(Tables)
  <2>1. FiniteTables \subseteq Tables
    BY DEF FiniteTables
  <2> QED BY <2>1, SeqMonotonic
<1>2. zone' \in Zones /\ focus' \in DOMAIN Half
  BY DEF Typed, PageTypeOK
<1>3. {button', typed', crossed'} \subseteq BOOLEAN
  OBVIOUS
<1>4. {clicks', refreshes', accidents'} \subseteq Nat
  OBVIOUS
<1>5. Kept'
  BY DEF Kept
<1>6. PageTypeOK'
  BY <1>1, <1>2, <1>3, <1>4 DEF PageTypeOK, Waiting
<1> QED BY <1>5, <1>6 DEF Typed

LEMMA RecordTyped ==
  ASSUME Typed, NEW b \in NewBuckets, NEW w \in Watts, Record(b, w)
  PROVE  Typed' /\ \E grown \in FiniteTables : dbs' = Append(dbs, grown)
<1>1. b \in Int /\ w \in Nat
  BY PageAssumption
<1> DEFINE grown == [x \in DOMAIN Last(dbs) \cup {b} |-> IF x = b THEN w ELSE Last(dbs)[x]]
<1>2. grown \in FiniteTables
  BY <1>1, ChangedTable, TypedNow
<1>3. dbs' = Append(dbs, grown)
  BY DEF Record
<1>4. accidents' = accidents + 1
  BY DEF Record, Accident
<1>5. dbs' \in Seq(FiniteTables) /\ dbs' # <<>> /\ accidents' \in Nat
  <2> HIDE DEF grown
  <2>1. dbs \in Seq(FiniteTables)
    BY TypedNow
  <2>2. accidents \in Nat
    BY TypedNow
  <2>3. Append(dbs, grown) \in Seq(FiniteTables) /\ Append(dbs, grown) # <<>>
    BY <1>2, <2>1, AppendProperties
  <2> QED BY <1>3, <1>4, <2>2, <2>3
<1>6. /\ UNCHANGED <<zone, focus, asked, days, cur, period, inputs, stepSize, button, spoilt,
                     typed, crossed, clicks, refreshes>>
  BY DEF Record, setting, page
<1>7. Typed'
  BY <1>5, <1>6, TypedNow, TypedAgain
<1> QED BY <1>2, <1>3, <1>7

LEMMA DayLoadTyped ==
  ASSUME Typed, NEW date \in Int, NEW requests \in Waiting, LoadDay(date, requests)
  PROVE  /\ cur' = date /\ asked' \in Waiting
         /\ \A p \in Panels : asked'[p] =
              IF p = "day" /\ p \in Half[focus]
              THEN Append(requests[p], Query("day", date, "none")) ELSE requests[p]
<1>1. "day" \in Calls /\ date \in Abouts /\ TRUE \in BOOLEAN
  BY Abroad DEF Calls
<1>2. asked' = Asking(requests, Query("day", date, "none")) /\ cur' = date
  BY DEF LoadDay
<1>3. PanelOf("day") = "day"
  BY PanelNames
<1>4. /\ Asking(requests, Query("day", date, "none")) \in Waiting
      /\ \A p \in Panels : Asking(requests, Query("day", date, "none"))[p] =
           IF p = PanelOf("day") /\ p \in Half[focus]
           THEN Append(requests[p], Query("day", date, "none")) ELSE requests[p]
  BY <1>1, QueryAdds, NoExcuse
<1> QED BY <1>2, <1>3, <1>4

LEMMA PicksTyped ==
  ASSUME Typed, \/ \E d \in Offered : PickDay(d)
                \/ \E n \in {-1, 1} : StepDay(n)
  PROVE  /\ Typed'
         /\ \E date \in Int : LoadDay(date, asked)
         /\ focus = "day"
         /\ UNCHANGED <<setting, dbs, days, period, inputs, stepSize, chart, stats, profile,
                        button, spoilt, typed, crossed>>
<1>1. /\ \E date \in Int : LoadDay(date, asked)
      /\ Click("day")
      /\ UNCHANGED <<setting, dbs, days, period, inputs, stepSize, chart, stats, profile,
                     button, spoilt, typed, crossed>>
  <2>1. ASSUME NEW d \in Offered, PickDay(d) PROVE <1>1!:
    <3>1. d \in Int
      <4>1. {DateOf(zone, b) : b \in DOMAIN Last(dbs)} \subseteq Int
        BY TypedNow, DatesOfBuckets
      <4> QED BY <4>1, TypedNow DEF Offered
    <3> QED BY <2>1, <3>1 DEF PickDay
  <2>2. ASSUME NEW n \in {-1, 1}, StepDay(n) PROVE <1>1!:
    <3>1. PICK d \in Neighbours(cur, n) : LoadDay(d, asked)
      BY <2>2 DEF StepDay
    <3>2. d \in Int
      BY NeighboursAreDays, TypedNow
    <3> QED BY <2>2, <3>1, <3>2 DEF StepDay
  <2> QED BY <2>1, <2>2
<1>2. PICK date \in Int : LoadDay(date, asked)
  BY <1>1
<1>3. asked \in Waiting
  BY TypedNow
<1>4. cur' = date /\ asked' \in Waiting
  BY <1>2, <1>3, DayLoadTyped
<1>5. focus = "day" /\ clicks' = clicks + 1 /\ UNCHANGED <<refreshes, accidents>>
  BY <1>1 DEF Click
<1>6. clicks' \in Nat
  BY <1>5, TypedNow
<1>7. UNCHANGED <<zone, focus>>
  BY <1>1 DEF setting
<1>8. Typed'
  BY <1>1, <1>4, <1>5, <1>6, <1>7, TypedNow, TypedAgain
<1> QED BY <1>1, <1>5, <1>8

(* The other half: what a click asks there.                                 *)
LEMMA PeriodAsks ==
  ASSUME Typed, focus = "period", NEW requests \in Waiting, NEW call \in Calls,
         NEW about \in Abouts, NEW excuse \in Excuses,
         asked' = Asking(requests, Query(call, about, excuse)), PanelOf(call) \in {"stats", "profile"}
  PROVE  /\ asked' \in Waiting
         /\ \A p \in Panels : asked'[p] =
              IF p = PanelOf(call) THEN Append(requests[p], Query(call, about, excuse)) ELSE requests[p]
<1>1. /\ Asking(requests, Query(call, about, excuse)) \in Waiting
      /\ \A p \in Panels : Asking(requests, Query(call, about, excuse))[p] =
           IF p = PanelOf(call) /\ p \in Half[focus]
           THEN Append(requests[p], Query(call, about, excuse)) ELSE requests[p]
  BY QueryAdds
<1>2. Half[focus] = {"stats", "profile"}
  BY PanelNames
<1> QED BY <1>1, <1>2

LEMMA TypePeriodTyped ==
  ASSUME Typed, NEW p \in Periods, TypePeriod(p)
  PROVE  Typed'
<1>1. /\ clicks' = clicks + 1 /\ inputs' = p /\ typed' = TRUE
      /\ UNCHANGED <<zone, focus, dbs, asked, days, cur, period, stepSize, button, spoilt,
                     crossed, refreshes, accidents>>
  BY DEF TypePeriod, Click, setting
<1>2. p \in Spans
  BY PageAssumption DEF Spans
<1>3. clicks' \in Nat /\ typed' \in BOOLEAN
  BY <1>1, TypedNow
<1> QED BY <1>1, <1>2, <1>3, TypedNow, TypedAgain

LEMMA AverageTyped ==
  ASSUME Typed, Average
  PROVE  /\ Typed' /\ inputs \in Spans /\ focus = "period"
         /\ \A p \in Panels : asked'[p] =
              IF p = "stats" THEN Append(asked[p], Query("period", inputs, "none"))
              ELSE Overtaken(asked, {inputs})[p]
<1>1. /\ focus = "period" /\ inputs # Unset /\ period' = inputs /\ clicks' = clicks + 1
      /\ asked' = Asking(Overtaken(asked, {inputs}), Query("period", inputs, "none"))
      /\ typed' = FALSE /\ crossed' = (Loading("all") \/ Loading("reset"))
      /\ UNCHANGED <<zone, focus, dbs, days, cur, inputs, stepSize, button, spoilt,
                     refreshes, accidents>>
  BY DEF Average, Click, setting
<1>2. inputs \in Spans
  BY <1>1, TypedNow
<1>3. "period" \in Calls /\ inputs \in Abouts /\ TRUE \in BOOLEAN
  BY <1>2, Abroad DEF Calls
<1>4. /\ Overtaken(asked, {inputs}) \in Waiting
      /\ \A p \in Panels \ {"profile"} : Overtaken(asked, {inputs})[p] = asked[p]
  BY TypedNow, OvertakenKeeps
<1>5. /\ asked' \in Waiting
      /\ \A p \in Panels : asked'[p] =
           IF p = PanelOf("period")
           THEN Append(Overtaken(asked, {inputs})[p], Query("period", inputs, "none"))
           ELSE Overtaken(asked, {inputs})[p]
  <2>1. PanelOf("period") \in {"stats", "profile"}
    BY PanelNames
  <2>2. /\ focus = "period" /\ Overtaken(asked, {inputs}) \in Waiting
        /\ asked' = Asking(Overtaken(asked, {inputs}), Query("period", inputs, "none"))
    BY <1>1, <1>4
  <2> QED BY <1>3, <2>1, <2>2, PeriodAsks, NoExcuse
<1>6. (Loading("all") \/ Loading("reset")) \in BOOLEAN
  OBVIOUS
<1>7. clicks' \in Nat /\ typed' \in BOOLEAN /\ crossed' \in BOOLEAN
  <2>1. clicks' \in Nat /\ typed' \in BOOLEAN
    <3>1. clicks' = clicks + 1 /\ typed' = FALSE
      BY <1>1
    <3>2. clicks \in Nat
      BY TypedNow
    <3>3. clicks' \in Nat
      BY <3>1, <3>2
    <3>4. typed' \in BOOLEAN
      BY <3>1, Zenon
    <3> QED BY <3>3, <3>4
  <2>2. crossed' \in BOOLEAN
    BY <1>1, <1>6
  <2> QED BY <2>1, <2>2
<1>8. Typed'
  BY <1>1, <1>2, <1>5, <1>7, TypedNow, TypedAgain
<1> QED BY <1>1, <1>2, <1>4, <1>5, <1>8, PanelNames

LEMMA ResetTyped ==
  ASSUME Typed, Reset
  PROVE  /\ Typed' /\ focus = "period"
         /\ \A p \in Panels : asked'[p] =
              IF p = "stats" THEN Append(asked[p], Query("reset", Everything, "none"))
              ELSE asked[p]
<1>1. /\ focus = "period" /\ period' = Unset /\ clicks' = clicks + 1
      /\ asked' = Asking(asked, Query("reset", Everything, "none"))
      /\ UNCHANGED <<zone, focus, dbs, days, cur, inputs, stepSize, button, spoilt,
                     typed, crossed, refreshes, accidents>>
  BY DEF Reset, Click, setting
<1>2. "reset" \in Calls /\ Everything \in Abouts /\ TRUE \in BOOLEAN /\ asked \in Waiting
  BY Abroad, TypedNow DEF Calls
<1>3. /\ asked' \in Waiting
      /\ \A p \in Panels : asked'[p] =
           IF p = PanelOf("reset") THEN Append(asked[p], Query("reset", Everything, "none"))
           ELSE asked[p]
  BY <1>1, <1>2, PeriodAsks, PanelNames, NoExcuse
<1>4. clicks' \in Nat
  BY <1>1, TypedNow
<1>5. Typed'
  BY <1>1, <1>3, <1>4, TypedNow, TypedAgain
<1> QED BY <1>1, <1>3, <1>5, PanelNames

(* What excuses a graph that is asked for, if anything does.                *)
Plea == IF Applies THEN "none" ELSE "unapplied"

LEMMA ProfileAsks ==
  ASSUME Typed, focus = "period", NEW size \in Steps, LoadProfile(size)
  PROVE  /\ asked' \in Waiting /\ button' = FALSE
         /\ asked'["profile"] # <<>>
         /\ \A p \in Panels \ {"profile"} : asked'[p] = asked[p]
<1> DEFINE about == [period |-> IF inputs = Unset THEN Everything ELSE inputs, step |-> size]
<1>1. about \in Abouts
  <2>1. (IF inputs = Unset THEN Everything ELSE inputs) \in Spans \cup {Everything}
    BY TypedNow
  <2> QED BY <2>1, Abroad
<1>2. Plea \in Excuses
  BY DEF Plea, Excuses
<1>3. asked' = Asking(asked, Query("profile", about, Plea)) /\ button' = FALSE
  BY DEF LoadProfile, Plea
<1>4. "profile" \in Calls /\ asked \in Waiting /\ PanelOf("profile") = "profile"
  BY TypedNow, PanelNames DEF Calls
<1> HIDE DEF about
<1>5. /\ asked' \in Waiting
      /\ \A p \in Panels : asked'[p] =
           IF p = PanelOf("profile") THEN Append(asked[p], Query("profile", about, Plea))
           ELSE asked[p]
  BY <1>1, <1>2, <1>3, <1>4, PeriodAsks
<1>6. Append(asked["profile"], Query("profile", about, Plea)) # <<>>
  BY AppendProperties, QueryFields, TypedNow, <1>1, <1>2, <1>4, PanelNames
     DEF Typed, PageTypeOK
<1> QED BY <1>3, <1>4, <1>5, <1>6, PanelNames

LEMMA GraphsTyped ==
  ASSUME Typed, Graph \/ \E size \in Steps : ChooseStep(size)
  PROVE  /\ Typed' /\ focus = "period" /\ (button' \/ asked'["profile"] # <<>> \/ ~button)
         /\ \A p \in Panels \ {"profile"} : asked'[p] = asked[p]
         /\ asked["profile"] # <<>> => asked'["profile"] # <<>>
         /\ UNCHANGED <<setting, dbs, days, cur, period, inputs, chart, stats, profile,
                        spoilt, typed, crossed>>
<1>1. /\ \/ \E size \in Steps : LoadProfile(size)
         \/ UNCHANGED <<asked, button>>
      /\ Click("period") /\ stepSize' \in Steps
      /\ UNCHANGED <<setting, dbs, days, cur, period, inputs, chart, stats, profile,
                     spoilt, typed, crossed>>
  BY TypedNow DEF Graph, ChooseStep
<1>2. focus = "period" /\ clicks' = clicks + 1 /\ UNCHANGED <<refreshes, accidents>>
  BY <1>1 DEF Click
<1>3. clicks' \in Nat
  BY <1>2, TypedNow
<1>4. /\ asked' \in Waiting /\ button' \in BOOLEAN
      /\ button' \/ asked'["profile"] # <<>> \/ ~button
      /\ \A p \in Panels \ {"profile"} : asked'[p] = asked[p]
      /\ asked["profile"] # <<>> => asked'["profile"] # <<>>
  <2>1. CASE UNCHANGED <<asked, button>>
    BY <2>1, TypedNow
  <2>2. CASE \E size \in Steps : LoadProfile(size)
    <3>1. PICK size \in Steps : LoadProfile(size)
      BY <2>2
    <3>2. /\ asked' \in Waiting /\ button' = FALSE
          /\ asked'["profile"] # <<>>
          /\ \A p \in Panels \ {"profile"} : asked'[p] = asked[p]
      BY <1>2, <3>1, ProfileAsks
    <3> QED BY <3>2
  <2> QED BY <1>1, <2>1, <2>2
<1>5. UNCHANGED <<zone, focus>>
  BY <1>1 DEF setting
<1>6. Typed'
  BY <1>1, <1>2, <1>3, <1>4, <1>5, TypedNow, TypedAgain
<1> QED BY <1>1, <1>2, <1>4, <1>6

LEMMA RefreshTyped ==
  ASSUME Typed, Refresh, InputsFilled
  PROVE  /\ Typed' /\ period' = (IF period = Unset THEN Unset ELSE inputs)
         /\ asked'["day"] = asked["day"]
         /\ focus = "period" => asked'["days"] = asked["days"]
         /\ focus = "day" => asked'["stats"] = asked["stats"]
         /\ asked'["profile"] = <<>> <=> asked["profile"] = <<>>
         /\ focus = "period" => \E call \in {"all", "again"} :
              /\ asked'["stats"] = Append(asked["stats"],
                   Query(call, IF period = Unset THEN Everything ELSE inputs, "none"))
              /\ call = "all" => period = Unset
<1> DEFINE two == Asking(asked, Query("days", Unset, "none"))
<1> DEFINE call == IF period = Unset THEN "all" ELSE "again"
<1> DEFINE about == IF period = Unset THEN Everything ELSE inputs
<1> DEFINE base == IF period = Unset THEN two ELSE Overtaken(two, {inputs})
<1>1. /\ refreshes' = refreshes + 1
      /\ period' = (IF period = Unset THEN Unset ELSE inputs)
      /\ asked' = Asking(base, Query(call, about, "none"))
      /\ UNCHANGED <<setting, dbs, days, cur, inputs, stepSize, button, spoilt,
                     typed, crossed, clicks, accidents>>
  BY DEF Refresh
<1>2. /\ "days" \in Calls /\ call \in Calls /\ Unset \in Abouts /\ about \in Abouts
      /\ TRUE \in BOOLEAN /\ asked \in Waiting
      /\ PanelOf("days") = "days" /\ PanelOf(call) = "stats"
  BY TypedNow, Abroad, PanelNames DEF Calls
<1>3. /\ two \in Waiting
      /\ \A p \in Panels : two[p] =
           IF p = PanelOf("days") /\ p \in Half[focus]
           THEN Append(asked[p], Query("days", Unset, "none")) ELSE asked[p]
  BY <1>2, QueryAdds, NoExcuse
<1> HIDE DEF two
<1>4. /\ base \in Waiting
      /\ \A p \in Panels \ {"profile"} : base[p] = two[p]
      /\ base["profile"] = <<>> <=> two["profile"] = <<>>
  BY <1>3, OvertakenKeeps
<1> HIDE DEF base, call, about
<1>5. /\ asked' \in Waiting
      /\ \A p \in Panels : asked'[p] =
           IF p = PanelOf(call) /\ p \in Half[focus]
           THEN Append(base[p], Query(call, about, "none")) ELSE base[p]
  <2>1. /\ Asking(base, Query(call, about, "none")) \in Waiting
        /\ \A p \in Panels : Asking(base, Query(call, about, "none"))[p] =
             IF p = PanelOf(call) /\ p \in Half[focus]
             THEN Append(base[p], Query(call, about, "none")) ELSE base[p]
    BY <1>2, <1>4, QueryAdds, NoExcuse
  <2> QED BY <1>1, <2>1
<1>6. /\ asked'["day"] = asked["day"]
      /\ focus = "period" => asked'["days"] = asked["days"]
      /\ focus = "day" => asked'["stats"] = asked["stats"]
      /\ asked'["profile"] = <<>> <=> asked["profile"] = <<>>
      /\ focus = "period" =>
           asked'["stats"] = Append(asked["stats"], Query(call, about, "none"))
  BY <1>2, <1>3, <1>4, <1>5, PanelNames
<1>7. Typed'
  <2>1. refreshes' \in Nat
    BY <1>1, TypedNow
  <2>2. period' \in Spans \cup {Unset}
    BY <1>1, TypedNow
  <2>3. UNCHANGED <<zone, focus>>
    BY <1>1 DEF setting
  <2> QED BY <1>1, <1>5, <2>1, <2>2, <2>3, TypedNow, TypedAgain
<1>8. call \in {"all", "again"} /\ (call = "all" => period = Unset)
  BY DEF call
<1> QED BY <1>1, <1>6, <1>7, <1>8 DEF about
-----------------------------------------------------------------------------
(* Answers.                                                                 *)
LEMMA FailTyped ==
  ASSUME Typed, NEW panel \in Panels, NEW k \in DOMAIN asked[panel], Fail(panel, k)
  PROVE  Typed' /\ asked' = Without(panel, k)
<1>1. /\ accidents' = accidents + 1 /\ asked' = Without(panel, k)
      /\ button' = (button \/ panel = "profile")
      /\ spoilt' = IF asked[panel][k].late THEN spoilt ELSE spoilt \cup {panel}
      /\ UNCHANGED <<setting, dbs, days, cur, period, inputs, stepSize, typed, crossed,
                     clicks, refreshes>>
  BY DEF Fail, Accident
<1>2. Without(panel, k) \in Waiting
  BY TypedNow, WithoutCuts
<1>3. accidents' \in Nat
  <2>1. accidents \in Nat
    BY TypedNow
  <2> QED BY <1>1, <2>1
<1>4. button' \in BOOLEAN
  <2>1. (button \/ panel = "profile") \in BOOLEAN
    OBVIOUS
  <2> QED BY <1>1, <2>1, Zenon
<1>5. spoilt' \subseteq Panels
  BY <1>1, TypedNow
<1>6. UNCHANGED <<zone, focus>>
  BY <1>1 DEF setting
<1>7. Typed'
  <2>1. UNCHANGED <<dbs, days, cur, period, inputs, stepSize, typed, crossed, clicks, refreshes>>
    BY <1>1
  <2>2. asked' \in Waiting
    BY <1>1, <1>2
  <2> QED BY <1>3, <1>4, <1>5, <1>6, <2>1, <2>2, TypedNow, TypedAgain
<1> QED BY <1>1, <1>7

LEMMA FilledTypes ==
  ASSUME Typed, NEW db \in FiniteTables, NEW range
  PROVE  /\ Filled(Summary(db, range)) \in Spans \cup {Unset}
         /\ inputs \in Spans => Filled(Summary(db, range)) \in Spans
<1> DEFINE s == Summary(db, range)
<1>1. s.buckets \in Nat /\ (s.buckets > 0 => s.first \in Int /\ s.last \in Int)
  BY Summaries
<1>2. CASE s.buckets = 0
  BY <1>2, TypedNow DEF Filled
<1>3. CASE s.buckets # 0
  <2>1. s.first \in Int /\ s.last \in Int
    BY <1>1, <1>3
  <2>2. DateOf(zone, s.first) \in Int /\ DateOf(zone, s.last) \in Int
    BY <2>1, DateOfBucket, TypedNow
  <2> QED BY <1>3, <2>2 DEF Filled, WrittenOut, Spans
<1> QED BY <1>2, <1>3

LEMMA SummaryTyped ==
  ASSUME Typed, NEW k \in DOMAIN asked["stats"], NEW i \in 1..Len(dbs), NEW j \in 1..Len(dbs),
         ShowSummary(k, i, j)
  PROVE  /\ asked' \in Waiting /\ inputs' \in Spans \cup {Unset} /\ typed' \in BOOLEAN
         /\ asked'["stats"] = Cut(asked["stats"], k)
         /\ asked'["day"] = asked["day"] /\ asked'["days"] = asked["days"]
         /\ asked'["profile"] = <<>> <=> asked["profile"] = <<>>
         /\ stats'.about = asked["stats"][k].about
         /\ inputs \in Spans => inputs' \in Spans
         /\ asked["stats"][k].call \notin {"all", "reset"} =>
              inputs' = inputs /\ (typed' <=> typed)
         /\ UNCHANGED <<days, cur, period, stepSize, chart, button>>
<1> DEFINE r == asked["stats"][k]
<1> DEFINE answer == StatsOf(r, i, j)
<1> DEFINE filled == Filled(answer.summary)
<1> DEFINE all == r.call \in {"all", "reset"}
<1> DEFINE left == Without("stats", k)
<1>1. /\ stats' = answer
      /\ inputs' = IF all THEN filled ELSE inputs
      /\ asked' = IF all /\ period = Unset THEN Overtaken(left, {Everything, filled}) ELSE left
      /\ typed' = (typed /\ ~(all /\ period = Unset /\ answer.summary.buckets > 0))
      /\ UNCHANGED <<days, cur, period, stepSize, chart, button>>
  BY DEF ShowSummary, GraphAfter
<1>2. answer.about = r.about /\ answer.summary = Summary(dbs[i], Window(zone, r.about))
  BY DEF StatsOf
<1>3. filled \in Spans \cup {Unset} /\ (inputs \in Spans => filled \in Spans)
  <2>1. dbs[i] \in FiniteTables
    BY TypedNow
  <2>2. filled = Filled(Summary(dbs[i], Window(zone, r.about)))
    BY <1>2
  <2> QED BY <2>1, <2>2, FilledTypes
<1>4. /\ left \in Waiting
      /\ \A p \in Panels : left[p] = IF p = "stats" THEN Cut(asked[p], k) ELSE asked[p]
  BY TypedNow, WithoutCuts, PanelNames
<1> HIDE DEF filled, left, answer
<1>5. /\ Overtaken(left, {Everything, filled}) \in Waiting
      /\ \A p \in Panels \ {"profile"} : Overtaken(left, {Everything, filled})[p] = left[p]
      /\ Overtaken(left, {Everything, filled})["profile"] = <<>> <=> left["profile"] = <<>>
  BY <1>4, OvertakenKeeps
<1>6. /\ asked' \in Waiting
      /\ asked'["stats"] = Cut(asked["stats"], k)
      /\ asked'["day"] = asked["day"] /\ asked'["days"] = asked["days"]
      /\ asked'["profile"] = <<>> <=> asked["profile"] = <<>>
  BY <1>1, <1>4, <1>5, PanelNames
<1>7. typed' \in BOOLEAN
  <2>1. (typed /\ ~(all /\ period = Unset /\ answer.summary.buckets > 0)) \in BOOLEAN
    OBVIOUS
  <2> QED BY <1>1, <2>1, Zenon
<1>8. inputs' \in Spans \cup {Unset} /\ (inputs \in Spans => inputs' \in Spans)
  <2>1. inputs' = IF all THEN filled ELSE inputs
    BY <1>1
  <2> QED BY <1>3, <2>1, TypedNow
<1>9. stats'.about = r.about
  BY <1>1, <1>2
<1>10. ~all => inputs' = inputs /\ (typed' <=> typed)
  <2>1. ASSUME ~all PROVE inputs' = inputs
    BY <1>1, <2>1
  <2>2. ASSUME ~all PROVE typed' <=> typed
    <3>1. typed' <=> (typed /\ ~(all /\ period = Unset /\ answer.summary.buckets > 0))
      BY <1>1, Zenon
    <3> QED BY <2>2, <3>1
  <2> QED BY <2>1, <2>2
<1>11. UNCHANGED <<days, cur, period, stepSize, chart, button>>
  BY <1>1
<1> QED BY <1>6, <1>7, <1>8, <1>9, <1>10, <1>11

LEMMA KnownDaysAre ==
  ASSUME Typed, NEW i \in 1..Len(dbs)
  PROVE  KnownDays(i) \subseteq Int /\ IsFiniteSet(KnownDays(i))
<1>1. dbs[i] \in FiniteTables /\ zone \in Zones
  BY TypedNow
<1>2. KnownDays(i) = {DateOf(zone, b) : b \in DOMAIN dbs[i]}
  BY DEF KnownDays, DaysWithData, Rows
<1> QED BY <1>1, <1>2, DatesOfBuckets

LEMMA DaysTyped ==
  ASSUME Typed, NEW k \in DOMAIN asked["days"], NEW i \in 1..Len(dbs), ShowDays(k, i)
  PROVE  /\ asked' \in Waiting /\ days' \subseteq Int /\ IsFiniteSet(days')
         /\ cur' \in Int \cup {Unset}
         /\ \A p \in {"stats", "profile"} : asked'[p] = asked[p]
         /\ \/ days' = {} /\ cur' = cur /\ asked'["day"] = asked["day"]
            \/ /\ cur' \in Int
               /\ "day" \in Half[focus] =>
                    asked'["day"] = Append(asked["day"], Query("day", cur', "none"))
         /\ UNCHANGED <<period, inputs, stepSize, chart, stats, profile, button, typed>>
<1> DEFINE left == Without("days", k)
<1>1. /\ days' = KnownDays(i)
      /\ IF KnownDays(i) = {} THEN asked' = left /\ UNCHANGED cur
         ELSE LoadDay(Max(KnownDays(i)), left)
      /\ UNCHANGED <<period, inputs, stepSize, chart, stats, profile, button, typed>>
  BY DEF ShowDays
<1>2. KnownDays(i) \subseteq Int /\ IsFiniteSet(KnownDays(i))
  BY KnownDaysAre
<1>3. /\ left \in Waiting
      /\ \A p \in Panels : left[p] = IF p = "days" THEN Cut(asked[p], k) ELSE asked[p]
  BY TypedNow, WithoutCuts, PanelNames
<1> HIDE DEF left
<1>4. CASE KnownDays(i) = {}
  <2>1. asked' = left /\ cur' = cur /\ days' = {}
    BY <1>1, <1>4
  <2> QED BY <1>1, <1>2, <1>3, <2>1, TypedNow, PanelNames
<1>5. CASE KnownDays(i) # {}
  <2>1. LoadDay(Max(KnownDays(i)), left)
    BY <1>1, <1>5
  <2>2. PICK date \in Int : date = Max(KnownDays(i))
    BY <1>2, <1>5, Extremes
  <2>3. LoadDay(date, left)
    BY <2>1, <2>2
  <2>4. /\ cur' = date /\ asked' \in Waiting
        /\ \A p \in Panels : asked'[p] =
              IF p = "day" /\ p \in Half[focus]
              THEN Append(left[p], Query("day", date, "none")) ELSE left[p]
    BY <1>3, <2>3, DayLoadTyped
  <2>5. \A p \in {"stats", "profile"} : asked'[p] = asked[p]
    BY <1>3, <2>4, PanelNames
  <2>6. "day" \in Half[focus] => asked'["day"] = Append(asked["day"], Query("day", date, "none"))
    BY <1>3, <2>4, PanelNames
  <2>7. cur' \in Int
    BY <2>4
  <2>8. "day" \in Half[focus] => asked'["day"] = Append(asked["day"], Query("day", cur', "none"))
    BY <2>4, <2>6
  <2> QED BY <1>1, <1>2, <2>4, <2>5, <2>7, <2>8
<1> QED BY <1>4, <1>5

LEMMA AnswerShows ==
  ASSUME Typed, NEW panel \in Panels, NEW k \in DOMAIN asked[panel], Answer(panel, k)
  PROVE  /\ \E i, j \in 1..Len(dbs) :
              \/ panel = "stats" /\ ShowSummary(k, i, j)
              \/ panel = "days" /\ ShowDays(k, i)
              \/ panel = "day" /\ ShowDay(k, i, j)
              \/ panel = "profile" /\ ShowProfile(k, i)
         /\ spoilt' = IF asked[panel][k].late THEN spoilt \cup {panel} ELSE spoilt \ {panel}
         /\ UNCHANGED <<zone, focus, dbs, crossed, clicks, refreshes, accidents>>
<1>1. PICK i \in asked[panel][k].since..Len(dbs), j \in asked[panel][k].since..Len(dbs) :
        \/ panel = "stats" /\ ShowSummary(k, i, j)
        \/ panel = "days" /\ ShowDays(k, i)
        \/ panel = "day" /\ ShowDay(k, i, j)
        \/ panel = "profile" /\ ShowProfile(k, i)
  BY DEF Answer
<1>2. asked[panel][k] \in Requests
  BY TypedNow, WithoutCuts
<1>3. asked[panel][k].since \in Nat \ {0} /\ Len(dbs) \in Nat
  BY <1>2, RequestFields, TypedNow
<1>4. i \in 1..Len(dbs) /\ j \in 1..Len(dbs)
  BY <1>3
<1>5. /\ spoilt' = IF asked[panel][k].late THEN spoilt \cup {panel} ELSE spoilt \ {panel}
      /\ UNCHANGED <<zone, focus, dbs, crossed, clicks, refreshes, accidents>>
  BY DEF Answer, setting, counters
<1> QED BY <1>1, <1>4, <1>5

LEMMA AnswerTyped ==
  ASSUME Typed, NEW panel \in Panels, NEW k \in DOMAIN asked[panel], Answer(panel, k)
  PROVE  Typed'
<1>1. PICK i, j \in 1..Len(dbs) :
         \/ panel = "stats" /\ ShowSummary(k, i, j)
         \/ panel = "days" /\ ShowDays(k, i)
         \/ panel = "day" /\ ShowDay(k, i, j)
         \/ panel = "profile" /\ ShowProfile(k, i)
  BY AnswerShows
<1>2. /\ spoilt' = IF asked[panel][k].late THEN spoilt \cup {panel} ELSE spoilt \ {panel}
      /\ UNCHANGED <<zone, focus, dbs, crossed, clicks, refreshes, accidents>>
  BY AnswerShows
<1>3. spoilt' \subseteq Panels
  BY <1>2, TypedNow
<1>4. Without(panel, k) \in Waiting
  BY TypedNow, WithoutCuts
<1>5. CASE panel = "stats" /\ ShowSummary(k, i, j)
  <2>1. /\ asked' \in Waiting /\ inputs' \in Spans \cup {Unset} /\ typed' \in BOOLEAN
        /\ UNCHANGED <<days, cur, period, stepSize, chart, button>>
    BY <1>5, SummaryTyped
  <2> QED BY <1>2, <1>3, <2>1, TypedNow, TypedAgain
<1>6. CASE panel = "days" /\ ShowDays(k, i)
  <2>1. /\ asked' \in Waiting /\ days' \subseteq Int /\ IsFiniteSet(days')
        /\ cur' \in Int \cup {Unset}
        /\ UNCHANGED <<period, inputs, stepSize, chart, stats, profile, button, typed>>
    BY <1>6, DaysTyped
  <2> QED BY <1>2, <1>3, <2>1, TypedNow, TypedAgain
<1>7. CASE panel = "day" /\ ShowDay(k, i, j)
  <2>1. /\ asked' = Without(panel, k)
        /\ UNCHANGED <<days, cur, period, inputs, stepSize, stats, profile, button, typed>>
    BY <1>7 DEF ShowDay
  <2> QED BY <1>2, <1>3, <1>4, <2>1, TypedNow, TypedAgain
<1>8. CASE panel = "profile" /\ ShowProfile(k, i)
  <2>1. /\ asked' = Without(panel, k) /\ button' = TRUE
        /\ UNCHANGED <<days, cur, period, inputs, stepSize, chart, stats, typed>>
    BY <1>8 DEF ShowProfile
  <2>2. button' \in BOOLEAN
    BY <2>1, Zenon
  <2> QED BY <1>2, <1>3, <1>4, <2>1, <2>2, TypedNow, TypedAgain
<1> QED BY <1>1, <1>5, <1>6, <1>7, <1>8

LEMMA StutterTyped ==
  ASSUME Typed, UNCHANGED pageVars
  PROVE  Typed'
<1>1. UNCHANGED <<zone, focus, dbs, asked, days, cur, period, inputs, stepSize, button, spoilt,
                  typed, crossed, clicks, refreshes, accidents>>
  BY DEF pageVars, setting, page, counters
<1> QED BY <1>1, TypedNow, TypedAgain
-----------------------------------------------------------------------------
(* What a step leaves alone.                                                *)
LEMMA DayLeft ==
  ASSUME asked'["day"] = asked["day"], "day" \notin spoilt' => "day" \notin spoilt,
         UNCHANGED <<cur, days, chart>>, DayAwaited
  PROVE  DayAwaited'
<1>1. ChartFollows => ChartFollows'
  BY DEF ChartFollows
<1> QED BY <1>1 DEF DayAwaited, Awaited

LEMMA StatsLeft ==
  ASSUME asked'["stats"] = asked["stats"], "stats" \notin spoilt' => "stats" \notin spoilt,
         UNCHANGED <<period, stats>>, StatsAwaited
  PROVE  StatsAwaited'
<1>1. Target' = Target /\ (StatsFollow => StatsFollow')
  BY DEF Target, StatsFollow
<1> QED BY <1>1 DEF StatsAwaited, Awaited

LEMMA ChartLeft ==
  ASSUME ChartIsTrue, UNCHANGED <<zone, dbs, chart>>
  PROVE  ChartIsTrue'
BY DEF ChartIsTrue

LEMMA PeriodLeft ==
  ASSUME PeriodStays, asked'["stats"] = asked["stats"],
         UNCHANGED <<period, crossed, inputs, typed>>
  PROVE  PeriodStays'
BY DEF PeriodStays, Loading

LEMMA OrderLeft ==
  ASSUME InTurn, asked'["day"] = asked["day"], asked'["stats"] = asked["stats"]
  PROVE  InTurn'
BY DEF InTurn, DayOrder

LEMMA LoadingMore ==
  ASSUME Typed, NEW r \in Requests, NEW call,
         asked'["stats"] = Append(asked["stats"], r), Loading(call)'
  PROVE  Loading(call) \/ r.call = call
<1> DEFINE q == asked["stats"]
<1>1. q \in Seq(Requests)
  BY TypedNow, PanelNames
<1>2. PICK i \in DOMAIN asked'["stats"] : asked'["stats"][i].call = call
  BY DEF Loading
<1>3. PICK s : s = Append(q, r)
  OBVIOUS
<1>4. /\ DOMAIN s = 1..Len(q) + 1 /\ Len(q) \in Nat /\ DOMAIN q = 1..Len(q)
      /\ \A n \in 1..Len(q) : s[n] = q[n]
      /\ s[Len(q) + 1] = r
  BY <1>1, <1>3, AppendProperties
<1>5. i \in DOMAIN s /\ s[i].call = call
  BY <1>2, <1>3
<1>6. CASE i = Len(q) + 1
  BY <1>4, <1>5, <1>6
<1>7. CASE i # Len(q) + 1
  <2>1. i \in DOMAIN q /\ q[i].call = call
    BY <1>4, <1>5, <1>7
  <2> QED BY <2>1 DEF Loading
<1> QED BY <1>6, <1>7

LEMMA LoadingLess ==
  ASSUME Typed, NEW k \in DOMAIN asked["stats"], NEW call,
         asked'["stats"] = Cut(asked["stats"], k), Loading(call)'
  PROVE  Loading(call)
<1> DEFINE q == asked["stats"]
<1>1. q \in Seq(Requests) /\ k \in 1..Len(q)
  BY TypedNow, WithoutCuts, PanelNames
<1>2. PICK i \in DOMAIN asked'["stats"] : asked'["stats"][i].call = call
  BY DEF Loading
<1>3. PICK s : s = Cut(q, k)
  OBVIOUS
<1>4. /\ s \in Seq(Requests) /\ Len(s) = Len(q) - 1
      /\ \A n \in 1..Len(q) - 1 :
           /\ n < k => s[n].call = q[n].call /\ s[n].late
           /\ n >= k => s[n] = q[n + 1]
  BY <1>1, <1>3, CutRequests
<1>5. i \in 1..Len(q) - 1 /\ s[i].call = call
  BY <1>2, <1>3, <1>4
<1>6. DOMAIN q = 1..Len(q) /\ Len(q) \in Nat /\ k \in Int /\ i \in Int
  BY <1>1, <1>5
<1>7. CASE i < k
  <2>1. i \in DOMAIN q /\ q[i].call = call
    BY <1>4, <1>5, <1>6, <1>7
  <2> QED BY <2>1 DEF Loading
<1>8. CASE ~(i < k)
  <2>1. i + 1 \in DOMAIN q
    BY <1>5, <1>6
  <2>2. s[i] = q[i + 1]
    BY <1>4, <1>5, <1>6, <1>8
  <2> QED BY <1>5, <2>1, <2>2 DEF Loading
<1> QED BY <1>7, <1>8

(* A newer request for the day, or for the statistics.                      *)
LEMMA DayAsked ==
  ASSUME Typed, InTurn, NEW date \in Int, cur' = date,
         asked'["day"] = Append(asked["day"], Query("day", date, "none"))
  PROVE  DayAwaited' /\ DayOrder' /\ asked'["day"] # <<>>
<1> DEFINE r == Query("day", date, "none")
<1>1. "day" \in Calls /\ date \in Abouts /\ TRUE \in BOOLEAN
  BY Abroad DEF Calls
<1>2. dbs \in Seq(Tables) /\ dbs # <<>>
  BY DEF Typed, Kept, PageTypeOK
<1>3. r \in Requests /\ ~r.late /\ r.about = date
  BY <1>1, <1>2, QueryFields, NoExcuse
<1>4. asked["day"] \in Seq(Requests)
  BY TypedNow, PanelNames
<1> HIDE DEF r
<1>5. PICK q : q = Append(asked["day"], r)
  OBVIOUS
<1>6. LateFirst(q) /\ q # <<>> /\ \A shown : Awaited(q, date, shown)
  <2>1. LateFirst(asked["day"])
    BY DEF InTurn, DayOrder
  <2>2. ASSUME NEW shown PROVE Awaited(q, date, shown)
    <3>1. Awaited(q, r.about, shown)
      BY <1>3, <1>4, <1>5, AppendAwaits
    <3> QED BY <1>3, <3>1
  <2> QED BY <1>3, <1>4, <1>5, <2>1, <2>2, AppendAwaits
<1>7. asked'["day"] = q
  BY <1>5 DEF r
<1>8. DayAwaited'
  BY <1>6, <1>7 DEF DayAwaited, Awaited
<1>9. \A i \in DOMAIN q : q[i].about \in Int
  <2>1. \A i \in DOMAIN asked["day"] : asked["day"][i].about \in Int
    BY DEF InTurn, DayOrder
  <2> QED BY <1>3, <1>4, <1>5, <2>1, AppendProperties
<1>10. DayOrder'
  BY <1>6, <1>7, <1>9 DEF DayOrder
<1> QED BY <1>6, <1>7, <1>8, <1>10

LEMMA StatsAsked ==
  ASSUME Typed, InTurn, NEW r \in Requests, ~r.late, r.about = Target',
         asked'["stats"] = Append(asked["stats"], r)
  PROVE  StatsAwaited' /\ LateFirst(asked["stats"])' /\ asked'["stats"] # <<>>
<1>1. asked["stats"] \in Seq(Requests)
  BY TypedNow, PanelNames
<1>2. PICK q : q = Append(asked["stats"], r)
  OBVIOUS
<1>3. LateFirst(q) /\ q # <<>> /\ \A shown : Awaited(q, r.about, shown)
  <2>1. LateFirst(asked["stats"])
    BY DEF InTurn
  <2> QED BY <1>1, <1>2, <2>1, AppendAwaits
<1>4. asked'["stats"] = q
  BY <1>2
<1>5. StatsAwaited'
  BY <1>3, <1>4 DEF StatsAwaited, Awaited
<1> QED BY <1>3, <1>4, <1>5
-----------------------------------------------------------------------------
(* Every action keeps the invariant.                                        *)
LEMMA RecordInv ==
  ASSUME PageInv, NEW b \in NewBuckets, NEW w \in Watts, Record(b, w)
  PROVE  PageInv'
<1>1. Typed /\ Typed' /\ \E grown \in FiniteTables : dbs' = Append(dbs, grown)
  BY RecordTyped DEF PageInv
<1>2. UNCHANGED <<zone, focus, asked, days, cur, period, inputs, stepSize, chart, stats,
                  profile, button, spoilt, typed, crossed>>
  BY DEF Record, setting, page
<1>3. Len(dbs') = Len(dbs) + 1 /\ Len(dbs) \in Nat /\ \A i \in 1..Len(dbs) : dbs'[i] = dbs[i]
  <2>1. PICK grown \in FiniteTables : dbs' = Append(dbs, grown)
    BY <1>1
  <2>2. dbs \in Seq(FiniteTables)
    BY <1>1, TypedNow
  <2> QED BY <2>1, <2>2, AppendProperties
<1>4. ChartIsTrue'
  <2> SUFFICES ASSUME chart' # Unset PROVE ChartIsTrue'
    BY DEF ChartIsTrue
  <2>1. /\ chart.date \in Int
        /\ chart.seen[1] \in 1..Len(dbs) /\ chart.seen[2] \in 1..Len(dbs)
        /\ chart.axis = DayBounds(zone, chart.date)
        /\ chart.series = Rows(dbs[chart.seen[1]], chart.axis)
        /\ chart.meta = Summary(dbs[chart.seen[2]], chart.axis)
    BY <1>2 DEF PageInv, ChartIsTrue
  <2>2. dbs'[chart.seen[1]] = dbs[chart.seen[1]] /\ dbs'[chart.seen[2]] = dbs[chart.seen[2]]
    BY <1>3, <2>1
  <2>3. chart.seen[1] \in 1..Len(dbs') /\ chart.seen[2] \in 1..Len(dbs')
    BY <1>3, <2>1
  <2> QED BY <1>2, <2>1, <2>2, <2>3 DEF ChartIsTrue
<1>5. OneHalf' /\ InputsFilled' /\ InTurn' /\ ButtonReturns'
  BY <1>2 DEF PageInv, OneHalf, InputsFilled, InTurn, DayOrder, ButtonReturns
<1>6. DayAwaited' /\ StatsAwaited' /\ PeriodStays'
  BY <1>2, DayLeft, StatsLeft, PeriodLeft DEF PageInv
<1> QED BY <1>1, <1>4, <1>5, <1>6 DEF PageInv

LEMMA PicksInv ==
  ASSUME PageInv, \/ \E d \in Offered : PickDay(d)
                  \/ \E n \in {-1, 1} : StepDay(n)
  PROVE  PageInv'
<1>1. /\ Typed /\ Typed' /\ focus = "day"
      /\ \E date \in Int : LoadDay(date, asked)
      /\ UNCHANGED <<setting, dbs, days, period, inputs, stepSize, chart, stats, profile,
                     button, spoilt, typed, crossed>>
  BY PicksTyped DEF PageInv
<1>2. PICK date \in Int : LoadDay(date, asked)
  BY <1>1
<1>3. cur' = date /\ \A p \in Panels : asked'[p] =
        IF p = "day" THEN Append(asked[p], Query("day", date, "none")) ELSE asked[p]
  BY <1>1, <1>2, TypedNow, DayLoadTyped, PanelNames
<1>4. /\ asked'["day"] = Append(asked["day"], Query("day", date, "none"))
      /\ asked'["stats"] = asked["stats"] /\ asked'["profile"] = asked["profile"]
      /\ asked'["days"] = asked["days"]
  BY <1>3, PanelNames
<1>5. zone' = zone /\ focus' = focus
  BY <1>1 DEF setting
<1>6. DayAwaited' /\ DayOrder'
  BY <1>1, <1>3, <1>4, DayAsked DEF PageInv
<1>7. StatsAwaited' /\ PeriodStays' /\ ChartIsTrue'
  BY <1>1, <1>4, <1>5, StatsLeft, PeriodLeft, ChartLeft DEF PageInv
<1>8. OneHalf' /\ InputsFilled' /\ ButtonReturns' /\ LateFirst(asked["stats"])'
  BY <1>1, <1>4, <1>5 DEF PageInv, OneHalf, InputsFilled, InTurn, DayOrder, ButtonReturns
<1>9. InTurn'
  BY <1>6, <1>8 DEF InTurn
<1> QED BY <1>1, <1>6, <1>7, <1>8, <1>9 DEF PageInv

LEMMA TypePeriodInv ==
  ASSUME PageInv, NEW p \in Periods, TypePeriod(p)
  PROVE  PageInv'
<1>1. Typed'
  BY TypePeriodTyped DEF PageInv
<1>2. /\ inputs' = p /\ typed' = TRUE
      /\ UNCHANGED <<zone, focus, dbs, asked, days, cur, period, stepSize, chart, stats, button,
                     spoilt, crossed>>
  BY DEF TypePeriod, setting
<1>3. p # Unset
  BY PageAssumption
<1>4. OneHalf' /\ InputsFilled' /\ InTurn' /\ ButtonReturns'
  BY <1>2, <1>3 DEF PageInv, OneHalf, InputsFilled, InTurn, DayOrder, ButtonReturns
<1>5. DayAwaited' /\ StatsAwaited' /\ ChartIsTrue'
  BY <1>2, DayLeft, StatsLeft, ChartLeft DEF PageInv
<1>6. PeriodStays'
  BY <1>2 DEF PageInv, PeriodStays, Loading
<1> QED BY <1>1, <1>4, <1>5, <1>6 DEF PageInv

LEMMA AverageInv ==
  ASSUME PageInv, Average
  PROVE  PageInv'
<1>1. /\ Typed /\ Typed' /\ inputs \in Spans /\ focus = "period"
      /\ \A p \in Panels : asked'[p] =
           IF p = "stats" THEN Append(asked[p], Query("period", inputs, "none"))
           ELSE Overtaken(asked, {inputs})[p]
  BY AverageTyped DEF PageInv
<1>2. /\ period' = inputs /\ typed' = FALSE
      /\ crossed' = (Loading("all") \/ Loading("reset"))
      /\ UNCHANGED <<zone, focus, dbs, days, cur, inputs, chart, stats, button, spoilt>>
  BY DEF Average, setting
<1>3. /\ \A p \in Panels \ {"profile"} : Overtaken(asked, {inputs})[p] = asked[p]
      /\ Overtaken(asked, {inputs})["profile"] = <<>> <=> asked["profile"] = <<>>
  BY <1>1, TypedNow, OvertakenKeeps
<1> DEFINE r == Query("period", inputs, "none")
<1>4. r \in Requests /\ ~r.late /\ r.about = inputs /\ r.call = "period"
  <2>1. "period" \in Calls /\ inputs \in Abouts /\ TRUE \in BOOLEAN
    BY <1>1, Abroad DEF Calls
  <2>2. dbs \in Seq(Tables) /\ dbs # <<>>
    BY <1>1 DEF Typed, Kept, PageTypeOK
  <2> QED BY <2>1, <2>2, QueryFields, NoExcuse
<1>5. /\ asked'["stats"] = Append(asked["stats"], r)
      /\ asked'["day"] = asked["day"] /\ asked'["days"] = asked["days"]
      /\ asked'["profile"] = <<>> <=> asked["profile"] = <<>>
  BY <1>1, <1>3, PanelNames
<1>6. inputs # Unset
  BY <1>1, PageAssumption DEF Spans
<1> HIDE DEF r
<1>7. r.about = Target'
  BY <1>2, <1>4, <1>6 DEF Target
<1>8. StatsAwaited' /\ LateFirst(asked["stats"])'
  BY <1>1, <1>4, <1>5, <1>7, StatsAsked DEF PageInv
<1>9. DayAwaited' /\ ChartIsTrue'
  BY <1>2, <1>5, DayLeft, ChartLeft DEF PageInv
<1>10. OneHalf' /\ InputsFilled' /\ ButtonReturns' /\ DayOrder'
  BY <1>1, <1>2, <1>5, <1>6 DEF PageInv, OneHalf, InputsFilled, InTurn, DayOrder, ButtonReturns
<1>11. PeriodStays'
  <2>1. ASSUME ~crossed' PROVE ~Loading("all")' /\ ~Loading("reset")'
    <3>1. ~Loading("all") /\ ~Loading("reset")
      BY <1>2, <2>1
    <3>2. ASSUME Loading("all")' PROVE FALSE
      BY <1>1, <1>4, <1>5, <3>1, <3>2, LoadingMore
    <3>3. ASSUME Loading("reset")' PROVE FALSE
      BY <1>1, <1>4, <1>5, <3>1, <3>3, LoadingMore
    <3> QED BY <3>2, <3>3
  <2>2. inputs' = period'
    BY <1>2
  <2> QED BY <2>1, <2>2 DEF PeriodStays
<1>12. InTurn'
  BY <1>8, <1>10 DEF InTurn
<1> QED BY <1>1, <1>8, <1>9, <1>10, <1>11, <1>12 DEF PageInv

LEMMA ResetInv ==
  ASSUME PageInv, Reset
  PROVE  PageInv'
<1>1. /\ Typed /\ Typed' /\ focus = "period"
      /\ \A p \in Panels : asked'[p] =
           IF p = "stats" THEN Append(asked[p], Query("reset", Everything, "none")) ELSE asked[p]
  BY ResetTyped DEF PageInv
<1>2. /\ period' = Unset
      /\ UNCHANGED <<zone, focus, dbs, days, cur, inputs, chart, stats, button, spoilt>>
  BY DEF Reset, setting
<1> DEFINE r == Query("reset", Everything, "none")
<1>3. r \in Requests /\ ~r.late /\ r.about = Everything
  <2>1. "reset" \in Calls /\ Everything \in Abouts /\ TRUE \in BOOLEAN
    BY Abroad DEF Calls
  <2>2. dbs \in Seq(Tables) /\ dbs # <<>>
    BY <1>1 DEF Typed, Kept, PageTypeOK
  <2> QED BY <2>1, <2>2, QueryFields, NoExcuse
<1>4. /\ asked'["stats"] = Append(asked["stats"], r)
      /\ asked'["day"] = asked["day"] /\ asked'["days"] = asked["days"]
      /\ asked'["profile"] = asked["profile"]
  BY <1>1, PanelNames
<1> HIDE DEF r
<1>5. r.about = Target'
  BY <1>2, <1>3 DEF Target
<1>6. StatsAwaited' /\ LateFirst(asked["stats"])'
  BY <1>1, <1>3, <1>4, <1>5, StatsAsked DEF PageInv
<1>7. DayAwaited' /\ ChartIsTrue'
  BY <1>2, <1>4, DayLeft, ChartLeft DEF PageInv
<1>8. OneHalf' /\ InputsFilled' /\ ButtonReturns' /\ DayOrder'
  BY <1>1, <1>2, <1>4 DEF PageInv, OneHalf, InputsFilled, InTurn, DayOrder, ButtonReturns
<1>9. PeriodStays'
  BY <1>2 DEF PeriodStays
<1>10. InTurn'
  BY <1>6, <1>8 DEF InTurn
<1> QED BY <1>1, <1>6, <1>7, <1>8, <1>9, <1>10 DEF PageInv

LEMMA GraphsInv ==
  ASSUME PageInv, Graph \/ \E size \in Steps : ChooseStep(size)
  PROVE  PageInv'
<1>1. /\ Typed /\ Typed' /\ focus = "period"
      /\ button' \/ asked'["profile"] # <<>> \/ ~button
      /\ \A p \in Panels \ {"profile"} : asked'[p] = asked[p]
      /\ asked["profile"] # <<>> => asked'["profile"] # <<>>
      /\ UNCHANGED <<setting, dbs, days, cur, period, inputs, chart, stats, profile,
                     spoilt, typed, crossed>>
  BY GraphsTyped DEF PageInv
<1>2. /\ asked'["stats"] = asked["stats"] /\ asked'["day"] = asked["day"]
      /\ asked'["days"] = asked["days"] /\ zone' = zone /\ focus' = focus
  BY <1>1, PanelNames DEF setting
<1>3. DayAwaited' /\ StatsAwaited' /\ ChartIsTrue' /\ PeriodStays'
  BY <1>1, <1>2, DayLeft, StatsLeft, ChartLeft, PeriodLeft DEF PageInv
<1>4. OneHalf' /\ InputsFilled' /\ InTurn' /\ ButtonReturns'
  BY <1>1, <1>2 DEF PageInv, OneHalf, InputsFilled, InTurn, DayOrder, ButtonReturns
<1> QED BY <1>1, <1>3, <1>4 DEF PageInv

LEMMA RefreshInv ==
  ASSUME PageInv, Refresh
  PROVE  PageInv'
<1>1. /\ Typed /\ Typed' /\ period' = (IF period = Unset THEN Unset ELSE inputs)
      /\ asked'["day"] = asked["day"]
      /\ focus = "period" => asked'["days"] = asked["days"]
      /\ focus = "day" => asked'["stats"] = asked["stats"]
      /\ asked'["profile"] = <<>> <=> asked["profile"] = <<>>
      /\ focus = "period" => \E call \in {"all", "again"} :
           /\ asked'["stats"] = Append(asked["stats"],
                Query(call, IF period = Unset THEN Everything ELSE inputs, "none"))
           /\ call = "all" => period = Unset
  BY RefreshTyped DEF PageInv
<1>2. UNCHANGED <<zone, focus, dbs, days, cur, inputs, chart, stats, button, spoilt, typed, crossed>>
  BY DEF Refresh, setting
<1>3. period # Unset => inputs # Unset
  BY DEF PageInv, InputsFilled
<1>4. DayAwaited' /\ ChartIsTrue' /\ InputsFilled'
  BY <1>1, <1>2, DayLeft, ChartLeft DEF PageInv, InputsFilled
<1>5. OneHalf' /\ ButtonReturns' /\ DayOrder'
  BY <1>1, <1>2 DEF PageInv, OneHalf, InTurn, DayOrder, ButtonReturns
<1>6. CASE focus = "day"
  <2>1. asked'["stats"] = <<>> /\ stats' = Unset /\ asked'["stats"] = asked["stats"]
    BY <1>1, <1>2, <1>6 DEF PageInv, OneHalf
  <2>2. StatsAwaited'
    BY <2>1 DEF StatsAwaited, StatsFollow, Awaited
  <2>3. InTurn'
    BY <1>5, <2>1 DEF PageInv, InTurn
  <2>4. PeriodStays'
    BY <1>1, <1>2, <2>1 DEF PageInv, PeriodStays, Loading
  <2> QED BY <1>1, <1>4, <1>5, <2>2, <2>3, <2>4 DEF PageInv
<1>7. CASE focus = "period"
  <2> DEFINE about == IF period = Unset THEN Everything ELSE inputs
  <2>1. PICK call \in {"all", "again"} :
           /\ asked'["stats"] = Append(asked["stats"], Query(call, about, "none"))
           /\ call = "all" => period = Unset
    BY <1>1, <1>7
  <2>2. about \in Abouts /\ call \in Calls /\ TRUE \in BOOLEAN
    BY <1>1, TypedNow, Abroad DEF Calls
  <2>3. PICK r : r = Query(call, about, "none")
    OBVIOUS
  <2>4. r \in Requests /\ ~r.late /\ r.about = about /\ r.call = call
    <3>1. dbs \in Seq(Tables) /\ dbs # <<>>
      BY <1>1 DEF Typed, Kept, PageTypeOK
    <3> QED BY <2>2, <2>3, <3>1, QueryFields, NoExcuse
  <2>5. asked'["stats"] = Append(asked["stats"], r)
    BY <2>1, <2>3
  <2>6. r.about = Target'
    BY <1>1, <1>3, <2>4 DEF Target
  <2>7. StatsAwaited' /\ LateFirst(asked["stats"])'
    BY <1>1, <2>4, <2>5, <2>6, StatsAsked DEF PageInv
  <2>8. InTurn'
    BY <1>5, <2>7 DEF InTurn
  <2>9. PeriodStays'
    <3> SUFFICES ASSUME period' # Unset, ~crossed'
                 PROVE  ~Loading("all")' /\ ~Loading("reset")' /\ inputs' = period'
      BY DEF PeriodStays
    <3>1. period # Unset /\ ~crossed
      BY <1>1, <1>2
    <3>2. ~Loading("all") /\ ~Loading("reset") /\ r.call = "again"
      BY <2>1, <2>4, <3>1 DEF PageInv, PeriodStays
    <3>3. ASSUME Loading("all")' PROVE FALSE
      BY <1>1, <2>4, <2>5, <3>2, <3>3, LoadingMore
    <3>4. ASSUME Loading("reset")' PROVE FALSE
      BY <1>1, <2>4, <2>5, <3>2, <3>4, LoadingMore
    <3> QED BY <1>1, <1>2, <3>1, <3>3, <3>4
  <2> QED BY <1>1, <1>4, <1>5, <2>7, <2>8, <2>9 DEF PageInv
<1> QED BY <1>1, <1>6, <1>7, TypedNow

(* A panel whose request is answered or fails.                              *)
LEMMA DayCut ==
  ASSUME PageInv, NEW k \in DOMAIN asked["day"], asked'["day"] = Cut(asked["day"], k),
         cur' = cur,
         asked["day"][k].late /\ ChartFollows => ChartFollows',
         ~asked["day"][k].late /\ asked["day"][k].about = cur => ChartFollows'
  PROVE  DayAwaited' /\ DayOrder'
<1> DEFINE q == asked["day"]
<1>1. q \in Seq(Requests) /\ k \in 1..Len(q)
  BY TypedNow, WithoutCuts, PanelNames DEF PageInv
<1>2. LateFirst(q) /\ \A i \in DOMAIN q : q[i].about \in Int
  BY DEF PageInv, InTurn, DayOrder
<1>3. PICK c : c = Cut(q, k)
  OBVIOUS
<1>4. ChartFollows \in BOOLEAN /\ ChartFollows' \in BOOLEAN
  BY DEF ChartFollows
<1>5. Awaited(q, cur, ChartFollows)
  BY DEF PageInv, DayAwaited
<1>6. PICK old \in BOOLEAN : old <=> ChartFollows
  BY <1>4
<1>7. PICK new \in BOOLEAN : new <=> ChartFollows'
  BY <1>4
<1>8. Awaited(q, cur, old)
  BY <1>5, <1>6 DEF Awaited
<1>9. Awaited(c, cur, new) /\ LateFirst(c)
  BY <1>1, <1>2, <1>3, <1>6, <1>7, <1>8, CutAwaits, CutKeepsLateFirst
<1>10. \A i \in DOMAIN c : c[i].about \in Int
  <2>1. /\ c \in Seq(Requests) /\ Len(c) = Len(q) - 1
        /\ \A i \in 1..Len(q) - 1 :
              /\ i < k => c[i].call = q[i].call /\ c[i].late /\ c[i].about = q[i].about
              /\ i >= k => c[i] = q[i + 1]
    BY <1>1, <1>3, CutRequests
  <2>2. DOMAIN q = 1..Len(q) /\ DOMAIN c = 1..Len(q) - 1 /\ Len(q) \in Nat /\ k \in Int
    BY <1>1, <2>1
  <2> TAKE i \in DOMAIN c
  <2>3. CASE i < k
    BY <1>2, <2>1, <2>2, <2>3
  <2>4. CASE ~(i < k)
    <3>1. i + 1 \in DOMAIN q /\ c[i] = q[i + 1]
      BY <2>1, <2>2, <2>4
    <3> QED BY <1>2, <3>1
  <2> QED BY <2>3, <2>4
<1>11. asked'["day"] = c
  BY <1>3
<1>12. DayOrder'
  BY <1>9, <1>10, <1>11 DEF DayOrder
<1>13. DayAwaited'
  BY <1>7, <1>9, <1>11 DEF DayAwaited, Awaited
<1> QED BY <1>12, <1>13

LEMMA StatsCut ==
  ASSUME PageInv, NEW k \in DOMAIN asked["stats"], asked'["stats"] = Cut(asked["stats"], k),
         period' = period,
         asked["stats"][k].late /\ StatsFollow => StatsFollow',
         ~asked["stats"][k].late /\ asked["stats"][k].about = Target => StatsFollow'
  PROVE  StatsAwaited' /\ LateFirst(asked["stats"])'
<1> DEFINE q == asked["stats"]
<1>1. q \in Seq(Requests) /\ k \in 1..Len(q)
  BY TypedNow, WithoutCuts, PanelNames DEF PageInv
<1>2. LateFirst(q)
  BY DEF PageInv, InTurn
<1>3. PICK c : c = Cut(q, k)
  OBVIOUS
<1>4. StatsFollow \in BOOLEAN /\ StatsFollow' \in BOOLEAN
  BY DEF StatsFollow
<1>5. Awaited(q, Target, StatsFollow) /\ Target' = Target
  BY DEF PageInv, StatsAwaited, Target
<1>6. PICK old \in BOOLEAN : old <=> StatsFollow
  BY <1>4
<1>7. PICK new \in BOOLEAN : new <=> StatsFollow'
  BY <1>4
<1>8. Awaited(q, Target, old)
  BY <1>5, <1>6 DEF Awaited
<1>9. Awaited(c, Target, new) /\ LateFirst(c)
  BY <1>1, <1>2, <1>3, <1>6, <1>7, <1>8, CutAwaits, CutKeepsLateFirst
<1>10. asked'["stats"] = c
  BY <1>3
<1>11. StatsAwaited'
  BY <1>5, <1>7, <1>9, <1>10 DEF StatsAwaited, Awaited
<1> QED BY <1>9, <1>10, <1>11

LEMMA FailInv ==
  ASSUME PageInv, NEW panel \in Panels, NEW k \in DOMAIN asked[panel], Fail(panel, k)
  PROVE  PageInv'
<1>1. Typed /\ Typed' /\ asked' = Without(panel, k)
  BY FailTyped DEF PageInv
<1>2. /\ button' = (button \/ panel = "profile")
      /\ spoilt' = IF asked[panel][k].late THEN spoilt ELSE spoilt \cup {panel}
      /\ UNCHANGED <<zone, focus, dbs, days, cur, period, inputs, chart, stats, typed, crossed>>
  BY DEF Fail, setting
<1>3. /\ \A p \in Panels : asked'[p] = IF p = panel THEN Cut(asked[p], k) ELSE asked[p]
      /\ asked[panel] # <<>>
  BY <1>1, TypedNow, WithoutCuts
<1>4. InputsFilled' /\ ChartIsTrue'
  BY <1>2, ChartLeft DEF PageInv, InputsFilled
<1>5. button => button'
  BY <1>2, Zenon
<1>6. panel = "profile" => button'
  BY <1>2, Zenon
<1>7. ButtonReturns'
  <2>1. CASE panel = "profile"
    BY <1>6, <2>1 DEF ButtonReturns
  <2>2. CASE panel # "profile"
    <3>1. asked'["profile"] = asked["profile"]
      BY <1>3, <2>2, PanelNames
    <3> QED BY <1>5, <3>1 DEF PageInv, ButtonReturns
  <2> QED BY <2>1, <2>2
<1>8. OneHalf'
  <2>1. ASSUME focus = "period"
        PROVE  chart' = Unset /\ asked'["day"] = <<>> /\ asked'["days"] = <<>>
    <3>1. chart = Unset /\ asked["day"] = <<>> /\ asked["days"] = <<>>
      BY <2>1 DEF PageInv, OneHalf
    <3>2. panel # "day" /\ panel # "days"
      BY <1>3, <3>1
    <3> QED BY <1>2, <1>3, <3>1, <3>2, PanelNames
  <2>2. ASSUME focus = "day"
        PROVE  stats' = Unset /\ button' /\ asked'["stats"] = <<>> /\ asked'["profile"] = <<>>
    <3>1. stats = Unset /\ button /\ asked["stats"] = <<>> /\ asked["profile"] = <<>>
      BY <2>2 DEF PageInv, OneHalf
    <3>2. panel # "stats" /\ panel # "profile"
      BY <1>3, <3>1
    <3> QED BY <1>2, <1>3, <1>5, <3>1, <3>2, PanelNames
  <2> QED BY <1>2, <2>1, <2>2 DEF OneHalf
<1>9. DayAwaited' /\ DayOrder'
  <2>1. CASE panel = "day"
    <3>1. k \in DOMAIN asked["day"] /\ asked'["day"] = Cut(asked["day"], k)
      BY <1>3, <2>1, PanelNames
    <3>2. asked["day"][k].late /\ ChartFollows => ChartFollows'
      BY <1>2, <2>1 DEF ChartFollows
    <3>3. ~asked["day"][k].late => ChartFollows'
      BY <1>2, <2>1 DEF ChartFollows
    <3> QED BY <1>2, <3>1, <3>2, <3>3, DayCut
  <2>2. CASE panel # "day"
    <3>1. asked'["day"] = asked["day"]
      BY <1>3, <2>2, PanelNames
    <3>2. "day" \notin spoilt' => "day" \notin spoilt
      BY <1>2
    <3>3. DayAwaited'
      BY <1>2, <3>1, <3>2, DayLeft DEF PageInv
    <3> QED BY <3>1, <3>3 DEF PageInv, InTurn, DayOrder
  <2> QED BY <2>1, <2>2
<1>10. StatsAwaited' /\ LateFirst(asked["stats"])' /\ PeriodStays'
  <2>1. CASE panel = "stats"
    <3>1. k \in DOMAIN asked["stats"] /\ asked'["stats"] = Cut(asked["stats"], k)
      BY <1>3, <2>1, PanelNames
    <3>2. asked["stats"][k].late /\ StatsFollow => StatsFollow'
      BY <1>2, <2>1 DEF StatsFollow, Target
    <3>3. ~asked["stats"][k].late => StatsFollow'
      BY <1>2, <2>1 DEF StatsFollow
    <3>4. StatsAwaited' /\ LateFirst(asked["stats"])'
      BY <1>2, <3>1, <3>2, <3>3, StatsCut
    <3>5. \A call : Loading(call)' => Loading(call)
      BY <1>1, <3>1, LoadingLess
    <3>6. PeriodStays'
      BY <1>2, <3>5 DEF PageInv, PeriodStays
    <3> QED BY <3>4, <3>6
  <2>2. CASE panel # "stats"
    <3>1. asked'["stats"] = asked["stats"]
      BY <1>3, <2>2, PanelNames
    <3>2. "stats" \notin spoilt' => "stats" \notin spoilt
      BY <1>2
    <3>3. StatsAwaited' /\ PeriodStays'
      BY <1>2, <3>1, <3>2, StatsLeft, PeriodLeft DEF PageInv
    <3> QED BY <3>1, <3>3 DEF PageInv, InTurn
  <2> QED BY <2>1, <2>2
<1>11. InTurn'
  BY <1>9, <1>10 DEF InTurn
<1> QED BY <1>1, <1>4, <1>7, <1>8, <1>9, <1>10, <1>11 DEF PageInv

LEMMA ShownSummaryInv ==
  ASSUME PageInv, NEW k \in DOMAIN asked["stats"], NEW i \in 1..Len(dbs), NEW j \in 1..Len(dbs),
         Answer("stats", k), ShowSummary(k, i, j)
  PROVE  PageInv'
<1>1. Typed /\ Typed'
  BY AnswerTyped, PanelNames DEF PageInv
<1>2. /\ spoilt' = IF asked["stats"][k].late THEN spoilt \cup {"stats"} ELSE spoilt \ {"stats"}
      /\ UNCHANGED <<zone, focus, dbs, crossed>>
  BY <1>1, AnswerShows, PanelNames
<1>3. /\ asked'["stats"] = Cut(asked["stats"], k)
      /\ asked'["day"] = asked["day"] /\ asked'["days"] = asked["days"]
      /\ asked'["profile"] = <<>> <=> asked["profile"] = <<>>
      /\ stats'.about = asked["stats"][k].about
      /\ inputs \in Spans => inputs' \in Spans
      /\ asked["stats"][k].call \notin {"all", "reset"} =>
           inputs' = inputs /\ (typed' <=> typed)
      /\ UNCHANGED <<days, cur, period, stepSize, chart, button>>
  BY <1>1, SummaryTyped
<1>4. focus = "period"
  <2>1. asked["stats"] # <<>>
    OBVIOUS
  <2> QED BY <1>1, <2>1, TypedNow DEF PageInv, OneHalf
<1>5. OneHalf' /\ ButtonReturns' /\ DayOrder'
  BY <1>2, <1>3, <1>4 DEF PageInv, OneHalf, InTurn, DayOrder, ButtonReturns
<1>6. InputsFilled'
  <2>1. \A s \in Spans : s # Unset
    BY PageAssumption DEF Spans
  <2>2. inputs' = Unset => inputs = Unset
    BY <1>1, <1>3, <2>1, TypedNow
  <2> QED BY <1>3, <2>2 DEF PageInv, InputsFilled
<1>7. DayAwaited' /\ ChartIsTrue'
  <2>1. "day" \notin spoilt' => "day" \notin spoilt
    BY <1>2
  <2> QED BY <1>2, <1>3, <2>1, DayLeft, ChartLeft DEF PageInv
<1>8. StatsAwaited' /\ LateFirst(asked["stats"])'
  <2>1. asked["stats"][k].late => StatsFollow'
    BY <1>2 DEF StatsFollow
  <2>2. asked["stats"][k].about = Target => StatsFollow'
    BY <1>3 DEF StatsFollow, Target
  <2> QED BY <1>3, <2>1, <2>2, StatsCut
<1>9. PeriodStays'
  <2> SUFFICES ASSUME period' # Unset, ~crossed'
               PROVE  ~Loading("all")' /\ ~Loading("reset")' /\ (~typed' => inputs' = period')
    BY DEF PeriodStays
  <2>1. ~Loading("all") /\ ~Loading("reset") /\ (~typed => inputs = period)
    BY <1>2, <1>3 DEF PageInv, PeriodStays
  <2>2. asked["stats"][k].call \notin {"all", "reset"}
    BY <2>1 DEF Loading
  <2>3. \A call : Loading(call)' => Loading(call)
    BY <1>1, <1>3, LoadingLess
  <2>4. inputs' = inputs /\ (typed' <=> typed) /\ period' = period
    BY <1>3, <2>2
  <2> QED BY <2>1, <2>3, <2>4
<1>10. InTurn'
  BY <1>5, <1>8 DEF InTurn
<1> QED BY <1>1, <1>5, <1>6, <1>7, <1>8, <1>9, <1>10 DEF PageInv

LEMMA ShownDaysInv ==
  ASSUME PageInv, NEW k \in DOMAIN asked["days"], NEW i \in 1..Len(dbs),
         Answer("days", k), ShowDays(k, i)
  PROVE  PageInv'
<1>1. Typed /\ Typed'
  BY AnswerTyped, PanelNames DEF PageInv
<1>2. /\ spoilt' = IF asked["days"][k].late THEN spoilt \cup {"days"} ELSE spoilt \ {"days"}
      /\ UNCHANGED <<zone, focus, dbs, crossed>>
  BY <1>1, AnswerShows, PanelNames
<1>3. /\ asked'["stats"] = asked["stats"] /\ asked'["profile"] = asked["profile"]
      /\ \/ days' = {} /\ cur' = cur /\ asked'["day"] = asked["day"]
         \/ /\ cur' \in Int
            /\ "day" \in Half[focus] =>
                 asked'["day"] = Append(asked["day"], Query("day", cur', "none"))
      /\ UNCHANGED <<period, inputs, stepSize, chart, stats, profile, button, typed>>
  BY <1>1, DaysTyped
<1>4. focus = "day" /\ "day" \in Half[focus]
  <2>1. asked["days"] # <<>>
    OBVIOUS
  <2> QED BY <1>1, <2>1, TypedNow, PanelNames DEF PageInv, OneHalf
<1>5. OneHalf' /\ ButtonReturns' /\ InputsFilled' /\ LateFirst(asked["stats"])'
  BY <1>2, <1>3, <1>4 DEF PageInv, OneHalf, InTurn, InputsFilled, ButtonReturns
<1>6. StatsAwaited' /\ ChartIsTrue' /\ PeriodStays'
  <2>1. "stats" \notin spoilt' => "stats" \notin spoilt
    BY <1>2
  <2> QED BY <1>2, <1>3, <2>1, StatsLeft, ChartLeft, PeriodLeft DEF PageInv
<1>7. DayAwaited' /\ DayOrder'
  <2>1. CASE days' = {} /\ cur' = cur /\ asked'["day"] = asked["day"]
    <3>1. ChartFollows => ChartFollows'
      BY <1>2, <1>3, <2>1 DEF ChartFollows
    <3>2. DayAwaited'
      BY <2>1, <3>1 DEF PageInv, DayAwaited, Awaited
    <3> QED BY <2>1, <3>2 DEF PageInv, InTurn, DayOrder
  <2>2. CASE /\ cur' \in Int
             /\ asked'["day"] = Append(asked["day"], Query("day", cur', "none"))
    <3>1. PICK date \in Int : date = cur'
      BY <2>2
    <3>2. cur' = date /\ asked'["day"] = Append(asked["day"], Query("day", date, "none"))
      BY <2>2, <3>1
    <3> QED BY <1>1, <3>2, DayAsked DEF PageInv
  <2> QED BY <1>3, <1>4, <2>1, <2>2
<1>8. InTurn'
  BY <1>5, <1>7 DEF InTurn
<1> QED BY <1>1, <1>5, <1>6, <1>7, <1>8 DEF PageInv

(* The buttons lead where the list does.                                    *)
LEMMA NeighboursExist ==
  ASSUME NEW date
  PROVE  /\ (Neighbours(date, -1) # {}) = (\E d \in days : d < date /\ date \in days)
         /\ (Neighbours(date, 1) # {}) = (\E d \in days : d > date /\ date \in days)
<1>1. Neighbours(date, -1) # {} <=> \E d \in days : d < date /\ date \in days
  <2> DEFINE side == {d \in days : d < date}
  <2>1. Neighbours(date, -1) = IF date \notin days \/ side = {} THEN {} ELSE {Max(side)}
    <3>1. ~(-1 = 1)
      OBVIOUS
    <3> QED BY <3>1 DEF Neighbours
  <2>2. side # {} <=> \E d \in days : d < date
    OBVIOUS
  <2> HIDE DEF side
  <2> QED BY <2>1, <2>2
<1>2. Neighbours(date, 1) # {} <=> \E d \in days : d > date /\ date \in days
  BY DEF Neighbours
<1>3. (Neighbours(date, -1) # {}) = (\E d \in days : d < date /\ date \in days)
  BY <1>1
<1>4. (Neighbours(date, 1) # {}) = (\E d \in days : d > date /\ date \in days)
  BY <1>2
<1> QED BY <1>3, <1>4

LEMMA ShownDayInv ==
  ASSUME PageInv, NEW k \in DOMAIN asked["day"], NEW i \in 1..Len(dbs), NEW j \in 1..Len(dbs),
         Answer("day", k), ShowDay(k, i, j)
  PROVE  PageInv'
<1>1. Typed /\ Typed'
  BY AnswerTyped, PanelNames DEF PageInv
<1>2. /\ spoilt' = IF asked["day"][k].late THEN spoilt \cup {"day"} ELSE spoilt \ {"day"}
      /\ UNCHANGED <<zone, focus, dbs, crossed>>
  BY <1>1, AnswerShows, PanelNames
<1> DEFINE date == asked["day"][k].about
<1>3. /\ chart' = DayOf(date, i, j)
      /\ asked' = Without("day", k)
      /\ UNCHANGED <<days, cur, period, inputs, stepSize, stats, profile, button, typed>>
  BY DEF ShowDay
<1>4. /\ asked'["day"] = Cut(asked["day"], k)
      /\ asked'["stats"] = asked["stats"] /\ asked'["profile"] = asked["profile"]
      /\ asked'["days"] = asked["days"]
  BY <1>1, <1>3, TypedNow, WithoutCuts, PanelNames
<1>5. focus = "day"
  <2>1. asked["day"] # <<>>
    OBVIOUS
  <2> QED BY <1>1, <2>1, TypedNow DEF PageInv, OneHalf
<1>6. OneHalf' /\ ButtonReturns' /\ InputsFilled' /\ LateFirst(asked["stats"])'
  BY <1>2, <1>3, <1>4, <1>5 DEF PageInv, OneHalf, InTurn, InputsFilled, ButtonReturns
<1>7. StatsAwaited' /\ PeriodStays'
  <2>1. "stats" \notin spoilt' => "stats" \notin spoilt
    BY <1>2
  <2> QED BY <1>2, <1>3, <1>4, <2>1, StatsLeft, PeriodLeft DEF PageInv
<1>8. date \in Int
  BY DEF PageInv, InTurn, DayOrder
<1>9. /\ chart'.date = date /\ chart'.axis = DayBounds(zone, date)
      /\ chart'.seen[1] = i /\ chart'.seen[2] = j
      /\ chart'.series = Rows(dbs[i], DayBounds(zone, date))
      /\ chart'.meta = Summary(dbs[j], DayBounds(zone, date))
      /\ chart'.prev = (Neighbours(date, -1) # {}) /\ chart'.next = (Neighbours(date, 1) # {})
  <2>1. \A x, y : <<x, y>>[1] = x /\ <<x, y>>[2] = y
    OBVIOUS
  <2> QED BY <1>3, <2>1 DEF DayOf
<1> HIDE DEF date
<1>10. ChartIsTrue'
  BY <1>2, <1>8, <1>9 DEF ChartIsTrue
<1>11. DayAwaited' /\ DayOrder'
  <2>1. asked["day"][k].late => ChartFollows'
    BY <1>2 DEF ChartFollows
  <2>2. asked["day"][k].about = cur => ChartFollows'
    <3> SUFFICES ASSUME date = cur PROVE ChartFollows'
      BY DEF date
    <3>1. /\ chart'.prev = (\E d \in days : d < date /\ date \in days)
          /\ chart'.next = (\E d \in days : d > date /\ date \in days)
      BY <1>9, NeighboursExist
    <3>2. chart'.date = cur'
      BY <1>3, <1>9
    <3>3. chart'.prev = (\E d \in days' : d < cur' /\ cur' \in days')
      BY <1>3, <3>1
    <3>4. chart'.next = (\E d \in days' : d > cur' /\ cur' \in days')
      BY <1>3, <3>1
    <3> QED BY <3>2, <3>3, <3>4 DEF ChartFollows
  <2> QED BY <1>3, <1>4, <2>1, <2>2, DayCut
<1>12. InTurn'
  BY <1>6, <1>11 DEF InTurn
<1> QED BY <1>1, <1>6, <1>7, <1>10, <1>11, <1>12 DEF PageInv

LEMMA ShownProfileInv ==
  ASSUME PageInv, NEW k \in DOMAIN asked["profile"], NEW i \in 1..Len(dbs),
         Answer("profile", k), ShowProfile(k, i)
  PROVE  PageInv'
<1>1. Typed /\ Typed'
  BY AnswerTyped, PanelNames DEF PageInv
<1>2. /\ spoilt' = IF asked["profile"][k].late THEN spoilt \cup {"profile"}
                   ELSE spoilt \ {"profile"}
      /\ UNCHANGED <<zone, focus, dbs, crossed>>
  BY <1>1, AnswerShows, PanelNames
<1>3. /\ button' = TRUE /\ asked' = Without("profile", k)
      /\ UNCHANGED <<days, cur, period, inputs, stepSize, chart, stats, typed>>
  BY DEF ShowProfile
<1>4. /\ asked'["day"] = asked["day"] /\ asked'["stats"] = asked["stats"]
      /\ asked'["days"] = asked["days"]
  BY <1>1, <1>3, TypedNow, WithoutCuts, PanelNames
<1>5. focus = "period"
  <2>1. asked["profile"] # <<>>
    OBVIOUS
  <2> QED BY <1>1, <2>1, TypedNow DEF PageInv, OneHalf
<1>6. OneHalf' /\ ButtonReturns' /\ InputsFilled' /\ InTurn'
  BY <1>2, <1>3, <1>4, <1>5
     DEF PageInv, OneHalf, InTurn, DayOrder, InputsFilled, ButtonReturns
<1>7. /\ "day" \notin spoilt' => "day" \notin spoilt
      /\ "stats" \notin spoilt' => "stats" \notin spoilt
  BY <1>2
<1>8. DayAwaited' /\ StatsAwaited' /\ ChartIsTrue' /\ PeriodStays'
  BY <1>2, <1>3, <1>4, <1>7, DayLeft, StatsLeft, ChartLeft, PeriodLeft DEF PageInv
<1> QED BY <1>1, <1>6, <1>8 DEF PageInv

LEMMA AnswerInv ==
  ASSUME PageInv, NEW panel \in Panels, NEW k \in DOMAIN asked[panel], Answer(panel, k)
  PROVE  PageInv'
<1>1. PICK i, j \in 1..Len(dbs) :
         \/ panel = "stats" /\ ShowSummary(k, i, j)
         \/ panel = "days" /\ ShowDays(k, i)
         \/ panel = "day" /\ ShowDay(k, i, j)
         \/ panel = "profile" /\ ShowProfile(k, i)
  BY AnswerShows DEF PageInv
<1>2. CASE panel = "stats" /\ ShowSummary(k, i, j)
  BY <1>2, ShownSummaryInv
<1>3. CASE panel = "days" /\ ShowDays(k, i)
  BY <1>3, ShownDaysInv
<1>4. CASE panel = "day" /\ ShowDay(k, i, j)
  BY <1>4, ShownDayInv
<1>5. CASE panel = "profile" /\ ShowProfile(k, i)
  BY <1>5, ShownProfileInv
<1> QED BY <1>1, <1>2, <1>3, <1>4, <1>5

LEMMA PageStutterInv ==
  ASSUME PageInv, UNCHANGED pageVars
  PROVE  PageInv'
<1>1. UNCHANGED <<zone, focus, dbs, asked, days, cur, period, inputs, chart, stats, button, spoilt,
                  typed, crossed>>
  BY DEF pageVars, setting, page
<1>2. Typed'
  BY StutterTyped DEF PageInv
<1>3. OneHalf' /\ InputsFilled' /\ InTurn' /\ ButtonReturns'
  BY <1>1 DEF PageInv, OneHalf, InputsFilled, InTurn, DayOrder, ButtonReturns
<1>4. DayAwaited' /\ StatsAwaited' /\ ChartIsTrue' /\ PeriodStays'
  BY <1>1, DayLeft, StatsLeft, ChartLeft, PeriodLeft DEF PageInv
<1> QED BY <1>2, <1>3, <1>4 DEF PageInv

LEMMA PageStartInv == PageInit => PageInv
<1> SUFFICES ASSUME PageInit PROVE PageInv
  OBVIOUS
<1> DEFINE all == Query("all", Everything, "none")
<1> DEFINE dayList == Query("days", Unset, "none")
<1>1. /\ Typed
      /\ \A p \in Panels : asked[p] =
           IF p = "stats" /\ focus = "period" THEN <<all>>
           ELSE IF p = "days" /\ focus = "day" THEN <<dayList>> ELSE <<>>
  BY StartTyped
<1>2. all \in Requests /\ ~all.late /\ all.about = Everything
  <2>1. "all" \in Calls /\ Everything \in Abouts /\ TRUE \in BOOLEAN
    BY Abroad DEF Calls
  <2>2. dbs \in Seq(Tables) /\ dbs # <<>>
    BY <1>1 DEF Typed, Kept, PageTypeOK
  <2> QED BY <2>1, <2>2, QueryFields, NoExcuse
<1> HIDE DEF all, dayList
<1>3. /\ period = Unset /\ inputs = Unset /\ chart = Unset /\ stats = Unset /\ button
      /\ spoilt = {}
  BY DEF PageInit
<1>4. /\ asked["day"] = <<>> /\ asked["profile"] = <<>>
      /\ focus = "period" => asked["stats"] = <<all>> /\ asked["days"] = <<>>
      /\ focus = "day" => asked["stats"] = <<>>
  BY <1>1, PanelNames
<1>5. OneHalf /\ InputsFilled /\ ButtonReturns /\ ChartIsTrue /\ PeriodStays
  BY <1>3, <1>4 DEF OneHalf, InputsFilled, ButtonReturns, ChartIsTrue, PeriodStays
<1>6. DayAwaited
  BY <1>3, <1>4 DEF DayAwaited, Awaited, ChartFollows
<1>7. focus \in {"day", "period"}
  BY <1>1, TypedNow
<1>8. LateFirst(<<>>) /\ LateFirst(<<all>>)
  BY DEF LateFirst
<1>9. StatsAwaited
  <2>1. CASE focus = "day"
    BY <1>3, <1>4, <2>1 DEF StatsAwaited, Awaited, StatsFollow
  <2>2. CASE focus = "period"
    <3>1. PICK q : q = <<all>>
      OBVIOUS
    <3>2. q # <<>> /\ q[Len(q)] = all
      BY <3>1
    <3>3. asked["stats"] = q
      BY <1>4, <2>2, <3>1
    <3> QED BY <1>2, <1>3, <3>2, <3>3 DEF StatsAwaited, Awaited, Target
  <2> QED BY <1>7, <2>1, <2>2
<1>10. InTurn
  BY <1>4, <1>7, <1>8 DEF InTurn, DayOrder
<1> QED BY <1>1, <1>5, <1>6, <1>9, <1>10 DEF PageInv

LEMMA PageStepInv == PageInv /\ [PageNext]_pageVars => PageInv'
<1> SUFFICES ASSUME PageInv, [PageNext]_pageVars PROVE PageInv'
  OBVIOUS
<1>1. ASSUME NEW b \in NewBuckets, NEW w \in Watts, Record(b, w) PROVE PageInv'
  BY <1>1, RecordInv
<1>2. CASE \/ \E d \in Offered : PickDay(d)
           \/ \E n \in {-1, 1} : StepDay(n)
  BY <1>2, PicksInv
<1>3. ASSUME NEW p \in Periods, TypePeriod(p) PROVE PageInv'
  BY <1>3, TypePeriodInv
<1>4. CASE Average
  BY <1>4, AverageInv
<1>5. CASE Reset
  BY <1>5, ResetInv
<1>6. CASE Graph \/ \E size \in Steps : ChooseStep(size)
  BY <1>6, GraphsInv
<1>7. CASE Refresh
  BY <1>7, RefreshInv
<1>8. ASSUME NEW p \in Panels, NEW k \in DOMAIN asked[p], Answer(p, k) PROVE PageInv'
  BY <1>8, AnswerInv
<1>9. ASSUME NEW p \in Panels, NEW k \in DOMAIN asked[p], Fail(p, k) PROVE PageInv'
  BY <1>9, FailInv
<1>10. CASE UNCHANGED pageVars
  BY <1>10, PageStutterInv
<1> QED BY <1>1, <1>2, <1>3, <1>4, <1>5, <1>6, <1>7, <1>8, <1>9, <1>10 DEF PageNext

LEMMA PageInvariance == PageSpec => []PageInv
BY PageStartInv, PageStepInv, PTL DEF PageSpec
-----------------------------------------------------------------------------
(* The variables of HistoryPage keep their types, for any clock change that *)
(* spares midnight, days of any length, and any database to start with.     *)
THEOREM PageTypeCorrect == PageSpec => []PageTypeOK
<1>1. PageInv => PageTypeOK
  BY DEF PageInv, Typed
<1> QED BY <1>1, PageInvariance, PTL

(* When nothing is awaited for it, the day panel shows the selected day,    *)
(* with the buttons its list allows; and what it shows is that local day,   *)
(* of whatever length (loadDay, /api/day, day_bounds_utc).                  *)
THEOREM DayShown == PageSpec => []DayIsShown
<1>1. ASSUME PageInv PROVE DayIsShown
  <2> SUFFICES ASSUME chart # Unset PROVE DayIsShown
    BY DEF DayIsShown
  <2> DEFINE date == chart.date
  <2> DEFINE bounds == DayBounds(zone, date)
  <2> DEFINE i == chart.seen[1]
  <2> DEFINE j == chart.seen[2]
  <2>1. /\ date \in Int /\ i \in 1..Len(dbs) /\ j \in 1..Len(dbs)
        /\ chart.axis = bounds
        /\ chart.series = Rows(dbs[i], bounds)
        /\ chart.meta = Summary(dbs[j], bounds)
    BY <1>1 DEF PageInv, ChartIsTrue
  <2>2. zone \in Zones /\ dbs[i] \in FiniteTables /\ DOMAIN dbs[i] \subseteq Int
    BY <1>1, <2>1, TypedNow, TableMembers DEF PageInv
  <2>3. bounds \in [start : Int, end : Int]
    <3>1. bounds.start \in Int /\ bounds.end \in Int
      BY <2>1, <2>2, DateOfBucket
    <3>2. bounds = [start |-> bounds.start, end |-> bounds.end]
      BY DEF DayBounds
    <3> QED BY <3>1, <3>2
  <2>4. bounds # Everything
    BY <2>3, QueriesAssumption
  <2>5. \A b \in Int : b >= bounds.start /\ b < bounds.end <=> DateOf(zone, b) = date
    <3> TAKE b \in Int
    <3>1. PICK z \in Zones, d \in Int : z = zone /\ d = date
      BY <2>1, <2>2
    <3>2. b >= DayBounds(z, d).start /\ b < DayBounds(z, d).end <=> DateOf(z, b) = d
      BY DateOfBucket
    <3> QED BY <3>1, <3>2
  <2>6. \A b \in Int : DateOf(zone, b) \in Int
    <3> TAKE b \in Int
    <3> QED BY <2>1, <2>2, DateOfBucket
  <2>7. ~Pending("day") /\ "day" \notin spoilt =>
          /\ chart.date = cur
          /\ days # {} =>
               /\ chart.prev = (\E d \in days : d < cur /\ cur \in days)
               /\ chart.next = (\E d \in days : d > cur /\ cur \in days)
    BY <1>1 DEF PageInv, DayAwaited, Awaited, ChartFollows, Pending
  <2> HIDE DEF bounds, date, i, j
  <2>8. chart.series = OfDates(date, date, i)
    <3>1. Rows(dbs[i], bounds) =
            Restrict(dbs[i], {b \in DOMAIN dbs[i] : b >= bounds.start /\ b < bounds.end})
      BY <2>4 DEF Rows
    <3>2. {b \in DOMAIN dbs[i] : b >= bounds.start /\ b < bounds.end}
            = {b \in DOMAIN dbs[i] : DateOf(zone, b) \in date..date}
      <4>1. \A b \in DOMAIN dbs[i] :
              DateOf(zone, b) \in date..date <=> b >= bounds.start /\ b < bounds.end
        <5> TAKE b \in DOMAIN dbs[i]
        <5>1. b \in Int
          BY <2>2
        <5>2. PICK d : d = DateOf(zone, b)
          OBVIOUS
        <5>3. d \in Int /\ (b >= bounds.start /\ b < bounds.end <=> d = date)
          BY <2>5, <2>6, <5>1, <5>2
        <5>4. d \in date..date <=> d = date
          BY <2>1, <5>3
        <5> QED BY <5>2, <5>3, <5>4
      <4> QED BY <4>1
    <3> QED BY <2>1, <3>1, <3>2 DEF OfDates
  <2>9. \A b \in chart.axis.start - 1..chart.axis.end :
          (b \in chart.axis.start..chart.axis.end - 1) = (DateOf(zone, b) = date)
    <3>1. chart.axis = bounds /\ bounds.start \in Int /\ bounds.end \in Int
      BY <2>1, <2>3
    <3> TAKE b \in chart.axis.start - 1..chart.axis.end
    <3>2. b \in Int /\ (b \in bounds.start..bounds.end - 1 <=> b >= bounds.start /\ b < bounds.end)
      BY <3>1
    <3>3. b \in bounds.start..bounds.end - 1 <=> DateOf(zone, b) = date
      BY <2>5, <3>2
    <3> QED BY <3>1, <3>3
  <2>10. i = j =>
           /\ chart.meta.buckets = Cardinality(DOMAIN chart.series)
           /\ chart.meta.buckets > 0 => chart.meta.total = Total(chart.series)
    <3> SUFFICES ASSUME i = j
                 PROVE  /\ chart.meta.buckets = Cardinality(DOMAIN chart.series)
                        /\ chart.meta.buckets > 0 => chart.meta.total = Total(chart.series)
      OBVIOUS
    <3>1. chart.meta = Summary(dbs[i], bounds) /\ chart.series = Rows(dbs[i], bounds)
      BY <2>1
    <3>2. /\ Summary(dbs[i], bounds).buckets = Cardinality(DOMAIN Rows(dbs[i], bounds))
          /\ Summary(dbs[i], bounds).buckets > 0 =>
               Summary(dbs[i], bounds).total = Total(Rows(dbs[i], bounds))
      BY <2>2, Summaries
    <3> QED BY <3>1, <3>2
  <2> QED BY <2>7, <2>8, <2>9, <2>10 DEF DayIsShown, date, i, j
<1> QED BY <1>1, PageInvariance, PTL

(* The refresh does not widen the period: what the next refresh will take   *)
(* from the inputs is what was chosen, unless the user is typing another    *)
(* one or pressed Average while a loadAll was under way (refresh, loadAll,  *)
(* loadPeriod).                                                             *)
THEOREM PeriodKept == PageSpec => []RefreshKeepsThePeriod
<1>1. PageInv => RefreshKeepsThePeriod
  BY DEF PageInv, PeriodStays, RefreshKeepsThePeriod
<1> QED BY <1>1, PageInvariance, PTL
-----------------------------------------------------------------------------
(* The graph.  The periods that requests of one panel, or what is shown,    *)
(* claim as theirs; and what the newest request for the statistics, or the  *)
(* statistics themselves, leave to be claimed.                              *)
Claims(q) == {q[i].about.period : i \in {n \in DOMAIN q : q[n].excuse = "none"}}
Claim(graph) == IF graph # Unset /\ graph.excuse = "none" THEN {graph.about.period} ELSE {}

Narrow == {"period", "again"}
Wide == {"all", "reset"}

Coming(call) ==
  /\ call \in Narrow => period # Unset /\ Claims(asked["profile"]) \subseteq {period}
  /\ call \in Wide => period = Unset
  /\ call = "again" => Claim(profile) \subseteq {period}

Fitting ==
  /\ \A p \in Claims(asked["profile"]) \cup Claim(profile) : SamePeriod(p)
  /\ period = Unset /\ ~typed /\ inputs # Unset => SamePeriod(inputs)

Expects(q) == q # <<>> /\ ~q[Len(q)].late
GraphFits ==
  IF Expects(asked["stats"]) THEN Coming(asked["stats"][Len(asked["stats"])].call)
  ELSE "stats" \notin spoilt /\ stats # Unset => Fitting

GraphShape == profile # Unset => {"excuse", "about"} \subseteq DOMAIN profile
StatsCalls == \A i \in DOMAIN asked["stats"] : asked["stats"][i].call \in Narrow \cup Wide

GraphInv == GraphFits /\ GraphShape /\ StatsCalls

LEMMA ClaimsCut ==
  ASSUME NEW q \in Seq(Requests), NEW k \in 1..Len(q)
  PROVE  Claims(Cut(q, k)) \subseteq Claims(q)
<1>1. PICK c : c = Cut(q, k)
  OBVIOUS
<1>2. /\ c \in Seq(Requests) /\ Len(c) = Len(q) - 1
      /\ \A i \in 1..Len(q) - 1 :
           /\ i < k => c[i].about = q[i].about /\ c[i].excuse = q[i].excuse
           /\ i >= k => c[i] = q[i + 1]
  BY <1>1, CutRequests
<1>3. DOMAIN c = 1..Len(q) - 1 /\ DOMAIN q = 1..Len(q) /\ Len(q) \in Nat /\ k \in Int
  BY <1>2
<1>4. ASSUME NEW i \in DOMAIN c, c[i].excuse = "none" PROVE c[i].about.period \in Claims(q)
  <2>1. CASE i < k
    <3>1. i \in DOMAIN q /\ c[i].about = q[i].about /\ q[i].excuse = "none"
      BY <1>2, <1>3, <1>4, <2>1
    <3> QED BY <3>1 DEF Claims
  <2>2. CASE ~(i < k)
    <3>1. i + 1 \in DOMAIN q /\ c[i] = q[i + 1]
      BY <1>2, <1>3, <2>2
    <3> QED BY <1>4, <3>1 DEF Claims
  <2> QED BY <2>1, <2>2
<1>5. Claims(c) \subseteq Claims(q)
  <2>1. \A p \in Claims(c) : \E i \in DOMAIN c : c[i].excuse = "none" /\ p = c[i].about.period
    BY DEF Claims
  <2> QED BY <1>4, <2>1
<1> QED BY <1>1, <1>5

LEMMA ClaimsMore ==
  ASSUME NEW q \in Seq(Requests), NEW r \in Requests
  PROVE  \A p \in Claims(Append(q, r)) : p \in Claims(q) \/ (r.excuse = "none" /\ p = r.about.period)
<1>1. PICK s : s = Append(q, r)
  OBVIOUS
<1>2. /\ DOMAIN s = 1..Len(q) + 1 /\ DOMAIN q = 1..Len(q) /\ Len(q) \in Nat
      /\ \A i \in 1..Len(q) : s[i] = q[i]
      /\ s[Len(q) + 1] = r
  BY <1>1, AppendProperties
<1>3. ASSUME NEW p \in Claims(s) PROVE p \in Claims(q) \/ (r.excuse = "none" /\ p = r.about.period)
  <2>1. PICK i \in DOMAIN s : s[i].excuse = "none" /\ p = s[i].about.period
    BY DEF Claims
  <2>2. CASE i = Len(q) + 1
    BY <1>2, <2>1, <2>2
  <2>3. CASE i # Len(q) + 1
    <3>1. i \in DOMAIN q /\ s[i] = q[i]
      BY <1>2, <2>3
    <3>2. q[i].excuse = "none" /\ p = q[i].about.period
      BY <2>1, <3>1
    <3> QED BY <3>1, <3>2 DEF Claims
  <2> QED BY <2>2, <2>3
<1> QED BY <1>1, <1>3

LEMMA ClaimsLess ==
  ASSUME NEW requests \in Waiting, NEW ps
  PROVE  /\ Claims(Overtaken(requests, ps)["profile"]) \subseteq Claims(requests["profile"])
         /\ Claims(Overtaken(requests, ps)["profile"]) \subseteq ps
<1>1. PICK q : q = requests["profile"]
  OBVIOUS
<1>2. PICK d : d = Overtaken(requests, ps)["profile"]
  OBVIOUS
<1>3. d = [i \in DOMAIN q |-> Excused(q[i], ps, "overtaken")]
  BY <1>1, <1>2 DEF Overtaken, Waiting, Panels
<1>4. q \in Seq(Requests)
  BY <1>1 DEF Waiting, Panels
<1>5. ASSUME NEW i \in DOMAIN d, d[i].excuse = "none"
      PROVE  i \in DOMAIN q /\ q[i].excuse = "none" /\ d[i].about = q[i].about /\ d[i].about.period \in ps
  <2>1. i \in DOMAIN q /\ d[i] = Excused(q[i], ps, "overtaken")
    BY <1>3
  <2>2. q[i] \in Requests
    BY <1>4, <2>1, ElementOfSeq
  <2>3. CASE q[i].about.period \in ps
    <3>1. d[i] = q[i]
      BY <2>1, <2>3 DEF Excused
    <3> QED BY <1>5, <2>1, <2>3, <3>1
  <2>4. CASE q[i].about.period \notin ps
    <3>1. d[i] = [q[i] EXCEPT !.excuse = "overtaken"]
      BY <2>1, <2>4 DEF Excused
    <3>2. [q[i] EXCEPT !.excuse = "overtaken"].excuse # "none"
      BY <2>2, RequestFields
    <3> QED BY <1>5, <3>1, <3>2
  <2> QED BY <2>3, <2>4
<1>6. \A p \in Claims(d) : \E i \in DOMAIN d : d[i].excuse = "none" /\ p = d[i].about.period
  BY DEF Claims
<1>7. Claims(d) \subseteq Claims(q)
  <2> SUFFICES ASSUME NEW p \in Claims(d) PROVE p \in Claims(q)
    OBVIOUS
  <2>1. PICK i \in DOMAIN d : d[i].excuse = "none" /\ p = d[i].about.period
    BY <1>6
  <2>2. i \in DOMAIN q /\ q[i].excuse = "none" /\ p = q[i].about.period
    BY <1>5, <2>1
  <2> QED BY <2>2 DEF Claims
<1>8. Claims(d) \subseteq ps
  BY <1>5, <1>6
<1> QED BY <1>1, <1>2, <1>7, <1>8

LEMMA ClaimLess ==
  ASSUME GraphShape, NEW ps, NEW why, why # "none"
  PROVE  /\ Claim(StillShown(ps, why)) \subseteq Claim(profile)
         /\ Claim(StillShown(ps, why)) \subseteq ps
         /\ StillShown(ps, why) # Unset => {"excuse", "about"} \subseteq DOMAIN StillShown(ps, why)
<1>1. CASE profile = Unset
  BY <1>1 DEF StillShown, Claim
<1>2. CASE profile # Unset
  <2>1. {"excuse", "about"} \subseteq DOMAIN profile
    BY <1>2 DEF GraphShape
  <2>2. CASE profile.about.period \in ps
    <3>1. StillShown(ps, why) = profile
      BY <1>2, <2>2 DEF StillShown, Excused
    <3> QED BY <2>1, <2>2, <3>1 DEF Claim
  <2>3. CASE profile.about.period \notin ps
    <3>1. PICK g : g = [profile EXCEPT !.excuse = why]
      OBVIOUS
    <3>2. g.excuse # "none" /\ DOMAIN g = DOMAIN profile
      BY <2>1, <3>1
    <3>3. StillShown(ps, why) = g
      BY <1>2, <2>3, <3>1 DEF StillShown, Excused
    <3> QED BY <2>1, <3>2, <3>3 DEF Claim
  <2> QED BY <2>2, <2>3
<1> QED BY <1>1, <1>2

LEMMA ExpectsMore ==
  ASSUME NEW q \in Seq(Requests), NEW r \in Requests, ~r.late
  PROVE  /\ Expects(Append(q, r)) /\ Append(q, r)[Len(Append(q, r))] = r
         /\ \A i \in DOMAIN Append(q, r) : Append(q, r)[i] = r \/ \E n \in DOMAIN q : Append(q, r)[i] = q[n]
<1>1. PICK s : s = Append(q, r)
  OBVIOUS
<1>2. /\ DOMAIN s = 1..Len(q) + 1 /\ DOMAIN q = 1..Len(q) /\ Len(q) \in Nat
      /\ \A i \in 1..Len(q) : s[i] = q[i]
      /\ s[Len(q) + 1] = r /\ Len(s) = Len(q) + 1 /\ s # <<>>
  BY <1>1, AppendProperties
<1>3. Expects(s) /\ s[Len(s)] = r
  BY <1>2 DEF Expects
<1>4. \A i \in DOMAIN s : s[i] = r \/ \E n \in DOMAIN q : s[i] = q[n]
  <2> TAKE i \in DOMAIN s
  <2>1. i = Len(q) + 1 \/ i \in DOMAIN q
    BY <1>2
  <2> QED BY <1>2, <2>1
<1> QED BY <1>1, <1>3, <1>4

LEMMA ExpectsCut ==
  ASSUME NEW q \in Seq(Requests), NEW k \in 1..Len(q), LateFirst(q)
  PROVE  /\ Expects(Cut(q, k)) <=> Expects(q) /\ k # Len(q)
         /\ Expects(Cut(q, k)) => Cut(q, k)[Len(Cut(q, k))] = q[Len(q)]
         /\ Expects(q) \/ q[k].late
         /\ Expects(q) <=> ~q[Len(q)].late
         /\ \A i \in DOMAIN Cut(q, k) : \E n \in DOMAIN q : Cut(q, k)[i].call = q[n].call
<1>1. PICK c : c = Cut(q, k)
  OBVIOUS
<1>2. /\ c \in Seq(Requests) /\ Len(c) = Len(q) - 1
      /\ \A i \in 1..Len(q) - 1 : i < k => c[i].call = q[i].call /\ c[i].late
      /\ \A i \in 1..Len(q) - 1 : i >= k => c[i] = q[i + 1]
  BY <1>1, CutRequests
<1>3. PICK n \in Nat : n = Len(q)
  OBVIOUS
<1>4. DOMAIN c = 1..n - 1 /\ DOMAIN q = 1..n /\ k \in Int /\ q # <<>> /\ k <= n /\ 1 <= k
  BY <1>2, <1>3
<1>5. Expects(q) <=> ~q[n].late
  BY <1>3, <1>4 DEF Expects
<1>6. Expects(q) \/ q[k].late
  <2>1. CASE k = n
    BY <1>5, <2>1
  <2>2. CASE k # n
    <3>1. k < n /\ k \in DOMAIN q /\ n \in DOMAIN q
      BY <1>4, <2>2
    <3> QED BY <1>5, <3>1 DEF LateFirst
  <2> QED BY <2>1, <2>2
<1>7. \A i \in DOMAIN c : \E m \in DOMAIN q : c[i].call = q[m].call
  <2> TAKE i \in DOMAIN c
  <2>1. CASE i < k
    <3>1. i \in DOMAIN q /\ c[i].call = q[i].call
      BY <1>2, <1>3, <1>4, <2>1
    <3> QED BY <3>1
  <2>2. CASE ~(i < k)
    <3>1. i + 1 \in DOMAIN q /\ c[i] = q[i + 1]
      BY <1>2, <1>3, <1>4, <2>2
    <3> QED BY <3>1
  <2> QED BY <2>1, <2>2
<1>8. CASE k = n
  <2>1. c # <<>> => c[Len(c)].late
    <3> SUFFICES ASSUME c # <<>> PROVE c[n - 1].late
      BY <1>2, <1>3
    <3>1. Len(c) # 0
      BY <1>2, EmptySeq
    <3>2. n - 1 \in 1..n - 1 /\ n - 1 < k
      BY <1>2, <1>3, <1>8, <3>1
    <3> QED BY <1>2, <1>3, <3>2
  <2> QED BY <1>1, <1>3, <1>5, <1>6, <1>8, <2>1, <1>7 DEF Expects
<1>9. CASE k # n
  <2>1. n - 1 \in 1..n - 1 /\ n - 1 >= k
    BY <1>4, <1>9
  <2>2. c[n - 1] = q[n] /\ c # <<>> /\ Len(c) = n - 1
    BY <1>2, <1>3, <2>1
  <2>3. Expects(c) <=> ~q[n].late
    BY <2>2 DEF Expects
  <2> QED BY <1>1, <1>3, <1>5, <1>6, <1>9, <2>2, <2>3, <1>7
<1> QED BY <1>8, <1>9
-----------------------------------------------------------------------------
(* What keeps the graph's part of the invariant.                            *)

LEMMA GraphLeft ==
  ASSUME GraphFits, asked'["stats"] = asked["stats"],
         "stats" \notin spoilt' => "stats" \notin spoilt,
         UNCHANGED <<zone, period, inputs, stats, typed>>,
         Claims(asked'["profile"]) \subseteq Claims(asked["profile"]),
         Claim(profile') \subseteq Claim(profile) \cup Claims(asked["profile"])
  PROVE  GraphFits'
<1>1. PICK q : q = asked["stats"]
  OBVIOUS
<1>2. \A p : SamePeriod(p)' = SamePeriod(p)
  BY DEF SamePeriod, WrittenOut
<1>3. Fitting => Fitting'
  BY <1>2 DEF Fitting
<1>4. \A call : Coming(call) => Coming(call)'
  BY DEF Coming, Narrow, Wide
<1>5. CASE Expects(q)
  <2>1. Coming(q[Len(q)].call)
    BY <1>1, <1>5 DEF GraphFits
  <2>2. asked'["stats"] = q
    BY <1>1
  <2> QED BY <1>4, <1>5, <2>1, <2>2 DEF GraphFits
<1>6. CASE ~Expects(q)
  <2>1. "stats" \notin spoilt /\ stats # Unset => Fitting
    BY <1>1, <1>6 DEF GraphFits
  <2>2. asked'["stats"] = q
    BY <1>1
  <2> QED BY <1>3, <1>6, <2>1, <2>2 DEF GraphFits
<1> QED BY <1>5, <1>6

(* The half with the day in it has neither graph nor statistics.            *)
LEMMA GraphAway ==
  ASSUME PageInv', focus' = "day"
  PROVE  GraphFits'
<1>1. stats' = Unset /\ asked'["stats"] = <<>>
  BY DEF PageInv, OneHalf
<1> QED BY <1>1 DEF GraphFits, Expects

LEMMA CallsLeft ==
  ASSUME StatsCalls, asked'["stats"] = asked["stats"]
  PROVE  StatsCalls'
BY DEF StatsCalls

LEMMA CallsMore ==
  ASSUME Typed, StatsCalls, NEW r \in Requests, ~r.late, r.call \in Narrow \cup Wide,
         asked'["stats"] = Append(asked["stats"], r), Coming(r.call)'
  PROVE  StatsCalls' /\ GraphFits'
<1>1. PICK q : q = asked["stats"]
  OBVIOUS
<1>2. q \in Seq(Requests)
  BY <1>1, TypedNow, PanelNames
<1>3. PICK s : s = Append(q, r)
  OBVIOUS
<1>4. /\ Expects(s) /\ s[Len(s)] = r
      /\ \A i \in DOMAIN s : s[i] = r \/ \E n \in DOMAIN q : s[i] = q[n]
  BY <1>2, <1>3, ExpectsMore
<1>5. asked'["stats"] = s
  BY <1>1, <1>3
<1>6. \A n \in DOMAIN q : q[n].call \in Narrow \cup Wide
  BY <1>1 DEF StatsCalls
<1>7. \A i \in DOMAIN s : s[i].call \in Narrow \cup Wide
  BY <1>4, <1>6
<1>8. StatsCalls'
  BY <1>5, <1>7 DEF StatsCalls
<1>9. GraphFits'
  BY <1>4, <1>5 DEF GraphFits
<1> QED BY <1>8, <1>9

(* A request of the statistics is answered or fails: if it was the newest   *)
(* of them, what it shows must fit, and it has spoilt them otherwise.       *)
LEMMA GraphCut ==
  ASSUME PageInv, GraphInv, NEW k \in DOMAIN asked["stats"],
         asked'["stats"] = Cut(asked["stats"], k), UNCHANGED period,
         Claims(asked'["profile"]) \subseteq Claims(asked["profile"]),
         Claim(profile') \subseteq Claim(profile),
         asked["stats"][k].late /\ "stats" \notin spoilt' /\ stats' # Unset
           /\ ("stats" \notin spoilt /\ stats # Unset => Fitting) => Fitting',
         ~asked["stats"][k].late /\ "stats" \notin spoilt' /\ stats' # Unset
           /\ asked["stats"][k].about = Target /\ Coming(asked["stats"][k].call) => Fitting'
  PROVE  StatsCalls' /\ GraphFits'
<1> DEFINE q == asked["stats"]
<1>1. q \in Seq(Requests) /\ k \in 1..Len(q) /\ LateFirst(q)
  BY TypedNow, WithoutCuts, PanelNames DEF PageInv, InTurn
<1>2. PICK c : c = Cut(q, k)
  OBVIOUS
<1>3. /\ Expects(c) <=> Expects(q) /\ k # Len(q)
      /\ Expects(c) => c[Len(c)] = q[Len(q)]
      /\ Expects(q) \/ q[k].late
      /\ Expects(q) <=> ~q[Len(q)].late
      /\ \A i \in DOMAIN c : \E n \in DOMAIN q : c[i].call = q[n].call
  BY <1>1, <1>2, ExpectsCut
<1>4. asked'["stats"] = c
  BY <1>2
<1>5. StatsCalls'
  <2>1. \A n \in DOMAIN q : q[n].call \in Narrow \cup Wide
    BY DEF GraphInv, StatsCalls
  <2>2. \A i \in DOMAIN c : c[i].call \in Narrow \cup Wide
    BY <1>3, <2>1
  <2> QED BY <1>4, <2>2 DEF StatsCalls
<1>6. CASE Expects(c)
  <2>1. Coming(c[Len(c)].call)
    BY <1>3, <1>6 DEF GraphInv, GraphFits
  <2>2. \A call : Coming(call) => Coming(call)'
    BY DEF Coming, Narrow, Wide
  <2> QED BY <1>4, <1>5, <1>6, <2>1, <2>2 DEF GraphFits
<1>7. CASE ~Expects(c)
  <2> SUFFICES ASSUME "stats" \notin spoilt', stats' # Unset PROVE Fitting'
    BY <1>4, <1>5, <1>7 DEF GraphFits
  <2>1. CASE Expects(q)
    <3>1. k = Len(q) /\ ~q[k].late /\ q # <<>>
      BY <1>3, <1>7, <2>1 DEF Expects
    <3>2. Coming(q[k].call)
      BY <2>1, <3>1 DEF GraphInv, GraphFits
    <3>3. q[k].about = Target
      BY <3>1 DEF PageInv, StatsAwaited, Awaited
    <3> QED BY <3>1, <3>2, <3>3
  <2>2. CASE ~Expects(q)
    <3>1. q[k].late
      BY <1>3, <2>2
    <3>2. "stats" \notin spoilt /\ stats # Unset => Fitting
      BY <2>2 DEF GraphInv, GraphFits
    <3> QED BY <3>1, <3>2
  <2> QED BY <2>1, <2>2
<1> QED BY <1>6, <1>7
-----------------------------------------------------------------------------
(* Every action keeps the graph's part.                                     *)
LEMMA StillGraph ==
  ASSUME GraphInv, "stats" \notin spoilt' => "stats" \notin spoilt,
         UNCHANGED <<zone, period, inputs, stats, typed, profile>>,
         \A p \in {"stats", "profile"} : asked'[p] = asked[p]
  PROVE  GraphInv'
<1>1. asked'["stats"] = asked["stats"] /\ asked'["profile"] = asked["profile"]
  OBVIOUS
<1>2. GraphFits' /\ StatsCalls'
  BY <1>1, GraphLeft, CallsLeft DEF GraphInv
<1>3. GraphShape'
  BY DEF GraphInv, GraphShape
<1> QED BY <1>2, <1>3 DEF GraphInv

LEMMA TypePeriodGraph ==
  ASSUME PageInv, GraphInv, NEW p \in Periods, TypePeriod(p)
  PROVE  GraphInv'
<1>1. /\ typed' = TRUE
      /\ UNCHANGED <<zone, asked, period, stats, profile, spoilt>>
  BY DEF TypePeriod, setting
<1>2. \A x : SamePeriod(x)' = SamePeriod(x)
  BY <1>1 DEF SamePeriod, WrittenOut
<1>3. Fitting => Fitting'
  BY <1>1, <1>2 DEF Fitting
<1>4. \A call : Coming(call) => Coming(call)'
  BY <1>1 DEF Coming, Narrow, Wide
<1>5. GraphFits'
  BY <1>1, <1>3, <1>4 DEF GraphInv, GraphFits
<1> QED BY <1>1, <1>5 DEF GraphInv, GraphShape, StatsCalls

LEMMA AverageGraph ==
  ASSUME PageInv, GraphInv, Average
  PROVE  GraphInv'
<1>1. /\ Typed /\ inputs \in Spans
      /\ \A p \in Panels : asked'[p] =
           IF p = "stats" THEN Append(asked[p], Query("period", inputs, "none"))
           ELSE Overtaken(asked, {inputs})[p]
  BY AverageTyped DEF PageInv
<1>2. period' = inputs /\ inputs # Unset /\ profile' = profile
  BY DEF Average
<1>3. /\ asked'["stats"] = Append(asked["stats"], Query("period", inputs, "none"))
      /\ asked'["profile"] = Overtaken(asked, {inputs})["profile"]
  BY <1>1, PanelNames
<1>4. Claims(asked'["profile"]) \subseteq {inputs}
  BY <1>1, <1>3, TypedNow, ClaimsLess
<1> DEFINE r == Query("period", inputs, "none")
<1>5. r \in Requests /\ ~r.late /\ r.call = "period"
  <2>1. "period" \in Calls /\ inputs \in Abouts /\ TRUE \in BOOLEAN
    BY <1>1, Abroad DEF Calls
  <2>2. dbs \in Seq(Tables) /\ dbs # <<>>
    BY <1>1 DEF Typed, Kept, PageTypeOK
  <2> QED BY <2>1, <2>2, QueryFields, NoExcuse
<1>6. PICK s \in Requests : s = r
  BY <1>5
<1>7. Coming(s.call)'
  BY <1>2, <1>4, <1>5, <1>6 DEF Coming, Narrow, Wide
<1>8. StatsCalls' /\ GraphFits'
  <2>1. asked'["stats"] = Append(asked["stats"], s)
    BY <1>3, <1>6
  <2>2. ~s.late /\ s.call \in Narrow \cup Wide
    BY <1>5, <1>6 DEF Narrow
  <2> QED BY <1>1, <1>7, <2>1, <2>2, CallsMore DEF GraphInv
<1> QED BY <1>2, <1>8 DEF GraphInv, GraphShape

LEMMA ResetGraph ==
  ASSUME PageInv, GraphInv, Reset
  PROVE  GraphInv'
<1>1. /\ Typed
      /\ \A p \in Panels : asked'[p] =
           IF p = "stats" THEN Append(asked[p], Query("reset", Everything, "none")) ELSE asked[p]
  BY ResetTyped DEF PageInv
<1>2. period' = Unset /\ profile' = profile
  BY DEF Reset
<1> DEFINE r == Query("reset", Everything, "none")
<1>3. asked'["stats"] = Append(asked["stats"], r)
  BY <1>1, PanelNames
<1>4. r \in Requests /\ ~r.late /\ r.call = "reset"
  <2>1. "reset" \in Calls /\ Everything \in Abouts /\ TRUE \in BOOLEAN
    BY Abroad DEF Calls
  <2>2. dbs \in Seq(Tables) /\ dbs # <<>>
    BY <1>1 DEF Typed, Kept, PageTypeOK
  <2> QED BY <2>1, <2>2, QueryFields, NoExcuse
<1>5. PICK s \in Requests : s = r
  BY <1>4
<1>6. Coming(s.call)'
  BY <1>2, <1>4, <1>5 DEF Coming, Narrow, Wide
<1>7. StatsCalls' /\ GraphFits'
  <2>1. asked'["stats"] = Append(asked["stats"], s)
    BY <1>3, <1>5
  <2>2. ~s.late /\ s.call \in Narrow \cup Wide
    BY <1>4, <1>5 DEF Wide
  <2> QED BY <1>1, <1>6, <2>1, <2>2, CallsMore DEF GraphInv
<1> QED BY <1>2, <1>7 DEF GraphInv, GraphShape

(* A graph that is asked for claims the period in the inputs, if it applies.*)
Chosen == IF inputs = Unset THEN Everything ELSE inputs

LEMMA LoadProfileClaims ==
  ASSUME Typed, focus = "period", NEW size \in Steps, LoadProfile(size)
  PROVE  \A p \in Claims(asked'["profile"]) :
           p \in Claims(asked["profile"]) \/ (Applies /\ p = Chosen)
<1> DEFINE about == [period |-> Chosen, step |-> size]
<1>1. about \in Abouts
  <2>1. Chosen \in Spans \cup {Everything}
    BY TypedNow DEF Chosen
  <2> QED BY <2>1, Abroad
<1>2. Plea \in Excuses
  BY DEF Plea, Excuses
<1>3. asked' = Asking(asked, Query("profile", about, Plea))
  BY DEF LoadProfile, Chosen, Plea
<1>4. "profile" \in Calls /\ asked \in Waiting /\ PanelOf("profile") = "profile"
  BY TypedNow, PanelNames DEF Calls
<1>5. about.period = Chosen
  OBVIOUS
<1> HIDE DEF about
<1> DEFINE r == Query("profile", about, Plea)
<1>6. asked'["profile"] = Append(asked["profile"], r)
  <2>1. \A p \in Panels : asked'[p] =
             IF p = PanelOf("profile") THEN Append(asked[p], r) ELSE asked[p]
    BY <1>1, <1>2, <1>3, <1>4, PeriodAsks
  <2> QED BY <1>4, <2>1, PanelNames
<1>7. r \in Requests /\ r.about = about
  BY <1>1, <1>2, <1>4, QueryFields DEF Typed, Kept, PageTypeOK
<1>8. r.excuse = "none" => Applies
  <2>1. r.excuse = Plea
    BY DEF Query
  <2> QED BY <2>1 DEF Plea
<1> HIDE DEF r
<1>9. asked["profile"] \in Seq(Requests)
  BY TypedNow, PanelNames
<1>10. \A p \in Claims(asked'["profile"]) :
         p \in Claims(asked["profile"]) \/ (r.excuse = "none" /\ p = r.about.period)
  BY <1>6, <1>7, <1>9, ClaimsMore
<1>11. r.about.period = Chosen
  BY <1>5, <1>7
<1> QED BY <1>8, <1>10, <1>11

LEMMA GraphsGraph ==
  ASSUME PageInv, GraphInv, Graph \/ \E size \in Steps : ChooseStep(size)
  PROVE  GraphInv'
<1>1. /\ Typed /\ focus = "period"
      /\ \A p \in Panels \ {"profile"} : asked'[p] = asked[p]
      /\ UNCHANGED <<zone, period, inputs, stats, profile, spoilt, typed>>
  BY GraphsTyped DEF PageInv, setting
<1>2. \/ \E size \in Steps : LoadProfile(size)
      \/ UNCHANGED asked
  BY <1>1, TypedNow DEF Graph, ChooseStep
<1>3. asked'["stats"] = asked["stats"]
  BY <1>1, PanelNames
<1>4. \A p \in Claims(asked'["profile"]) :
        p \in Claims(asked["profile"]) \/ (Applies /\ p = Chosen)
  <2>1. CASE UNCHANGED asked
    BY <2>1
  <2>2. CASE \E size \in Steps : LoadProfile(size)
    BY <1>1, <2>2, LoadProfileClaims
  <2> QED BY <1>2, <2>1, <2>2
<1>5. PICK q : q = asked["stats"]
  OBVIOUS
<1>6. asked'["stats"] = q
  BY <1>3, <1>5
<1>7. PICK old, new : old = Claims(asked["profile"]) /\ new = Claims(asked'["profile"])
  OBVIOUS
<1>8. CASE Expects(q)
  <2>1. PICK call : call = q[Len(q)].call
    OBVIOUS
  <2>2. Coming(call)
    BY <1>5, <1>8, <2>1 DEF GraphInv, GraphFits
  <2>3. ASSUME call \in Narrow PROVE new \subseteq {period}
    <3>1. period # Unset /\ old \subseteq {period}
      BY <1>7, <2>2, <2>3 DEF Coming
    <3>2. Applies => Chosen = period
      BY <3>1 DEF Applies, Chosen
    <3> QED BY <1>4, <1>7, <3>1, <3>2
  <2>4. Coming(call)'
    BY <1>1, <1>7, <2>2, <2>3 DEF Coming, Narrow, Wide
  <2>5. GraphFits'
    BY <1>6, <1>8, <2>1, <2>4 DEF GraphFits
  <2> QED BY <1>1, <1>3, <2>5 DEF GraphInv, GraphShape, StatsCalls
<1>9. CASE ~Expects(q)
  <2>1. ASSUME "stats" \notin spoilt, stats # Unset PROVE Fitting'
    <3>1. Fitting
      BY <1>5, <1>9, <2>1 DEF GraphInv, GraphFits
    <3>2. stats.about = Target
      BY <1>5, <1>9, <2>1 DEF PageInv, StatsAwaited, Awaited, StatsFollow, Expects
    <3>3. ASSUME Applies PROVE SamePeriod(Chosen)
      <4>1. CASE period # Unset
        BY <3>2, <3>3, <4>1 DEF Applies, Chosen, SamePeriod, Target
      <4>2. CASE period = Unset /\ inputs = Unset
        BY <3>2, <4>2 DEF Chosen, SamePeriod, Target
      <4>3. CASE period = Unset /\ inputs # Unset
        <5>1. ~typed
          BY <3>3, <4>3 DEF Applies
        <5> QED BY <3>1, <4>3, <5>1 DEF Fitting, Chosen
      <4> QED BY <4>1, <4>2, <4>3
    <3>4. \A p \in new \cup Claim(profile) : SamePeriod(p)
      BY <1>4, <1>7, <3>1, <3>3 DEF Fitting
    <3>5. \A x : SamePeriod(x)' = SamePeriod(x)
      BY <1>1 DEF SamePeriod, WrittenOut
    <3> QED BY <1>1, <1>7, <3>1, <3>4, <3>5 DEF Fitting
  <2>2. GraphFits'
    BY <1>1, <1>6, <1>9, <2>1 DEF GraphFits
  <2> QED BY <1>1, <1>3, <2>2 DEF GraphInv, GraphShape, StatsCalls
<1> QED BY <1>8, <1>9

LEMMA RefreshGraph ==
  ASSUME PageInv, GraphInv, Refresh, focus = "period"
  PROVE  GraphInv'
<1> DEFINE two == Asking(asked, Query("days", Unset, "none"))
<1>1. Typed /\ asked \in Waiting /\ dbs \in Seq(Tables) /\ dbs # <<>>
  BY TypedNow DEF PageInv, Typed, Kept, PageTypeOK
<1>2. /\ "days" \in Calls /\ "all" \in Calls /\ "again" \in Calls /\ TRUE \in BOOLEAN
      /\ Unset \in Abouts /\ Everything \in Abouts
  BY Abroad DEF Calls
<1>3. /\ two \in Waiting
      /\ two["stats"] = asked["stats"] /\ two["profile"] = asked["profile"]
  <2>1. /\ two \in Waiting
        /\ \A p \in Panels : two[p] =
             IF p = PanelOf("days") /\ p \in Half[focus]
             THEN Append(asked[p], Query("days", Unset, "none")) ELSE asked[p]
    BY <1>1, <1>2, QueryAdds, NoExcuse
  <2> QED BY <2>1, PanelNames
<1> HIDE DEF two
<1>4. CASE period = Unset
  <2>1. /\ asked' = Asking(two, Query("all", Everything, "none"))
        /\ period' = Unset /\ profile' = profile
    BY <1>4 DEF Refresh, two
  <2>2. asked'["stats"] = Append(asked["stats"], Query("all", Everything, "none"))
    <3>0. PanelOf("all") \in {"stats", "profile"}
      BY PanelNames
    <3>1. \A p \in Panels : asked'[p] =
            IF p = PanelOf("all") THEN Append(two[p], Query("all", Everything, "none")) ELSE two[p]
      BY <1>1, <1>2, <1>3, <2>1, <3>0, PeriodAsks, NoExcuse
    <3> QED BY <1>3, <3>1, PanelNames
  <2>3. PICK r : r = Query("all", Everything, "none")
    OBVIOUS
  <2>4. r \in Requests /\ ~r.late /\ r.call = "all"
    BY <1>1, <1>2, <2>3, QueryFields, NoExcuse
  <2>5. Coming(r.call)'
    BY <2>1, <2>4 DEF Coming, Narrow, Wide
  <2>6. StatsCalls' /\ GraphFits'
    <3>1. r.call \in Narrow \cup Wide /\ asked'["stats"] = Append(asked["stats"], r)
      BY <2>2, <2>3, <2>4 DEF Wide
    <3> QED BY <1>1, <2>4, <2>5, <3>1, CallsMore DEF GraphInv
  <2> QED BY <2>1, <2>6 DEF GraphInv, GraphShape
<1>5. CASE period # Unset
  <2>1. /\ asked' = Asking(Overtaken(two, {inputs}), Query("again", inputs, "none"))
        /\ period' = inputs /\ profile' = StillShown({inputs}, "refreshed")
    BY <1>5 DEF Refresh, two
  <2>2. inputs # Unset /\ inputs \in Abouts
    BY <1>1, <1>5, TypedNow, Abroad DEF PageInv, InputsFilled
  <2>3. /\ Overtaken(two, {inputs}) \in Waiting
        /\ Overtaken(two, {inputs})["stats"] = asked["stats"]
    BY <1>3, OvertakenKeeps, PanelNames
  <2>4. Claims(Overtaken(two, {inputs})["profile"]) \subseteq {inputs}
    BY <1>3, ClaimsLess
  <2>5. /\ asked'["stats"] = Append(asked["stats"], Query("again", inputs, "none"))
        /\ asked'["profile"] = Overtaken(two, {inputs})["profile"]
    <3>0. PanelOf("again") \in {"stats", "profile"}
      BY PanelNames
    <3>1. \A p \in Panels : asked'[p] =
            IF p = PanelOf("again")
            THEN Append(Overtaken(two, {inputs})[p], Query("again", inputs, "none"))
            ELSE Overtaken(two, {inputs})[p]
      BY <1>1, <1>2, <2>1, <2>2, <2>3, <3>0, PeriodAsks, NoExcuse
    <3> QED BY <2>3, <3>1, PanelNames
  <2>6. PICK r : r = Query("again", inputs, "none")
    OBVIOUS
  <2>7. r \in Requests /\ ~r.late /\ r.call = "again"
    BY <1>1, <1>2, <2>2, <2>6, QueryFields, NoExcuse
  <2>8. GraphShape' /\ Claim(profile') \subseteq {inputs}
    <3>1. PICK g : g = StillShown({inputs}, "refreshed")
      OBVIOUS
    <3>2. Claim(g) \subseteq {inputs} /\ (g # Unset => {"excuse", "about"} \subseteq DOMAIN g)
      BY <3>1, ClaimLess DEF GraphInv
    <3>3. profile' = g
      BY <2>1, <3>1
    <3> QED BY <3>2, <3>3 DEF GraphShape
  <2>9. Claims(asked'["profile"]) \subseteq {inputs}
    BY <2>4, <2>5
  <2>10. Coming(r.call)'
    BY <2>1, <2>2, <2>7, <2>8, <2>9 DEF Coming, Narrow, Wide
  <2>11. StatsCalls' /\ GraphFits'
    <3>1. r.call \in Narrow \cup Wide /\ asked'["stats"] = Append(asked["stats"], r)
      BY <2>5, <2>6, <2>7 DEF Narrow
    <3> QED BY <1>1, <2>7, <2>10, <3>1, CallsMore DEF GraphInv
  <2> QED BY <2>8, <2>11 DEF GraphInv
<1> QED BY <1>4, <1>5

LEMMA FailGraph ==
  ASSUME PageInv, GraphInv, NEW panel \in {"stats", "profile"}, NEW k \in DOMAIN asked[panel],
         Fail(panel, k)
  PROVE  GraphInv'
<1>1. Typed /\ asked' = Without(panel, k) /\ panel \in Panels
  BY FailTyped, PanelNames DEF PageInv
<1>2. /\ profile' = profile \/ profile' = StillShown({}, "undropped")
      /\ spoilt' = IF asked[panel][k].late THEN spoilt ELSE spoilt \cup {panel}
      /\ UNCHANGED <<zone, period, inputs, stats, typed>>
  BY DEF Fail, setting
<1>3. /\ \A p \in Panels : asked'[p] = IF p = panel THEN Cut(asked[p], k) ELSE asked[p]
      /\ asked[panel] \in Seq(Requests) /\ k \in 1..Len(asked[panel])
  BY <1>1, TypedNow, WithoutCuts
<1>4. GraphShape' /\ Claim(profile') \subseteq Claim(profile)
  <2>1. CASE profile' = profile
    BY <2>1 DEF GraphInv, GraphShape
  <2>2. CASE profile' = StillShown({}, "undropped")
    <3>1. PICK g : g = StillShown({}, "undropped")
      OBVIOUS
    <3>2. Claim(g) \subseteq Claim(profile) /\ (g # Unset => {"excuse", "about"} \subseteq DOMAIN g)
      BY <3>1, ClaimLess DEF GraphInv
    <3>3. profile' = g
      BY <2>2, <3>1
    <3> QED BY <3>2, <3>3 DEF GraphShape
  <2> QED BY <1>2, <2>1, <2>2
<1>5. Claims(asked'["profile"]) \subseteq Claims(asked["profile"])
  <2>1. CASE panel = "profile"
    BY <1>3, <2>1, ClaimsCut, PanelNames
  <2>2. CASE panel # "profile"
    BY <1>3, <2>2, PanelNames
  <2> QED BY <2>1, <2>2
<1>6. GraphFits' /\ StatsCalls'
  <2>1. CASE panel = "profile"
    <3>1. asked'["stats"] = asked["stats"]
      BY <1>3, <2>1, PanelNames
    <3>2. "stats" \notin spoilt' => "stats" \notin spoilt
      BY <1>2
    <3> QED BY <1>2, <1>4, <1>5, <3>1, <3>2, GraphLeft, CallsLeft DEF GraphInv
  <2>2. CASE panel = "stats"
    <3>1. k \in DOMAIN asked["stats"] /\ asked'["stats"] = Cut(asked["stats"], k)
      BY <1>3, <2>2, PanelNames
    <3>2. \A x : SamePeriod(x)' = SamePeriod(x)
      BY <1>2 DEF SamePeriod, WrittenOut
    <3>3. Fitting => Fitting'
      BY <1>2, <1>4, <1>5, <3>2 DEF Fitting
    <3>4. asked["stats"][k].late => spoilt' = spoilt /\ stats' = stats
      BY <1>2, <2>2
    <3>5. ~asked["stats"][k].late => "stats" \in spoilt'
      BY <1>2, <2>2
    <3>6. asked["stats"][k].late /\ "stats" \notin spoilt' /\ stats' # Unset
            /\ ("stats" \notin spoilt /\ stats # Unset => Fitting) => Fitting'
      BY <3>3, <3>4
    <3>7. ~asked["stats"][k].late /\ "stats" \notin spoilt' /\ stats' # Unset
            /\ asked["stats"][k].about = Target /\ Coming(asked["stats"][k].call) => Fitting'
      BY <3>5
    <3> QED BY <1>2, <1>4, <1>5, <3>1, <3>6, <3>7, GraphCut
  <2> QED BY <2>1, <2>2
<1> QED BY <1>4, <1>6 DEF GraphInv

LEMMA ShownProfileGraph ==
  ASSUME PageInv, GraphInv, NEW k \in DOMAIN asked["profile"], NEW i \in 1..Len(dbs),
         Answer("profile", k), ShowProfile(k, i)
  PROVE  GraphInv'
<1>1. Typed /\ "profile" \in Panels
  BY PanelNames DEF PageInv
<1>2. /\ spoilt' = IF asked["profile"][k].late THEN spoilt \cup {"profile"}
                   ELSE spoilt \ {"profile"}
      /\ zone' = zone
  BY <1>1, AnswerShows
<1>3. /\ profile' = ProfileOf(asked["profile"][k], i) /\ asked' = Without("profile", k)
      /\ UNCHANGED <<period, inputs, stats, typed>>
  BY DEF ShowProfile
<1>4. /\ asked'["stats"] = asked["stats"]
      /\ asked'["profile"] = Cut(asked["profile"], k)
      /\ asked["profile"] \in Seq(Requests) /\ k \in 1..Len(asked["profile"])
  BY <1>1, <1>3, TypedNow, WithoutCuts, PanelNames
<1>5. Claims(asked'["profile"]) \subseteq Claims(asked["profile"])
  BY <1>4, ClaimsCut
<1>6. GraphShape' /\ Claim(profile') \subseteq Claims(asked["profile"])
  <2>1. PICK r : r = asked["profile"][k]
    OBVIOUS
  <2>2. PICK g : g = ProfileOf(r, i)
    OBVIOUS
  <2>3. g.excuse = r.excuse /\ g.about = r.about /\ {"excuse", "about"} \subseteq DOMAIN g
    BY <2>2 DEF ProfileOf
  <2>4. Claim(g) \subseteq Claims(asked["profile"])
    <3>1. \A p \in Claim(g) : g.excuse = "none" /\ p = g.about.period
      BY DEF Claim
    <3>2. (r.excuse = "none") => r.about.period \in Claims(asked["profile"])
      BY <2>1 DEF Claims
    <3> QED BY <2>3, <3>1, <3>2
  <2>5. profile' = g
    BY <1>3, <2>1, <2>2
  <2> QED BY <2>3, <2>4, <2>5 DEF GraphShape
<1>7. GraphFits' /\ StatsCalls'
  <2>1. "stats" \notin spoilt' => "stats" \notin spoilt
    BY <1>2
  <2> QED BY <1>2, <1>3, <1>4, <1>5, <1>6, <2>1, GraphLeft, CallsLeft DEF GraphInv
<1> QED BY <1>6, <1>7 DEF GraphInv

LEMMA ShownSummaryGraph ==
  ASSUME PageInv, GraphInv, NEW k \in DOMAIN asked["stats"],
         NEW i \in 1..Len(dbs), NEW j \in 1..Len(dbs),
         Answer("stats", k), ShowSummary(k, i, j)
  PROVE  GraphInv'
<1>0. PICK r, left : r = asked["stats"][k] /\ left = Without("stats", k)
  OBVIOUS
<1>a. PICK answer : answer = StatsOf(r, i, j)
  OBVIOUS
<1>b. PICK filled : filled = Filled(answer.summary)
  OBVIOUS
<1>1. Typed /\ "stats" \in Panels /\ focus = "period"
  <2>1. asked["stats"] # <<>>
    OBVIOUS
  <2> QED BY <2>1, TypedNow, PanelNames DEF PageInv, OneHalf
<1>2. /\ spoilt' = IF r.late THEN spoilt \cup {"stats"} ELSE spoilt \ {"stats"}
      /\ zone' = zone
  BY <1>0, <1>1, AnswerShows
<1>3. /\ stats' = answer /\ UNCHANGED period
      /\ r.call \in Wide =>
           /\ inputs' = filled
           /\ asked' = IF period = Unset THEN Overtaken(left, {Everything, filled}) ELSE left
      /\ r.call \in Narrow => inputs' = inputs /\ asked' = left
      /\ r.call \in {"period", "reset"} => profile' = Unset
      /\ r.call = "all" /\ period = Unset =>
           profile' = StillShown({Everything, filled}, "refreshed")
      /\ r.call = "again" \/ (r.call = "all" /\ period # Unset) => profile' = profile
  BY <1>0, <1>a, <1>b DEF ShowSummary, GraphAfter, Wide, Narrow
<1>4. answer.about = r.about
  BY <1>a DEF StatsOf
<1>5. r.call \in Narrow \cup Wide
  BY <1>0 DEF GraphInv, StatsCalls
<1>6. /\ left \in Waiting /\ left["stats"] = Cut(asked["stats"], k)
      /\ left["profile"] = asked["profile"]
  BY <1>0, <1>1, TypedNow, WithoutCuts, PanelNames
<1>7. /\ asked'["stats"] = Cut(asked["stats"], k)
      /\ Claims(asked'["profile"]) \subseteq Claims(asked["profile"])
      /\ r.call \in Wide /\ period = Unset =>
           Claims(asked'["profile"]) \subseteq {Everything, filled}
  <2>1. CASE r.call \in Narrow \/ (r.call \in Wide /\ period # Unset)
    <3>1. asked' = left
      BY <1>3, <2>1
    <3> QED BY <1>6, <2>1, <3>1 DEF Narrow, Wide
  <2>2. CASE r.call \in Wide /\ period = Unset
    <3>1. PICK d : d = Overtaken(left, {Everything, filled})
      OBVIOUS
    <3>2. d["stats"] = Cut(asked["stats"], k)
      BY <1>6, <3>1, OvertakenKeeps, PanelNames
    <3>3. /\ Claims(d["profile"]) \subseteq Claims(asked["profile"])
          /\ Claims(d["profile"]) \subseteq {Everything, filled}
      BY <1>6, <3>1, ClaimsLess
    <3>4. asked' = d
      BY <1>3, <2>2, <3>1
    <3> QED BY <3>2, <3>3, <3>4
  <2> QED BY <1>5, <2>1, <2>2
<1>8. /\ GraphShape' /\ Claim(profile') \subseteq Claim(profile)
      /\ r.call \in Wide /\ period = Unset => Claim(profile') \subseteq {Everything, filled}
      /\ r.call = "period" => Claim(profile') = {}
  <2>1. CASE r.call \in {"period", "reset"}
    BY <1>3, <2>1 DEF GraphShape, Claim
  <2>2. CASE r.call = "all" /\ period = Unset
    <3>1. PICK g : g = StillShown({Everything, filled}, "refreshed")
      OBVIOUS
    <3>2. /\ Claim(g) \subseteq Claim(profile) /\ Claim(g) \subseteq {Everything, filled}
          /\ g # Unset => {"excuse", "about"} \subseteq DOMAIN g
      BY <3>1, ClaimLess DEF GraphInv
    <3>3. profile' = g
      BY <1>3, <2>2, <3>1
    <3> QED BY <2>2, <3>2, <3>3 DEF GraphShape
  <2>3. CASE r.call = "again" \/ (r.call = "all" /\ period # Unset)
    BY <1>3, <2>3 DEF GraphInv, GraphShape, Wide
  <2> QED BY <1>5, <2>1, <2>2, <2>3 DEF Narrow, Wide
<1>9. /\ SamePeriod(answer.about)'
      /\ answer.about = Everything => SamePeriod(filled)'
  <2>1. SamePeriod(answer.about)'
    BY <1>3 DEF SamePeriod
  <2>2. CASE answer.summary.buckets = 0
    BY <1>3, <2>1, <2>2 DEF SamePeriod
  <2>3. CASE answer.summary.buckets # 0
    <3>1. filled = WrittenOut(answer.summary)
      BY <1>b, <2>3 DEF Filled
    <3>2. filled = WrittenOut(stats.summary)'
      BY <1>2, <1>3, <3>1 DEF WrittenOut
    <3> QED BY <1>3, <2>1, <3>2 DEF SamePeriod
  <2> QED BY <2>1, <2>2, <2>3
<1>10. ASSUME ~r.late, r.about = Target, Coming(r.call) PROVE Fitting'
  <2>1. CASE r.call \in Narrow
    <3>1. /\ period # Unset /\ answer.about = period
          /\ Claims(asked'["profile"]) \subseteq {period}
          /\ r.call = "again" => Claim(profile) \subseteq {period}
      BY <1>4, <1>7, <1>10, <2>1 DEF Coming, Target
    <3>2. Claim(profile') \subseteq {period}
      BY <1>8, <2>1, <3>1 DEF Narrow
    <3>3. PICK p : p = period
      OBVIOUS
    <3>4. SamePeriod(p)'
      BY <1>9, <3>1, <3>3
    <3>5. p # Unset /\ period' = p
      BY <1>3, <3>1, <3>3
    <3> QED BY <3>1, <3>2, <3>3, <3>4, <3>5 DEF Fitting
  <2>2. CASE r.call \in Wide
    <3>1. period = Unset /\ answer.about = Everything
      BY <1>4, <1>10, <2>2 DEF Coming, Target
    <3>2. SamePeriod(Everything)' /\ SamePeriod(filled)'
      BY <1>9, <3>1
    <3>3. inputs' = filled
      BY <1>3, <2>2
    <3> QED BY <1>7, <1>8, <2>2, <3>1, <3>2, <3>3 DEF Fitting
  <2> QED BY <1>5, <2>1, <2>2
<1>11. StatsCalls' /\ GraphFits'
  <2>1. r.late => "stats" \in spoilt'
    BY <1>2
  <2>2. asked["stats"][k].late /\ "stats" \notin spoilt' /\ stats' # Unset
          /\ ("stats" \notin spoilt /\ stats # Unset => Fitting) => Fitting'
    BY <1>0, <2>1
  <2>3. ~asked["stats"][k].late /\ "stats" \notin spoilt' /\ stats' # Unset
          /\ asked["stats"][k].about = Target /\ Coming(asked["stats"][k].call) => Fitting'
    BY <1>0, <1>10
  <2> QED BY <1>3, <1>7, <1>8, <2>2, <2>3, GraphCut
<1> QED BY <1>8, <1>11 DEF GraphInv

LEMMA GraphStepInv == PageInv /\ GraphInv /\ [PageNext]_pageVars => GraphInv'
<1> SUFFICES ASSUME PageInv, GraphInv, [PageNext]_pageVars PROVE GraphInv'
  OBVIOUS
<1>0. Typed /\ focus \in {"day", "period"} /\ PageInv'
  BY PageStepInv, TypedNow DEF PageInv
<1>1. ASSUME NEW b \in NewBuckets, NEW w \in Watts, Record(b, w) PROVE GraphInv'
  <2>1. UNCHANGED <<zone, asked, period, inputs, stats, typed, profile, spoilt>>
    BY <1>1 DEF Record, setting, page
  <2> QED BY <2>1, StillGraph
<1>2. CASE \/ \E d \in Offered : PickDay(d)
           \/ \E n \in {-1, 1} : StepDay(n)
  <2>1. /\ focus = "day" /\ \E date \in Int : LoadDay(date, asked)
        /\ UNCHANGED <<zone, period, inputs, stats, typed, profile, spoilt>>
    BY <1>0, <1>2, PicksTyped DEF setting
  <2>2. PICK date \in Int : LoadDay(date, asked)
    BY <2>1
  <2>3. \A p \in Panels : asked'[p] =
          IF p = "day" /\ p \in Half[focus]
          THEN Append(asked[p], Query("day", date, "none")) ELSE asked[p]
    BY <1>0, <2>2, TypedNow, DayLoadTyped
  <2>4. \A p \in {"stats", "profile"} : asked'[p] = asked[p]
    BY <2>3, PanelNames
  <2> QED BY <2>1, <2>4, StillGraph
<1>3. ASSUME NEW p \in Periods, TypePeriod(p) PROVE GraphInv'
  BY <1>3, TypePeriodGraph
<1>4. CASE Average
  BY <1>4, AverageGraph
<1>5. CASE Reset
  BY <1>5, ResetGraph
<1>6. CASE Graph \/ \E size \in Steps : ChooseStep(size)
  BY <1>6, GraphsGraph
<1>7. CASE Refresh
  <2>1. CASE focus = "period"
    BY <1>7, <2>1, RefreshGraph
  <2>2. CASE focus = "day"
    <3>1. asked'["stats"] = asked["stats"] /\ focus' = focus
      BY <1>0, <1>7, <2>2, RefreshTyped DEF PageInv, Refresh, setting
    <3>2. GraphFits' /\ StatsCalls'
      BY <1>0, <2>2, <3>1, GraphAway, CallsLeft DEF GraphInv
    <3>3. GraphShape'
      <4>1. profile' = profile \/ profile' = StillShown({inputs}, "refreshed")
        BY <1>7 DEF Refresh
      <4>2. CASE profile' = profile
        BY <4>2 DEF GraphInv, GraphShape
      <4>3. CASE profile' = StillShown({inputs}, "refreshed")
        <5>1. PICK g : g = StillShown({inputs}, "refreshed")
          OBVIOUS
        <5>2. g # Unset => {"excuse", "about"} \subseteq DOMAIN g
          BY <5>1, ClaimLess DEF GraphInv
        <5>3. profile' = g
          BY <4>3, <5>1
        <5> QED BY <5>2, <5>3 DEF GraphShape
      <4> QED BY <4>1, <4>2, <4>3
    <3> QED BY <3>2, <3>3 DEF GraphInv
  <2> QED BY <1>0, <2>1, <2>2
<1>8. ASSUME NEW panel \in Panels, NEW k \in DOMAIN asked[panel], Answer(panel, k)
      PROVE  GraphInv'
  <2>1. PICK i, j \in 1..Len(dbs) :
           \/ panel = "stats" /\ ShowSummary(k, i, j)
           \/ panel = "days" /\ ShowDays(k, i)
           \/ panel = "day" /\ ShowDay(k, i, j)
           \/ panel = "profile" /\ ShowProfile(k, i)
    BY <1>0, <1>8, AnswerShows
  <2>2. /\ spoilt' = IF asked[panel][k].late THEN spoilt \cup {panel} ELSE spoilt \ {panel}
        /\ zone' = zone
    BY <1>0, <1>8, AnswerShows
  <2>3. CASE panel = "stats" /\ ShowSummary(k, i, j)
    BY <1>8, <2>3, ShownSummaryGraph
  <2>4. CASE panel = "days" /\ ShowDays(k, i)
    <3>1. /\ \A p \in {"stats", "profile"} : asked'[p] = asked[p]
          /\ UNCHANGED <<period, inputs, stats, profile, typed>>
      BY <1>0, <1>8, <2>4, DaysTyped
    <3> QED BY <2>2, <2>4, <3>1, StillGraph
  <2>5. CASE panel = "day" /\ ShowDay(k, i, j)
    <3>1. asked' = Without("day", k) /\ UNCHANGED <<period, inputs, stats, profile, typed>>
      BY <2>5 DEF ShowDay
    <3>2. \A p \in {"stats", "profile"} : asked'[p] = asked[p]
      BY <1>0, <1>8, <2>5, <3>1, TypedNow, WithoutCuts, PanelNames
    <3> QED BY <2>2, <2>5, <3>1, <3>2, StillGraph
  <2>6. CASE panel = "profile" /\ ShowProfile(k, i)
    BY <1>8, <2>6, ShownProfileGraph
  <2> QED BY <2>1, <2>3, <2>4, <2>5, <2>6
<1>9. ASSUME NEW panel \in Panels, NEW k \in DOMAIN asked[panel], Fail(panel, k)
      PROVE  GraphInv'
  <2>1. CASE panel \in {"stats", "profile"}
    BY <1>9, <2>1, FailGraph
  <2>2. CASE panel \in {"day", "days"}
    <3>1. asked' = Without(panel, k)
      BY <1>9 DEF Fail
    <3>2. \A p \in {"stats", "profile"} : asked'[p] = asked[p]
      BY <1>0, <1>9, <2>2, <3>1, TypedNow, WithoutCuts, PanelNames
    <3>3. asked[panel][k].call \notin {"period", "reset"} => profile' = profile
      BY <1>9 DEF Fail
    <3>4. /\ asked'["stats"] = asked["stats"] /\ focus' = focus
          /\ UNCHANGED <<zone, period, inputs, stats, typed>>
      BY <1>9, <3>2 DEF Fail, setting
    <3>5. profile' = profile \/ profile' = StillShown({}, "undropped")
      BY <1>9 DEF Fail
    <3>6. GraphShape' /\ Claim(profile') \subseteq Claim(profile)
      <4>1. CASE profile' = profile
        BY <4>1 DEF GraphInv, GraphShape
      <4>2. CASE profile' = StillShown({}, "undropped")
        <5>1. PICK g : g = StillShown({}, "undropped")
          OBVIOUS
        <5>2. /\ Claim(g) \subseteq Claim(profile)
              /\ g # Unset => {"excuse", "about"} \subseteq DOMAIN g
          BY <5>1, ClaimLess DEF GraphInv
        <5>3. profile' = g
          BY <4>2, <5>1
        <5> QED BY <5>2, <5>3 DEF GraphShape
      <4> QED BY <3>5, <4>1, <4>2
    <3>7. "stats" \notin spoilt' => "stats" \notin spoilt
      BY <1>9 DEF Fail
    <3>8. Claims(asked'["profile"]) \subseteq Claims(asked["profile"])
      BY <3>2
    <3> QED BY <3>4, <3>6, <3>7, <3>8, GraphLeft, CallsLeft DEF GraphInv
  <2> QED BY <2>1, <2>2, PanelNames
<1>10. CASE UNCHANGED pageVars
  <2>1. UNCHANGED <<zone, asked, period, inputs, stats, typed, profile, spoilt>>
    BY <1>10 DEF pageVars, setting, page
  <2> QED BY <2>1, StillGraph
<1> QED BY <1>1, <1>2, <1>3, <1>4, <1>5, <1>6, <1>7, <1>8, <1>9, <1>10 DEF PageNext

LEMMA GraphStartInv == PageInit => GraphInv
<1> SUFFICES ASSUME PageInit PROVE GraphInv
  OBVIOUS
<1>1. stats = Unset /\ profile = Unset /\ period = Unset
  BY DEF PageInit
<1>2. PICK r : r = Query("all", Everything, "none")
  OBVIOUS
<1>3. r.call = "all"
  BY <1>2 DEF Query
<1>4. asked["stats"] = <<r>> \/ asked["stats"] = <<>>
  BY <1>2, StartTyped, PanelNames
<1>5. CASE asked["stats"] = <<r>>
  <2>1. PICK q : q = <<r>>
    OBVIOUS
  <2>2. Len(q) = 1 /\ q[1] = r /\ DOMAIN q = {1}
    BY <2>1
  <2>3. asked["stats"] = q
    BY <1>5, <2>1
  <2>4. Coming(r.call)
    BY <1>1, <1>3 DEF Coming, Narrow, Wide
  <2>5. \A i \in DOMAIN q : q[i].call \in Narrow \cup Wide
    BY <1>3, <2>2 DEF Wide
  <2> QED BY <1>1, <2>2, <2>3, <2>4, <2>5 DEF GraphInv, GraphFits, GraphShape, StatsCalls
<1>6. CASE asked["stats"] = <<>>
  BY <1>1, <1>6 DEF GraphInv, GraphFits, GraphShape, StatsCalls, Expects
<1> QED BY <1>4, <1>5, <1>6

LEMMA GraphInvariance == PageSpec => [](PageInv /\ GraphInv)
BY PageStartInv, PageStepInv, GraphStartInv, GraphStepInv, PTL DEF PageSpec

(* Statistics that nothing is awaited for are of the chosen period, and the *)
(* button of the profile comes back (loadPeriod, loadAll, loadProfile).     *)
THEOREM StatsShown == PageSpec => []StatsBelongToPeriod
<1>1. PageInv => StatsBelongToPeriod
  BY DEF PageInv, ButtonReturns, StatsAwaited, StatsFollow, Awaited, Target,
         StatsBelongToPeriod, StatsSettled, Pending
<1> QED BY <1>1, PageInvariance, PTL

(* "Showing it next to a different period would be a lie": the graph next   *)
(* to settled statistics is of their period, or one of Excuses holds, which *)
(* name all the ways in which the code tells that lie (loadProfile,         *)
(* dropProfile).                                                            *)
THEOREM GraphShown == PageSpec => []GraphIsOfPeriod
<1>1. PageInv /\ GraphInv => GraphIsOfPeriod
  BY DEF GraphInv, GraphFits, Fitting, Claim, Expects, GraphIsOfPeriod, StatsSettled, Pending
<1> QED BY <1>1, GraphInvariance, PTL
-----------------------------------------------------------------------------
(* What is asked of the statistics and of the graph are periods, and what   *)
(* they show is what the queries answered then.                             *)
Wanted(panel) == IF panel = "stats" THEN Spans \cup {Everything}
                 ELSE [period : Spans \cup {Everything}, step : Steps]
Topics(q) == {q[i].about : i \in DOMAIN q}
PeriodsAsked == \A panel \in {"stats", "profile"} : Topics(asked[panel]) \subseteq Wanted(panel)

StatsAnswer(about, i, j) ==
  [about |-> about, seen |-> <<i, j>>, summary |-> Summary(dbs[i], Window(zone, about)),
   energy |-> DayEnergy(zone, dbs[j], Window(zone, about))]
StatsAreTrue ==
  stats # Unset =>
    \E about \in Wanted("stats"), i, j \in 1..Len(dbs) : stats = StatsAnswer(about, i, j)

GraphAnswer(about, excuse, i) ==
  [about |-> about, excuse |-> excuse, seen |-> <<i, i>>,
   slots |-> AverageProfile(zone, dbs[i], Window(zone, about.period), about.step)]
GraphIsTrue ==
  profile # Unset =>
    \E about \in Wanted("profile"), excuse \in Excuses, i \in 1..Len(dbs) :
      profile = GraphAnswer(about, excuse, i)

TruthInv == PeriodsAsked /\ StatsAreTrue /\ GraphIsTrue

LEMMA TopicsCut ==
  ASSUME NEW q \in Seq(Requests), NEW k \in 1..Len(q)
  PROVE  Topics(Cut(q, k)) \subseteq Topics(q)
<1>1. PICK c : c = Cut(q, k)
  OBVIOUS
<1>2. /\ c \in Seq(Requests) /\ Len(c) = Len(q) - 1
      /\ \A i \in 1..Len(q) - 1 :
           /\ i < k => c[i].about = q[i].about
           /\ i >= k => c[i] = q[i + 1]
  BY <1>1, CutRequests
<1>3. DOMAIN c = 1..Len(q) - 1 /\ DOMAIN q = 1..Len(q) /\ Len(q) \in Nat /\ k \in Int
  BY <1>2
<1>4. ASSUME NEW i \in DOMAIN c PROVE \E n \in DOMAIN q : c[i].about = q[n].about
  <2>1. CASE i < k
    BY <1>2, <1>3, <2>1
  <2>2. CASE ~(i < k)
    <3>1. i + 1 \in DOMAIN q /\ c[i] = q[i + 1]
      BY <1>2, <1>3, <2>2
    <3> QED BY <3>1
  <2> QED BY <2>1, <2>2
<1>5. Topics(c) \subseteq Topics(q)
  BY <1>4 DEF Topics
<1> QED BY <1>1, <1>5

LEMMA TopicsMore ==
  ASSUME NEW q \in Seq(Requests), NEW r \in Requests
  PROVE  Topics(Append(q, r)) \subseteq Topics(q) \cup {r.about}
<1>1. PICK s : s = Append(q, r)
  OBVIOUS
<1>2. /\ DOMAIN s = 1..Len(q) + 1 /\ DOMAIN q = 1..Len(q) /\ Len(q) \in Nat
      /\ \A i \in 1..Len(q) : s[i] = q[i]
      /\ s[Len(q) + 1] = r
  BY <1>1, AppendProperties
<1>3. ASSUME NEW i \in DOMAIN s PROVE s[i] = r \/ (i \in DOMAIN q /\ s[i] = q[i])
  BY <1>2
<1>4. Topics(s) \subseteq Topics(q) \cup {r.about}
  BY <1>3 DEF Topics
<1> QED BY <1>1, <1>4

LEMMA TopicsLess ==
  ASSUME NEW requests \in Waiting, NEW ps
  PROVE  Topics(Overtaken(requests, ps)["profile"]) \subseteq Topics(requests["profile"])
<1>1. PICK q : q = requests["profile"]
  OBVIOUS
<1>2. PICK d : d = Overtaken(requests, ps)["profile"]
  OBVIOUS
<1>3. d = [i \in DOMAIN q |-> Excused(q[i], ps, "overtaken")]
  BY <1>1, <1>2 DEF Overtaken, Waiting, Panels
<1>4. q \in Seq(Requests)
  BY <1>1 DEF Waiting, Panels
<1>5. ASSUME NEW i \in DOMAIN d PROVE i \in DOMAIN q /\ d[i].about = q[i].about
  <2>1. i \in DOMAIN q /\ d[i] = Excused(q[i], ps, "overtaken")
    BY <1>3
  <2>2. q[i] \in Requests
    BY <1>4, <2>1, ElementOfSeq
  <2>3. [q[i] EXCEPT !.excuse = "overtaken"].about = q[i].about
    BY <2>2, RequestFields
  <2> QED BY <2>1, <2>3 DEF Excused
<1>6. Topics(d) \subseteq Topics(q)
  BY <1>5 DEF Topics
<1> QED BY <1>1, <1>2, <1>6

(* A panel asks for more of what it asks for, or for less.                  *)
LEMMA PanelAsks ==
  ASSUME Typed, PeriodsAsked, NEW panel \in {"stats", "profile"},
         \/ asked'[panel] = asked[panel]
         \/ \E k \in 1..Len(asked[panel]) : asked'[panel] = Cut(asked[panel], k)
         \/ \E requests \in Waiting : \E ps :
              /\ requests["profile"] = asked["profile"] /\ panel = "profile"
              /\ asked'[panel] = Overtaken(requests, ps)[panel]
         \/ \E call \in Calls, about \in Abouts, excuse \in Excuses :
              /\ about \in Wanted(panel)
              /\ asked'[panel] = Append(asked[panel], Query(call, about, excuse))
  PROVE  Topics(asked'[panel]) \subseteq Wanted(panel)
<1>1. asked[panel] \in Seq(Requests) /\ Topics(asked[panel]) \subseteq Wanted(panel)
  BY TypedNow, PanelNames DEF PeriodsAsked
<1>2. CASE asked'[panel] = asked[panel]
  BY <1>1, <1>2
<1>3. ASSUME NEW k \in 1..Len(asked[panel]), asked'[panel] = Cut(asked[panel], k)
      PROVE  Topics(asked'[panel]) \subseteq Wanted(panel)
  BY <1>1, <1>3, TopicsCut
<1>4. ASSUME NEW requests \in Waiting, NEW ps, requests["profile"] = asked["profile"],
             panel = "profile", asked'[panel] = Overtaken(requests, ps)[panel]
      PROVE  Topics(asked'[panel]) \subseteq Wanted(panel)
  BY <1>1, <1>4, TopicsLess
<1>5. ASSUME NEW call \in Calls, NEW about \in Abouts, NEW excuse \in Excuses, about \in Wanted(panel),
             asked'[panel] = Append(asked[panel], Query(call, about, excuse))
      PROVE  Topics(asked'[panel]) \subseteq Wanted(panel)
  <2>1. PICK r : r = Query(call, about, excuse)
    OBVIOUS
  <2>2. r \in Requests /\ r.about = about
    BY <2>1, QueryFields DEF Typed, Kept, PageTypeOK
  <2> QED BY <1>1, <1>5, <2>1, <2>2, TopicsMore
<1> QED BY <1>2, <1>3, <1>4, <1>5

LEMMA ClicksAsk ==
  ASSUME PageInv, PeriodsAsked,
         Average \/ Reset \/ Graph \/ \E size \in Steps : ChooseStep(size)
  PROVE  PeriodsAsked'
<1>1. Typed /\ asked \in Waiting /\ inputs \in Spans \cup {Unset}
  BY TypedNow DEF PageInv
<1>2. /\ {"period", "reset", "profile"} \subseteq Calls /\ TRUE \in BOOLEAN
      /\ Everything \in Abouts /\ Everything \in Wanted("stats")
      /\ Spans \subseteq Abouts /\ Spans \subseteq Wanted("stats")
      /\ Wanted("profile") \subseteq Abouts
  BY DEF Calls, Abouts, Wanted
<1>3. CASE Average
  <2>1. /\ inputs \in Spans
        /\ asked'["stats"] = Append(asked["stats"], Query("period", inputs, "none"))
        /\ asked'["profile"] = Overtaken(asked, {inputs})["profile"]
    BY <1>1, <1>3, AverageTyped, PanelNames
  <2>2. Topics(asked'["stats"]) \subseteq Wanted("stats")
    BY <1>1, <1>2, <2>1, PanelAsks, NoExcuse
  <2>3. Topics(asked'["profile"]) \subseteq Wanted("profile")
    BY <1>1, <2>1, PanelAsks
  <2> QED BY <2>2, <2>3 DEF PeriodsAsked
<1>4. CASE Reset
  <2>1. /\ asked'["stats"] = Append(asked["stats"], Query("reset", Everything, "none"))
        /\ asked'["profile"] = asked["profile"]
    BY <1>1, <1>4, ResetTyped, PanelNames
  <2>2. Topics(asked'["stats"]) \subseteq Wanted("stats")
    BY <1>1, <1>2, <2>1, PanelAsks, NoExcuse
  <2>3. Topics(asked'["profile"]) \subseteq Wanted("profile")
    BY <1>1, <2>1, PanelAsks
  <2> QED BY <2>2, <2>3 DEF PeriodsAsked
<1>5. CASE Graph \/ \E size \in Steps : ChooseStep(size)
  <2>1. focus = "period" /\ asked'["stats"] = asked["stats"]
    BY <1>1, <1>5, GraphsTyped, PanelNames
  <2>2. (\E size \in Steps : LoadProfile(size)) \/ UNCHANGED asked
    BY <1>5, TypedNow, <1>1 DEF Graph, ChooseStep
  <2>3. Topics(asked'["stats"]) \subseteq Wanted("stats")
    BY <1>1, <2>1, PanelAsks
  <2>4. CASE UNCHANGED asked
    <3>1. asked'["profile"] = asked["profile"]
      BY <2>4
    <3>2. Topics(asked'["profile"]) \subseteq Wanted("profile")
      BY <1>1, <3>1, PanelAsks
    <3> QED BY <2>3, <3>2 DEF PeriodsAsked
  <2>5. ASSUME NEW size \in Steps, LoadProfile(size)
        PROVE  Topics(asked'["profile"]) \subseteq Wanted("profile")
    <3>1. PICK about : about = [period |-> Chosen, step |-> size]
      OBVIOUS
    <3>2. about \in Wanted("profile") /\ about \in Abouts
      <4>1. Chosen \in Spans \cup {Everything}
        BY <1>1 DEF Chosen
      <4>2. about \in Wanted("profile")
        BY <3>1, <4>1 DEF Wanted
      <4> QED BY <1>2, <4>2
    <3>3. Plea \in Excuses
      BY DEF Plea, Excuses
    <3>4. asked' = Asking(asked, Query("profile", about, Plea))
      BY <2>5, <3>1 DEF LoadProfile, Chosen, Plea
    <3>5. asked'["profile"] = Append(asked["profile"], Query("profile", about, Plea))
      <4>1. PanelOf("profile") = "profile"
        BY PanelNames
      <4>2. \A p \in Panels : asked'[p] =
              IF p = PanelOf("profile") THEN Append(asked[p], Query("profile", about, Plea))
              ELSE asked[p]
        BY <1>1, <1>2, <2>1, <3>2, <3>3, <3>4, <4>1, PeriodAsks
      <4> QED BY <4>1, <4>2, PanelNames
    <3> QED BY <1>1, <1>2, <3>2, <3>3, <3>5, PanelAsks
  <2> QED BY <2>2, <2>3, <2>4, <2>5 DEF PeriodsAsked
<1> QED BY <1>3, <1>4, <1>5

LEMMA RefreshAsks ==
  ASSUME PageInv, PeriodsAsked, Refresh
  PROVE  PeriodsAsked'
<1> DEFINE two == Asking(asked, Query("days", Unset, "none"))
<1> DEFINE about == IF period = Unset THEN Everything ELSE inputs
<1>1. Typed /\ asked \in Waiting /\ focus \in {"day", "period"} /\ TRUE \in BOOLEAN
  BY TypedNow DEF PageInv
<1>2. about \in Abouts /\ about \in Wanted("stats")
  <2>1. period # Unset => inputs \in Spans
    BY <1>1, TypedNow DEF PageInv, InputsFilled
  <2> QED BY <2>1 DEF Abouts, Wanted
<1>3. /\ {"days", "all", "again"} \subseteq Calls /\ Unset \in Abouts
      /\ PanelOf("days") = "days" /\ PanelOf("all") = "stats" /\ PanelOf("again") = "stats"
  BY PanelNames DEF Calls, Abouts
<1>4. two \in Waiting /\ two["profile"] = asked["profile"]
  <2>1. /\ two \in Waiting
        /\ \A p \in Panels : two[p] =
             IF p = PanelOf("days") /\ p \in Half[focus]
             THEN Append(asked[p], Query("days", Unset, "none")) ELSE asked[p]
    BY <1>1, <1>3, QueryAdds, NoExcuse
  <2> QED BY <1>3, <2>1, PanelNames
<1>5. Topics(asked'["profile"]) \subseteq Wanted("profile")
  <2>1. CASE period = Unset
    <3>1. asked' = Asking(two, Query("all", Everything, "none"))
      BY <2>1 DEF Refresh
    <3>2. asked'["profile"] = asked["profile"]
      <4> HIDE DEF two
      <4>0. Everything \in Abouts
        BY DEF Abouts
      <4>1. \A p \in Panels : Asking(two, Query("all", Everything, "none"))[p] =
              IF p = PanelOf("all") /\ p \in Half[focus]
              THEN Append(two[p], Query("all", Everything, "none")) ELSE two[p]
        BY <1>1, <1>3, <1>4, <4>0, QueryAdds, NoExcuse
      <4> QED BY <1>3, <1>4, <3>1, <4>1, PanelNames
    <3> QED BY <1>1, <3>2, PanelAsks
  <2>2. CASE period # Unset
    <3>1. asked' = Asking(Overtaken(two, {inputs}), Query("again", inputs, "none"))
      BY <2>2 DEF Refresh
    <3>2. Overtaken(two, {inputs}) \in Waiting /\ inputs \in Abouts
      BY <1>2, <1>4, <2>2, OvertakenKeeps
    <3>3. asked'["profile"] = Overtaken(two, {inputs})["profile"]
      <4> HIDE DEF two
      <4>1. \A p \in Panels : Asking(Overtaken(two, {inputs}), Query("again", inputs, "none"))[p] =
              IF p = PanelOf("again") /\ p \in Half[focus]
              THEN Append(Overtaken(two, {inputs})[p], Query("again", inputs, "none"))
              ELSE Overtaken(two, {inputs})[p]
        BY <1>1, <1>3, <3>2, QueryAdds, NoExcuse
      <4> QED BY <1>3, <3>1, <4>1, PanelNames
    <3> HIDE DEF two
    <3> QED BY <1>1, <1>4, <3>3, PanelAsks
  <2> QED BY <2>1, <2>2
<1>6. Topics(asked'["stats"]) \subseteq Wanted("stats")
  <2>1. CASE focus = "day"
    <3>1. asked'["stats"] = asked["stats"]
      BY <1>1, <2>1, RefreshTyped DEF PageInv
    <3> QED BY <1>1, <3>1, PanelAsks
  <2>2. CASE focus = "period"
    <3>1. PICK call \in {"all", "again"} :
            asked'["stats"] = Append(asked["stats"], Query(call, about, "none"))
      BY <1>1, <2>2, RefreshTyped DEF PageInv
    <3>2. call \in Calls
      BY <1>3
    <3> HIDE DEF about
    <3> QED BY <1>1, <1>2, <3>1, <3>2, PanelAsks, NoExcuse
  <2> QED BY <1>1, <2>1, <2>2
<1> QED BY <1>5, <1>6 DEF PeriodsAsked

LEMMA LessAsked ==
  ASSUME PageInv, PeriodsAsked, NEW panel \in Panels, NEW k \in DOMAIN asked[panel],
         Answer(panel, k) \/ Fail(panel, k)
  PROVE  PeriodsAsked'
<1>1. Typed /\ asked \in Waiting
  BY TypedNow DEF PageInv
<1>2. PICK left : left = Without(panel, k)
  OBVIOUS
<1>3. /\ left \in Waiting /\ k \in 1..Len(asked[panel])
      /\ \A p \in Panels : left[p] = IF p = panel THEN Cut(asked[p], k) ELSE asked[p]
  BY <1>1, <1>2, WithoutCuts
<1>4. ASSUME NEW p \in {"stats", "profile"}, asked'[p] = left[p]
      PROVE  Topics(asked'[p]) \subseteq Wanted(p)
  <2>1. asked'[p] = asked[p] \/ (asked'[p] = Cut(asked[p], k) /\ k \in 1..Len(asked[p]))
    BY <1>3, <1>4, PanelNames
  <2> QED BY <1>1, <2>1, PanelAsks
<1>5. CASE asked' = left
  BY <1>4, <1>5 DEF PeriodsAsked
<1>6. CASE Fail(panel, k)
  BY <1>2, <1>5, <1>6 DEF Fail
<1>7. CASE Answer(panel, k)
  <2>1. PICK i, j \in 1..Len(dbs) :
           \/ panel = "stats" /\ ShowSummary(k, i, j)
           \/ panel = "days" /\ ShowDays(k, i)
           \/ panel = "day" /\ ShowDay(k, i, j)
           \/ panel = "profile" /\ ShowProfile(k, i)
    BY <1>1, <1>7, AnswerShows
  <2>2. CASE panel = "day" /\ ShowDay(k, i, j)
    BY <1>2, <1>5, <2>2 DEF ShowDay
  <2>3. CASE panel = "profile" /\ ShowProfile(k, i)
    BY <1>2, <1>5, <2>3 DEF ShowProfile
  <2>4. CASE panel = "days" /\ ShowDays(k, i)
    <3>1. \A p \in {"stats", "profile"} : asked'[p] = asked[p]
      BY <1>1, <2>4, DaysTyped
    <3>2. \A p \in {"stats", "profile"} : asked'[p] = left[p]
      BY <1>3, <2>4, <3>1, PanelNames
    <3> QED BY <1>4, <3>2 DEF PeriodsAsked
  <2>5. CASE panel = "stats" /\ ShowSummary(k, i, j)
    <3>1. asked' = left \/ \E ps : asked' = Overtaken(left, ps)
      BY <1>2, <2>5 DEF ShowSummary, GraphAfter
    <3>2. ASSUME NEW ps, asked' = Overtaken(left, ps) PROVE PeriodsAsked'
      <4>1. asked'["stats"] = left["stats"]
        BY <1>3, <3>2, OvertakenKeeps, PanelNames
      <4>2. left["profile"] = asked["profile"]
        BY <1>3, <2>5, PanelNames
      <4>3. Topics(asked'["stats"]) \subseteq Wanted("stats")
        BY <1>4, <4>1
      <4>4. Topics(asked'["profile"]) \subseteq Wanted("profile")
        BY <1>1, <1>3, <3>2, <4>2, PanelAsks
      <4> QED BY <4>3, <4>4 DEF PeriodsAsked
    <3> QED BY <1>5, <3>1, <3>2
  <2> QED BY <2>1, <2>2, <2>3, <2>4, <2>5
<1> QED BY <1>6, <1>7

LEMMA PeriodsStep == PageInv /\ PeriodsAsked /\ [PageNext]_pageVars => PeriodsAsked'
<1> SUFFICES ASSUME PageInv, PeriodsAsked, [PageNext]_pageVars PROVE PeriodsAsked'
  OBVIOUS
<1>0. Typed
  BY DEF PageInv
<1>1. ASSUME NEW b \in NewBuckets, NEW w \in Watts, Record(b, w) PROVE PeriodsAsked'
  BY <1>1 DEF Record, PeriodsAsked
<1>2. CASE \/ \E d \in Offered : PickDay(d)
           \/ \E n \in {-1, 1} : StepDay(n)
  <2>1. PICK date \in Int : LoadDay(date, asked)
    BY <1>0, <1>2, PicksTyped
  <2>2. \A p \in Panels : asked'[p] =
          IF p = "day" /\ p \in Half[focus]
          THEN Append(asked[p], Query("day", date, "none")) ELSE asked[p]
    BY <1>0, <2>1, TypedNow, DayLoadTyped
  <2>3. \A p \in {"stats", "profile"} : asked'[p] = asked[p]
    BY <2>2, PanelNames
  <2> QED BY <2>3 DEF PeriodsAsked
<1>3. ASSUME NEW p \in Periods, TypePeriod(p) PROVE PeriodsAsked'
  BY <1>3 DEF TypePeriod, PeriodsAsked
<1>4. CASE Average \/ Reset \/ Graph \/ \E size \in Steps : ChooseStep(size)
  BY <1>4, ClicksAsk
<1>5. CASE Refresh
  BY <1>5, RefreshAsks
<1>6. ASSUME NEW p \in Panels, NEW k \in DOMAIN asked[p], Answer(p, k) \/ Fail(p, k)
      PROVE  PeriodsAsked'
  BY <1>6, LessAsked
<1>7. CASE UNCHANGED pageVars
  BY <1>7 DEF pageVars, PeriodsAsked
<1> QED BY <1>1, <1>2, <1>3, <1>4, <1>5, <1>6, <1>7 DEF PageNext

(* What was recorded is not undone, and the two panels change by an answer. *)
LEMMA DatabasesStay ==
  ASSUME Typed, [PageNext]_pageVars
  PROVE  /\ zone' = zone
         /\ \A i \in 1..Len(dbs) : i \in 1..Len(dbs') /\ dbs'[i] = dbs[i]
<1>0. Len(dbs) \in Nat /\ dbs \in Seq(FiniteTables)
  BY TypedNow
<1>1. CASE UNCHANGED <<zone, dbs>>
  BY <1>1
<1>2. ASSUME NEW b \in NewBuckets, NEW w \in Watts, Record(b, w)
      PROVE  /\ zone' = zone
             /\ \A i \in 1..Len(dbs) : i \in 1..Len(dbs') /\ dbs'[i] = dbs[i]
  <2>1. PICK grown \in FiniteTables : dbs' = Append(dbs, grown)
    BY <1>2, RecordTyped
  <2>2. PICK s : s = Append(dbs, grown)
    OBVIOUS
  <2>3. Len(s) = Len(dbs) + 1 /\ \A i \in 1..Len(dbs) : s[i] = dbs[i]
    BY <1>0, <2>2, AppendProperties
  <2>4. \A i \in 1..Len(dbs) : i \in 1..Len(s) /\ s[i] = dbs[i]
    BY <1>0, <2>3
  <2>5. zone' = zone
    BY <1>2 DEF Record, setting
  <2> QED BY <2>1, <2>2, <2>4, <2>5
<1>3. CASE \/ \E d \in Offered : PickDay(d)
           \/ \E n \in {-1, 1} : StepDay(n)
  BY <1>1, <1>3 DEF PickDay, StepDay, setting
<1>4. CASE \/ \E p \in Periods : TypePeriod(p)
           \/ Average \/ Reset \/ Graph \/ \E size \in Steps : ChooseStep(size)
  BY <1>1, <1>4 DEF TypePeriod, Average, Reset, Graph, ChooseStep, setting
<1>5. CASE Refresh
  BY <1>1, <1>5 DEF Refresh, setting
<1>6. ASSUME NEW p \in Panels, NEW k \in DOMAIN asked[p], Answer(p, k) \/ Fail(p, k)
      PROVE  UNCHANGED <<zone, dbs>>
  BY <1>6 DEF Answer, Fail, setting
<1>7. CASE UNCHANGED pageVars
  BY <1>1, <1>7 DEF pageVars, setting
<1> QED BY <1>1, <1>2, <1>3, <1>4, <1>5, <1>6, <1>7 DEF PageNext

Excusing == \E ps : \E why \in Excuses : profile' = StillShown(ps, why)

LEMMA PanelsChange ==
  ASSUME Typed, StatsCalls, [PageNext]_pageVars
  PROVE  /\ \/ stats' = stats
            \/ \E k \in DOMAIN asked["stats"], i, j \in 1..Len(dbs) :
                 stats' = StatsOf(asked["stats"][k], i, j)
         /\ \/ profile' = profile \/ profile' = Unset \/ Excusing
            \/ \E k \in DOMAIN asked["profile"], i \in 1..Len(dbs) :
                 profile' = ProfileOf(asked["profile"][k], i)
<1>1. CASE UNCHANGED <<stats, profile>>
  BY <1>1
<1>2. CASE \/ \E b \in NewBuckets, w \in Watts : Record(b, w)
           \/ \E d \in Offered : PickDay(d)
           \/ \E n \in {-1, 1} : StepDay(n)
           \/ \E p \in Periods : TypePeriod(p)
           \/ Average \/ Reset \/ Graph \/ \E size \in Steps : ChooseStep(size)
           \/ UNCHANGED pageVars
  BY <1>1, <1>2 DEF Record, PickDay, StepDay, TypePeriod, Average, Reset, Graph, ChooseStep,
                    pageVars, page
<1>3. CASE Refresh
  BY <1>3 DEF Refresh, Excusing, Excuses
<1>4. ASSUME NEW p \in Panels, NEW k \in DOMAIN asked[p], Fail(p, k)
      PROVE  stats' = stats /\ (profile' = profile \/ Excusing)
  BY <1>4 DEF Fail, Excusing, Excuses
<1>5. ASSUME NEW panel \in Panels, NEW k \in DOMAIN asked[panel], Answer(panel, k)
      PROVE  /\ \/ stats' = stats
                \/ \E n \in DOMAIN asked["stats"], i, j \in 1..Len(dbs) :
                     stats' = StatsOf(asked["stats"][n], i, j)
             /\ \/ profile' = profile \/ profile' = Unset \/ Excusing
                \/ \E n \in DOMAIN asked["profile"], i \in 1..Len(dbs) :
                     profile' = ProfileOf(asked["profile"][n], i)
  <2>1. PICK i, j \in 1..Len(dbs) :
           \/ panel = "stats" /\ ShowSummary(k, i, j)
           \/ panel = "days" /\ ShowDays(k, i)
           \/ panel = "day" /\ ShowDay(k, i, j)
           \/ panel = "profile" /\ ShowProfile(k, i)
    BY <1>5, AnswerShows
  <2>2. CASE (panel = "days" /\ ShowDays(k, i)) \/ (panel = "day" /\ ShowDay(k, i, j))
    BY <2>2 DEF ShowDays, ShowDay
  <2>3. CASE panel = "profile" /\ ShowProfile(k, i)
    BY <1>5, <2>3 DEF ShowProfile
  <2>4. CASE panel = "stats" /\ ShowSummary(k, i, j)
    <3>1. stats' = StatsOf(asked["stats"][k], i, j)
      BY <2>4 DEF ShowSummary, GraphAfter
    <3>2. asked["stats"][k].call \in {"period", "reset", "all", "again"}
            => profile' = profile \/ profile' = Unset \/ Excusing
      BY <2>4 DEF ShowSummary, GraphAfter, Excusing, Excuses
    <3>3. k \in DOMAIN asked["stats"]
      BY <2>4
    <3>4. asked["stats"][k].call \in {"period", "reset", "all", "again"}
      BY <3>3 DEF StatsCalls, Narrow, Wide
    <3> QED BY <3>1, <3>2, <3>3, <3>4
  <2> QED BY <2>1, <2>2, <2>3, <2>4
<1> QED BY <1>2, <1>3, <1>4, <1>5 DEF PageNext

LEMMA GraphKept ==
  ASSUME NEW graph, NEW about, NEW excuse \in Excuses, NEW i,
         graph = GraphAnswer(about, excuse, i), NEW why \in Excuses,
         NEW other, other = [graph EXCEPT !.excuse = why]
  PROVE  \E still \in Excuses : other = GraphAnswer(about, still, i)
<1>1. PICK seen, slots :
        /\ seen = <<i, i>>
        /\ slots = AverageProfile(zone, dbs[i], Window(zone, about.period), about.step)
  OBVIOUS
<1> DEFINE Graphs == [about : {about}, excuse : Excuses, seen : {seen}, slots : {slots}]
<1>2. /\ graph = [about |-> about, excuse |-> excuse, seen |-> seen, slots |-> slots]
      /\ graph \in Graphs
  BY <1>1 DEF GraphAnswer
<1>3. PICK g \in Graphs : g = [graph EXCEPT !.excuse = why]
  BY <1>2
<1>4. PICK still \in Excuses : g = [about |-> about, excuse |-> still, seen |-> seen, slots |-> slots]
  OBVIOUS
<1>5. GraphAnswer(about, still, i)
        = [about |-> about, excuse |-> still, seen |-> seen, slots |-> slots]
  BY <1>1 DEF GraphAnswer
<1>6. other = GraphAnswer(about, still, i)
  BY <1>3, <1>4, <1>5
<1> QED BY <1>6

LEMMA TruthStep ==
  PageInv /\ GraphInv /\ TruthInv /\ [PageNext]_pageVars => TruthInv'
<1> SUFFICES ASSUME PageInv, GraphInv, TruthInv, [PageNext]_pageVars PROVE TruthInv'
  OBVIOUS
<1>1. /\ zone' = zone
      /\ \A i \in 1..Len(dbs) : i \in 1..Len(dbs') /\ dbs'[i] = dbs[i]
  BY DatabasesStay DEF PageInv
<1>2. \A i \in 1..Len(dbs), j \in 1..Len(dbs) :
        /\ \A about : StatsAnswer(about, i, j)' = StatsAnswer(about, i, j)
        /\ \A about, excuse : GraphAnswer(about, excuse, i)' = GraphAnswer(about, excuse, i)
  BY <1>1 DEF StatsAnswer, GraphAnswer
<1>3. /\ \/ stats' = stats
         \/ \E k \in DOMAIN asked["stats"], i, j \in 1..Len(dbs) :
              stats' = StatsOf(asked["stats"][k], i, j)
      /\ \/ profile' = profile \/ profile' = Unset \/ Excusing
         \/ \E k \in DOMAIN asked["profile"], i \in 1..Len(dbs) :
              profile' = ProfileOf(asked["profile"][k], i)
  BY PanelsChange DEF PageInv, GraphInv
<1>4. StatsAreTrue'
  <2> SUFFICES ASSUME stats' # Unset
               PROVE  \E about \in Wanted("stats"), i, j \in 1..Len(dbs') :
                        stats' = StatsAnswer(about, i, j)'
    BY DEF StatsAreTrue, Wanted
  <2>1. ASSUME stats' = stats
        PROVE  \E about \in Wanted("stats"), i, j \in 1..Len(dbs) :
                 stats' = StatsAnswer(about, i, j)
    BY <2>1 DEF TruthInv, StatsAreTrue
  <2>2. ASSUME NEW k \in DOMAIN asked["stats"], NEW i \in 1..Len(dbs), NEW j \in 1..Len(dbs),
               stats' = StatsOf(asked["stats"][k], i, j)
        PROVE  \E about \in Wanted("stats") : stats' = StatsAnswer(about, i, j)
    <3>1. asked["stats"][k].about \in Wanted("stats")
      BY DEF TruthInv, PeriodsAsked, Topics
    <3>2. stats' = StatsAnswer(asked["stats"][k].about, i, j)
      BY <2>2 DEF StatsOf, StatsAnswer
    <3> QED BY <3>1, <3>2
  <2>3. \E about \in Wanted("stats"), i, j \in 1..Len(dbs) : stats' = StatsAnswer(about, i, j)
    BY <1>3, <2>1, <2>2
  <2> QED BY <1>1, <1>2, <2>3
<1>5. GraphIsTrue'
  <2> SUFFICES ASSUME profile' # Unset
               PROVE  \E about \in Wanted("profile"), excuse \in Excuses, i \in 1..Len(dbs') :
                        profile' = GraphAnswer(about, excuse, i)'
    BY DEF GraphIsTrue, Wanted
  <2>1. ASSUME profile # Unset
        PROVE  \E about \in Wanted("profile"), excuse \in Excuses, i \in 1..Len(dbs) :
                 profile = GraphAnswer(about, excuse, i)
    BY <2>1 DEF TruthInv, GraphIsTrue
  <2>2. ASSUME NEW ps, NEW why \in Excuses, profile' = StillShown(ps, why)
        PROVE  \E about \in Wanted("profile"), excuse \in Excuses, i \in 1..Len(dbs) :
                 profile' = GraphAnswer(about, excuse, i)
    <3>1. profile # Unset /\ profile' = Excused(profile, ps, why)
      BY <2>2 DEF StillShown
    <3>2. PICK about \in Wanted("profile"), excuse \in Excuses, i \in 1..Len(dbs) :
            profile = GraphAnswer(about, excuse, i)
      BY <2>1, <3>1
    <3>3. PICK still \in Excuses : [profile EXCEPT !.excuse = why] = GraphAnswer(about, still, i)
      <4>1. PICK other : other = [profile EXCEPT !.excuse = why]
        OBVIOUS
      <4>2. \E still \in Excuses : other = GraphAnswer(about, still, i)
        BY <3>2, <4>1, GraphKept
      <4> QED BY <4>1, <4>2
    <3>4. profile' = GraphAnswer(about, excuse, i) \/ profile' = GraphAnswer(about, still, i)
      BY <3>1, <3>2, <3>3 DEF Excused
    <3> QED BY <3>2, <3>3, <3>4
  <2>3. ASSUME NEW k \in DOMAIN asked["profile"], NEW i \in 1..Len(dbs),
               profile' = ProfileOf(asked["profile"][k], i)
        PROVE  \E about \in Wanted("profile"), excuse \in Excuses : profile' = GraphAnswer(about, excuse, i)
    <3>1. PICK r : r = asked["profile"][k]
      OBVIOUS
    <3>2. r.about \in Wanted("profile")
      BY <3>1 DEF TruthInv, PeriodsAsked, Topics
    <3>3. r.excuse \in Excuses
      <4>1. asked["profile"] \in Seq(Requests)
        BY TypedNow, PanelNames DEF PageInv
      <4>2. r \in Requests
        BY <3>1, <4>1, ElementOfSeq
      <4> QED BY <4>2 DEF Requests
    <3>4. profile' = GraphAnswer(r.about, r.excuse, i)
      BY <2>3, <3>1 DEF ProfileOf, GraphAnswer
    <3> QED BY <3>2, <3>3, <3>4
  <2>4. \E about \in Wanted("profile"), excuse \in Excuses, i \in 1..Len(dbs) :
          profile' = GraphAnswer(about, excuse, i)
    BY <1>3, <2>1, <2>2, <2>3 DEF Excusing
  <2> QED BY <1>1, <1>2, <2>4
<1>6. PeriodsAsked'
  BY PeriodsStep DEF TruthInv
<1> QED BY <1>4, <1>5, <1>6 DEF TruthInv

LEMMA TruthStart == PageInit => TruthInv
<1> SUFFICES ASSUME PageInit PROVE TruthInv
  OBVIOUS
<1>1. stats = Unset /\ profile = Unset
  BY DEF PageInit
<1>2. PICK r : r = Query("all", Everything, "none")
  OBVIOUS
<1>3. r.about = Everything
  BY <1>2 DEF Query
<1>4. /\ asked["stats"] = <<r>> \/ asked["stats"] = <<>>
      /\ asked["profile"] = <<>>
  BY <1>2, StartTyped, PanelNames
<1>5. Topics(<<>>) = {} /\ Topics(<<r>>) = {Everything}
  BY <1>3 DEF Topics
<1>6. Everything \in Wanted("stats")
  BY DEF Wanted
<1>7. PeriodsAsked
  BY <1>4, <1>5, <1>6 DEF PeriodsAsked
<1> QED BY <1>1, <1>7 DEF TruthInv, StatsAreTrue, GraphIsTrue

LEMMA TruthInvariance == PageSpec => [](PageInv /\ GraphInv /\ TruthInv)
BY PageStartInv, PageStepInv, GraphStartInv, GraphStepInv, TruthStart, TruthStep, PTL DEF PageSpec

(* The dates of the first and the last row have all rows between them.      *)
LEMMA WrittenOutIsAll ==
  ASSUME Typed, NEW db \in FiniteTables, DOMAIN db # {}
  PROVE  LET p == WrittenOut(Summary(db, Everything))
         IN  p \in Spans /\ Rows(db, Window(zone, p)) = db
<1> DEFINE s == Summary(db, Everything)
<1> DEFINE p == WrittenOut(s)
<1>1. /\ Rows(db, Everything) = db /\ zone \in Zones
      /\ IsFiniteSet(DOMAIN db) /\ DOMAIN db \subseteq Int
      /\ db = [x \in DOMAIN db |-> db[x]]
  BY TypedNow, TableMembers DEF Rows
<1>2. s.buckets > 0
  <2>1. s.buckets = Cardinality(DOMAIN db) /\ s.buckets \in Nat
    BY <1>1, Summaries
  <2>2. Cardinality(DOMAIN db) # 0
    BY <1>1, FS_EmptySet
  <2> QED BY <2>1, <2>2
<1>3. s.first = Min(DOMAIN db) /\ s.last = Max(DOMAIN db)
  BY <1>1, <1>2, Summaries
<1>4. /\ s.first \in DOMAIN db /\ s.last \in DOMAIN db
      /\ \A b \in DOMAIN db : s.first <= b /\ b <= s.last
  BY <1>1, <1>3, Extremes
<1> HIDE DEF s
<1>5. /\ p = [f |-> DateOf(zone, s.first), t |-> DateOf(zone, s.last)]
  BY DEF WrittenOut
<1>6. p \in Spans
  <2>1. s.first \in Int /\ s.last \in Int
    BY <1>1, <1>4
  <2>2. DateOf(zone, s.first) \in Int /\ DateOf(zone, s.last) \in Int
    BY <1>1, <2>1, DateOfBucket
  <2> QED BY <1>5, <2>2 DEF Spans
<1>7. ASSUME NEW b \in DOMAIN db PROVE DateOf(zone, b) \in p.f..p.t
  <2>1. b \in Int /\ s.first \in Int /\ s.last \in Int
    BY <1>1, <1>4
  <2>2. DateOf(zone, s.first) <= DateOf(zone, b) /\ DateOf(zone, b) <= DateOf(zone, s.last)
    BY <1>1, <1>4, <2>1, DatesInOrder
  <2>3. DateOf(zone, b) \in Int /\ p.f \in Int /\ p.t \in Int
    BY <1>1, <1>6, <2>1, DateOfBucket DEF Spans
  <2> QED BY <1>5, <2>2, <2>3
<1>8. {b \in DOMAIN db : DateOf(zone, b) \in p.f..p.t} = DOMAIN db
  BY <1>7
<1>9. Rows(db, Window(zone, p)) = Restrict(db, {b \in DOMAIN db : DateOf(zone, b) \in p.f..p.t})
  BY <1>1, <1>6, RowsOfPeriod
<1>10. Restrict(db, DOMAIN db) = db
  BY <1>1, RestrictAll
<1> QED BY <1>6, <1>8, <1>9, <1>10 DEF s
-----------------------------------------------------------------------------
(* What the graph counts.                                                   *)
LEMMA PeriodRows ==
  ASSUME Typed, NEW i \in 1..Len(dbs), NEW p \in Spans \cup {Everything}
  PROVE  /\ Rows(dbs[i], Window(zone, p)) \in FiniteTables
         /\ Rows(dbs[i], Window(zone, p))
              = IF p = Everything THEN dbs[i] ELSE OfDates(p.f, p.t, i)
<1>1. zone \in Zones /\ dbs[i] \in FiniteTables
  BY TypedNow
<1>2. Rows(dbs[i], Window(zone, p)) \in FiniteTables
  BY <1>1, RowsAreTables
<1>3. CASE p = Everything
  BY <1>2, <1>3 DEF Window, Rows
<1>4. CASE p # Everything
  <2>1. Rows(dbs[i], Window(zone, p))
          = Restrict(dbs[i], {b \in DOMAIN dbs[i] : DateOf(zone, b) \in p.f..p.t})
    BY <1>1, <1>4, RowsOfPeriod
  <2> QED BY <1>2, <1>4, <2>1 DEF OfDates
<1> QED BY <1>3, <1>4

(* The buckets of one slot, over all days, and the dates they fall on.      *)
WithinSlot(z, found, s, step) ==
  {b \in DOMAIN found : TimeOf(z, b) \in s..s + step - 1}
DatesOf(z, buckets) == {DateOf(z, b) : b \in buckets}

LEMMA PointsCount ==
  ASSUME NEW z \in Zones, NEW found \in FiniteTables, NEW step \in Nat \ {0},
         NEW s \in DOMAIN Points(z, found, step, DOMAIN found)
  PROVE  /\ Points(z, found, step, DOMAIN found)[s].days
              = Cardinality(DatesOf(z, WithinSlot(z, found, s, step)))
         /\ Points(z, found, step, DOMAIN found)[s].n
              = Cardinality(WithinSlot(z, found, s, step))
<1> DEFINE D == DOMAIN found
<1>1. D \subseteq Int
  BY TableMembers
<1>2. s \in Slots(z, step, D)
  BY DEF Points
<1>3. PICK a \in D : s = SlotOf(z, step, a)
  BY <1>2 DEF Slots
<1>4. ASSUME NEW b \in D PROVE TimeOf(z, b) \in s..s + step - 1 <=> SlotOf(z, step, b) = s
  <2>1. a \in Int /\ b \in Int
    BY <1>1
  <2> QED BY <1>3, <2>1, SlotIsInterval
<1>5. {b \in D : TimeOf(z, b) \in s..s + step - 1} = InSlot(z, step, D, s)
  BY <1>4 DEF InSlot
<1>6. Points(z, found, step, D)[s] = PointOf(z, found, InSlot(z, step, D, s))
  BY <1>2 DEF Points
<1>7. PICK p, own : p = Points(z, found, step, D)[s] /\ own = InSlot(z, step, D, s)
  OBVIOUS
<1>8. p = PointOf(z, found, own)
  BY <1>6, <1>7
<1>9. p.days = Cardinality({DateOf(z, b) : b \in own}) /\ p.n = Cardinality(own)
  BY <1>8 DEF PointOf
<1> QED BY <1>5, <1>7, <1>9 DEF WithinSlot, DatesOf

(* The statistics of the same period, spelled out or not, are of the same   *)
(* rows.                                                                    *)
LEMMA SameRows ==
  ASSUME Typed, NEW i \in 1..Len(dbs), NEW about \in Spans \cup {Everything},
         NEW p \in Spans \cup {Everything},
         \/ p = about
         \/ about = Everything /\ Summary(dbs[i], Window(zone, about)).buckets = 0
         \/ about = Everything /\ p = WrittenOut(Summary(dbs[i], Window(zone, about)))
  PROVE  Rows(dbs[i], Window(zone, p)) = Rows(dbs[i], Window(zone, about))
<1>1. /\ dbs[i] \in FiniteTables
      /\ Rows(dbs[i], Everything) = dbs[i] /\ Window(zone, Everything) = Everything
  BY TypedNow DEF Rows, Window
<1>2. CASE p = about
  BY <1>2
<1>3. CASE about = Everything /\ DOMAIN dbs[i] # {} /\ p = WrittenOut(Summary(dbs[i], Everything))
  BY <1>1, <1>3, WrittenOutIsAll
<1>4. CASE about = Everything /\ DOMAIN dbs[i] = {}
  <2>1. ASSUME NEW range PROVE Rows(dbs[i], range) = <<>>
    <3>1. /\ Rows(dbs[i], range) \in FiniteTables
          /\ DOMAIN Rows(dbs[i], range) \subseteq DOMAIN dbs[i]
      BY <1>1, RowsAreTables DEF Rows, Restrict
    <3> QED BY <1>4, <3>1, EmptyTable
  <2> QED BY <2>1
<1>5. Summary(dbs[i], Everything).buckets = 0 => DOMAIN dbs[i] = {}
  <2>1. Summary(dbs[i], Everything).buckets = Cardinality(DOMAIN dbs[i])
    BY <1>1, Summaries
  <2>2. IsFiniteSet(DOMAIN dbs[i])
    BY <1>1, TableMembers
  <2> QED BY <2>1, <2>2, FS_EmptySet
<1> QED BY <1>1, <1>2, <1>3, <1>4, <1>5

(* Unless one of Excuses holds, the graph folds the very buckets that the   *)
(* statistics count, for any database, any period and any length of a slot; *)
(* and excused or not, each point counts its days once, over any change of  *)
(* the clock (loadProfile, dropProfile, average_profile, day_energy).       *)
THEOREM GraphCounts == PageSpec => []GraphBelongsToPeriod
<1>1. ASSUME PageInv, GraphInv, TruthInv PROVE GraphBelongsToPeriod
  <2>1. StatsBelongToPeriod
    BY <1>1 DEF PageInv, ButtonReturns, StatsAwaited, StatsFollow, Awaited, Target,
                StatsBelongToPeriod, StatsSettled, Pending
  <2>2. GraphIsOfPeriod
    BY <1>1 DEF GraphInv, GraphFits, Fitting, Claim, Expects, GraphIsOfPeriod, StatsSettled, Pending
  <2>3. Typed /\ zone \in Zones
    BY <1>1, TypedNow DEF PageInv
  <2>4. ASSUME profile # Unset
        PROVE  \E i \in 1..Len(dbs), p \in Spans \cup {Everything}, step \in Nat \ {0} :
                 /\ profile.about.period = p /\ profile.about.step = step
                 /\ profile.seen = <<i, i>>
                 /\ profile.slots = Points(zone, Rows(dbs[i], Window(zone, p)), step,
                                           DOMAIN Rows(dbs[i], Window(zone, p)))
    <3>1. PICK about \in Wanted("profile"), excuse \in Excuses, i \in 1..Len(dbs) :
            profile = GraphAnswer(about, excuse, i)
      BY <1>1, <2>4 DEF TruthInv, GraphIsTrue
    <3>2. PICK p \in Spans \cup {Everything}, step \in Nat \ {0} :
            about.period = p /\ about.step = step
      BY PageAssumption DEF Wanted
    <3>3. dbs[i] \in FiniteTables
      BY <2>3, TypedNow
    <3>4. AverageProfile(zone, dbs[i], Window(zone, p), step)
            = Points(zone, Rows(dbs[i], Window(zone, p)), step,
                     DOMAIN Rows(dbs[i], Window(zone, p)))
      BY <2>3, <3>3, ProfileIs
    <3>5. /\ profile.about = about /\ profile.seen = <<i, i>>
          /\ profile.slots = AverageProfile(zone, dbs[i], Window(zone, p), step)
      BY <3>1, <3>2 DEF GraphAnswer
    <3> QED BY <3>2, <3>4, <3>5
  <2>5. ASSUME profile # Unset, NEW s \in DOMAIN profile.slots
        PROVE  LET found == IF profile.about.period = Everything THEN dbs[profile.seen[1]]
                            ELSE OfDates(profile.about.period.f, profile.about.period.t, profile.seen[1])
                   own == {b \in DOMAIN found : TimeOf(zone, b) \in s..s + profile.about.step - 1}
               IN  /\ profile.slots[s].days = Cardinality({DateOf(zone, b) : b \in own})
                   /\ profile.slots[s].n = Cardinality(own)
    <3>1. PICK i \in 1..Len(dbs), p \in Spans \cup {Everything}, step \in Nat \ {0} :
                 /\ profile.about.period = p /\ profile.about.step = step
                 /\ profile.seen = <<i, i>>
                 /\ profile.slots = Points(zone, Rows(dbs[i], Window(zone, p)), step,
                                           DOMAIN Rows(dbs[i], Window(zone, p)))
      BY <2>4, <2>5
    <3>2. PICK found : found = Rows(dbs[i], Window(zone, p))
      OBVIOUS
    <3>3. /\ found \in FiniteTables
          /\ found = IF p = Everything THEN dbs[i] ELSE OfDates(p.f, p.t, i)
      BY <2>3, <3>2, PeriodRows
    <3>4. profile.slots = Points(zone, found, step, DOMAIN found) /\ profile.seen[1] = i
      BY <3>1, <3>2
    <3>5. PICK own : own = {b \in DOMAIN found : TimeOf(zone, b) \in s..s + step - 1}
      OBVIOUS
    <3>6. /\ profile.slots[s].days = Cardinality({DateOf(zone, b) : b \in own})
          /\ profile.slots[s].n = Cardinality(own)
      <4>1. zone \in Zones /\ step \in Nat \ {0} /\ s \in DOMAIN Points(zone, found, step, DOMAIN found)
        BY <2>3, <2>5, <3>4
      <4>2. PICK all : all = Points(zone, found, step, DOMAIN found)[s]
        OBVIOUS
      <4>3. all.days = Cardinality({DateOf(zone, b) : b \in own}) /\ all.n = Cardinality(own)
        <5>1. own = WithinSlot(zone, found, s, step)
          BY <3>5 DEF WithinSlot
        <5>2. all.days = Cardinality(DatesOf(zone, own)) /\ all.n = Cardinality(own)
          BY <3>3, <4>1, <4>2, <5>1, PointsCount
        <5> QED BY <5>2 DEF DatesOf
      <4> QED BY <3>4, <4>2, <4>3
    <3>7. found = IF profile.about.period = Everything THEN dbs[profile.seen[1]]
                  ELSE OfDates(profile.about.period.f, profile.about.period.t, profile.seen[1])
      BY <3>1, <3>3, <3>4
    <3>8. own = {b \in DOMAIN found : TimeOf(zone, b) \in s..s + profile.about.step - 1}
      BY <3>1, <3>5
    <3> QED BY <3>6, <3>7, <3>8
  <2>6. ASSUME StatsSettled, profile # Unset, profile.excuse = "none", profile.seen = stats.seen
        PROVE  /\ Total([s \in DOMAIN profile.slots |-> profile.slots[s].n]) = stats.summary.buckets
               /\ stats.summary.buckets > 0 =>
                    /\ Total([s \in DOMAIN profile.slots |-> profile.slots[s].total])
                         = stats.summary.total
                    /\ stats.energy.total = stats.summary.total
    <3>1. PICK i \in 1..Len(dbs), p \in Spans \cup {Everything}, step \in Nat \ {0} :
                 /\ profile.about.period = p /\ profile.seen = <<i, i>>
                 /\ profile.slots = Points(zone, Rows(dbs[i], Window(zone, p)), step,
                                           DOMAIN Rows(dbs[i], Window(zone, p)))
      BY <2>4, <2>6
    <3>2. PICK about \in Spans \cup {Everything} :
            /\ stats.about = about
            /\ stats.summary = Summary(dbs[i], Window(zone, about))
            /\ stats.energy = DayEnergy(zone, dbs[i], Window(zone, about))
      <4>1. PICK about \in Wanted("stats"), m \in 1..Len(dbs), n \in 1..Len(dbs) :
              stats = StatsAnswer(about, m, n)
        BY <1>1, <2>6 DEF StatsSettled, TruthInv, StatsAreTrue
      <4>2. stats.seen = <<m, n>>
        BY <4>1 DEF StatsAnswer
      <4>3. m = i /\ n = i
        <5>1. \A w, x, y, z : <<w, x>> = <<y, z>> => w = y /\ x = z
          OBVIOUS
        <5>2. <<m, n>> = <<i, i>>
          BY <2>6, <3>1, <4>2
        <5> QED BY <5>1, <5>2
      <4> QED BY <4>1, <4>3 DEF StatsAnswer, Wanted
    <3>3. PICK found : found = Rows(dbs[i], Window(zone, about))
      OBVIOUS
    <3>4. Rows(dbs[i], Window(zone, p)) = found
      <4>1. SamePeriod(p)
        BY <2>2, <2>6, <3>1 DEF GraphIsOfPeriod
      <4>2. \/ p = about
            \/ about = Everything /\ Summary(dbs[i], Window(zone, about)).buckets = 0
            \/ about = Everything /\ p = WrittenOut(Summary(dbs[i], Window(zone, about)))
        BY <3>2, <4>1 DEF SamePeriod
      <4> QED BY <2>3, <3>3, <4>2, SameRows
    <3>5. dbs[i] \in FiniteTables /\ found \in FiniteTables
      BY <2>3, <3>3, TypedNow, PeriodRows
    <3>6. PICK graph : graph = Points(zone, found, step, DOMAIN found)
      OBVIOUS
    <3>7. /\ Total([s \in DOMAIN graph |-> graph[s].n]) = Cardinality(DOMAIN found)
          /\ Total([s \in DOMAIN graph |-> graph[s].total]) = Total(found)
      BY <2>3, <3>5, <3>6, PointsTotals
    <3>8. profile.slots = graph
      BY <3>1, <3>4, <3>6
    <3>9. /\ stats.summary.buckets = Cardinality(DOMAIN found)
          /\ stats.summary.buckets > 0 => stats.summary.total = Total(found)
      BY <3>2, <3>3, <3>5, Summaries
    <3>10. stats.summary.buckets > 0 => stats.energy.total = Total(found)
      <4>1. stats.summary.buckets > 0 => DOMAIN found # {}
        <5>1. Cardinality({}) = 0
          BY FS_EmptySet
        <5>2. CASE DOMAIN found = {}
          BY <3>9, <5>1, <5>2
        <5> QED BY <5>2
      <4> QED BY <2>3, <3>2, <3>3, <3>5, <4>1, DaysTotal
    <3>11. /\ Total([s \in DOMAIN profile.slots |-> profile.slots[s].n]) = Cardinality(DOMAIN found)
           /\ Total([s \in DOMAIN profile.slots |-> profile.slots[s].total]) = Total(found)
      BY <3>7, <3>8
    <3> QED BY <3>9, <3>10, <3>11
  <2> QED BY <2>1, <2>2, <2>5, <2>6 DEF GraphBelongsToPeriod
<1> QED BY <1>1, TruthInvariance, PTL
=============================================================================

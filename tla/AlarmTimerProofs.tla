-------------------------- MODULE AlarmTimerProofs --------------------------
(* Proofs about AlarmSchedule: the child always runs the alarm that was     *)
(* loaded, it acts at its time only, no stage is carried out twice in a     *)
(* minute, and an undisturbed minute misses nothing.  And about Timers: the *)
(* dict lists what really sleeps, and a position that was described leads   *)
(* to the timer it was said of.                                             *)
EXTENDS AlarmSchedule, Timers, FiniteSetTheorems, SequenceTheorems, TLAPS

(* The configuration that stands for an alarm: the shipped entries go       *)
(* through "Alarm>", those a command wrote name their aliases.              *)
ConfigOf(a) ==
  [armed |-> a.armed, jobs |-> JobsAt(a.time, IF a.byVoice THEN "Alias" ELSE "Alarm")]

(* The file, when it is whole, says what users asked for; the child was     *)
(* forked with what was agreed.                                             *)
FileSays == /\ file # Torn => file = ConfigOf(asked)
            /\ pc = "writing" => target = ConfigOf(asked)
ChildRuns == child = ConfigOf(agreed)

(* What is due belongs to this minute, and to a child that runs.            *)
DueNow == /\ due \subseteq {j \in child.jobs : j.at = clock}
          /\ ~alive => due = {} /\ doing = None

(* What is worked on is wanted, and neither done nor due any more.          *)
OnceEach ==
  /\ ActsAsAgreed
  /\ doing \notin took
  /\ \A j \in due : j.stage # doing /\ j.stage \notin took

(* In an undisturbed minute all that is wanted is done, under way or due.   *)
NothingMissed ==
  calm /\ alive =>
    Possible(agreed) = took \cup ({doing} \ {None}) \cup {j.stage : j \in {i \in due : Passes(i)}}

IInv == TypeOK /\ FileSays /\ ChildRuns /\ DueNow /\ OnceEach /\ NothingMissed

----------------------------------------------------------------------------
(* An alarm time and a stage make a minute of the day, and an alarm makes a *)
(* configuration, with one job for each stage.                              *)
LEMMA AtMinuteType ==
  ASSUME NEW time \in Minutes, NEW s \in Stages PROVE AtMinute(time, s) \in Minutes
<1>1. time + Offset[s] \in Int
  BY AlarmAssumption DEF Minutes
<1> DEFINE x == time + Offset[s]
<1> HIDE DEF x
<1>2. x % Day \in 0 .. Day - 1
  BY <1>1, AlarmAssumption DEF x
<1> QED BY <1>2 DEF x, AtMinute, Minutes

LEMMA JobsType ==
  ASSUME NEW time \in Minutes, NEW i \in {"Alarm", "Alias"}
  PROVE  JobsAt(time, i) \subseteq Jobs
BY AtMinuteType DEF JobsAt, Jobs

LEMMA JobOfStage ==
  ASSUME NEW time, NEW i, NEW j \in JobsAt(time, i)
  PROVE  /\ j.stage \in Stages /\ j.at = AtMinute(time, j.stage) /\ j.intent = i
         /\ j = [stage |-> j.stage, at |-> AtMinute(time, j.stage), intent |-> i]
BY DEF JobsAt

LEMMA ConfigType == ASSUME NEW a \in Alarms PROVE ConfigOf(a) \in Configs
<1>1. a.armed \in BOOLEAN /\ a.time \in Minutes
  BY DEF Alarms
<1>2. JobsAt(a.time, IF a.byVoice THEN "Alias" ELSE "Alarm") \in SUBSET Jobs
  BY <1>1, JobsType
<1> QED BY <1>1, <1>2 DEF ConfigOf, Configs

(* The shipped file is the shipped alarm, and each command makes the file   *)
(* of the alarm users know from the file of the one they knew before.       *)
LEMMA ShippedConfig == ShippedAlarm \in Alarms /\ Shipped = ConfigOf(ShippedAlarm)
BY AlarmAssumption DEF ShippedAlarm, Alarms, Shipped, ConfigOf

LEMMA ArmedConfig ==
  ASSUME NEW a \in Alarms, NEW on \in BOOLEAN
  PROVE  /\ [a EXCEPT !.armed = on] \in Alarms
         /\ WithArmed(ConfigOf(a), on) = ConfigOf([a EXCEPT !.armed = on])
BY DEF Alarms, WithArmed, ConfigOf

LEMMA TimeConfig ==
  ASSUME NEW a \in Alarms, NEW time \in Minutes
  PROVE  /\ [a EXCEPT !.time = time, !.byVoice = TRUE] \in Alarms
         /\ WithTime(ConfigOf(a), time) = ConfigOf([a EXCEPT !.time = time, !.byVoice = TRUE])
<1> DEFINE b == [a EXCEPT !.time = time, !.byVoice = TRUE]
<1>1. b \in Alarms /\ b.armed = a.armed /\ b.time = time /\ b.byVoice = TRUE
  BY DEF Alarms
<1> HIDE DEF b
<1>2. ConfigOf(b) = [armed |-> a.armed, jobs |-> JobsAt(time, "Alias")]
  BY <1>1 DEF ConfigOf
<1>3. WithTime(ConfigOf(a), time) = [armed |-> a.armed, jobs |-> JobsAt(time, "Alias")]
  BY DEF ConfigOf, WithTime
<1> QED BY <1>1, <1>2, <1>3 DEF b

(* What an alarm wants in a minute is what its configuration has due then  *)
(* and lets pass.                                                           *)
LEMMA PossibleIsDue ==
  ASSUME NEW a, NEW m
  PROVE  {s \in Stages : AtMinute(a.time, s) = m /\ (a.armed \/ a.byVoice)} =
         {j.stage : j \in {i \in ConfigOf(a).jobs :
                            i.at = m /\ (i.intent = "Alias" \/ ConfigOf(a).armed)}}
<1> DEFINE int == IF a.byVoice THEN "Alias" ELSE "Alarm"
           W == {s \in Stages : AtMinute(a.time, s) = m /\ (a.armed \/ a.byVoice)}
           D == {i \in ConfigOf(a).jobs :
                   i.at = m /\ (i.intent = "Alias" \/ ConfigOf(a).armed)}
<1>1. ConfigOf(a).jobs = JobsAt(a.time, int) /\ ConfigOf(a).armed = a.armed
  BY DEF ConfigOf
<1>2. ASSUME NEW s \in W PROVE \E j \in D : j.stage = s
  <2> DEFINE j == [stage |-> s, at |-> AtMinute(a.time, s), intent |-> int]
  <2>1. j \in ConfigOf(a).jobs /\ j.at = m
    BY <1>1, <1>2 DEF JobsAt
  <2>2. j.intent = "Alias" \/ ConfigOf(a).armed
    BY <1>1, <1>2
  <2> QED BY <2>1, <2>2
<1>3. ASSUME NEW j \in D PROVE j.stage \in W
  <2>1. j \in JobsAt(a.time, int) /\ j.at = m /\ (j.intent = "Alias" \/ a.armed)
    BY <1>1
  <2>2. j.stage \in Stages /\ m = AtMinute(a.time, j.stage) /\ j.intent = int
    BY <2>1, JobOfStage
  <2>3. a.armed \/ a.byVoice
    BY <2>1, <2>2
  <2> QED BY <2>2, <2>3
<1> HIDE DEF D, W
<1>4. \A s : s \in W <=> s \in {j.stage : j \in D}
  BY <1>2, <1>3
<1> QED BY <1>4 DEF D, W

(* Two jobs of one configuration differ in their stages.                    *)
LEMMA OneJobPerStage ==
  ASSUME NEW a, NEW i \in ConfigOf(a).jobs, NEW j \in ConfigOf(a).jobs, i.stage = j.stage
  PROVE  i = j
BY JobOfStage DEF ConfigOf

----------------------------------------------------------------------------
(* The invariant holds at first and every step keeps it.                    *)
LEMMA InitInv == Init => IInv
<1> SUFFICES ASSUME Init PROVE IInv
  OBVIOUS
<1> USE AlarmAssumption DEF Init
<1>1. Shipped \in Configs
  BY ShippedConfig, ConfigType
<1>2. TypeOK
  <2>1. 0 \in 0..MaxChanges /\ 0 \in 0..MaxCrashes /\ 0 \in 0..MaxFailures
    OBVIOUS
  <2>2. file \in Configs /\ target \in Configs /\ child \in Configs
    BY <1>1
  <2>3. asked \in Alarms /\ agreed \in Alarms
    BY ShippedConfig
  <2> QED BY <2>1, <2>2, <2>3 DEF TypeOK
<1>3. FileSays /\ ChildRuns /\ DueNow /\ NothingMissed
  BY ShippedConfig DEF FileSays, ChildRuns, DueNow, NothingMissed
<1>4. OnceEach
  BY DEF OnceEach, ActsAsAgreed
<1> QED BY <1>2, <1>3, <1>4 DEF IInv

(* The counters only count.                                                 *)
LEMMA ChangeInv == ASSUME IInv, Change PROVE IInv'
<1> USE DEF IInv
<1>1. /\ file = ConfigOf(asked) /\ asked \in Alarms
      /\ UNCHANGED <<clock, process, lit, agreed, took, calm, crashes, failures>>
  BY DEF Change, FileSays, TypeOK
<1>2. target' = ConfigOf(asked') /\ asked' \in Alarms
  <2>1. CASE \E on \in BOOLEAN : /\ target' = WithArmed(file, on)
                                 /\ asked' = [asked EXCEPT !.armed = on]
    BY <1>1, <2>1, ArmedConfig
  <2>2. CASE \E time \in Times :
               /\ target' = WithTime(file, time)
               /\ asked' = [asked EXCEPT !.time = time, !.byVoice = TRUE]
    BY <1>1, <2>2, TimeConfig, AlarmAssumption
  <2> QED BY <2>1, <2>2 DEF Change
<1>3. TypeOK'
  <2>1. target' \in Configs
    BY <1>2, ConfigType
  <2>2. changes < MaxChanges /\ changes' = changes + 1
    BY DEF Change
  <2>3. changes' \in 0..MaxChanges
    BY <2>2, AlarmAssumption DEF TypeOK
  <2> QED BY <1>1, <1>2, <2>1, <2>3 DEF TypeOK, Change, process
<1>4. FileSays'
  BY <1>2 DEF FileSays, Change
<1>5. ChildRuns' /\ DueNow' /\ NothingMissed'
  BY <1>1 DEF ChildRuns, DueNow, NothingMissed, process, Possible, Passes
<1>6. OnceEach'
  BY <1>1 DEF OnceEach, ActsAsAgreed, process, Possible
<1> QED BY <1>3, <1>4, <1>5, <1>6

(* What the child does not notice leaves its part of the invariant alone.   *)
LEMMA ChildUnaware ==
  ASSUME ChildRuns, DueNow, OnceEach, NothingMissed,
         UNCHANGED <<clock, process, agreed, took>>, calm' => calm
  PROVE  ChildRuns' /\ DueNow' /\ OnceEach' /\ NothingMissed'
<1> USE DEF process
<1>1. ChildRuns' /\ DueNow'
  BY DEF ChildRuns, DueNow
<1>2. OnceEach'
  BY DEF OnceEach, ActsAsAgreed, Possible
<1>3. NothingMissed'
  BY DEF NothingMissed, Possible, Passes
<1> QED BY <1>1, <1>2, <1>3

LEMMA FileInv ==
  ASSUME IInv, Written \/ WriteFails \/ AskReload PROVE IInv'
<1> USE DEF IInv
<1>1. TypeOK'
  <2> USE AlarmAssumption DEF TypeOK, process, history
  <2>1. CASE Written
    BY <2>1 DEF Written, counters
  <2>2. CASE WriteFails
    BY <2>2 DEF WriteFails
  <2>3. CASE AskReload
    BY <2>3 DEF AskReload
  <2> QED BY <2>1, <2>2, <2>3
<1>2. FileSays'
  BY DEF FileSays, Written, WriteFails, AskReload, history
<1>3. UNCHANGED <<clock, process, agreed, took, calm>>
  BY DEF Written, WriteFails, AskReload, history
<1> QED BY <1>1, <1>2, <1>3, ChildUnaware

(* A new child has what was asked, nothing due and nothing under way.       *)
LEMMA NewChildInv ==
  ASSUME IInv, file # Torn, NewChild, agreed' = asked, calm' = FALSE,
         UNCHANGED <<clock, file, target, lit, asked, took, counters>>,
         pc' = "idle"
  PROVE  IInv'
<1> USE DEF IInv, NewChild, DueAtSetup
<1>1. file = ConfigOf(asked)
  BY DEF FileSays
<1>2. TypeOK'
  <2>1. file \in Configs /\ calm' \in BOOLEAN
    BY DEF TypeOK
  <2> QED BY <2>1 DEF TypeOK, counters
<1>3. FileSays' /\ ChildRuns' /\ DueNow' /\ NothingMissed'
  BY <1>1 DEF FileSays, ChildRuns, DueNow, NothingMissed
<1>4. OnceEach'
  <2>1. None \notin took
    BY AlarmAssumption DEF TypeOK
  <2> QED BY <2>1 DEF OnceEach, ActsAsAgreed
<1> QED BY <1>2, <1>3, <1>4

(* The old child goes on when there is no file to load.                     *)
LEMMA LoadInv == ASSUME IInv, LoadConfig \/ Boot PROVE IInv'
<1>1. /\ calm' = FALSE
      /\ UNCHANGED <<clock, file, target, lit, asked, took, counters>>
  BY DEF LoadConfig, Boot
<1>2. CASE file = Torn
  <2>1. pc' = "dead" /\ UNCHANGED <<process, agreed>>
    BY <1>2 DEF LoadConfig, Boot
  <2>2. TypeOK'
    BY <1>1, <2>1 DEF IInv, TypeOK, process, counters
  <2>3. FileSays'
    BY <1>1, <1>2, <2>1 DEF FileSays
  <2> QED BY <1>1, <2>1, <2>2, <2>3, ChildUnaware DEF IInv
<1>3. CASE file # Torn
  <2>1. pc' = "idle" /\ NewChild /\ agreed' = asked
    BY <1>3 DEF LoadConfig, Boot
  <2> QED BY <1>1, <1>3, <2>1, NewChildInv
<1> QED BY <1>2, <1>3

(* A child that is gone has nothing due, and is not calm.                   *)
LEMMA GoneInv == ASSUME IInv, Crash \/ JobFails PROVE IInv'
<1> USE DEF IInv
<1>1. /\ alive' = FALSE /\ due' = {} /\ doing' = None /\ calm' = FALSE
      /\ UNCHANGED <<clock, file, target, child, lit, asked, agreed, took>>
      /\ pc' \in {pc, "off"}
  BY DEF Crash, JobFails, main
<1>2. TypeOK'
  <2>1. changes' \in 0..MaxChanges /\ crashes' \in 0..MaxCrashes /\ failures' \in 0..MaxFailures
    BY AlarmAssumption DEF TypeOK, Crash, JobFails
  <2> QED BY <1>1, <2>1 DEF TypeOK
<1>3. FileSays' /\ ChildRuns' /\ DueNow' /\ NothingMissed'
  BY <1>1 DEF FileSays, ChildRuns, DueNow, NothingMissed
<1>4. OnceEach'
  <2>1. None \notin took
    BY AlarmAssumption DEF TypeOK
  <2> QED BY <1>1, <2>1 DEF OnceEach, ActsAsAgreed
<1> QED BY <1>2, <1>3, <1>4

(* A job that is due and passes is wanted, and one per stage is due.        *)
LEMMA DueIsPossible ==
  ASSUME IInv, NEW j \in due
  PROVE  /\ j.stage \in Stages
         /\ Passes(j) => j.stage \in Possible(agreed)
         /\ \A i \in due \ {j} : i.stage # j.stage
<1>1. j \in child.jobs /\ j.at = clock /\ child = ConfigOf(agreed) /\ due \subseteq child.jobs
  BY DEF IInv, DueNow, ChildRuns
<1>2. j.stage \in Stages
  BY DEF IInv, TypeOK, Jobs
<1>3. ASSUME Passes(j) PROVE j.stage \in Possible(agreed)
  <2> DEFINE D == {i \in ConfigOf(agreed).jobs :
                     i.at = clock /\ (i.intent = "Alias" \/ ConfigOf(agreed).armed)}
  <2>1. j \in D
    BY <1>1, <1>3 DEF Passes
  <2>2. {s \in Stages : AtMinute(agreed.time, s) = clock /\ (agreed.armed \/ agreed.byVoice)}
          = {i.stage : i \in D}
    <3> HIDE DEF IInv
    <3> QED BY PossibleIsDue
  <2> HIDE DEF D
  <2> QED BY <2>1, <2>2 DEF Possible
<1>4. ASSUME NEW i \in due \ {j} PROVE i.stage # j.stage
  BY <1>1, <1>4, OneJobPerStage
<1> QED BY <1>2, <1>3, <1>4

LEMMA JobStartsInv == ASSUME IInv, JobStarts PROVE IInv'
<1> USE DEF IInv
<1>1. PICK j \in due : /\ due' = due \ {j}
                       /\ doing' = IF Passes(j) THEN j.stage ELSE None
  BY DEF JobStarts
<1>2. /\ alive /\ doing = None
      /\ UNCHANGED <<clock, main, alive, child, lit, history, counters>>
  BY DEF JobStarts
<1>3. /\ j.stage \in Stages
      /\ Passes(j) => j.stage \in Possible(agreed)
      /\ \A i \in due \ {j} : i.stage # j.stage
  BY DueIsPossible
<1>4. None \notin Stages /\ took \subseteq Stages /\ due \subseteq Jobs
  BY AlarmAssumption DEF TypeOK
<1>5. TypeOK'
  BY <1>1, <1>2, <1>3 DEF TypeOK, main, history, counters
<1>6. FileSays' /\ ChildRuns' /\ DueNow'
  BY <1>1, <1>2 DEF FileSays, ChildRuns, DueNow, main, history
<1>7. OnceEach'
  <2>1. Possible(agreed)' = Possible(agreed)
    BY <1>2 DEF Possible, history
  <2>2. ActsAsAgreed'
    BY <1>1, <1>3, <2>1 DEF ActsAsAgreed
  <2>3. doing' \notin took'
    BY <1>1, <1>2, <1>4 DEF OnceEach, history
  <2>4. ASSUME NEW i \in due' PROVE i.stage # doing' /\ i.stage \notin took'
    <3>1. i.stage \in Stages
      BY <1>1, <1>4 DEF Jobs
    <3> QED BY <1>1, <1>2, <1>3, <1>4, <3>1 DEF OnceEach, history
  <2> QED BY <2>2, <2>3, <2>4 DEF OnceEach
<1>8. NothingMissed'
  <2> DEFINE S == {k.stage : k \in {i \in due : Passes(i)}}
             T == {k.stage : k \in {i \in due \ {j} : Passes(i)}}
  <2>1. S = T \cup IF Passes(j) THEN {j.stage} ELSE {}
    OBVIOUS
  <2>2. S = T \cup ({doing'} \ {None})
    BY <1>1, <1>3, <1>4, <2>1
  <2>3. S' = T
    BY <1>1, <1>2 DEF Passes
  <2>4. Possible(agreed)' = Possible(agreed) /\ ({doing} \ {None}) = {}
    BY <1>2 DEF Possible, history
  <2> HIDE DEF S, T
  <2>5. calm /\ alive => Possible(agreed) = took \cup ({doing} \ {None}) \cup S
    BY DEF NothingMissed, S
  <2>6. calm' /\ alive' => Possible(agreed)' = took' \cup ({doing'} \ {None}) \cup S'
    BY <1>2, <2>2, <2>3, <2>4, <2>5 DEF history
  <2> QED BY <2>6 DEF NothingMissed, S
<1> QED BY <1>5, <1>6, <1>7, <1>8

LEMMA JobDoneInv == ASSUME IInv, JobTakesEffect PROVE IInv'
<1> USE DEF IInv, JobTakesEffect
<1>1. doing \in Stages /\ None \notin took /\ None \notin Stages
  BY AlarmAssumption DEF TypeOK
<1>2. TypeOK'
  <2>1. lit' \in BOOLEAN
    BY DEF TypeOK
  <2> QED BY <1>1, <2>1 DEF TypeOK, main, counters
<1>3. FileSays' /\ ChildRuns' /\ DueNow'
  BY DEF FileSays, ChildRuns, DueNow, main
<1>4. OnceEach'
  <2>1. ASSUME NEW j \in due PROVE j.stage # None /\ j.stage \notin took'
    <3>1. j.stage \in Stages
      BY DEF TypeOK, Jobs
    <3> QED BY <1>1, <3>1 DEF OnceEach
  <2> QED BY <1>1, <2>1 DEF OnceEach, ActsAsAgreed
<1>5. NothingMissed'
  <2> DEFINE S == {k.stage : k \in {i \in due : Passes(i)}}
  <2>1. S' = S /\ Possible(agreed)' = Possible(agreed)
    BY DEF Passes, Possible
  <2> HIDE DEF S
  <2>2. calm /\ alive => Possible(agreed) = took \cup ({doing} \ {None}) \cup S
    BY DEF NothingMissed, S
  <2>3. calm' /\ alive' => Possible(agreed)' = took' \cup ({doing'} \ {None}) \cup S'
    BY <2>1, <2>2
  <2> QED BY <2>3 DEF NothingMissed, S
<1> QED BY <1>2, <1>3, <1>4, <1>5

LEMMA TickInv == ASSUME IInv, Tick PROVE IInv'
<1> USE DEF IInv, Tick
<1>1. clock' \in Minutes
  <2>1. clock + 1 \in Int /\ Day \in Nat \ {0}
    BY AlarmAssumption DEF TypeOK, Minutes
  <2> QED BY <2>1 DEF Minutes
<1>2. due' \subseteq Jobs
  BY DEF TypeOK, Configs
<1>3. TypeOK'
  BY <1>1, <1>2 DEF TypeOK, main, counters
<1>4. FileSays' /\ ChildRuns' /\ DueNow'
  BY DEF FileSays, ChildRuns, DueNow, main
<1>5. OnceEach'
  <2>1. ASSUME NEW j \in due' PROVE j.stage # None
    BY <1>2, AlarmAssumption DEF Jobs
  <2> QED BY <2>1 DEF OnceEach, ActsAsAgreed
<1>6. NothingMissed'
  <2> SUFFICES ASSUME alive
               PROVE  Possible(agreed)' = {j.stage : j \in {i \in due' : Passes(i)'}}
    BY DEF NothingMissed
  <2>1. child' = ConfigOf(agreed') /\ agreed' \in Alarms
    BY <1>3, <1>4 DEF ChildRuns, TypeOK
  <2> DEFINE D == {i \in ConfigOf(agreed').jobs :
                     i.at = clock' /\ (i.intent = "Alias" \/ ConfigOf(agreed').armed)}
  <2>2. Possible(agreed)' = {j.stage : j \in D}
    <3> HIDE DEF IInv, Tick
    <3> QED BY PossibleIsDue DEF Possible
  <2>3. D = {i \in due' : Passes(i)'}
    <3>1. due' = {j \in child'.jobs : j.at = clock'}
      OBVIOUS
    <3> HIDE DEF IInv, Tick
    <3>2. \A i : Passes(i)' <=> i.intent = "Alias" \/ ConfigOf(agreed').armed
      BY <2>1 DEF Passes
    <3> QED BY <2>1, <3>1, <3>2
  <2> HIDE DEF D
  <2> QED BY <2>2, <2>3
<1> QED BY <1>3, <1>4, <1>5, <1>6

LEMMA NextInv == IInv /\ [Next]_vars => IInv'
<1> SUFFICES ASSUME IInv, [Next]_vars PROVE IInv'
  OBVIOUS
<1>1. CASE UNCHANGED vars
  <2>1. TypeOK' /\ FileSays'
    BY <1>1 DEF IInv, TypeOK, FileSays, vars, main, process, history, counters
  <2> QED BY <1>1, <2>1, ChildUnaware DEF IInv, vars, history
<1>2. CASE Next
  BY <1>2, ChangeInv, FileInv, LoadInv, GoneInv, JobStartsInv, JobDoneInv, TickInv DEF Next
<1> QED BY <1>1, <1>2

LEMMA AlwaysInv == Spec => []IInv
BY InitInv, NextInv, PTL DEF Spec

----------------------------------------------------------------------------
(* The variables keep their types: config.yaml is a configuration or torn,  *)
(* and the child always has a whole one.                                    *)
THEOREM TypeCorrect == Spec => []TypeOK
<1>1. IInv => TypeOK
  BY DEF IInv
<1> QED BY <1>1, AlwaysInv, PTL

(* The child's configuration is the alarm that was agreed when it was       *)
(* forked: no entry of an earlier time, in the file or in the child,        *)
(* outlives a change, however it is interrupted.                            *)
THEOREM ChildRunsTheAgreed == Spec => []ChildRuns
<1>1. IInv => ChildRuns
  BY DEF IInv
<1> QED BY <1>1, AlwaysInv, PTL

(* The alarm does something only at the time that was agreed, and disarmed  *)
(* only if that time was set by voice.                                      *)
THEOREM ActsAtItsTime == Spec => []ActsAsAgreed
<1>1. IInv => ActsAsAgreed
  BY DEF IInv, OnceEach
<1> QED BY <1>1, AlwaysInv, PTL

(* No stage is carried out twice in the minute of the alarm.                *)
THEOREM StagesOnce == Spec => NoStageTwice
<1>1. IInv => (JobTakesEffect => doing \notin took)
  BY DEF IInv, OnceEach
<1>2. IInv /\ [Next]_vars => [JobTakesEffect => doing \notin took]_vars
  BY <1>1
<1> QED BY <1>2, AlwaysInv, PTL DEF Spec, NoStageTwice

(* A minute that nothing disturbed, with a child that runs, ends with all   *)
(* done that an armed alarm wants.                                          *)
THEOREM MissesOnlyByDisturbance == Spec => MissedOnlyByDisturbance
<1>1. ASSUME IInv, [Next]_vars, clock' # clock, calm, alive
      PROVE  Wanted(agreed) \subseteq took
  <2>1. Tick
    BY <1>1 DEF Next, vars, main, process, history, counters, Change, Written, WriteFails,
       AskReload, LoadConfig, Crash, Boot, JobStarts, JobTakesEffect, JobFails
  <2>2. {j.stage : j \in {i \in due : Passes(i)}} = {} /\ {doing} \ {None} = {}
    BY <2>1 DEF Tick
  <2> QED BY <1>1, <2>2 DEF IInv, NothingMissed, Wanted
<1>2. IInv /\ [Next]_vars =>
        [clock' # clock /\ calm /\ alive => Wanted(agreed) \subseteq took]_vars
  BY <1>1
<1> QED BY <1>2, AlwaysInv, PTL DEF Spec, MissedOnlyByDisturbance

----------------------------------------------------------------------------
(* Timers.                                                                  *)

(* Every entry has a process and a place of its own.                        *)
Alone ==
  \A id \in DOMAIN timerDict : \A other \in DOMAIN timerDict \ {id} :
    /\ timerDict[other].process # timerDict[id].process
    /\ timerDict[other].place # timerDict[id].place

(* ListedTruly, where no process has two entries.                           *)
Found ==
  \A p \in Sleeping \ astray :
    \E id \in DOMAIN timerDict :
      timerDict[id].process = p /\ SecsTillDone(id) = sleeper[p].left
NoneIsOver ==
  \A id \in DOMAIN timerDict :
    SecsTillDone(id) > 0 => timerDict[id].process \in Sleeping \cup astray

(* The timer that was described is still where it was.                      *)
Described ==
  told.ahead \cup {told.timer} \subseteq Sleeping \ astray =>
    \E id \in DOMAIN timerDict :
      /\ timerDict[id].process = told.timer
      /\ ProcessesIn(timerDict, Ahead(timerDict, id)) = told.ahead
      /\ Cardinality(Ahead(timerDict, id)) = told.index - 1

TimerInv ==
  /\ TimerTypeOK /\ IsFiniteSet(DOMAIN timerDict)
  /\ Alone /\ Found /\ NoneIsOver /\ Described

----------------------------------------------------------------------------
(* What the cleaning keeps, and that it does not move what is ahead of a    *)
(* key when all of that is kept.                                            *)
LEMMA CleanedIs ==
  ASSUME NEW d
  PROVE  /\ DOMAIN Cleaned(d) = {id \in DOMAIN d : SecsTillDone(id) >= 0}
         /\ \A id \in DOMAIN Cleaned(d) : Cleaned(d)[id] = d[id]
BY DEF Cleaned, Restrict

LEMMA NotMoved ==
  ASSUME NEW d, NEW kept, NEW id \in DOMAIN d,
         DOMAIN kept \subseteq DOMAIN d, \A k \in DOMAIN kept : kept[k] = d[k],
         Ahead(d, id) \cup {id} \subseteq DOMAIN kept
  PROVE  /\ Ahead(kept, id) = Ahead(d, id)
         /\ ProcessesIn(kept, Ahead(kept, id)) = ProcessesIn(d, Ahead(d, id))
<1>1. Ahead(kept, id) = Ahead(d, id)
  BY DEF Ahead
<1> QED BY <1>1 DEF ProcessesIn

(* No two keys are at the same index.                                       *)
LEMMA OneAtIndex ==
  ASSUME NEW d, NEW index, IsFiniteSet(DOMAIN d),
         NEW a \in At(d, index), NEW b \in At(d, index),
         d[a].place \in Nat, d[b].place \in Nat,
         \A o \in DOMAIN d : d[o].place \in Nat,
         a # b => d[a].place # d[b].place
  PROVE  a = b
<1>1. ASSUME NEW x \in At(d, index), NEW y \in At(d, index), d[x].place < d[y].place,
             d[x].place \in Nat, d[y].place \in Nat
      PROVE  FALSE
  <2>1. Ahead(d, x) \subseteq Ahead(d, y)
    BY <1>1 DEF Ahead
  <2>2. x \in Ahead(d, y) /\ x \notin Ahead(d, x)
    BY <1>1 DEF Ahead, At
  <2>3. IsFiniteSet(Ahead(d, y))
    BY FS_Subset, Ahead(d, y) \subseteq DOMAIN d DEF Ahead
  <2>4. Cardinality(Ahead(d, x)) = Cardinality(Ahead(d, y))
    BY <1>1 DEF At
  <2>5. Ahead(d, x) = Ahead(d, y)
    BY <2>1, <2>3, <2>4, FS_Subset
  <2> QED BY <2>2, <2>5
<1>2. CASE d[a].place < d[b].place
  BY <1>1, <1>2
<1>3. CASE d[b].place < d[a].place
  BY <1>1, <1>3
<1> QED BY <1>2, <1>3

LEMMA Sleepers ==
  ASSUME TimerTypeOK
  PROVE  /\ DOMAIN sleeper = 1..Len(sleeper) /\ Len(sleeper) \in Nat
         /\ \A p \in DOMAIN sleeper : sleeper[p] \in [phase : Phases, left : Nat]
<1>1. sleeper \in Seq([phase : Phases, left : Nat])
  BY DEF TimerTypeOK
<1>2. DOMAIN sleeper = 1..Len(sleeper) /\ Len(sleeper) \in Nat
  BY <1>1
<1>3. ASSUME NEW p \in DOMAIN sleeper PROVE sleeper[p] \in [phase : Phases, left : Nat]
  BY <1>1, <1>2, <1>3, ElementOfSeq
<1> QED BY <1>2, <1>3

(* A step that touches the processes one by one leaves a sequence of them.  *)
LEMMA StillSleepers ==
  ASSUME TimerTypeOK, sleeper' = [p \in DOMAIN sleeper |-> sleeper'[p]],
         \A p \in DOMAIN sleeper : sleeper'[p] \in [phase : Phases, left : Nat]
  PROVE  sleeper' \in Seq([phase : Phases, left : Nat]) /\ Len(sleeper)' = Len(sleeper)
<1> DEFINE R == [phase : Phases, left : Nat]
<1>1. DOMAIN sleeper = 1..Len(sleeper) /\ Len(sleeper) \in Nat
  BY Sleepers
<1>2. \A p \in DOMAIN sleeper : sleeper'[p] \in R
  OBVIOUS
<1> HIDE DEF R
<1>3. sleeper' \in Seq(R)
  BY <1>1, <1>2
<1>4. Len(sleeper') = Len(sleeper)
  BY <1>1, <1>3, DOMAIN sleeper' = DOMAIN sleeper
<1> QED BY <1>3, <1>4 DEF R

LEMMA SleeperType ==
  ASSUME TimerTypeOK, NEW p \in Sleeping
  PROVE  p \in 1..Len(sleeper) /\ sleeper[p].left \in Nat
<1>1. p \in DOMAIN sleeper
  BY DEF Sleeping
<1> QED BY <1>1, Sleepers

LEMMA TimersBegin == TimerInit => TimerInv
<1> SUFFICES ASSUME TimerInit PROVE TimerInv
  OBVIOUS
<1> USE TimersAssumption DEF TimerInit, Empty, Untold
<1>1. DOMAIN timerDict = {} /\ DOMAIN sleeper = {} /\ Len(sleeper) = 0
  OBVIOUS
<1>2. sleeper \in Seq([phase : Phases, left : Nat])
  OBVIOUS
<1>3. TimerTypeOK
  <2>1. timerDict \in [DOMAIN timerDict -> [process : 1..Len(sleeper), place : 1..Len(sleeper)]]
    BY <1>1
  <2>2. told \in [index : Nat, timer : 0..Len(sleeper), ahead : SUBSET (1..Len(sleeper))]
    BY <1>1
  <2> QED BY <1>1, <1>2, <2>1, <2>2 DEF TimerTypeOK
<1>4. IsFiniteSet(DOMAIN timerDict)
  BY <1>1, FS_EmptySet
<1>5. Sleeping = {}
  BY <1>1 DEF Sleeping
<1> QED BY <1>1, <1>3, <1>4, <1>5 DEF TimerInv, Alone, Found, NoneIsOver, Described

(* A dict that only lost entries is typed, finite and free of doubles.      *)
LEMMA Shrinks ==
  ASSUME TimerInv, Len(sleeper)' = Len(sleeper), timerDict' \in [DOMAIN timerDict' -> {timerDict[id] : id \in DOMAIN timerDict'}],
         DOMAIN timerDict' \subseteq DOMAIN timerDict,
         \A id \in DOMAIN timerDict' : timerDict'[id] = timerDict[id]
  PROVE  /\ DOMAIN timerDict' \subseteq Ids
         /\ timerDict' \in [DOMAIN timerDict' ->
                              [process : 1..Len(sleeper)', place : 1..Len(sleeper)']]
         /\ IsFiniteSet(DOMAIN timerDict')
         /\ Alone'
<1>1. DOMAIN timerDict' \subseteq Ids
  BY DEF TimerInv, TimerTypeOK
<1>2. \A id \in DOMAIN timerDict : timerDict[id] \in [process : 1..Len(sleeper), place : 1..Len(sleeper)]
  BY DEF TimerInv, TimerTypeOK
<1>3. timerDict' \in [DOMAIN timerDict' ->
                        [process : 1..Len(sleeper)', place : 1..Len(sleeper)']]
  BY <1>2
<1>4. IsFiniteSet(DOMAIN timerDict')
  BY FS_Subset DEF TimerInv
<1>5. Alone'
  BY DEF TimerInv, Alone
<1> QED BY <1>1, <1>3, <1>4, <1>5

(* A sleeping timer that is not astray has its entry, which the cleaning    *)
(* keeps: its time is what it still sleeps.                                 *)
LEMMA SleepersAreKept ==
  ASSUME TimerInv, NEW id \in DOMAIN timerDict,
         timerDict[id].process \in Sleeping \ astray
  PROVE  /\ SecsTillDone(id) = sleeper[timerDict[id].process].left
         /\ id \in DOMAIN Cleaned(timerDict)
<1> DEFINE p == timerDict[id].process
<1>1. PICK o \in DOMAIN timerDict :
        timerDict[o].process = p /\ SecsTillDone(o) = sleeper[p].left
  BY DEF TimerInv, Found
<1>2. o = id
  BY <1>1 DEF TimerInv, Alone
<1>3. sleeper[p].left \in Nat
  BY SleeperType DEF TimerInv
<1>4. SecsTillDone(id) = sleeper[p].left
  BY <1>1, <1>2
<1>5. SecsTillDone(id) >= 0
  BY <1>3, <1>4
<1>6. id \in DOMAIN Cleaned(timerDict)
  BY <1>5, CleanedIs
<1> QED BY <1>4, <1>6

(* Where the described timer is stays the same while it and what is ahead   *)
(* of it sleeps.                                                            *)
LEMMA DescribedIsKept ==
  ASSUME TimerInv, told.ahead \cup {told.timer} \subseteq Sleeping \ astray
  PROVE  \E id \in DOMAIN Cleaned(timerDict) :
           /\ Ahead(timerDict, id) \cup {id} \subseteq DOMAIN Cleaned(timerDict)
           /\ Cleaned(timerDict)[id].process = told.timer
           /\ Ahead(Cleaned(timerDict), id) = Ahead(timerDict, id)
           /\ ProcessesIn(Cleaned(timerDict), Ahead(Cleaned(timerDict), id)) = told.ahead
           /\ id \in At(Cleaned(timerDict), told.index)
<1>1. PICK id \in DOMAIN timerDict :
        /\ timerDict[id].process = told.timer
        /\ ProcessesIn(timerDict, Ahead(timerDict, id)) = told.ahead
        /\ Cardinality(Ahead(timerDict, id)) = told.index - 1
  BY DEF TimerInv, Described
<1>2. Ahead(timerDict, id) \subseteq DOMAIN timerDict
  BY DEF Ahead
<1>3. \A o \in Ahead(timerDict, id) \cup {id} : timerDict[o].process \in Sleeping \ astray
  BY <1>1, <1>2 DEF ProcessesIn
<1>4. Ahead(timerDict, id) \cup {id} \subseteq DOMAIN Cleaned(timerDict)
  BY <1>2, <1>3, SleepersAreKept
<1>5. Ahead(Cleaned(timerDict), id) = Ahead(timerDict, id)
      /\ ProcessesIn(Cleaned(timerDict), Ahead(Cleaned(timerDict), id))
           = ProcessesIn(timerDict, Ahead(timerDict, id))
  BY <1>4, CleanedIs, NotMoved
<1>6. id \in At(Cleaned(timerDict), told.index)
  BY <1>1, <1>4, <1>5 DEF At
<1>7. Cleaned(timerDict)[id].process = told.timer
  BY <1>1, <1>4, CleanedIs
<1> QED BY <1>1, <1>4, <1>5, <1>6, <1>7

(* The cleaned dict lists the timers as truly as before.                    *)
LEMMA CleanedKeeps ==
  ASSUME TimerInv
  PROVE  /\ \A p \in Sleeping \ astray : \E id \in DOMAIN Cleaned(timerDict) :
              /\ Cleaned(timerDict)[id].process = p
              /\ SecsTillDone(id) = sleeper[p].left
         /\ \A id \in DOMAIN Cleaned(timerDict) :
              SecsTillDone(id) > 0 => Cleaned(timerDict)[id].process \in Sleeping \cup astray
<1>1. ASSUME NEW p \in Sleeping \ astray
      PROVE  \E id \in DOMAIN Cleaned(timerDict) :
               /\ Cleaned(timerDict)[id].process = p
               /\ SecsTillDone(id) = sleeper[p].left
  <2>1. PICK id \in DOMAIN timerDict : timerDict[id].process = p
    BY DEF TimerInv, Found
  <2>2. SecsTillDone(id) = sleeper[p].left /\ id \in DOMAIN Cleaned(timerDict)
    BY <2>1, SleepersAreKept
  <2>3. Cleaned(timerDict)[id].process = p
    BY <2>1, <2>2, CleanedIs
  <2> QED BY <2>2, <2>3
<1>2. \A id \in DOMAIN Cleaned(timerDict) :
        SecsTillDone(id) > 0 => Cleaned(timerDict)[id].process \in Sleeping \cup astray
  BY CleanedIs DEF TimerInv, NoneIsOver
<1> QED BY <1>1, <1>2

----------------------------------------------------------------------------
(* The steps.                                                               *)

LEMMA InvAfterQuery ==
  ASSUME TimerInv, NEW i \in Indices, QueryTimer(i) PROVE TimerInv'
<1> DEFINE kept == Cleaned(timerDict)
<1>1. timerDict' = kept /\ UNCHANGED <<wall, sleeper, astray, troubles>>
  BY DEF QueryTimer
<1>2. Sleeping' = Sleeping /\ \A id : SecsTillDone(id)' = SecsTillDone(id)
  BY <1>1 DEF Sleeping, InPhase, SecsTillDone
<1>3. /\ DOMAIN timerDict' \subseteq Ids
      /\ timerDict' \in [DOMAIN timerDict' ->
                           [process : 1..Len(sleeper)', place : 1..Len(sleeper)']]
      /\ IsFiniteSet(DOMAIN timerDict')
      /\ Alone'
  BY <1>1, Shrinks, CleanedIs DEF Cleaned, Restrict
<1>4. told' \in [index : Nat, timer : 0..Len(sleeper), ahead : SUBSET (1..Len(sleeper))]
  <2>1. Len(sleeper) \in Nat
    BY DEF TimerInv, TimerTypeOK
  <2>2. CASE told' = Untold
    BY <2>1, <2>2 DEF Untold
  <2>3. ASSUME NEW id \in At(kept, i),
               told' = [index |-> i, timer |-> kept[id].process,
                        ahead |-> ProcessesIn(kept, Ahead(kept, id))]
        PROVE  told' \in [index : Nat, timer : 0..Len(sleeper), ahead : SUBSET (1..Len(sleeper))]
    <3>1. \A k \in DOMAIN kept : kept[k].process \in 1..Len(sleeper)
      BY <1>1, <1>3
    <3>2. ProcessesIn(kept, Ahead(kept, id)) \subseteq 1..Len(sleeper)
      BY <3>1 DEF ProcessesIn, Ahead
    <3>3. kept[id].process \in 1..Len(sleeper)
      BY <3>1 DEF At
    <3> QED BY <2>1, <2>3, <3>2, <3>3, TimersAssumption
  <2> QED BY <2>2, <2>3 DEF QueryTimer
<1>5. TimerTypeOK'
  BY <1>1, <1>3, <1>4 DEF TimerInv, TimerTypeOK
<1>6. Found' /\ NoneIsOver'
  BY <1>1, <1>2, CleanedKeeps DEF Found, NoneIsOver
<1>7. Described'
  <2>1. CASE told' = Untold
    <3>1. 0 \notin Sleeping'
      BY <1>2 DEF Sleeping, TimerInv, TimerTypeOK
    <3> QED BY <2>1, <3>1 DEF Described, Untold
  <2>2. ASSUME NEW id \in At(kept, i),
               told' = [index |-> i, timer |-> kept[id].process,
                        ahead |-> ProcessesIn(kept, Ahead(kept, id))]
        PROVE  Described'
    <3>1. /\ id \in DOMAIN timerDict' /\ timerDict'[id].process = told'.timer
          /\ ProcessesIn(timerDict', Ahead(timerDict', id)) = told'.ahead
          /\ Cardinality(Ahead(timerDict', id)) = told'.index - 1
      BY <1>1, <2>2 DEF At
    <3> QED BY <3>1 DEF Described, Ahead, ProcessesIn
  <2> QED BY <2>1, <2>2 DEF QueryTimer
<1> QED BY <1>3, <1>5, <1>6, <1>7 DEF TimerInv

(* What remove_timer does to the processes.                                 *)
LEMMA TerminatedIs ==
  ASSUME TimerTypeOK, NEW ps, sleeper' = Terminated(ps)
  PROVE  /\ DOMAIN sleeper' = DOMAIN sleeper
         /\ Sleeping' = Sleeping \ ps
         /\ \A p \in Sleeping' : sleeper'[p] = sleeper[p]
         /\ sleeper' \in Seq([phase : Phases, left : Nat]) /\ Len(sleeper)' = Len(sleeper)
<1>1. DOMAIN sleeper' = DOMAIN sleeper
  BY DEF Terminated
<1>2. \A p \in DOMAIN sleeper : sleeper[p] \in [phase : Phases, left : Nat]
  BY Sleepers
<1>3. \A p \in DOMAIN sleeper :
        sleeper'[p] = IF p \in ps /\ InPhase(p, "sleeping")
                      THEN [sleeper[p] EXCEPT !.phase = "terminated"] ELSE sleeper[p]
  BY DEF Terminated
<1>4. \A p \in DOMAIN sleeper : sleeper'[p] \in [phase : Phases, left : Nat]
  BY <1>2, <1>3 DEF Phases
<1>5. sleeper' = [p \in DOMAIN sleeper |-> sleeper'[p]]
  BY DEF Terminated
<1>7. sleeper' \in Seq([phase : Phases, left : Nat]) /\ Len(sleeper)' = Len(sleeper)
  BY <1>4, <1>5, StillSleepers
<1>8. Sleeping' = Sleeping \ ps
  <2>1. \A p \in DOMAIN sleeper : sleeper'[p].phase = "sleeping" <=> InPhase(p, "sleeping") /\ p \notin ps
    BY <1>2, <1>3 DEF InPhase
  <2> QED BY <1>1, <2>1 DEF Sleeping, InPhase
<1>9. \A p \in Sleeping' : sleeper'[p] = sleeper[p]
  BY <1>3, <1>8 DEF Sleeping
<1> QED BY <1>1, <1>7, <1>8, <1>9

LEMMA InvAfterRemove ==
  ASSUME TimerInv, NEW ids \in SUBSET DOMAIN Cleaned(timerDict), Remove(Cleaned(timerDict), ids)
  PROVE  TimerInv'
<1> DEFINE kept == Cleaned(timerDict)
<1>1. /\ timerDict' = Restrict(kept, DOMAIN kept \ ids)
      /\ sleeper' = Terminated(ProcessesIn(kept, ids))
      /\ told' = Untold /\ UNCHANGED <<wall, astray, troubles>>
  BY DEF Remove
<1>2. /\ DOMAIN sleeper' = DOMAIN sleeper
      /\ Sleeping' = Sleeping \ ProcessesIn(kept, ids)
      /\ \A p \in Sleeping' : sleeper'[p] = sleeper[p]
      /\ sleeper' \in Seq([phase : Phases, left : Nat]) /\ Len(sleeper)' = Len(sleeper)
  BY <1>1, TerminatedIs DEF TimerInv
<1>3. /\ DOMAIN timerDict' = DOMAIN kept \ ids
      /\ \A id \in DOMAIN timerDict' : timerDict'[id] = kept[id]
      /\ timerDict' \in [DOMAIN timerDict' -> {timerDict[id] : id \in DOMAIN timerDict'}]
  BY <1>1, CleanedIs DEF Restrict
<1>4. /\ DOMAIN timerDict' \subseteq Ids
      /\ timerDict' \in [DOMAIN timerDict' ->
                           [process : 1..Len(sleeper)', place : 1..Len(sleeper)']]
      /\ IsFiniteSet(DOMAIN timerDict')
      /\ Alone'
  <2>1. DOMAIN timerDict' \subseteq DOMAIN timerDict
        /\ \A id \in DOMAIN timerDict' : timerDict'[id] = timerDict[id]
    BY <1>3, CleanedIs
  <2> QED BY <1>2, <1>3, <2>1, Shrinks
<1>5. TimerTypeOK'
  <2>1. told' \in [index : Nat, timer : 0..Len(sleeper)', ahead : SUBSET (1..Len(sleeper)')]
    BY <1>1, <1>2 DEF Untold, TimerInv, TimerTypeOK
  <2> QED BY <1>1, <1>2, <1>4, <2>1 DEF TimerInv, TimerTypeOK
<1>6. Found'
  <2>1. ASSUME NEW p \in Sleeping' \ astray'
        PROVE  \E id \in DOMAIN timerDict' : 
                 timerDict'[id].process = p /\ SecsTillDone(id)' = sleeper'[p].left
    <3>1. p \in Sleeping \ astray /\ p \notin ProcessesIn(kept, ids) /\ sleeper'[p] = sleeper[p]
      BY <1>1, <1>2, <2>1
    <3>2. PICK id \in DOMAIN kept : kept[id].process = p /\ SecsTillDone(id) = sleeper[p].left
      BY <3>1, CleanedKeeps
    <3>3. id \notin ids
      BY <3>1, <3>2 DEF ProcessesIn
    <3> QED BY <1>1, <1>3, <3>1, <3>2, <3>3 DEF SecsTillDone
  <2> QED BY <2>1 DEF Found
<1>7. NoneIsOver'
  <2>1. ASSUME NEW id \in DOMAIN timerDict', SecsTillDone(id)' > 0
        PROVE  timerDict'[id].process \in Sleeping' \cup astray'
    <3>1. id \in DOMAIN kept \ ids /\ timerDict'[id] = kept[id] /\ SecsTillDone(id) > 0
      BY <1>1, <1>3, <2>1 DEF SecsTillDone
    <3>2. kept[id].process \in Sleeping \cup astray
      BY <3>1, CleanedKeeps
    <3>3. kept[id].process \notin ProcessesIn(kept, ids)
      <4>1. ASSUME NEW o \in ids PROVE kept[o].process # kept[id].process
        BY <3>1, <4>1, CleanedIs DEF TimerInv, Alone
      <4> QED BY <4>1 DEF ProcessesIn
    <3> QED BY <1>1, <1>2, <3>1, <3>2, <3>3
  <2> QED BY <2>1 DEF NoneIsOver
<1>8. Described'
  <2>1. 0 \notin Sleeping'
    BY <1>2, SleeperType DEF TimerInv
  <2> QED BY <1>1, <2>1 DEF Described, Untold
<1> QED BY <1>4, <1>5, <1>6, <1>7, <1>8 DEF TimerInv

(* The processes change, and the dict does not.                             *)
LEMMA InvAfterSleep ==
  ASSUME TimerInv, UNCHANGED <<timerDict, told, astray, troubles>>,
         NEW n \in Nat, wall' = wall + n,
         sleeper' \in Seq([phase : Phases, left : Nat]), Len(sleeper)' = Len(sleeper),
         Sleeping' \subseteq Sleeping,
         \A p \in Sleeping' : sleeper'[p].left = sleeper[p].left - n,
         \A p \in Sleeping : p \notin Sleeping' => sleeper[p].left = 0
  PROVE  TimerInv'
<1>1. wall \in Int /\ wall' \in Int
  BY DEF TimerInv, TimerTypeOK
<1>2. TimerTypeOK' /\ IsFiniteSet(DOMAIN timerDict') /\ Alone'
  BY <1>1 DEF TimerInv, TimerTypeOK, Alone
<1>3. \A id \in DOMAIN timerDict : SecsTillDone(id) \in Int
                                   /\ SecsTillDone(id)' = SecsTillDone(id) - n
  <2> SUFFICES ASSUME NEW id \in DOMAIN timerDict
               PROVE  SecsTillDone(id) \in Int /\ SecsTillDone(id)' = SecsTillDone(id) - n
    OBVIOUS
  <2>1. id.until \in Int
    BY DEF TimerInv, TimerTypeOK, Ids
  <2>2. SecsTillDone(id)' = id.until - (wall + n)
    BY DEF SecsTillDone
  <2> QED BY <1>1, <2>1, <2>2 DEF SecsTillDone
<1>4. ASSUME NEW p \in Sleeping' \ astray'
      PROVE  \E id \in DOMAIN timerDict' :
               timerDict'[id].process = p /\ SecsTillDone(id)' = sleeper'[p].left
  <2>1. PICK id \in DOMAIN timerDict :
          timerDict[id].process = p /\ SecsTillDone(id) = sleeper[p].left
    BY DEF TimerInv, Found
  <2>2. SecsTillDone(id)' = sleeper'[p].left
    BY <1>3, <2>1
  <2> QED BY <2>1, <2>2
<1>5. ASSUME NEW id \in DOMAIN timerDict', SecsTillDone(id)' > 0
      PROVE  timerDict'[id].process \in Sleeping' \cup astray'
  <2>1. SecsTillDone(id) > 0
    <3>1. PICK s : s = SecsTillDone(id)
      OBVIOUS
    <3>2. s \in Int /\ s - n > 0
      BY <1>3, <1>5, <3>1
    <3> QED BY <3>1, <3>2
  <2>2. timerDict[id].process \in Sleeping \cup astray
    BY <2>1 DEF TimerInv, NoneIsOver
  <2>3. ASSUME timerDict[id].process \in Sleeping \ astray
        PROVE  timerDict[id].process \in Sleeping'
    BY <2>1, <2>3, SleepersAreKept
  <2> QED BY <2>2, <2>3
<1>6. Described'
  <2> SUFFICES ASSUME told'.ahead \cup {told'.timer} \subseteq Sleeping' \ astray'
               PROVE  \E id \in DOMAIN timerDict' :
                        /\ timerDict'[id].process = told'.timer
                        /\ ProcessesIn(timerDict', Ahead(timerDict', id)) = told'.ahead
                        /\ Cardinality(Ahead(timerDict', id)) = told'.index - 1
    BY DEF Described, Ahead, ProcessesIn
  <2> QED BY DEF TimerInv, Described
<1> QED BY <1>2, <1>4, <1>5, <1>6 DEF TimerInv, Found, NoneIsOver

LEMMA InvAfterRing ==
  ASSUME TimerInv, NEW p \in DOMAIN sleeper, Ring(p) PROVE TimerInv'
<1>1. /\ InPhase(p, "sleeping") /\ sleeper[p].left = 0
      /\ sleeper' = [sleeper EXCEPT ![p].phase = "rung"]
      /\ UNCHANGED <<wall, timerDict, told, astray, troubles>>
  BY DEF Ring
<1>2. sleeper' = [q \in DOMAIN sleeper |-> sleeper'[q]]
  BY <1>1
<1>3. \A q \in DOMAIN sleeper : sleeper'[q] \in [phase : Phases, left : Nat]
  BY <1>1, Sleepers DEF TimerInv, Phases
<1>4. sleeper' \in Seq([phase : Phases, left : Nat]) /\ Len(sleeper)' = Len(sleeper)
  BY <1>2, <1>3, StillSleepers DEF TimerInv
<1>5. sleeper'[p].phase = "rung" /\ \A q \in DOMAIN sleeper \ {p} : sleeper'[q] = sleeper[q]
  BY <1>1, Sleepers DEF TimerInv
<1>6. Sleeping' = Sleeping \ {p}
  BY <1>2, <1>5 DEF Sleeping, InPhase
<1>7. \A q \in Sleeping' : sleeper'[q] = sleeper[q]
  BY <1>5, <1>6 DEF Sleeping
<1>8. wall \in Int /\ \A q \in Sleeping : sleeper[q].left \in Nat
  BY SleeperType DEF TimerInv, TimerTypeOK
<1> DEFINE none == 0
<1>9. /\ none \in Nat /\ wall' = wall + none
      /\ \A q \in Sleeping' : sleeper'[q].left = sleeper[q].left - none
  BY <1>1, <1>6, <1>7, <1>8
<1> HIDE DEF none
<1>10. \A q \in Sleeping : q \notin Sleeping' => sleeper[q].left = 0
  BY <1>1, <1>6
<1> QED BY <1>1, <1>4, <1>6, <1>9, <1>10, InvAfterSleep

LEMMA InvAfterSecond ==
  ASSUME TimerInv, SecondPasses PROVE TimerInv'
<1>1. /\ \A p \in Sleeping : sleeper[p].left > 0
      /\ wall' = wall + 1
      /\ sleeper' = [p \in DOMAIN sleeper |->
                       IF p \in Sleeping THEN [sleeper[p] EXCEPT !.left = @ - 1]
                       ELSE sleeper[p]]
      /\ UNCHANGED <<timerDict, told, astray, troubles>>
  BY DEF SecondPasses
<1>2. sleeper' = [q \in DOMAIN sleeper |-> sleeper'[q]]
  BY <1>1
<1>3. \A q \in DOMAIN sleeper \ Sleeping : sleeper'[q] = sleeper[q]
  BY <1>1
<1>4. \A q \in Sleeping : /\ sleeper'[q] \in [phase : Phases, left : Nat]
                          /\ sleeper'[q].phase = "sleeping"
                          /\ sleeper'[q].left = sleeper[q].left - 1
  <2> SUFFICES ASSUME NEW q \in Sleeping
               PROVE  /\ sleeper'[q] \in [phase : Phases, left : Nat]
                      /\ sleeper'[q].phase = "sleeping"
                      /\ sleeper'[q].left = sleeper[q].left - 1
    OBVIOUS
  <2>1. q \in DOMAIN sleeper /\ sleeper[q].phase = "sleeping"
    BY DEF Sleeping, InPhase
  <2>2. sleeper[q] \in [phase : Phases, left : Nat]
    BY <2>1, Sleepers DEF TimerInv
  <2>3. sleeper'[q] = [sleeper[q] EXCEPT !.left = sleeper[q].left - 1]
    BY <1>1, <2>1
  <2>4. sleeper[q].left - 1 \in Nat
    BY <1>1, <2>2
  <2> QED BY <2>1, <2>2, <2>3, <2>4
<1>5. \A q \in DOMAIN sleeper : sleeper'[q] \in [phase : Phases, left : Nat]
  BY <1>3, <1>4, Sleepers DEF TimerInv
<1>6. sleeper' \in Seq([phase : Phases, left : Nat]) /\ Len(sleeper)' = Len(sleeper)
  BY <1>2, <1>5, StillSleepers DEF TimerInv
<1>7. Sleeping' = Sleeping
  BY <1>2, <1>3, <1>4 DEF Sleeping, InPhase
<1>8. \A q \in Sleeping' : sleeper'[q].left = sleeper[q].left - 1
  BY <1>4, <1>7
<1>9. Sleeping' \subseteq Sleeping /\ \A q \in Sleeping : q \notin Sleeping' => sleeper[q].left = 0
  BY <1>7
<1>10. UNCHANGED <<timerDict, told, astray, troubles>>
  BY <1>1
<1> QED BY <1>1, <1>6, <1>8, <1>9, <1>10, InvAfterSleep

LEMMA InvAfterSetClock ==
  ASSUME TimerInv, NEW jump \in Jumps, SetClock(jump) PROVE TimerInv'
<1>1. /\ troubles < MaxTroubles /\ troubles' = troubles + 1 /\ wall' = wall + jump
      /\ astray' = DOMAIN sleeper /\ UNCHANGED <<timerDict, sleeper, told>>
  BY DEF SetClock
<1>2. DOMAIN sleeper = 1..Len(sleeper)
  BY Sleepers DEF TimerInv
<1>3. wall' \in Int /\ troubles' \in 0..MaxTroubles
  BY <1>1, TimersAssumption DEF TimerInv, TimerTypeOK
<1>4. TimerTypeOK' /\ IsFiniteSet(DOMAIN timerDict') /\ Alone'
  BY <1>1, <1>2, <1>3 DEF TimerInv, TimerTypeOK, Alone
<1>5. Sleeping' \ astray' = {}
  BY <1>1 DEF Sleeping
<1>6. Found' /\ Described'
  BY <1>5 DEF Found, Described
<1>7. NoneIsOver'
  BY <1>1, <1>2 DEF TimerInv, TimerTypeOK, NoneIsOver
<1> QED BY <1>4, <1>6, <1>7 DEF TimerInv

LEMMA InvAfterReboot ==
  ASSUME TimerInv, Reboot PROVE TimerInv'
<1>1. /\ troubles < MaxTroubles /\ troubles' = troubles + 1
      /\ timerDict' = Empty /\ told' = Untold
      /\ sleeper' = [p \in DOMAIN sleeper |->
                       IF p \in Sleeping THEN [sleeper[p] EXCEPT !.phase = "lost"]
                       ELSE sleeper[p]]
      /\ UNCHANGED <<wall, astray>>
  BY DEF Reboot
<1>2. sleeper' = [q \in DOMAIN sleeper |-> sleeper'[q]]
  BY <1>1
<1>3. \A q \in DOMAIN sleeper : /\ sleeper'[q] \in [phase : Phases, left : Nat]
                                /\ sleeper'[q].phase # "sleeping"
  BY <1>1, Sleepers DEF TimerInv, Phases, Sleeping, InPhase
<1>4. sleeper' \in Seq([phase : Phases, left : Nat]) /\ Len(sleeper)' = Len(sleeper)
  BY <1>2, <1>3, StillSleepers DEF TimerInv
<1>5. Sleeping' = {}
  BY <1>2, <1>3 DEF Sleeping, InPhase
<1>6. DOMAIN timerDict' = {} /\ timerDict' \in [DOMAIN timerDict' -> 
                              [process : 1..Len(sleeper)', place : 1..Len(sleeper)']]
  BY <1>1 DEF Empty
<1>7. troubles' \in 0..MaxTroubles
  BY <1>1, TimersAssumption DEF TimerInv, TimerTypeOK
<1>8. told' \in [index : Nat, timer : 0..Len(sleeper)', ahead : SUBSET (1..Len(sleeper)')]
  BY <1>1, <1>4, Sleepers DEF Untold, TimerInv
<1>9. TimerTypeOK'
  BY <1>1, <1>4, <1>6, <1>7, <1>8 DEF TimerInv, TimerTypeOK
<1> QED BY <1>5, <1>6, <1>9, FS_EmptySet DEF TimerInv, Alone, Found, NoneIsOver, Described

(* A timer is set: the cleaned dict gets an entry at its end, or in place   *)
(* of one with the same id, whose process goes astray.                      *)
LEMMA InvAfterAdded ==
  ASSUME TimerInv, NEW secs \in Nat,
         timerDict' = Added(Cleaned(timerDict), Id(secs), Len(sleeper) + 1),
         sleeper' = Append(sleeper, [phase |-> "sleeping", left |-> secs]),
         astray' = astray \cup (ProcessesOf(Cleaned(timerDict)) \ ProcessesOf(timerDict')),
         Len(sleeper) < MaxTimers, UNCHANGED <<wall, told, troubles>>
  PROVE  TimerInv'
<1> DEFINE kept == Cleaned(timerDict)
<1> DEFINE new == Len(sleeper) + 1
<1>0. PICK id : id = Id(secs)
  OBVIOUS
<1>1. /\ Len(sleeper) \in Nat /\ DOMAIN sleeper = 1..Len(sleeper)
      /\ sleeper \in Seq([phase : Phases, left : Nat])
  BY Sleepers DEF TimerInv, TimerTypeOK
<1>2. /\ sleeper' \in Seq([phase : Phases, left : Nat]) /\ Len(sleeper)' = new
      /\ DOMAIN sleeper' = 1..new /\ sleeper'[new] = [phase |-> "sleeping", left |-> secs]
      /\ \A p \in 1..Len(sleeper) : sleeper'[p] = sleeper[p]
  <2>1. [phase |-> "sleeping", left |-> secs] \in [phase : Phases, left : Nat]
    BY DEF Phases
  <2> DEFINE entry == [phase |-> "sleeping", left |-> secs]
  <2> DEFINE R == [phase : Phases, left : Nat]
  <2>2. entry \in R /\ sleeper \in Seq(R) /\ sleeper' = Append(sleeper, entry)
    BY <1>1, <2>1
  <2> HIDE DEF entry, R
  <2>3. /\ sleeper' \in Seq(R) /\ Len(sleeper)' = new
        /\ DOMAIN sleeper' = 1..new /\ sleeper'[new] = entry
        /\ \A p \in 1..Len(sleeper) : sleeper'[p] = sleeper[p]
    BY <1>1, <2>2
  <2> QED BY <2>3 DEF entry, R
<1>3. Sleeping' = Sleeping \cup {new} /\ new \notin Sleeping
  BY <1>1, <1>2 DEF Sleeping, InPhase
<1>4. /\ DOMAIN kept \subseteq DOMAIN timerDict /\ \A k \in DOMAIN kept : kept[k] = timerDict[k]
      /\ \A k \in DOMAIN kept : /\ k \in Ids
                                /\ kept[k] \in [process : 1..Len(sleeper), place : 1..Len(sleeper)]
  <2>1. DOMAIN kept \subseteq DOMAIN timerDict /\ \A k \in DOMAIN kept : kept[k] = timerDict[k]
    BY CleanedIs
  <2>2. \A k \in DOMAIN timerDict :
          k \in Ids /\ timerDict[k] \in [process : 1..Len(sleeper), place : 1..Len(sleeper)]
    BY DEF TimerInv, TimerTypeOK
  <2> QED BY <2>1, <2>2
<1>5. /\ DOMAIN timerDict' = DOMAIN kept \cup {id}
      /\ \A k \in DOMAIN kept \ {id} : timerDict'[k] = kept[k]
      /\ timerDict'[id] = [process |-> new,
                           place |-> IF id \in DOMAIN kept THEN kept[id].place ELSE new]
      /\ timerDict' = [k \in DOMAIN timerDict' |-> timerDict'[k]]
  BY <1>0 DEF Added
<1>6. id \in Ids /\ SecsTillDone(id)' = secs
      /\ \A k \in DOMAIN kept : SecsTillDone(k)' = SecsTillDone(k)
  <2>1. wall \in Int
    BY DEF TimerInv, TimerTypeOK
  <2> QED BY <1>0, <2>1 DEF Id, Ids, SecsTillDone
<1> HIDE DEF kept, new
<1>7. \A k \in DOMAIN timerDict' :
        timerDict'[k] \in [process : 1..new, place : 1..new]
  <2>1. new \in 1..new /\ 1..Len(sleeper) \subseteq 1..new
    BY <1>1 DEF new
  <2>2. timerDict'[id] \in [process : 1..new, place : 1..new]
    BY <1>4, <1>5, <2>1
  <2>3. \A k \in DOMAIN kept \ {id} : timerDict'[k] \in [process : 1..new, place : 1..new]
    BY <1>4, <1>5, <2>1
  <2> QED BY <1>5, <2>2, <2>3
<1>8. astray \subseteq astray' /\ astray' \subseteq 1..new /\ new \notin astray'
  <2>1. astray' = astray \cup (ProcessesOf(kept) \ ProcessesOf(timerDict'))
    BY DEF kept
  <2>2. ProcessesOf(kept) \subseteq 1..Len(sleeper)
    BY <1>4 DEF ProcessesOf, ProcessesIn
  <2>3. astray \subseteq 1..Len(sleeper)
    BY DEF TimerInv, TimerTypeOK
  <2>4. 1..Len(sleeper) \subseteq 1..new /\ new \notin 1..Len(sleeper)
    BY <1>1 DEF new
  <2> QED BY <2>1, <2>2, <2>3, <2>4
<1>9. ASSUME id \in DOMAIN kept PROVE kept[id].process \in astray'
  <2>1. \A k \in DOMAIN timerDict' : timerDict'[k].process # kept[id].process
    <3>1. kept[id].process \in 1..Len(sleeper) /\ new \notin 1..Len(sleeper)
      BY <1>1, <1>4, <1>9 DEF new
    <3>2. \A k \in DOMAIN kept \ {id} : kept[k].process # kept[id].process
      BY <1>4, <1>9 DEF TimerInv, Alone
    <3> QED BY <1>5, <3>1, <3>2
  <2> QED BY <1>9, <2>1 DEF kept, ProcessesOf, ProcessesIn
<1>10. TimerTypeOK'
  <2>1. DOMAIN timerDict' \subseteq Ids
    BY <1>4, <1>5, <1>6
  <2>2. timerDict' \in [DOMAIN timerDict' ->
                          [process : 1..Len(sleeper)', place : 1..Len(sleeper)']]
    BY <1>2, <1>5, <1>7
  <2>3. told' \in [index : Nat, timer : 0..Len(sleeper)', ahead : SUBSET (1..Len(sleeper)')]
    <3>1. 1..Len(sleeper) \subseteq 1..new /\ 0..Len(sleeper) \subseteq 0..new
      BY <1>1 DEF new
    <3>2. told \in [index : Nat, timer : 0..Len(sleeper), ahead : SUBSET (1..Len(sleeper))]
      BY DEF TimerInv, TimerTypeOK
    <3> QED BY <1>2, <3>1, <3>2
  <2>4. Len(sleeper)' <= MaxTimers
    BY <1>1, <1>2, TimersAssumption DEF new
  <2> QED BY <1>2, <1>8, <2>1, <2>2, <2>3, <2>4 DEF TimerInv, TimerTypeOK
<1>11. IsFiniteSet(DOMAIN timerDict')
  <2>1. IsFiniteSet(DOMAIN kept)
    BY <1>4, FS_Subset DEF TimerInv
  <2> QED BY <1>5, <2>1, FS_AddElement
<1>12. Alone'
  <2>1. \A k, o \in DOMAIN kept : k # o => /\ kept[k].process # kept[o].process
                                          /\ kept[k].place # kept[o].place
    BY <1>4 DEF TimerInv, Alone
  <2>2. \A k \in DOMAIN kept : kept[k].process # new /\ kept[k].place # new
    BY <1>1, <1>4 DEF new
  <2>3. \A k \in DOMAIN kept \ {id} : /\ timerDict'[k].process # timerDict'[id].process
                                      /\ timerDict'[k].place # timerDict'[id].place
    BY <1>5, <2>1, <2>2
  <2> QED BY <1>5, <2>1, <2>3 DEF Alone
<1>13. Found'
  <2>1. ASSUME NEW p \in Sleeping \ astray'
        PROVE  \E k \in DOMAIN timerDict' :
                 timerDict'[k].process = p /\ SecsTillDone(k)' = sleeper'[p].left
    <3>1. PICK k \in DOMAIN kept : kept[k].process = p /\ SecsTillDone(k) = sleeper[p].left
      BY <1>8, <2>1, CleanedKeeps DEF kept
    <3>2. k # id
      BY <1>9, <2>1, <3>1
    <3>3. sleeper'[p] = sleeper[p]
      BY <1>1, <1>2 DEF Sleeping
    <3>4. k \in DOMAIN timerDict' /\ timerDict'[k].process = p
      BY <1>5, <3>1, <3>2
    <3>5. SecsTillDone(k)' = sleeper'[p].left
      BY <1>6, <3>1, <3>3
    <3> QED BY <3>4, <3>5
  <2>2. timerDict'[id].process = new /\ SecsTillDone(id)' = sleeper'[new].left
    BY <1>2, <1>5, <1>6
  <2>3. ASSUME NEW p \in Sleeping' \ astray'
        PROVE  \E k \in DOMAIN timerDict' :
                 timerDict'[k].process = p /\ SecsTillDone(k)' = sleeper'[p].left
    <3>1. CASE p = new
      <4>1. id \in DOMAIN timerDict'
        BY <1>5
      <4> QED BY <2>2, <3>1, <4>1
    <3>2. CASE p # new
      <4>1. p \in Sleeping \ astray'
        BY <1>3, <2>3, <3>2
      <4> QED BY <2>1, <4>1
    <3> QED BY <3>1, <3>2
  <2> QED BY <2>3 DEF Found
<1>14. NoneIsOver'
  <2>1. ASSUME NEW k \in DOMAIN kept \ {id}, SecsTillDone(k)' > 0
        PROVE  timerDict'[k].process \in Sleeping \cup astray
    BY <1>5, <1>6, <2>1, CleanedKeeps DEF kept
  <2> QED BY <1>3, <1>5, <1>8, <2>1 DEF NoneIsOver
<1>15. Described'
  <2> SUFFICES ASSUME told'.ahead \cup {told'.timer} \subseteq Sleeping' \ astray'
               PROVE  \E k \in DOMAIN timerDict' :
                        /\ timerDict'[k].process = told'.timer
                        /\ ProcessesIn(timerDict', Ahead(timerDict', k)) = told'.ahead
                        /\ Cardinality(Ahead(timerDict', k)) = told'.index - 1
    BY DEF Described, Ahead, ProcessesIn
  <2>1. told.ahead \cup {told.timer} \subseteq Sleeping \ astray
    <3>1. told.ahead \cup {told.timer} \subseteq 0..Len(sleeper) /\ new \notin 0..Len(sleeper)
      BY <1>1 DEF new, TimerInv, TimerTypeOK
    <3> QED BY <1>3, <1>8, <3>1
  <2>2. PICK k \in DOMAIN kept :
          /\ Ahead(timerDict, k) \cup {k} \subseteq DOMAIN kept
          /\ kept[k].process = told.timer
          /\ Ahead(kept, k) = Ahead(timerDict, k)
          /\ ProcessesIn(kept, Ahead(kept, k)) = told.ahead
          /\ k \in At(kept, told.index)
    BY <2>1, DescribedIsKept DEF kept
  <2>3. \A o \in Ahead(kept, k) \cup {k} : o # id
    <3>1. \A o \in Ahead(kept, k) \cup {k} : o \in DOMAIN kept /\ kept[o].process \notin astray'
      BY <2>2 DEF ProcessesIn, Ahead
    <3> QED BY <1>9, <3>1
  <2>4. Ahead(timerDict', k) = Ahead(kept, k)
    <3>1. ASSUME NEW o \in DOMAIN timerDict' 
          PROVE  o \in Ahead(timerDict', k) <=> o \in Ahead(kept, k)
      <4>1. CASE o # id
        BY <1>5, <2>3, <4>1 DEF Ahead
      <4>2. CASE o = id
        <5>1. o \notin Ahead(kept, k) /\ timerDict'[k] = kept[k]
          BY <1>5, <2>3, <4>2
        <5>2. CASE id \in DOMAIN kept
          <6>1. timerDict'[o].place = kept[o].place
            BY <1>5, <4>2, <5>2
          <6> QED BY <4>2, <5>1, <5>2, <6>1 DEF Ahead
        <5>3. CASE id \notin DOMAIN kept
          <6>1. timerDict'[o].place = new
            BY <1>5, <4>2, <5>3
          <6>2. kept[k].place \in 1..Len(sleeper)
            BY <1>4
          <6>3. ~(new < kept[k].place)
            BY <1>1, <6>2 DEF new
          <6> QED BY <5>1, <6>1, <6>3 DEF Ahead
        <5> QED BY <5>2, <5>3
      <4> QED BY <4>1, <4>2
    <3>2. Ahead(timerDict', k) \subseteq DOMAIN timerDict' /\ Ahead(kept, k) \subseteq DOMAIN timerDict'
      BY <1>5 DEF Ahead
    <3> QED BY <3>1, <3>2
  <2>5. ProcessesIn(timerDict', Ahead(kept, k)) = ProcessesIn(kept, Ahead(kept, k))
    BY <1>5, <2>3 DEF ProcessesIn, Ahead
  <2>6. k \in DOMAIN timerDict' /\ timerDict'[k].process = told.timer
    BY <1>5, <2>2, <2>3
  <2>7. Cardinality(Ahead(kept, k)) = told.index - 1
    BY <2>2 DEF At
  <2> QED BY <2>2, <2>4, <2>5, <2>6, <2>7
<1> QED BY <1>10, <1>11, <1>12, <1>13, <1>14, <1>15 DEF TimerInv

(* A timer of a wrong length: the dict is cleaned only.                     *)
LEMMA InvAfterCleaning ==
  ASSUME TimerInv, timerDict' = Cleaned(timerDict),
         UNCHANGED <<sleeper, astray, wall, told, troubles>>
  PROVE  TimerInv'
<1> DEFINE kept == Cleaned(timerDict)
<1>1. Sleeping' = Sleeping /\ \A id : SecsTillDone(id)' = SecsTillDone(id)
  BY DEF Sleeping, InPhase, SecsTillDone
<1>2. /\ DOMAIN timerDict' \subseteq Ids
      /\ timerDict' \in [DOMAIN timerDict' ->
                           [process : 1..Len(sleeper)', place : 1..Len(sleeper)']]
      /\ IsFiniteSet(DOMAIN timerDict')
      /\ Alone'
  BY Shrinks, CleanedIs DEF Cleaned, Restrict
<1>3. TimerTypeOK'
  BY <1>2 DEF TimerInv, TimerTypeOK
<1>4. Found' /\ NoneIsOver'
  BY <1>1, CleanedKeeps DEF Found, NoneIsOver
<1>5. Described'
  <2> SUFFICES ASSUME told'.ahead \cup {told'.timer} \subseteq Sleeping' \ astray'
               PROVE  \E id \in DOMAIN timerDict' :
                        /\ timerDict'[id].process = told'.timer
                        /\ ProcessesIn(timerDict', Ahead(timerDict', id)) = told'.ahead
                        /\ Cardinality(Ahead(timerDict', id)) = told'.index - 1
    BY DEF Described, Ahead, ProcessesIn
  <2>1. told.ahead \cup {told.timer} \subseteq Sleeping \ astray
    BY <1>1
  <2>2. PICK id \in DOMAIN kept :
          /\ kept[id].process = told.timer
          /\ ProcessesIn(kept, Ahead(kept, id)) = told.ahead
          /\ id \in At(kept, told.index)
    BY <2>1, DescribedIsKept
  <2>3. Cardinality(Ahead(kept, id)) = told.index - 1
    BY <2>2 DEF At
  <2> QED BY <2>2, <2>3
<1> QED BY <1>2, <1>3, <1>4, <1>5 DEF TimerInv

LEMMA InvAfterSet ==
  ASSUME TimerInv, NEW a \in Amounts, NEW s \in Scales, SetTimer(a, s) PROVE TimerInv'
<1> DEFINE secs == a * ScaleOf[s]
<1>1. secs \in Nat
  <2>1. a \in Nat /\ ScaleOf[s] \in Nat
    BY TimersAssumption
  <2>2. \A x, y \in Nat : x * y \in Nat
    OBVIOUS
  <2> QED BY <2>1, <2>2
<1>2. Len(sleeper) < MaxTimers /\ UNCHANGED <<wall, told, troubles>>
  BY DEF SetTimer
<1>3. CASE secs < Shortest \/ secs > Longest
  <2>1. timerDict' = Cleaned(timerDict) /\ UNCHANGED <<sleeper, astray>>
    BY <1>3 DEF SetTimer
  <2> QED BY <1>2, <2>1, InvAfterCleaning
<1>4. CASE ~(secs < Shortest \/ secs > Longest)
  <2>1. /\ timerDict' = Added(Cleaned(timerDict), Id(secs), Len(sleeper) + 1)
        /\ sleeper' = Append(sleeper, [phase |-> "sleeping", left |-> secs])
        /\ astray' = astray \cup
             (ProcessesOf(Cleaned(timerDict)) \ ProcessesOf(timerDict'))
    BY <1>4 DEF SetTimer
  <2> HIDE DEF secs
  <2> QED BY <1>1, <1>2, <2>1, InvAfterAdded
<1> QED BY <1>3, <1>4

LEMMA TimersInductive ==
  ASSUME TimerInv, [TimerNext]_timerVars PROVE TimerInv'
<1>1. ASSUME NEW a \in Amounts, NEW s \in Scales, SetTimer(a, s) PROVE TimerInv'
  BY <1>1, InvAfterSet
<1>2. ASSUME NEW i \in Indices, RemoveTimer(i) PROVE TimerInv'
  <2>1. At(Cleaned(timerDict), i) \in SUBSET DOMAIN Cleaned(timerDict)
    BY DEF At
  <2> QED BY <1>2, <2>1, InvAfterRemove DEF RemoveTimer
<1>3. ASSUME NEW i \in Indices, QueryTimer(i) PROVE TimerInv'
  BY <1>3, InvAfterQuery
<1>4. CASE RemoveAll
  BY <1>4, InvAfterRemove DEF RemoveAll
<1>5. ASSUME NEW p \in DOMAIN sleeper, Ring(p) PROVE TimerInv'
  BY <1>5, InvAfterRing
<1>6. CASE SecondPasses
  BY <1>6, InvAfterSecond
<1>7. ASSUME NEW j \in Jumps, SetClock(j) PROVE TimerInv'
  BY <1>7, InvAfterSetClock
<1>8. CASE Reboot
  BY <1>8, InvAfterReboot
<1>9. CASE UNCHANGED timerVars
  <2>1. TimerTypeOK' /\ IsFiniteSet(DOMAIN timerDict') /\ Alone'
    BY <1>9 DEF timerVars, TimerInv, TimerTypeOK, Alone
  <2>2. Found' /\ NoneIsOver'
    BY <1>9 DEF timerVars, TimerInv, Found, NoneIsOver, Sleeping, InPhase, SecsTillDone
  <2>3. Described'
    BY <1>9 DEF timerVars, TimerInv, Described, Sleeping, InPhase, Ahead, ProcessesIn
  <2> QED BY <2>1, <2>2, <2>3 DEF TimerInv
<1> QED BY <1>1, <1>2, <1>3, <1>4, <1>5, <1>6, <1>7, <1>8, <1>9 DEF TimerNext

LEMMA TimersAlways == TimerSpec => []TimerInv
<1> QED BY TimersBegin, TimersInductive, PTL DEF TimerSpec

(* The variables of Timers keep their types.                                *)
THEOREM TimerTypeCorrect == TimerSpec => []TimerTypeOK
<1>1. TimerInv => TimerTypeOK
  BY DEF TimerInv
<1> QED BY <1>1, TimersAlways, PTL

(* The dict and the processes agree, though nothing connects them but two   *)
(* clocks.                                                                  *)
THEOREM ListIsTrue == TimerSpec => []ListedTruly
<1>1. ASSUME TimerInv PROVE ListedTruly
  <2>1. ASSUME NEW p \in Sleeping \ astray
        PROVE  \E id \in DOMAIN timerDict :
                 /\ timerDict[id].process = p
                 /\ SecsTillDone(id) = sleeper[p].left
                 /\ \A other \in DOMAIN timerDict \ {id} : timerDict[other].process # p
    BY <1>1 DEF TimerInv, Found, Alone
  <2> QED BY <1>1, <2>1 DEF ListedTruly, TimerInv, NoneIsOver
<1> QED BY <1>1, TimersAlways, PTL

(* Who removes the timer that was described removes that one.               *)
THEOREM RemovesTheRightOne == TimerSpec => RemovesWhatWasDescribed
<1>1. ASSUME TimerInv, NEW i \in Indices, RemoveTimer(i), told.index = i,
             told.ahead \cup {told.timer} \subseteq Sleeping \ astray
      PROVE  {p \in Sleeping : sleeper'[p].phase # "sleeping"} = {told.timer}
  <2> DEFINE kept == Cleaned(timerDict)
  <2>1. PICK id \in DOMAIN kept : /\ kept[id].process = told.timer
                                  /\ id \in At(kept, i)
    BY <1>1, DescribedIsKept
  <2>2. At(kept, i) = {id}
    <3>1. IsFiniteSet(DOMAIN kept)
      BY <1>1, CleanedIs, FS_Subset DEF TimerInv
    <3>2. \A k \in DOMAIN kept : kept[k].place \in Nat
      <4>1. \A k \in DOMAIN timerDict : timerDict[k].place \in 1..Len(sleeper)
        BY <1>1 DEF TimerInv, TimerTypeOK
      <4>2. \A k \in DOMAIN kept : kept[k].place \in 1..Len(sleeper)
        BY <4>1, CleanedIs
      <4> QED BY <1>1, <4>2, Sleepers DEF TimerInv
    <3>3. \A k, o \in DOMAIN kept : k # o => kept[k].place # kept[o].place
      BY <1>1, CleanedIs DEF TimerInv, Alone
    <3> HIDE DEF kept
    <3>4. ASSUME NEW o \in At(kept, i) PROVE o = id
      <4>1. o \in DOMAIN kept
        BY DEF At
      <4> QED BY <2>1, <3>1, <3>2, <3>3, <4>1, OneAtIndex
    <3> QED BY <2>1, <3>4
  <2>3. sleeper' = Terminated({told.timer})
    BY <1>1, <2>1, <2>2 DEF RemoveTimer, Remove, ProcessesIn
  <2>4. DOMAIN sleeper' = DOMAIN sleeper /\ Sleeping' = Sleeping \ {told.timer}
    BY <1>1, <2>3, TerminatedIs DEF TimerInv
  <2>5. \A p \in Sleeping : sleeper'[p].phase # "sleeping" <=> p \notin Sleeping'
    BY <2>4 DEF Sleeping, InPhase
  <2>6. told.timer \in Sleeping
    BY <1>1
  <2> QED BY <2>4, <2>5, <2>6
<1>2. ASSUME TimerInv
      PROVE  \A i \in Indices :
               (/\ RemoveTimer(i) /\ told.index = i
                /\ told.ahead \cup {told.timer} \subseteq Sleeping \ astray)
               => {p \in Sleeping : sleeper'[p].phase # "sleeping"} = {told.timer}
  BY <1>1, <1>2
<1> QED BY <1>2, TimersAlways, PTL DEF TimerSpec, RemovesWhatWasDescribed
=============================================================================

--------------------------- MODULE AlarmSchedule ---------------------------
(* The alarm clock: lib/receiver_alarm.py rewrites config.yaml, load_config *)
(* of mqtt_listener.py replaces the scheduler child, lib/scheduler.py runs  *)
(* the jobs in the child, and the armed flag is read where the job runs,    *)
(* from the settings the child was forked with.                             *)
(*                                                                          *)
(* The clock counts the minutes of a day and wraps.  run_pending looks for  *)
(* due jobs every 30 seconds, so a job starts in the minute it is set for.  *)
EXTENDS Integers, FiniteSets

CONSTANTS Day,          \* the length of a day in minutes
          Stages,       \* "low", "medium", "full", "ring", "off"
          Offset,       \* stage -> minutes from the alarm time
          ShippedTime,  \* the alarm time of the config.yaml in the repository
          Times,        \* the alarm times users ask for
          Torn,         \* config.yaml after open(.., 'w'), before the dump
          None,
          MaxChanges,   \* bound: commands that change the configuration
          MaxCrashes,   \* bound: reboots and power failures
          MaxFailures   \* bound: jobs that raise, writes that fail

Minutes == 0 .. Day - 1

ASSUME AlarmAssumption ==
  /\ Day \in Nat \ {0}
  /\ Offset \in [Stages -> Int]
  /\ {"ring", "off"} \subseteq Stages /\ None \notin Stages
  /\ Times \cup {ShippedTime} \subseteq Minutes
  /\ {MaxChanges, MaxCrashes, MaxFailures} \subseteq Nat

(* alarm_time + timedelta, formatted as %H:%M.                              *)
AtMinute(time, s) == (time + Offset[s]) % Day

Jobs == [stage : Stages, at : Minutes, intent : {"Alarm", "Alias"}]
Configs == [armed : BOOLEAN, jobs : SUBSET Jobs]

JobsAt(time, intent) ==
  {[stage |-> s, at |-> AtMinute(time, s), intent |-> intent] : s \in Stages}

(* _update_alarm_armed_state                                                *)
WithArmed(c, on) == [c EXCEPT !.armed = on]

(* Mutant: the entries are removed last, the new ones with the old.         *)
WithTimeLost(c, time) == [c EXCEPT !.jobs = {}]

(* Mutant: the old entries are not removed.                                 *)
WithTimeAdded(c, time) == [c EXCEPT !.jobs = @ \cup JobsAt(time, "Alias")]

(* _update_alarm_schedule: the "-A" entries are replaced.  The new ones name*)
(* the aliases themselves where the shipped ones go through "Alarm>".       *)
WithTime(c, time) == [c EXCEPT !.jobs = JobsAt(time, "Alias")]

Shipped == [armed |-> FALSE, jobs |-> JobsAt(ShippedTime, "Alarm")]

(* What users know of an alarm: is it on, when, and was it set by voice.    *)
Alarms == [armed : BOOLEAN, time : Minutes, byVoice : BOOLEAN]
ShippedAlarm == [armed |-> FALSE, time |-> ShippedTime, byVoice |-> FALSE]

VARIABLES
  clock,
  file,       \* config.yaml
  pc,         \* the main process: "idle", "writing", "reload", "dead", "off"
  target,     \* what it is writing
  alive,      \* is the scheduler child running
  child,      \* the configuration the child was forked with
  due,        \* its jobs that should run this minute and have not yet
  doing,      \* the job it is working on
  lit,        \* the bedroom light as the alarm left it
  asked,      \* history: the alarm users asked for
  agreed,     \* history: what of it has been loaded
  took,       \* history: stages that had their effect this minute
  calm,       \* history: nothing was reloaded, killed or failed this minute
  changes, crashes, failures   \* what happened so far, for the bounds

main == <<file, pc, target>>
process == <<alive, child, due, doing>>
history == <<asked, agreed, took, calm>>
counters == <<changes, crashes, failures>>
vars == <<clock, main, process, lit, history, counters>>

Init == /\ clock \in Minutes
        /\ file = Shipped /\ target = Shipped
        /\ pc = "idle"
        /\ alive = TRUE /\ child = Shipped
        /\ due = {} /\ doing = None
        /\ lit = FALSE
        /\ asked = ShippedAlarm /\ agreed = ShippedAlarm
        /\ took = {} /\ calm = FALSE
        /\ changes = 0 /\ crashes = 0 /\ failures = 0

----------------------------------------------------------------------------
(* The main process.                                                        *)

(* ChangeAlarmState and ChangeAlarmTime: read the file, open it for writing.*)
(* A file without a document raises, which is caught: command_failed.       *)
Change == /\ pc = "idle" /\ file # Torn
          /\ changes < MaxChanges
          /\ changes' = changes + 1
          /\ \/ \E on \in BOOLEAN : /\ target' = WithArmed(file, on)
                                    /\ asked' = [asked EXCEPT !.armed = on]
             \/ \E time \in Times :
                  /\ target' = WithTime(file, time)
                  /\ asked' = [asked EXCEPT !.time = time, !.byVoice = TRUE]
          /\ file' = Torn
          /\ pc' = "writing"
          /\ UNCHANGED <<clock, process, lit, agreed, took, calm, crashes, failures>>

(* yaml.dump; the reply chains to Reload-Config.                            *)
Written == /\ pc = "writing"
           /\ file' = target
           /\ pc' = "reload"
           /\ UNCHANGED <<clock, target, process, lit, history, counters>>

(* yaml.dump raises, which is caught: command_failed, and no reload.        *)
WriteFails == /\ pc = "writing"
              /\ failures < MaxFailures
              /\ failures' = failures + 1
              /\ pc' = "idle"
              /\ UNCHANGED <<clock, file, target, process, lit, history, changes, crashes>>

(* A Reload-Config message without a change.                                *)
AskReload == /\ pc = "idle"
             /\ changes < MaxChanges
             /\ changes' = changes + 1
             /\ pc' = "reload"
             /\ UNCHANGED <<clock, file, target, process, lit, history, crashes, failures>>

(* Mutant: a job of the current minute is due at once.                      *)
DueThisMinute(c) == {j \in c.jobs : j.at = clock}

(* schedule.every().day.at(..): a time of today that has come, be it only   *)
(* by seconds, is put on tomorrow.  Nothing is due before the clock moves.  *)
DueAtSetup(c) == {}

(* Mutant: the new child has the jobs and settings of the old one.          *)
StaleChild == /\ alive' = TRUE
              /\ UNCHANGED child
              /\ due' = {}
              /\ doing' = None

(* terminate the child, scheduler.setup, fork.                              *)
NewChild == /\ alive' = TRUE
            /\ child' = file
            /\ due' = DueAtSetup(file)
            /\ doing' = None

(* load_config; without a document it raises out of loop_forever, and the   *)
(* interpreter waits for the old child, which goes on.                      *)
LoadConfig ==
  /\ pc = "reload"
  /\ IF file = Torn
       THEN pc' = "dead" /\ UNCHANGED <<process, agreed>>
       ELSE pc' = "idle" /\ NewChild /\ agreed' = asked
  /\ calm' = FALSE
  /\ UNCHANGED <<clock, file, target, lit, asked, took, counters>>

(* The nightly reboot, a health check that finds the memory full, the mains.*)
Crash == /\ pc # "off"
         /\ crashes < MaxCrashes
         /\ crashes' = crashes + 1
         /\ pc' = "off"
         /\ alive' = FALSE /\ due' = {} /\ doing' = None
         /\ calm' = FALSE
         /\ UNCHANGED <<clock, file, target, child, lit, asked, agreed, took, changes, failures>>

(* The module runs again: load_config, or an exception that ends it.        *)
Boot == /\ pc = "off"
        /\ IF file = Torn
             THEN pc' = "dead" /\ UNCHANGED <<process, agreed>>
             ELSE pc' = "idle" /\ NewChild /\ agreed' = asked
        /\ calm' = FALSE
        /\ UNCHANGED <<clock, file, target, lit, asked, took, counters>>

----------------------------------------------------------------------------
(* The scheduler child.                                                     *)

(* run_pending calls on_scheduled.  Alarm.receive_intent turns "Alarm>" into*)
(* "Alias>" for an armed child only; the alias is chained to and carried out.*)
Passes(j) == j.intent = "Alias" \/ child.armed

JobStarts ==
  /\ alive /\ doing = None
  /\ \E j \in due : /\ due' = due \ {j}
                    /\ doing' = IF Passes(j) THEN j.stage ELSE None
  /\ UNCHANGED <<clock, main, alive, child, lit, history, counters>>

(* The Zigbee message is published, or the ring sound played.               *)
JobTakesEffect ==
  /\ doing # None
  /\ lit' = (IF doing = "ring" THEN lit ELSE doing # "off")
  /\ took' = took \cup {doing}
  /\ doing' = None
  /\ UNCHANGED <<clock, main, alive, child, due, asked, agreed, calm, counters>>

(* An exception in a job ends scheduler.run and the process.                *)
JobFails ==
  /\ doing # None
  /\ failures < MaxFailures
  /\ failures' = failures + 1
  /\ alive' = FALSE /\ due' = {} /\ doing' = None
  /\ calm' = FALSE
  /\ UNCHANGED <<clock, main, child, lit, asked, agreed, took, changes, crashes>>

(* A minute is long enough for the jobs that were due in it.                *)
Tick == /\ due = {} /\ doing = None
        /\ clock' = (clock + 1) % Day
        /\ due' = IF alive THEN {j \in child.jobs : j.at = clock'} ELSE {}
        /\ took' = {}
        /\ calm' = TRUE
        /\ UNCHANGED <<main, alive, child, doing, lit, asked, agreed, counters>>

Next == \/ Change \/ Written \/ WriteFails \/ AskReload \/ LoadConfig
        \/ Crash \/ Boot
        \/ JobStarts \/ JobTakesEffect \/ JobFails \/ Tick

Spec == Init /\ [][Next]_vars

(* The processes run, time passes, and somebody restores the power.         *)
Fairness == /\ WF_vars(Tick) /\ WF_vars(Boot)
            /\ WF_vars(Written \/ WriteFails \/ LoadConfig)
            /\ WF_vars(JobStarts) /\ WF_vars(JobTakesEffect \/ JobFails)

FairSpec == Spec /\ Fairness

----------------------------------------------------------------------------
(* The variables keep their types.                                          *)
TypeOK ==
  /\ clock \in Minutes
  /\ file \in Configs \cup {Torn} /\ target \in Configs
  /\ pc \in {"idle", "writing", "reload", "dead", "off"}
  /\ alive \in BOOLEAN /\ child \in Configs
  /\ due \subseteq Jobs /\ doing \in Stages \cup {None}
  /\ lit \in BOOLEAN
  /\ asked \in Alarms /\ agreed \in Alarms
  /\ took \subseteq Stages /\ calm \in BOOLEAN
  /\ changes \in 0..MaxChanges /\ crashes \in 0..MaxCrashes
  /\ failures \in 0..MaxFailures

(* What an alarm may do in this minute.  Alarm.receive_intent says "From    *)
(* here, only if alarm is armed", but the entries of an alarm set by voice  *)
(* name the aliases and never come there: it rings when it is disarmed, and *)
(* the properties do not ask that it should.                                *)
Possible(a) ==
  {s \in Stages : AtMinute(a.time, s) = clock /\ (a.armed \/ a.byVoice)}

(* What it has to do: that of an armed alarm.                               *)
Wanted(a) == {s \in Possible(a) : a.armed}

(* However commands, reloads, reboots and minutes interleave, the alarm does*)
(* something only at the time that was asked for, and when it is disarmed   *)
(* only if that time was set by voice: no entry of an earlier time survives *)
(* a change, in the file or in a child that was not replaced.               *)
ActsAsAgreed == doing # None => doing \in Possible(agreed)

(* No stage is carried out twice for one alarm, not even when the alarm is  *)
(* changed, or the configuration reloaded, in the minute of the stage.      *)
NoStageTwice == [][ JobTakesEffect => doing \notin took ]_vars

(* A minute that no reload, reboot or failure disturbed, with a child that  *)
(* runs, ends with all done that an armed alarm of the loaded configuration *)
(* wants in it.  The exceptions are real: a change made in the minute of the*)
(* alarm swallows it until tomorrow, and a job that raises ends the child,  *)
(* which nobody starts again before the next reload.                        *)
MissedOnlyByDisturbance ==
  [][ clock' # clock /\ calm /\ alive => Wanted(agreed) \subseteq took ]_vars

(* Settled: the alarm is armed, the module runs and nobody touches it.      *)
Settled == pc = "idle" /\ alive /\ child.armed

(* An armed alarm that is left alone rings every day, and turns the light   *)
(* off again, whatever changes and crashes went before.                     *)
AlarmRings == <>[]Settled => []<>("ring" \in took) /\ []<>~lit
============================================================================

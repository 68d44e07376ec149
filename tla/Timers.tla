------------------------------- MODULE Timers -------------------------------
(* lib/receiver_timer.py: every timer is a process of its own that sleeps   *)
(* and rings, and an entry of timer_dict under an id made of the wall clock *)
(* time of its setting and its length.  Nothing connects the two: a process *)
(* does not look at the dict, and the dict is cleaned by the wall clock     *)
(* alone, whenever the next timer intent comes, while the process sleeps by *)
(* the monotonic clock.  The wall clock may be set (the Pi has no clock of  *)
(* its own when the power is off), and a reboot ends all of it.             *)
(*                                                                          *)
(* Time runs in seconds, and a sleep that is over rings within its second.  *)
(* The names of the specification begin with Timer, so that one module can  *)
(* extend this one and AlarmSchedule.                                       *)
EXTENDS Integers, Sequences, FiniteSets, Functions

CONSTANTS Amounts, Scales, \* what SetTimer may be asked for
          ScaleOf,         \* get_scale: the seconds of a scale
          Shortest, Longest,
          Indices,         \* what RemoveTimer and QueryTimer may be asked for
          Jumps,           \* how far the wall clock may be set
          MaxTimers,       \* bound: how many timers are set
          MaxTroubles      \* bound: how often the clock is set or the Pi boots

ASSUME TimersAssumption ==
  /\ Amounts \subseteq Nat /\ Indices \subseteq Nat /\ Jumps \subseteq Int
  /\ ScaleOf \in [Scales -> Nat]
  /\ {Shortest, Longest, MaxTimers, MaxTroubles} \subseteq Nat

VARIABLES
  wall,       \* time.time()
  timerDict,  \* timer_dict: for an id its process, and the place of its key
  sleeper,    \* every process started so far: its phase, what it still sleeps
  told,       \* history: what the last QueryTimer described, and what was ahead
  astray,     \* history: processes whose entry was given to another process,
              \* or that lived through a setting of the wall clock
  troubles

timerVars == <<wall, timerDict, sleeper, told, astray, troubles>>

Phases == {"sleeping", "rung", "terminated", "lost"}
Untold == [index |-> 0, timer |-> 0, ahead |-> {}]

InPhase(p, phase) == sleeper[p].phase = phase
Sleeping == {p \in DOMAIN sleeper : InPhase(p, "sleeping")}
ProcessesIn(d, ids) == {d[id].process : id \in ids}
ProcessesOf(d) == ProcessesIn(d, DOMAIN d)

(* generate_timer_id, as far as it is read or compared.                     *)
Id(secs) == [at |-> wall, secs |-> secs, until |-> wall + secs]

SecsTillDone(id) == id.until - wall

(* clean_timers: it forgets what should be over and terminates nothing.     *)
\* Mutant: the second in which a timer rings counts as over.
CleanedEarly(d) == Restrict(d, {id \in DOMAIN d : SecsTillDone(id) > 1})
Cleaned(d) == Restrict(d, {id \in DOMAIN d : SecsTillDone(id) >= 0})

(* A dict is enumerated in the order in which its keys came: what is ahead  *)
(* of a key, and the key at an index counted from 1, if there is one.       *)
Ahead(d, id) == {other \in DOMAIN d : d[other].place < d[id].place}
At(d, index) == {id \in DOMAIN d : Cardinality(Ahead(d, id)) = index - 1}

Terminated(ps) ==
  [p \in DOMAIN sleeper |->
     IF p \in ps /\ InPhase(p, "sleeping")
     THEN [sleeper[p] EXCEPT !.phase = "terminated"] ELSE sleeper[p]]

Empty == [id \in {} |-> 0]

TimerInit ==
  /\ wall = 0 /\ timerDict = Empty /\ sleeper = <<>>
  /\ told = Untold /\ astray = {} /\ troubles = 0

(* add_timer: a dict keeps the place of a key it already has, and forgets   *)
(* the process that was there.  A new key comes last.                       *)
Added(d, id, p) ==
  [k \in DOMAIN d \cup {id} |->
     IF k # id THEN d[k]
     ELSE [process |-> p, place |-> IF id \in DOMAIN d THEN d[id].place ELSE p]]

SetTimer(amount, scale) ==
  LET secs == amount * ScaleOf[scale]
      kept == Cleaned(timerDict)
  IN  /\ Len(sleeper) < MaxTimers
      /\ IF secs < Shortest \/ secs > Longest
         THEN timerDict' = kept /\ UNCHANGED <<sleeper, astray>>
         ELSE /\ timerDict' = Added(kept, Id(secs), Len(sleeper) + 1)
              /\ sleeper' = Append(sleeper, [phase |-> "sleeping", left |-> secs])
              /\ astray' = astray \cup
                   (ProcessesOf(kept) \ ProcessesOf(timerDict'))
      /\ UNCHANGED <<wall, told, troubles>>

(* remove_timer, for each of some keys.                                     *)
Remove(d, ids) ==
  /\ timerDict' = Restrict(d, DOMAIN d \ ids)
  /\ sleeper' = Terminated(ProcessesIn(d, ids))
  /\ told' = Untold
  /\ UNCHANGED <<wall, astray, troubles>>

\* Mutant: the index is counted from 0.
RemoveTimerFromZero(index) ==
  LET kept == Cleaned(timerDict) IN Remove(kept, At(kept, index + 1))
RemoveTimer(index) ==
  LET kept == Cleaned(timerDict) IN Remove(kept, At(kept, index))

(* RemoveTimer with "all".                                                  *)
RemoveAll ==
  LET kept == Cleaned(timerDict) IN Remove(kept, DOMAIN kept)

QueryTimer(index) ==
  LET kept == Cleaned(timerDict)
  IN  /\ timerDict' = kept
      /\ \/ At(kept, index) = {} /\ told' = Untold
         \/ \E id \in At(kept, index) :
              told' = [index |-> index, timer |-> kept[id].process,
                       ahead |-> ProcessesIn(kept, Ahead(kept, id))]
      /\ UNCHANGED <<wall, sleeper, astray, troubles>>

(* init_timer_task: the sleep is over.                                      *)
\* Mutant: a timer that is no longer listed keeps silent.
RingListed(p) ==
  /\ InPhase(p, "sleeping") /\ sleeper[p].left = 0
  /\ p \in ProcessesOf(timerDict)
  /\ sleeper' = [sleeper EXCEPT ![p].phase = "rung"]
  /\ UNCHANGED <<wall, timerDict, told, astray, troubles>>

Ring(p) ==
  /\ InPhase(p, "sleeping") /\ sleeper[p].left = 0
  /\ sleeper' = [sleeper EXCEPT ![p].phase = "rung"]
  /\ UNCHANGED <<wall, timerDict, told, astray, troubles>>

(* A second passes.  It matters only while a timer sleeps or is listed.     *)
SecondPasses ==
  /\ \A p \in Sleeping : sleeper[p].left > 0
  /\ Sleeping # {} \/ DOMAIN Cleaned(timerDict) # {}
  /\ wall' = wall + 1
  /\ sleeper' = [p \in DOMAIN sleeper |->
                   IF p \in Sleeping THEN [sleeper[p] EXCEPT !.left = @ - 1]
                   ELSE sleeper[p]]
  /\ UNCHANGED <<timerDict, told, astray, troubles>>

SetClock(jump) ==
  /\ troubles < MaxTroubles /\ troubles' = troubles + 1
  /\ wall' = wall + jump
  /\ astray' = DOMAIN sleeper
  /\ UNCHANGED <<timerDict, sleeper, told>>

(* receiver_system.py, or the nightly reboot.                               *)
Reboot ==
  /\ troubles < MaxTroubles /\ troubles' = troubles + 1
  /\ timerDict' = Empty /\ told' = Untold
  /\ sleeper' = [p \in DOMAIN sleeper |->
                   IF p \in Sleeping THEN [sleeper[p] EXCEPT !.phase = "lost"]
                   ELSE sleeper[p]]
  /\ UNCHANGED <<wall, astray>>

TimerNext ==
  \/ \E a \in Amounts, s \in Scales : SetTimer(a, s)
  \/ \E i \in Indices : RemoveTimer(i) \/ QueryTimer(i)
  \/ RemoveAll
  \/ \E p \in DOMAIN sleeper : Ring(p)
  \/ SecondPasses
  \/ \E j \in Jumps : SetClock(j)
  \/ Reboot

TimerSpec == TimerInit /\ [][TimerNext]_timerVars

(* The processes run, and time passes.                                      *)
FairTimerSpec ==
  /\ TimerSpec
  /\ WF_timerVars(SecondPasses)
  /\ WF_timerVars(\E p \in DOMAIN sleeper : Ring(p))

-----------------------------------------------------------------------------
Ids == [at : Int, secs : Nat, until : Int]

TimerTypeOK ==
  /\ wall \in Int /\ troubles \in 0..MaxTroubles
  /\ sleeper \in Seq([phase : Phases, left : Nat]) /\ Len(sleeper) <= MaxTimers
  /\ DOMAIN timerDict \subseteq Ids
  /\ timerDict \in [DOMAIN timerDict ->
                      [process : 1..Len(sleeper), place : 1..Len(sleeper)]]
  /\ astray \subseteq 1..Len(sleeper)
  /\ told \in [index : Nat, timer : 0..Len(sleeper), ahead : SUBSET (1..Len(sleeper))]

(* The dict and the processes agree although nothing connects them: unless  *)
(* its entry was given to another process or the clock was set, a sleeping  *)
(* timer is listed once, with the time it really has left, and what the     *)
(* list says has time left is sleeping (clean_timers, add_timer, ids).      *)
ListedTruly ==
  /\ \A p \in Sleeping \ astray :
       \E id \in DOMAIN timerDict :
         /\ timerDict[id].process = p
         /\ SecsTillDone(id) = sleeper[p].left
         /\ \A other \in DOMAIN timerDict \ {id} : timerDict[other].process # p
  /\ \A id \in DOMAIN timerDict :
       SecsTillDone(id) > 0 => timerDict[id].process \in Sleeping \cup astray

(* RemoveTimer goes by a position in a list that cleaning moves up.  Who    *)
(* removes the timer that QueryTimer has just described under that index    *)
(* removes that timer and no other one, as long as neither it nor one ahead *)
(* of it has rung in between and the clock was not set.                     *)
RemovesWhatWasDescribed ==
  [][\A i \in Indices :
       (/\ RemoveTimer(i) /\ told.index = i
        /\ told.ahead \cup {told.timer} \subseteq Sleeping \ astray)
       => {p \in Sleeping : sleeper'[p].phase # "sleeping"} = {told.timer}]_timerVars

(* A timer does not sleep for ever: it rings, or is removed, or is lost in  *)
(* a reboot, whatever becomes of its entry and of the wall clock.           *)
TimersRing ==
  \A p \in 1..MaxTimers : (p \in Sleeping) ~> (p \notin Sleeping)
=============================================================================

----------------------------- MODULE HttpBridge -----------------------------
(* http_bridge.py: how the names of the pictures get into Rhasspy.  A sync  *)
(* writes the slot file when it differs from the folder of pictures, and    *)
(* has Rhasspy trained when the slot file is newer than the trained graph.  *)
(* A thread does it at startup, every load of the command page does it      *)
(* again, one at a time.  Rhasspy is a program of its own: a training reads *)
(* the slot when it begins and writes the graph when it ends, even when the *)
(* request that asked for it has been given up.                             *)
(*                                                                          *)
(* The names are a version of the folder.  Of the times of the two files    *)
(* only their order counts, and whether the clock, which the network may    *)
(* set back, has come to them yet.                                          *)
EXTENDS Integers

CONSTANTS Pages,        \* loads of the command page that may run at once
          Startup,      \* the thread that syncs when the bridge starts
          Nobody,       \* nobody waits for this training any more
          Versions,     \* what may be in the folder
          Missing, Torn, \* no slot file; truncated and not yet written
          MaxTries,     \* how often the startup thread tries
          MaxChanges,   \* bound: changes of the folder, trainings by hand
          MaxTroubles   \* bound: crashes, outages, failed trainings, clock

Callers == Pages \cup {Startup}

ASSUME HttpBridgeAssumption ==
  /\ Startup \notin Pages /\ Nobody \notin Callers
  /\ Missing # Torn /\ {Missing, Torn} \cap Versions = {}
  /\ MaxTries \in Nat \ {0} /\ {MaxChanges, MaxTroubles} \subseteq Nat

VARIABLES
  folder,     \* lib/pic_frame_images
  slot,       \* PICTURE_SLOT: what is in it; history: whether the graph was
              \* from the future when it was written
  graph,      \* INTENT_GRAPH: the slot it was trained on; history: whether its
              \* training was cut off from the sync that wanted it
  later,      \* the file with the later mtime: "slot" or "graph"
  future,     \* the files whose mtime the clock has not come to yet
  trainings,  \* what Rhasspy is training now
  up,         \* Rhasspy answers
  call,       \* per caller: the line it is in, what it listed, and history:
              \* whether the slot file is still the one its sync has left
  tries,      \* the attempts of the startup thread
  changes, troubles

files == <<slot, graph, later, future>>
vars == <<folder, files, trainings, up, call, tries, changes, troubles>>

Places == {"idle", "waiting", "listed", "opened", "checks", "posts", "training",
           "fetching", "sleeping", "done"}
Contents == Versions \cup {Missing, Torn}

Calling(place) == [at |-> place, content |-> Missing, own |-> FALSE]
At(c, place) == call[c].at = place
GoTo(c, place) ==
  call' = [call EXCEPT ![c].at = place, ![c].content = Missing]

(* Holding _picture_sync_lock.                                              *)
Inside(c) == call[c].at \in {"listed", "opened", "checks", "posts", "training"}

(* A file is written: its mtime is now.                                     *)
SlotBecomes(content) ==
  /\ slot' = [on |-> content, behind |-> "graph" \in future]
  /\ later' = IF "graph" \in future THEN "graph" ELSE "slot"
  /\ future' = future \ {"slot"}

GraphBecomes(content, cutOff) ==
  /\ graph' = [on |-> content, cutOff |-> cutOff]
  /\ later' = IF "slot" \in future THEN "slot" ELSE "graph"
  /\ future' = future \ {"graph"}

Disowned == [c \in Callers |-> [call[c] EXCEPT !.own = FALSE]]

Started == [c \in Callers |-> IF c = Startup THEN Calling("waiting") ELSE Calling("idle")]

(* A new installation, or one that was trained before, maybe on other       *)
(* pictures than are there now.                                             *)
Init ==
  /\ folder \in Versions
  /\ \E content \in Versions \cup {Missing} :
       /\ slot = [on |-> content, behind |-> FALSE]
       /\ graph = [on |-> content, cutOff |-> FALSE]
  /\ later = "graph" /\ future = {}
  /\ trainings = {} /\ up \in BOOLEAN
  /\ call = Started /\ tries = 0
  /\ changes = 0 /\ troubles = 0

-----------------------------------------------------------------------------
(* The sync.                                                                *)

LoadPage(c) ==
  /\ c \in Pages /\ At(c, "idle")
  /\ GoTo(c, "waiting")
  /\ UNCHANGED <<folder, files, trainings, up, tries, changes, troubles>>

(* The lock, and the names of the pictures.                                 *)
\* Mutant: without the lock.
EnterUnlocked(c) ==
  /\ At(c, "waiting")
  /\ call' = [call EXCEPT ![c].at = "listed", ![c].content = folder]
  /\ UNCHANGED <<folder, files, trainings, up, tries, changes, troubles>>

Enter(c) ==
  /\ At(c, "waiting") /\ ~\E d \in Callers : Inside(d)
  /\ call' = [call EXCEPT ![c].at = "listed", ![c].content = folder]
  /\ UNCHANGED <<folder, files, trainings, up, tries, changes, troubles>>

(* The slot file is read, and truncated when it says something else.        *)
Compare(c) ==
  /\ At(c, "listed")
  /\ IF slot.on = call[c].content
     THEN GoTo(c, "checks") /\ UNCHANGED files
     ELSE /\ call' = [Disowned EXCEPT ![c].at = "opened"]
          /\ SlotBecomes(Torn) /\ UNCHANGED graph
  /\ UNCHANGED <<folder, trainings, up, tries, changes, troubles>>

Write(c) ==
  /\ At(c, "opened")
  /\ call' = [Disowned EXCEPT ![c].at = "checks", ![c].content = Missing]
  /\ SlotBecomes(call[c].content) /\ UNCHANGED graph
  /\ UNCHANGED <<folder, trainings, up, tries, changes, troubles>>

\* Mutant: any graph will do.
GraphExists == graph.on # Missing

(* There is a graph, and its mtime is not before the slot's.                *)
GraphIsNewer == graph.on # Missing /\ later = "graph"

(* What a sync that is done leads to: the page asks for the sentences, the  *)
(* startup thread ends.                                                     *)
Synced(c) ==
  call' = [call EXCEPT ![c].at = IF c = Startup THEN "done" ELSE "fetching",
                       ![c].own = TRUE]

(* Page: 502.  Startup: another attempt, up to MaxTries of them.            *)
Failed(c) ==
  IF c = Startup
  THEN tries' = tries + 1 /\ GoTo(c, IF tries + 1 < MaxTries THEN "sleeping" ELSE "done")
  ELSE call' = [call EXCEPT ![c] = Calling("idle")] /\ UNCHANGED tries

Check(c) ==
  /\ At(c, "checks")
  /\ IF GraphIsNewer THEN Synced(c) ELSE GoTo(c, "posts")
  /\ UNCHANGED <<folder, files, trainings, up, tries, changes, troubles>>

(* POST /train: a training begins, and reads the slot.                      *)
Post(c) ==
  /\ At(c, "posts")
  /\ IF up
     THEN /\ GoTo(c, "training") /\ UNCHANGED tries
          /\ trainings' = trainings \cup
               {[on |-> slot.on, for |-> c, overtaken |-> FALSE]}
     ELSE Failed(c) /\ UNCHANGED trainings
  /\ UNCHANGED <<folder, files, up, changes, troubles>>

(* The request is given up after 120 s, the training is not.                *)
TimesOut(c) ==
  /\ At(c, "training")
  /\ trainings' = {[t EXCEPT !.for = IF t.for = c THEN Nobody ELSE @] : t \in trainings}
  /\ Failed(c)
  /\ UNCHANGED <<folder, files, up, changes, troubles>>

TryAgain ==
  /\ At(Startup, "sleeping") /\ GoTo(Startup, "waiting")
  /\ UNCHANGED <<folder, files, trainings, up, tries, changes, troubles>>

(* GET /sentences and GET /slots, and the answer to the page.               *)
Answer(c) ==
  /\ At(c, "fetching")
  /\ call' = [call EXCEPT ![c] = Calling("idle")]
  /\ UNCHANGED <<folder, files, trainings, up, tries, changes, troubles>>

-----------------------------------------------------------------------------
(* Rhasspy, the user, the Pi.                                               *)

(* A training ends: the graph is written, and who waits for it is answered. *)
Trained(t) ==
  /\ t \in trainings /\ trainings' = trainings \ {t}
  /\ GraphBecomes(t.on, t.for = Nobody \/ t.overtaken)
  /\ IF t.for = Nobody THEN UNCHANGED call ELSE Synced(t.for)
  /\ UNCHANGED <<folder, slot, up, tries, changes, troubles>>

(* raise_for_status: a failed training is a failed sync.                    *)
\* Mutant: nobody looks at the status.
TrainingFailsUnseen(t) ==
  /\ troubles < MaxTroubles /\ troubles' = troubles + 1
  /\ t \in trainings /\ trainings' = trainings \ {t}
  /\ IF t.for = Nobody THEN UNCHANGED call ELSE Synced(t.for)
  /\ UNCHANGED <<folder, files, up, tries, changes>>

TrainingFails(t) ==
  /\ troubles < MaxTroubles /\ troubles' = troubles + 1
  /\ t \in trainings /\ trainings' = trainings \ {t}
  /\ IF t.for = Nobody THEN UNCHANGED <<call, tries>> ELSE Failed(t.for)
  /\ UNCHANGED <<folder, files, up, changes>>

(* The Train button of Rhasspy's own page.                                  *)
TrainByHand ==
  /\ up /\ changes < MaxChanges /\ changes' = changes + 1
  /\ trainings' = trainings \cup {[on |-> slot.on, for |-> Nobody, overtaken |-> FALSE]}
  /\ UNCHANGED <<folder, files, up, call, tries, troubles>>

(* git pull or a copy: other pictures, the slot file with them or not.      *)
ChangeFolder(v) ==
  /\ changes < MaxChanges /\ changes' = changes + 1
  /\ v # folder /\ folder' = v
  /\ \/ UNCHANGED <<files, trainings, call>>
     \/ /\ ~\E c \in Callers : At(c, "opened")
        /\ SlotBecomes(v) /\ UNCHANGED graph
        /\ trainings' = {[t EXCEPT !.overtaken = TRUE] : t \in trainings}
        /\ call' = Disowned
  /\ UNCHANGED <<up, tries, troubles>>

(* Rhasspy's container: what it was training is lost.                       *)
RhasspyStops ==
  /\ up /\ troubles < MaxTroubles /\ troubles' = troubles + 1
  /\ up' = FALSE /\ trainings' = {}
  /\ call' = [c \in Callers |->
                IF c \in Pages /\ call[c].at \in {"training", "fetching"}
                THEN Calling("idle")
                ELSE IF At(c, "training")
                THEN [call[c] EXCEPT !.at = IF tries + 1 < MaxTries THEN "sleeping" ELSE "done"]
                ELSE call[c]]
  /\ tries' = IF At(Startup, "training") THEN tries + 1 ELSE tries
  /\ UNCHANGED <<folder, files, changes>>

RhasspyStarts ==
  /\ ~up /\ up' = TRUE
  /\ UNCHANGED <<folder, files, trainings, call, tries, changes, troubles>>

(* The bridge is stopped at any line and started again.                     *)
Restart ==
  /\ troubles < MaxTroubles /\ troubles' = troubles + 1
  /\ call' = Started /\ tries' = 0
  /\ trainings' = {[t EXCEPT !.for = Nobody] : t \in trainings}
  /\ UNCHANGED <<folder, files, up, changes>>

SetClockBack ==
  /\ troubles < MaxTroubles /\ troubles' = troubles + 1
  /\ future' \in {{later}, {"slot", "graph"}} /\ future \subseteq future'
  /\ UNCHANGED <<folder, slot, graph, later, trainings, up, call, tries, changes>>

ClockCatchesUp ==
  /\ future # {} /\ future' = {}
  /\ UNCHANGED <<folder, slot, graph, later, trainings, up, call, tries, changes, troubles>>

(* What a thread does by itself, once it has the lock.                      *)
Proceeds(c) ==
  \/ Compare(c) \/ Write(c) \/ Check(c) \/ Post(c)
  \/ Answer(c)
  \/ c = Startup /\ TryAgain

Next ==
  \/ \E c \in Callers : LoadPage(c) \/ Enter(c) \/ Proceeds(c) \/ TimesOut(c)
  \/ \E t \in trainings : Trained(t) \/ TrainingFails(t)
  \/ TrainByHand
  \/ \E v \in Versions : ChangeFolder(v)
  \/ RhasspyStops \/ RhasspyStarts
  \/ Restart \/ SetClockBack \/ ClockCatchesUp

Spec == Init /\ [][Next]_vars

(* The threads run, the lock is granted to who waits for it again and       *)
(* again, requests end, docker starts Rhasspy again, and a training ends.   *)
(* Nobody has to load a page.                                               *)
FairSpec ==
  /\ Spec
  /\ \A c \in Callers : SF_vars(Enter(c)) /\ WF_vars(Proceeds(c))
  /\ WF_vars(RhasspyStarts) /\ WF_vars(ClockCatchesUp)
  /\ WF_vars(\E t \in trainings : Trained(t))

-----------------------------------------------------------------------------
TypeOK ==
  /\ folder \in Versions /\ up \in BOOLEAN
  /\ slot \in [on : Contents, behind : BOOLEAN]
  /\ graph \in [on : Contents, cutOff : BOOLEAN]
  /\ later \in {"slot", "graph"} /\ future \subseteq {"slot", "graph"}
  /\ trainings \subseteq [on : Contents, for : Callers \cup {Nobody}, overtaken : BOOLEAN]
  /\ call \in [Callers -> [at : Places, content : Contents, own : BOOLEAN]]
  /\ tries \in 0..MaxTries
  /\ changes \in 0..MaxChanges /\ troubles \in 0..MaxTroubles

(* A slot that Rhasspy has not learned is newer than the graph, so that the *)
(* next sync trains it, even after a failed training, a crash between       *)
(* truncating and writing, or a slot file out of git.  The exceptions: the  *)
(* graph is that of a training which no sync waited for any more, or which  *)
(* git overtook, or the clock was behind when the slot was written.         *)
UntrainedIsNoticed ==
  GraphIsNewer => \/ graph.on = slot.on
                  \/ graph.cutOff \/ slot.behind

(* What the page suggests can be said: when a page asks for the slots and   *)
(* its slot file is still that of its sync, Rhasspy has been trained on it, *)
(* with the same exceptions.                                                *)
SuggestionsAreKnown ==
  \A c \in Pages :
    At(c, "fetching") /\ call[c].own
      => graph.on = slot.on \/ graph.cutOff \/ slot.behind

(* Pictures can be named in the end, if pages are loaded again and again    *)
(* after the last change, whatever has failed before.                       *)
PicturesGetNamed ==
  (\A c \in Pages : []<>At(c, "waiting"))
    => <>[](graph.on = folder \/ graph.cutOff \/ slot.behind)
=============================================================================

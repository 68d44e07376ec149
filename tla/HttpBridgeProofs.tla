--------------------------- MODULE HttpBridgeProofs ---------------------------
(* Proofs about http_bridge.py's sync of the picture slot: for any number   *)
(* of pages, any folders and bounds, a slot that Rhasspy has not learned is *)
(* noticed, and the page suggests only what Rhasspy knows.                  *)
EXTENDS HttpBridge, TLAPS

(* Only one sync is inside _picture_sync_lock.                              *)
OneInside == \A c, d \in Callers : Inside(c) /\ Inside(d) => c = d

(* A training that is waited for is the one of the sync that holds the      *)
(* lock, and learns the slot as it is, unless git has overtaken it.         *)
TrainingIsCurrent ==
  \A t \in trainings :
    t.for # Nobody =>
      /\ At(t.for, "training") /\ (t.overtaken \/ t.on = slot.on)
      /\ \A u \in trainings : u.for = t.for => u = t

Excused == graph.on = slot.on \/ graph.cutOff \/ slot.behind

(* SuggestionsAreKnown, of every caller.                                    *)
AnswersAreKnown ==
  \A c \in Callers : At(c, "fetching") /\ call[c].own => Excused

(* The startup thread ends with its last attempt.                           *)
StillTrying == ~At(Startup, "done") => tries < MaxTries

IInv ==
  /\ TypeOK /\ OneInside /\ StillTrying
  /\ TrainingIsCurrent /\ UntrainedIsNoticed /\ AnswersAreKnown

Callings == [at : Places, content : Contents, own : BOOLEAN]
Trainings == [on : Contents, for : Callers \cup {Nobody}, overtaken : BOOLEAN]

LEMMA InitInv == Init => IInv
<1> SUFFICES ASSUME Init PROVE IInv
  OBVIOUS
<1>1. call \in [Callers -> Callings] /\ \A c \in Callers : call[c].at \in {"waiting", "idle"}
  BY DEF Init, Started, Calling, Callings, Places, Contents
<1>2. TypeOK
  BY <1>1, HttpBridgeAssumption DEF Init, TypeOK, Contents, Callings
<1>3. OneInside /\ AnswersAreKnown
  BY <1>1 DEF OneInside, AnswersAreKnown, Inside, At
<1>6. StillTrying
  BY HttpBridgeAssumption DEF Init, StillTrying
<1>4. TrainingIsCurrent
  BY DEF Init, TrainingIsCurrent
<1>5. UntrainedIsNoticed
  BY DEF Init, UntrainedIsNoticed
<1> QED BY <1>2, <1>3, <1>4, <1>5, <1>6 DEF IInv

(* A file is written.                                                       *)
LEMMA SlotTypes ==
  ASSUME TypeOK, NEW v \in Contents, SlotBecomes(v)
  PROVE  /\ slot' \in [on : Contents, behind : BOOLEAN] /\ slot'.on = v
         /\ later' \in {"slot", "graph"} /\ future' \subseteq {"slot", "graph"}
BY DEF SlotBecomes, TypeOK

LEMMA GraphTypes ==
  ASSUME TypeOK, NEW v \in Contents, NEW b \in BOOLEAN, GraphBecomes(v, b)
  PROVE  /\ graph' \in [on : Contents, cutOff : BOOLEAN]
         /\ graph'.on = v /\ graph'.cutOff = b
         /\ later' \in {"slot", "graph"} /\ future' \subseteq {"slot", "graph"}
BY DEF GraphBecomes, TypeOK

(* A slot that is written is newer than the graph, but with a clock behind. *)
LEMMA SlotNoticed ==
  ASSUME NEW v, SlotBecomes(v), graph' = graph
  PROVE  UntrainedIsNoticed'
BY DEF SlotBecomes, UntrainedIsNoticed, GraphIsNewer

(* What the steps that leave the files and the trainings alone preserve.    *)
LEMMA CallMoves ==
  ASSUME IInv, NEW c \in Callers, UNCHANGED <<folder, files, up, changes>>,
         NEW place \in Places, NEW v \in Contents, NEW b \in BOOLEAN,
         call' = [call EXCEPT ![c] = [at |-> place, content |-> v, own |-> b]],
         place \in {"listed", "opened", "checks", "posts", "training"}
           => \A d \in Callers : Inside(d) => d = c,
         place = "fetching" /\ b => Excused,
         tries' \in 0..MaxTries, troubles' \in 0..MaxTroubles,
         c = Startup => place = "done" \/ tries' < MaxTries,
         c # Startup => tries' = tries,
         trainings' \in SUBSET Trainings,
         \A t \in trainings' : t.for = c => place = "training" /\ (t.overtaken \/ t.on = slot.on),
         \A t, u \in trainings' : t.for = c /\ u.for = c => t = u,
         \A t \in trainings' : t.for \notin {c, Nobody} => t \in trainings
  PROVE  IInv'
<1>1. TypeOK'
  BY DEF IInv, TypeOK, files, Callings, Trainings
<1>2. \A d \in Callers : call'[d] = IF d = c THEN [at |-> place, content |-> v, own |-> b] ELSE call[d]
  BY DEF IInv, TypeOK
<1>3. OneInside'
  BY <1>2 DEF IInv, OneInside, Inside
<1>4. TrainingIsCurrent'
  BY <1>2, <1>1 DEF IInv, TrainingIsCurrent, At, files, TypeOK
<1>5. UntrainedIsNoticed'
  BY DEF IInv, UntrainedIsNoticed, GraphIsNewer, files
<1>6. AnswersAreKnown'
  BY <1>2 DEF IInv, AnswersAreKnown, Excused, At, files
<1>7. StillTrying'
  BY <1>2 DEF IInv, StillTrying, At, Callers
<1> QED BY <1>1, <1>3, <1>4, <1>5, <1>6, <1>7 DEF IInv

(* A call of which two fields change.                                       *)
LEMMA TwoFields ==
  ASSUME NEW r \in Callings, NEW p, NEW v
  PROVE  /\ [r EXCEPT !.at = p, !.content = v]
              = [at |-> p, content |-> v, own |-> r.own]
         /\ [r EXCEPT !.at = p, !.own = v]
              = [at |-> p, content |-> r.content, own |-> v]
<1>1. [r EXCEPT !.at = p] = [at |-> p, content |-> r.content, own |-> r.own]
  BY DEF Callings
<1>2. /\ [[r EXCEPT !.at = p] EXCEPT !.content = v] = [at |-> p, content |-> v, own |-> r.own]
      /\ [[r EXCEPT !.at = p] EXCEPT !.own = v] = [at |-> p, content |-> r.content, own |-> v]
  <2>1. /\ [[at |-> p, content |-> r.content, own |-> r.own] EXCEPT !.content = v]
             = [at |-> p, content |-> v, own |-> r.own]
        /\ [[at |-> p, content |-> r.content, own |-> r.own] EXCEPT !.own = v]
             = [at |-> p, content |-> r.content, own |-> v]
    OBVIOUS
  <2> QED BY <1>1, <2>1
<1>3. /\ [r EXCEPT !.at = p, !.content = v] = [[r EXCEPT !.at = p] EXCEPT !.content = v]
      /\ [r EXCEPT !.at = p, !.own = v] = [[r EXCEPT !.at = p] EXCEPT !.own = v]
  OBVIOUS
<1> QED BY <1>2, <1>3

LEMMA Moved ==
  ASSUME TypeOK, NEW c \in Callers
  PROVE  /\ call[c] \in Callings
         /\ \A p, v : [call EXCEPT ![c].at = p, ![c].content = v]
                      = [call EXCEPT ![c] = [at |-> p, content |-> v, own |-> call[c].own]]
         /\ \A p, b : [call EXCEPT ![c].at = p, ![c].own = b]
                      = [call EXCEPT ![c] = [at |-> p, content |-> call[c].content, own |-> b]]
<1>1. call \in [Callers -> Callings] /\ call[c] \in Callings
  BY DEF TypeOK, Callings
<1>2. ASSUME NEW p, NEW v
      PROVE  [call EXCEPT ![c].at = p, ![c].content = v]
               = [call EXCEPT ![c] = [at |-> p, content |-> v, own |-> call[c].own]]
  <2>1. [call EXCEPT ![c].at = p, ![c].content = v]
          = [call EXCEPT ![c] = [call[c] EXCEPT !.at = p, !.content = v]]
    BY <1>1
  <2>2. [call[c] EXCEPT !.at = p, !.content = v]
          = [at |-> p, content |-> v, own |-> call[c].own]
    BY <1>1, TwoFields
  <2> QED BY <2>1, <2>2
<1>3. ASSUME NEW p, NEW b
      PROVE  [call EXCEPT ![c].at = p, ![c].own = b]
               = [call EXCEPT ![c] = [at |-> p, content |-> call[c].content, own |-> b]]
  <2>1. [call EXCEPT ![c].at = p, ![c].own = b]
          = [call EXCEPT ![c] = [call[c] EXCEPT !.at = p, !.own = b]]
    BY <1>1
  <2>2. [call[c] EXCEPT !.at = p, !.own = b]
          = [at |-> p, content |-> call[c].content, own |-> b]
    BY <1>1, TwoFields
  <2> QED BY <2>1, <2>2
<1> QED BY <1>1, <1>2, <1>3

(* Who waits for a training is the only one inside.                         *)
LEMMA NobodyElse ==
  ASSUME IInv, NEW c \in Callers, Inside(c)
  PROVE  /\ \A d \in Callers : Inside(d) => d = c
         /\ ~At(c, "training") => \A t \in trainings : t.for = Nobody
         /\ \A t \in trainings : t.for \in {c, Nobody}
<1>1. \A d \in Callers : Inside(d) => d = c
  BY DEF IInv, OneInside
<1>2. \A t \in trainings : t.for # Nobody => t.for \in Callers /\ At(t.for, "training")
  BY DEF IInv, TypeOK, TrainingIsCurrent
<1> QED BY <1>1, <1>2 DEF Inside, At

(* An attempt ends: the trainings that are left are not for this caller.    *)
LEMMA FailedKeeps ==
  ASSUME IInv, NEW c \in Callers, Failed(c),
         UNCHANGED <<folder, files, up, changes>>, troubles' \in 0..MaxTroubles,
         trainings' \in SUBSET Trainings, \A t \in trainings' : t.for # c,
         \A t \in trainings' : t.for # Nobody => t \in trainings,
         ~At(c, "done")
  PROVE  IInv'
<1>0. PICK place \in {"idle", "sleeping", "done"}, b \in BOOLEAN :
        call' = [call EXCEPT ![c] = [at |-> place, content |-> Missing, own |-> b]]
  <2>1. call[c].own \in BOOLEAN
    BY Moved DEF Callings, IInv
  <2>2. \A p : GoTo(c, p) =>
          call' = [call EXCEPT ![c] = [at |-> p, content |-> Missing, own |-> call[c].own]]
    BY Moved DEF GoTo, IInv
  <2>3. CASE c = Startup
    BY <2>1, <2>2, <2>3 DEF Failed
  <2>4. CASE c # Startup
    BY <2>4 DEF Failed, Calling
  <2> QED BY <2>3, <2>4
<1>1. /\ c = Startup => (place = "done" \/ tries' < MaxTries) /\ tries' = tries + 1
      /\ c # Startup => tries' = tries
  <2>1. CASE c = Startup
    <3>1. call'[c].at = IF tries + 1 < MaxTries THEN "sleeping" ELSE "done"
      BY <2>1 DEF Failed, GoTo, IInv, TypeOK
    <3>2. call'[c].at = place
      BY <1>0 DEF IInv, TypeOK
    <3> QED BY <2>1, <3>1, <3>2 DEF Failed
  <2> QED BY <2>1 DEF Failed
<1>2. tries' \in 0..MaxTries
  BY <1>1, HttpBridgeAssumption DEF IInv, TypeOK, StillTrying
<1>3. place \in Places /\ Missing \in Contents
  BY DEF Places, Contents
<1> QED BY <1>0, <1>1, <1>2, <1>3, CallMoves

-----------------------------------------------------------------------------
(* The steps of a caller that leave the files alone.                        *)

(* A step from one place to another, with what stays.                       *)
LEMMA Proceeding ==
  ASSUME IInv, NEW c \in Callers, ~At(c, "training"), ~At(c, "done"),
         UNCHANGED <<folder, files, trainings, up, tries, changes, troubles>>,
         NEW place \in Places \ {"training"}, NEW v \in Contents, NEW b \in BOOLEAN,
         call' = [call EXCEPT ![c] = [at |-> place, content |-> v, own |-> b]],
         place \in {"listed", "opened", "checks", "posts"}
           => \A d \in Callers : Inside(d) => d = c,
         place = "fetching" /\ b => Excused
  PROVE  IInv'
<1>1. /\ \A t \in trainings : t.for # c
      /\ trainings \in SUBSET Trainings
      /\ tries \in 0..MaxTries /\ troubles \in 0..MaxTroubles
  <2>1. \A t \in trainings : t.for # Nobody => At(t.for, "training")
    BY DEF IInv, TrainingIsCurrent
  <2>2. c # Nobody
    BY HttpBridgeAssumption
  <2> QED BY <2>1, <2>2 DEF IInv, TypeOK, Trainings
<1>2. c = Startup => tries < MaxTries
  BY DEF IInv, StillTrying
<1> QED BY <1>1, <1>2, CallMoves DEF files

LEMMA LoadPageInv == ASSUME IInv, NEW c \in Callers, LoadPage(c) PROVE IInv'
<1>1. call' = [call EXCEPT ![c] = [at |-> "waiting", content |-> Missing, own |-> call[c].own]]
  BY Moved DEF LoadPage, GoTo, IInv
<1>2. /\ call[c].own \in BOOLEAN /\ Missing \in Contents /\ "waiting" \in Places \ {"training"}
      /\ "waiting" \notin {"listed", "opened", "checks", "posts"} /\ "waiting" # "fetching"
  BY Moved DEF Callings, IInv, Contents, Places
<1>3. ~At(c, "training") /\ ~At(c, "done")
  BY DEF LoadPage, At
<1>4. UNCHANGED <<folder, files, trainings, up, tries, changes, troubles>>
  BY DEF LoadPage
<1> QED BY <1>1, <1>2, <1>3, <1>4, Proceeding

LEMMA EnterInv == ASSUME IInv, NEW c \in Callers, Enter(c) PROVE IInv'
<1>1. call' = [call EXCEPT ![c] = [at |-> "listed", content |-> folder, own |-> call[c].own]]
  BY Moved DEF Enter, IInv
<1>2. call[c].own \in BOOLEAN /\ folder \in Contents /\ "listed" \in Places \ {"training"}
  BY Moved DEF Callings, IInv, TypeOK, Contents, Places
<1>3. ~At(c, "training") /\ ~At(c, "done")
  BY DEF Enter, At
<1>4. UNCHANGED <<folder, files, trainings, up, tries, changes, troubles>>
  BY DEF Enter
<1>5. \A d \in Callers : Inside(d) => d = c
  BY DEF Enter
<1>6. "listed" # "fetching"
  OBVIOUS
<1> QED BY <1>1, <1>2, <1>3, <1>4, <1>5, <1>6, Proceeding

(* What GoTo does, and a sync that is done.                                 *)
LEMMA GoesTo ==
  ASSUME IInv, NEW c \in Callers
  PROVE  /\ call[c].own \in BOOLEAN /\ call[c].content \in Contents /\ Missing \in Contents
         /\ \A place : GoTo(c, place) =>
              call' = [call EXCEPT ![c] = [at |-> place, content |-> Missing, own |-> call[c].own]]
         /\ Synced(c) => \E place \in {"done", "fetching"} :
              call' = [call EXCEPT ![c] = [at |-> place, content |-> call[c].content, own |-> TRUE]]
<1>1. TypeOK
  BY DEF IInv
<1>2. call[c].own \in BOOLEAN /\ call[c].content \in Contents /\ Missing \in Contents
  BY <1>1, Moved DEF Callings, Contents
<1>3. ASSUME NEW place, GoTo(c, place)
      PROVE call' = [call EXCEPT ![c] = [at |-> place, content |-> Missing, own |-> call[c].own]]
  BY <1>1, <1>3, Moved DEF GoTo
<1>4. ASSUME Synced(c)
      PROVE \E place \in {"done", "fetching"} :
              call' = [call EXCEPT ![c] = [at |-> place, content |-> call[c].content, own |-> TRUE]]
  <2> DEFINE place == IF c = Startup THEN "done" ELSE "fetching"
  <2>1. call' = [call EXCEPT ![c].at = place, ![c].own = TRUE]
    BY <1>4 DEF Synced
  <2>2. call' = [call EXCEPT ![c] = [at |-> place, content |-> call[c].content, own |-> TRUE]]
    <3>1. \A p, b : [call EXCEPT ![c].at = p, ![c].own = b]
                = [call EXCEPT ![c] = [at |-> p, content |-> call[c].content, own |-> b]]
      BY <1>1, Moved
    <3> QED BY <2>1, <3>1
  <2> QED BY <2>2
<1> QED BY <1>2, <1>3, <1>4

LEMMA CheckInv == ASSUME IInv, NEW c \in Callers, Check(c) PROVE IInv'
<1>1. ~At(c, "training") /\ ~At(c, "done") /\ Inside(c)
  BY DEF Check, At, Inside
<1>2. \A d \in Callers : Inside(d) => d = c
  BY <1>1, NobodyElse
<1>3. CASE GraphIsNewer
  <2>1. Excused
    BY <1>3 DEF IInv, UntrainedIsNoticed, Excused
  <2>2. PICK place \in {"done", "fetching"} :
          call' = [call EXCEPT ![c] = [at |-> place, content |-> call[c].content, own |-> TRUE]]
    BY <1>3, GoesTo DEF Check
  <2>3. place \in Places \ {"training"} /\ place \notin {"listed", "opened", "checks", "posts"}
    BY DEF Places
  <2> QED BY <1>1, <2>1, <2>2, <2>3, GoesTo, Proceeding DEF Check
<1>4. CASE ~GraphIsNewer
  <2>1. call' = [call EXCEPT ![c] = [at |-> "posts", content |-> Missing, own |-> call[c].own]]
    BY <1>4, GoesTo DEF Check
  <2>2. "posts" \in Places \ {"training"}
    BY DEF Places
  <2> QED BY <1>1, <1>2, <2>1, <2>2, GoesTo, Proceeding DEF Check
<1> QED BY <1>3, <1>4

LEMMA AnswerInv == ASSUME IInv, NEW c \in Callers, Answer(c) PROVE IInv'
<1>1. call' = [call EXCEPT ![c] = [at |-> "idle", content |-> Missing, own |-> FALSE]]
  BY DEF Answer, Calling
<1>2. "idle" \in Places \ {"training"} /\ ~At(c, "training") /\ ~At(c, "done")
  BY DEF Places, Answer, At
<1>3. UNCHANGED <<folder, files, trainings, up, tries, changes, troubles>>
  BY DEF Answer
<1>4. /\ "idle" \notin {"listed", "opened", "checks", "posts"} /\ "idle" # "fetching"
      /\ FALSE \in BOOLEAN /\ Missing \in Contents
  BY DEF Contents
<1> QED BY <1>1, <1>2, <1>3, <1>4, Proceeding

LEMMA TryAgainInv == ASSUME IInv, TryAgain PROVE IInv'
<1>1. Startup \in Callers /\ "waiting" \in Places \ {"training"}
  BY DEF Places, Callers
<1>2. call' = [call EXCEPT ![Startup] = [at |-> "waiting", content |-> Missing, own |-> call[Startup].own]]
  BY <1>1, GoesTo DEF TryAgain
<1>3. ~At(Startup, "training") /\ ~At(Startup, "done")
  BY DEF TryAgain, At
<1>4. UNCHANGED <<folder, files, trainings, up, tries, changes, troubles>>
  BY DEF TryAgain
<1>5. /\ "waiting" \notin {"listed", "opened", "checks", "posts"} /\ "waiting" # "fetching"
      /\ call[Startup].own \in BOOLEAN /\ Missing \in Contents
  BY <1>1, GoesTo
<1> QED BY <1>1, <1>2, <1>3, <1>4, <1>5, Proceeding

-----------------------------------------------------------------------------
(* The steps that begin and end trainings.                                  *)

LEMMA PostInv == ASSUME IInv, NEW c \in Callers, Post(c) PROVE IInv'
<1>1. /\ ~At(c, "training") /\ ~At(c, "done") /\ Inside(c)
      /\ c # Nobody /\ (At(c, "posts") /\ slot.on \in Contents)
      /\ UNCHANGED <<folder, files, up, changes>> /\ troubles' = troubles
  BY HttpBridgeAssumption DEF Post, At, Inside, IInv, TypeOK
<1>2. /\ \A d \in Callers : Inside(d) => d = c
      /\ \A t \in trainings : t.for = Nobody
  BY <1>1, NobodyElse
<1>3. trainings \in SUBSET Trainings /\ tries \in 0..MaxTries /\ troubles \in 0..MaxTroubles
  BY DEF IInv, TypeOK, Trainings
<1>4. CASE up
  <2> DEFINE new == [on |-> slot.on, for |-> c, overtaken |-> FALSE]
  <2>1. /\ trainings' = trainings \cup {new} /\ tries' = tries
        /\ call' = [call EXCEPT ![c] = [at |-> "training", content |-> Missing, own |-> call[c].own]]
    BY <1>4, GoesTo DEF Post
  <2>2. trainings' \in SUBSET Trainings
    <3>1. new \in Trainings
      BY <1>1 DEF Trainings
    <3> QED BY <3>1, <2>1, <1>3
  <2>3. /\ \A t \in trainings' : t.for = c => (t.overtaken \/ t.on = slot.on)
        /\ \A t, u \in trainings' : t.for = c /\ u.for = c => t = u
        /\ \A t \in trainings' : t.for \notin {c, Nobody} => t \in trainings
    <3>1. \A t \in trainings' : t = new \/ (t \in trainings /\ t.for = Nobody)
      BY <2>1, <1>2
    <3>2. new.for = c /\ new.on = slot.on
      OBVIOUS
    <3> HIDE DEF new
    <3> QED BY <3>1, <3>2, <1>1
  <2>4. c = Startup => tries' < MaxTries
    BY <2>1, <1>1 DEF IInv, StillTrying
  <2>5. /\ "training" \in Places /\ "training" # "fetching"
        /\ call[c].own \in BOOLEAN /\ Missing \in Contents
        /\ tries' \in 0..MaxTries /\ troubles' \in 0..MaxTroubles
    BY <2>1, <1>1, <1>3, GoesTo DEF Places
  <2> QED BY <1>1, <1>2, <2>1, <2>2, <2>3, <2>4, <2>5, CallMoves
<1>5. CASE ~up
  <2>1. Failed(c) /\ trainings' = trainings
    BY <1>5 DEF Post
  <2> QED BY <1>1, <1>2, <1>3, <2>1, FailedKeeps
<1> QED BY <1>4, <1>5

LEMMA TimesOutInv == ASSUME IInv, NEW c \in Callers, TimesOut(c) PROVE IInv'
<1>1. Failed(c) /\ ~At(c, "done") /\ c # Nobody
  BY HttpBridgeAssumption DEF TimesOut, At
<1>2. trainings \in SUBSET Trainings /\ troubles' \in 0..MaxTroubles
  BY DEF IInv, TypeOK, Trainings, TimesOut
<1>3. ASSUME NEW t \in trainings
      PROVE  LET u == [t EXCEPT !.for = IF t.for = c THEN Nobody ELSE @]
             IN  u \in Trainings /\ u.for # c /\ (u.for # Nobody => u = t)
  BY <1>1, <1>2 DEF Trainings
<1>4. /\ trainings' \in SUBSET Trainings /\ \A t \in trainings' : t.for # c
      /\ \A t \in trainings' : t.for # Nobody => t \in trainings
  BY <1>3 DEF TimesOut
<1>5. UNCHANGED <<folder, files, up, changes>>
  BY DEF TimesOut
<1> QED BY <1>1, <1>2, <1>4, <1>5, FailedKeeps

(* Trainings that nobody waits for may come and go.                         *)
LEMMA OthersInv ==
  ASSUME IInv, UNCHANGED <<folder, slot, graph, later, call, tries>>,
         up' \in BOOLEAN, changes' \in 0..MaxChanges, troubles' \in 0..MaxTroubles,
         future' \subseteq {"slot", "graph"}, trainings' \in SUBSET Trainings,
         \A t \in trainings' : t.for # Nobody => t \in trainings
  PROVE  IInv'
<1>1. TypeOK'
  BY DEF IInv, TypeOK, Trainings
<1>2. OneInside' /\ StillTrying' /\ UntrainedIsNoticed' /\ AnswersAreKnown'
  BY DEF IInv, OneInside, Inside, StillTrying, At, UntrainedIsNoticed, GraphIsNewer,
         AnswersAreKnown, Excused
<1>3. TrainingIsCurrent'
  BY DEF IInv, TrainingIsCurrent, At
<1> QED BY <1>1, <1>2, <1>3 DEF IInv

LEMMA TrainingFailsInv == ASSUME IInv, NEW t \in trainings, TrainingFails(t) PROVE IInv'
<1>1. /\ trainings' = trainings \ {t} /\ trainings' \in SUBSET Trainings
      /\ troubles' \in 0..MaxTroubles /\ UNCHANGED <<folder, files, up, changes>>
      /\ up \in BOOLEAN /\ changes \in 0..MaxChanges /\ future \subseteq {"slot", "graph"}
  <2>1. TypeOK /\ troubles < MaxTroubles /\ troubles' = troubles + 1
    BY DEF TrainingFails, IInv
  <2>2. troubles' \in 0..MaxTroubles
    BY <2>1, HttpBridgeAssumption DEF TypeOK
  <2> QED BY <2>1, <2>2 DEF TrainingFails, TypeOK, Trainings
<1>2. CASE t.for = Nobody
  BY <1>1, <1>2, OthersInv DEF TrainingFails, files
<1>3. CASE t.for # Nobody
  <2>1. t.for \in Callers /\ At(t.for, "training") /\ ~At(t.for, "done") /\ Inside(t.for)
    BY <1>3 DEF IInv, TypeOK, TrainingIsCurrent, At, Inside
  <2>2. Failed(t.for)
    BY <1>3 DEF TrainingFails
  <2>3. \A u \in trainings' : u.for # t.for
    BY <1>1, <1>3 DEF IInv, TrainingIsCurrent
  <2> QED BY <1>1, <2>1, <2>2, <2>3, FailedKeeps
<1> QED BY <1>2, <1>3

-----------------------------------------------------------------------------
(* The steps that write a file.                                             *)

LEMMA DisownedCalls ==
  ASSUME TypeOK
  PROVE  /\ Disowned \in [Callers -> Callings]
         /\ \A d \in Callers : Disowned[d].at = call[d].at /\ ~Disowned[d].own
<1>1. \A d \in Callers : call[d] \in Callings
  BY DEF TypeOK, Callings
<1>2. \A d \in Callers : Disowned[d] = [call[d] EXCEPT !.own = FALSE]
  BY DEF Disowned
<1>3. \A d \in Callers : /\ [call[d] EXCEPT !.own = FALSE] \in Callings
                         /\ [call[d] EXCEPT !.own = FALSE].at = call[d].at
                         /\ ~[call[d] EXCEPT !.own = FALSE].own
  BY <1>1 DEF Callings
<1> QED BY <1>2, <1>3 DEF Disowned

(* The slot is written while no training is current.                        *)
LEMMA SlotWritten ==
  ASSUME IInv, NEW v \in Contents, SlotBecomes(v), UNCHANGED <<graph, up, tries, troubles>>,
         folder' \in Versions, changes' \in 0..MaxChanges,
         trainings' \in SUBSET Trainings,
         call' \in [Callers -> Callings], \A d \in Callers : ~call'[d].own,
         OneInside', StillTrying', TrainingIsCurrent'
  PROVE  IInv'
<1>1. TypeOK
  BY DEF IInv
<1>2. TypeOK'
  BY <1>1, SlotTypes DEF TypeOK, Callings, Trainings
<1>3. UntrainedIsNoticed'
  BY SlotNoticed
<1>4. AnswersAreKnown'
  BY DEF AnswersAreKnown
<1> QED BY <1>2, <1>3, <1>4 DEF IInv

(* By the sync that holds the lock.                                         *)
LEMMA SlotWrittenInside ==
  ASSUME IInv, NEW c \in Callers, Inside(c), ~At(c, "training"),
         NEW v \in Contents, SlotBecomes(v),
         UNCHANGED <<folder, graph, trainings, up, tries, changes, troubles>>,
         call' \in [Callers -> Callings], \A d \in Callers : ~call'[d].own,
         \A d \in Callers : d # c => call'[d].at = call[d].at,
         call'[c].at \in {"opened", "checks"}
  PROVE  IInv'
<1>1. /\ \A d \in Callers : Inside(d) => d = c
      /\ \A t \in trainings : t.for = Nobody
  BY NobodyElse
<1>2. OneInside'
  BY <1>1 DEF OneInside, Inside
<1>3. StillTrying'
  BY DEF IInv, StillTrying, At, Inside, Callers
<1>4. TrainingIsCurrent'
  BY <1>1 DEF TrainingIsCurrent
<1>5. /\ folder' \in Versions /\ changes' \in 0..MaxChanges /\ trainings' \in SUBSET Trainings
  BY DEF IInv, TypeOK, Trainings
<1> QED BY <1>2, <1>3, <1>4, <1>5, SlotWritten

LEMMA CompareInv == ASSUME IInv, NEW c \in Callers, Compare(c) PROVE IInv'
<1>1. /\ ~At(c, "training") /\ ~At(c, "done") /\ Inside(c) /\ TypeOK
      /\ Missing \in Contents /\ Torn \in Contents
  BY DEF Compare, At, Inside, IInv, Contents
<1>2. CASE slot.on = call[c].content
  <2>1. call' = [call EXCEPT ![c] = [at |-> "checks", content |-> Missing, own |-> call[c].own]]
    BY <1>2, GoesTo DEF Compare
  <2>2. UNCHANGED <<folder, files, trainings, up, tries, changes, troubles>>
    BY <1>2 DEF Compare
  <2>3. /\ "checks" \in Places \ {"training"} /\ "checks" # "fetching"
        /\ call[c].own \in BOOLEAN /\ \A d \in Callers : Inside(d) => d = c
    BY <1>1, GoesTo, NobodyElse DEF Places
  <2> QED BY <1>1, <2>1, <2>2, <2>3, Proceeding
<1>3. CASE slot.on # call[c].content
  <2>1. /\ call' = [Disowned EXCEPT ![c].at = "opened"] /\ SlotBecomes(Torn)
        /\ UNCHANGED <<folder, graph, trainings, up, tries, changes, troubles>>
    BY <1>3 DEF Compare
  <2>2. /\ call' \in [Callers -> Callings] /\ \A d \in Callers : ~call'[d].own
        /\ \A d \in Callers : d # c => call'[d].at = call[d].at
        /\ call'[c].at = "opened"
    <3>1. Disowned \in [Callers -> Callings]
      BY <1>1, DisownedCalls
    <3>2. /\ [Disowned[c] EXCEPT !.at = "opened"] \in Callings
          /\ [Disowned[c] EXCEPT !.at = "opened"].at = "opened"
          /\ [Disowned[c] EXCEPT !.at = "opened"].own = Disowned[c].own
      BY <3>1 DEF Callings, Places
    <3>3. call' = [Disowned EXCEPT ![c] = [Disowned[c] EXCEPT !.at = "opened"]]
      BY <2>1, <3>1
    <3> HIDE DEF Disowned
    <3> QED BY <1>1, <3>1, <3>2, <3>3, DisownedCalls
  <2> QED BY <1>1, <2>1, <2>2, SlotWrittenInside
<1> QED BY <1>2, <1>3

LEMMA WriteInv == ASSUME IInv, NEW c \in Callers, Write(c) PROVE IInv'
<1>1. /\ ~At(c, "training") /\ Inside(c) /\ TypeOK
      /\ Missing \in Contents /\ call[c].content \in Contents
  BY GoesTo DEF Write, At, Inside, IInv
<1>2. /\ call' = [Disowned EXCEPT ![c].at = "checks", ![c].content = Missing]
      /\ SlotBecomes(call[c].content)
      /\ UNCHANGED <<folder, graph, trainings, up, tries, changes, troubles>>
  BY DEF Write
<1>3. Disowned \in [Callers -> Callings] /\ Disowned[c] \in Callings
  BY <1>1, DisownedCalls
<1>4. [Disowned[c] EXCEPT !.at = "checks", !.content = Missing]
        = [at |-> "checks", content |-> Missing, own |-> Disowned[c].own]
  BY <1>3, TwoFields
<1>5. call' = [Disowned EXCEPT ![c] = [Disowned[c] EXCEPT !.at = "checks", !.content = Missing]]
  BY <1>2, <1>3
<1>6. /\ call' \in [Callers -> Callings] /\ \A d \in Callers : ~call'[d].own
      /\ \A d \in Callers : d # c => call'[d].at = call[d].at
      /\ call'[c].at = "checks"
  <2>1. [at |-> "checks", content |-> Missing, own |-> Disowned[c].own] \in Callings
    BY <1>1, <1>3 DEF Callings, Places
  <2>2. \A d \in Callers : call'[d] = IF d = c
          THEN [at |-> "checks", content |-> Missing, own |-> Disowned[c].own] ELSE Disowned[d]
    BY <1>3, <1>4, <1>5
  <2>3. call' \in [Callers -> Callings]
    BY <1>3, <1>4, <1>5, <2>1
  <2> QED BY <1>1, <2>2, <2>3, DisownedCalls
<1> QED BY <1>1, <1>2, <1>6, SlotWrittenInside

LEMMA ChangeFolderInv == ASSUME IInv, NEW v \in Versions, ChangeFolder(v) PROVE IInv'
<1>1. /\ TypeOK /\ changes' \in 0..MaxChanges /\ folder' \in Versions /\ v \in Contents
      /\ UNCHANGED <<up, tries, troubles>>
  BY HttpBridgeAssumption DEF ChangeFolder, IInv, TypeOK, Contents
<1>2. CASE UNCHANGED <<files, trainings, call>>
  <2>1. TypeOK'
    BY <1>1, <1>2 DEF TypeOK, files
  <2>2. OneInside' /\ StillTrying' /\ UntrainedIsNoticed' /\ AnswersAreKnown' /\ TrainingIsCurrent'
    BY <1>1, <1>2 DEF IInv, OneInside, Inside, StillTrying, At, UntrainedIsNoticed, GraphIsNewer,
           AnswersAreKnown, Excused, TrainingIsCurrent, files
  <2> QED BY <2>1, <2>2 DEF IInv
<1>3. CASE /\ SlotBecomes(v) /\ UNCHANGED graph
           /\ trainings' = {[t EXCEPT !.overtaken = TRUE] : t \in trainings}
           /\ call' = Disowned
  <2>1. /\ call' \in [Callers -> Callings]
        /\ \A d \in Callers : call'[d].at = call[d].at /\ ~call'[d].own
    BY <1>1, <1>3, DisownedCalls
  <2>2. \A t \in trainings : /\ [t EXCEPT !.overtaken = TRUE] \in Trainings
                             /\ [t EXCEPT !.overtaken = TRUE].for = t.for
                             /\ [t EXCEPT !.overtaken = TRUE].overtaken
    BY <1>1 DEF TypeOK, Trainings
  <2>3. OneInside' /\ StillTrying'
    BY <1>1, <2>1 DEF IInv, OneInside, Inside, StillTrying, At, Callers
  <2>4. TrainingIsCurrent'
    <3>1. \A u \in trainings' : \E t \in trainings :
             u = [t EXCEPT !.overtaken = TRUE] /\ u.for = t.for /\ u.overtaken
      BY <1>3, <2>2
    <3>2. \A t \in trainings : t.for # Nobody => t.for \in Callers
      BY <1>1 DEF TypeOK
    <3>3. \A u \in trainings' : u.for # Nobody => At(u.for, "training")'
      BY <3>1, <3>2, <2>1 DEF IInv, TrainingIsCurrent, At
    <3>4. \A u, w \in trainings' : u.for # Nobody /\ w.for = u.for => w = u
      <4> TAKE u, w \in trainings'
      <4> HAVE u.for # Nobody /\ w.for = u.for
      <4>1. PICK t \in trainings : u = [t EXCEPT !.overtaken = TRUE] /\ u.for = t.for
        BY <3>1
      <4>2. PICK r \in trainings : w = [r EXCEPT !.overtaken = TRUE] /\ w.for = r.for
        BY <3>1
      <4>3. r = t
        BY <4>1, <4>2 DEF IInv, TrainingIsCurrent
      <4> QED BY <4>1, <4>2, <4>3
    <3> QED BY <3>1, <3>3, <3>4 DEF TrainingIsCurrent
  <2>5. trainings' \in SUBSET Trainings
    BY <1>3, <2>2
  <2> QED BY <1>1, <1>3, <2>1, <2>3, <2>4, <2>5, SlotWritten
<1> QED BY <1>2, <1>3 DEF ChangeFolder

LEMMA TrainedInv == ASSUME IInv, NEW t \in trainings, Trained(t) PROVE IInv'
<1> DEFINE cut == t.for = Nobody \/ t.overtaken
<1>1. /\ TypeOK /\ t.on \in Contents /\ cut \in BOOLEAN /\ t.for \in Callers \cup {Nobody}
      /\ GraphBecomes(t.on, cut) /\ trainings' = trainings \ {t}
      /\ UNCHANGED <<folder, slot, up, tries, changes, troubles>>
  BY DEF IInv, TypeOK, Trained
<1>2. /\ graph' \in [on : Contents, cutOff : BOOLEAN]
      /\ graph'.on = t.on /\ graph'.cutOff = cut
      /\ later' \in {"slot", "graph"} /\ future' \subseteq {"slot", "graph"}
  <2> HIDE DEF cut
  <2> QED BY <1>1, GraphTypes
<1>3. Excused'
  BY <1>1, <1>2 DEF IInv, TrainingIsCurrent, Excused
<1>4. UntrainedIsNoticed' /\ AnswersAreKnown'
  BY <1>3 DEF UntrainedIsNoticed, AnswersAreKnown, Excused
<1>5. /\ call' \in [Callers -> Callings]
      /\ \A d \in Callers : d # t.for => call'[d] = call[d]
      /\ t.for # Nobody => call'[t.for].at \in {"done", "fetching"}
  <2>1. CASE t.for = Nobody
    BY <2>1, <1>1 DEF Trained, TypeOK, Callings
  <2>2. CASE t.for # Nobody
    <3>1. PICK place \in {"done", "fetching"} :
            call' = [call EXCEPT ![t.for] =
                       [at |-> place, content |-> call[t.for].content, own |-> TRUE]]
      BY <2>2, <1>1, GoesTo DEF Trained
    <3>2. [at |-> place, content |-> call[t.for].content, own |-> TRUE] \in Callings
      BY <2>2, <1>1, GoesTo DEF Callings, Places
    <3> QED BY <2>2, <1>1, <3>1, <3>2 DEF TypeOK, Callings
  <2> QED BY <2>1, <2>2
<1>6. TypeOK'
  BY <1>1, <1>2, <1>5 DEF TypeOK, Callings
<1>7. OneInside'
  <2>1. \A d \in Callers : Inside(d)' => Inside(d)
    BY <1>1, <1>5, HttpBridgeAssumption DEF Inside
  <2> QED BY <2>1 DEF IInv, OneInside
<1>8. StillTrying'
  <2>1. t.for = Startup => ~At(Startup, "done")
    BY HttpBridgeAssumption DEF IInv, TrainingIsCurrent, At, Callers
  <2> QED BY <1>1, <1>5, <2>1 DEF IInv, StillTrying, At, Callers
<1>9. TrainingIsCurrent'
  <2>1. \A u \in trainings' : u \in trainings /\ (u.for # Nobody => u.for # t.for /\ u.for \in Callers)
    BY <1>1 DEF IInv, TrainingIsCurrent, TypeOK
  <2> QED BY <1>1, <1>5, <2>1 DEF IInv, TrainingIsCurrent, At
<1> QED BY <1>4, <1>6, <1>7, <1>8, <1>9 DEF IInv

-----------------------------------------------------------------------------
(* Rhasspy and the bridge are stopped.                                      *)

LEMMA RhasspyStopsInv == ASSUME IInv, RhasspyStops PROVE IInv'
<1>1. /\ TypeOK /\ troubles' \in 0..MaxTroubles /\ up' = FALSE /\ trainings' = {}
      /\ UNCHANGED <<folder, files, changes>>
  BY HttpBridgeAssumption DEF IInv, TypeOK, RhasspyStops
<1>2. \A d \in Callers :
        /\ call[d] \in Callings /\ call'[d] \in Callings
        /\ call'[d] = call[d] \/ call'[d].at \in {"idle", "sleeping", "done"}
  <2> TAKE d \in Callers
  <2>1. call[d] \in Callings
    BY <1>1 DEF TypeOK, Callings
  <2>2. \/ call'[d] = Calling("idle")
        \/ call'[d] = call[d]
        \/ \E p \in {"sleeping", "done"} : call'[d] = [call[d] EXCEPT !.at = p]
    BY DEF RhasspyStops
  <2>3. Calling("idle") \in Callings /\ Calling("idle").at = "idle"
    BY DEF Calling, Callings, Places, Contents
  <2>4. \A p \in {"sleeping", "done"} :
          [call[d] EXCEPT !.at = p] \in Callings /\ [call[d] EXCEPT !.at = p].at = p
    BY <2>1 DEF Callings, Places
  <2> QED BY <2>1, <2>2, <2>3, <2>4
<1>3. call' \in [Callers -> Callings]
  BY <1>2 DEF RhasspyStops
<1>4. tries' \in 0..MaxTries /\ StillTrying'
  <2>1. Startup \in Callers /\ Startup \notin Pages
    BY HttpBridgeAssumption DEF Callers
  <2>2. CASE At(Startup, "training")
    <3>1. tries < MaxTries /\ tries' = tries + 1 /\ tries \in 0..MaxTries
      BY <2>2, <1>1 DEF IInv, StillTrying, At, RhasspyStops, TypeOK
    <3>2. call'[Startup] =
            [call[Startup] EXCEPT !.at = IF tries + 1 < MaxTries THEN "sleeping" ELSE "done"]
      BY <2>1, <2>2 DEF RhasspyStops
    <3>3. call'[Startup].at = IF tries + 1 < MaxTries THEN "sleeping" ELSE "done"
      BY <3>2, <2>1, <1>2 DEF Callings
    <3> QED BY <3>1, <3>3, HttpBridgeAssumption DEF StillTrying, At
  <2>3. CASE ~At(Startup, "training")
    <3>1. tries' = tries /\ call'[Startup] = call[Startup]
      BY <2>1, <2>3 DEF RhasspyStops
    <3> QED BY <3>1, <1>1 DEF IInv, StillTrying, At, TypeOK
  <2> QED BY <2>2, <2>3
<1>5. TypeOK'
  BY <1>1, <1>3, <1>4 DEF TypeOK, Callings, files
<1>6. OneInside' /\ AnswersAreKnown'
  BY <1>1, <1>2 DEF IInv, OneInside, Inside, AnswersAreKnown, Excused, At, files
<1>7. UntrainedIsNoticed' /\ TrainingIsCurrent'
  BY <1>1 DEF IInv, UntrainedIsNoticed, GraphIsNewer, files, TrainingIsCurrent
<1> QED BY <1>4, <1>5, <1>6, <1>7 DEF IInv

LEMMA RestartInv == ASSUME IInv, Restart PROVE IInv'
<1>1. /\ TypeOK /\ troubles' \in 0..MaxTroubles /\ tries' = 0
      /\ UNCHANGED <<folder, files, up, changes>>
  BY HttpBridgeAssumption DEF IInv, TypeOK, Restart
<1>2. call' \in [Callers -> Callings] /\ \A d \in Callers : call'[d].at \in {"waiting", "idle"}
  BY DEF Restart, Started, Calling, Callings, Places, Contents
<1>3. trainings' \in SUBSET Trainings /\ \A t \in trainings' : t.for = Nobody
  BY <1>1 DEF Restart, TypeOK, Trainings
<1>4. TypeOK'
  BY <1>1, <1>2, <1>3, HttpBridgeAssumption DEF TypeOK, files, Callings, Trainings
<1>5. OneInside' /\ AnswersAreKnown' /\ StillTrying'
  BY <1>1, <1>2, HttpBridgeAssumption DEF OneInside, Inside, AnswersAreKnown, At, StillTrying
<1>6. UntrainedIsNoticed' /\ TrainingIsCurrent'
  BY <1>1, <1>3 DEF IInv, UntrainedIsNoticed, GraphIsNewer, files, TrainingIsCurrent
<1> QED BY <1>4, <1>5, <1>6 DEF IInv

(* Everything else leaves the calls and the files alone.                    *)
LEMMA EnvironmentInv ==
  ASSUME IInv, TrainByHand \/ RhasspyStarts \/ SetClockBack \/ ClockCatchesUp
  PROVE  IInv'
<1>1. /\ UNCHANGED <<folder, slot, graph, later, call, tries>>
      /\ up' \in BOOLEAN /\ changes' \in 0..MaxChanges /\ troubles' \in 0..MaxTroubles
      /\ future' \subseteq {"slot", "graph"}
  <2>1. /\ TypeOK /\ MaxChanges \in Nat /\ MaxTroubles \in Nat
    BY HttpBridgeAssumption DEF IInv
  <2>2. CASE TrainByHand
    BY <2>1, <2>2 DEF TypeOK, TrainByHand, files
  <2>3. CASE RhasspyStarts
    BY <2>1, <2>3 DEF TypeOK, RhasspyStarts, files
  <2>4. CASE SetClockBack
    BY <2>1, <2>4 DEF TypeOK, SetClockBack
  <2>5. CASE ClockCatchesUp
    BY <2>1, <2>5 DEF TypeOK, ClockCatchesUp
  <2> QED BY <2>2, <2>3, <2>4, <2>5
<1>2. trainings' \in SUBSET Trainings /\ \A t \in trainings' : t.for # Nobody => t \in trainings
  <2>1. CASE TrainByHand
    <3> DEFINE new == [on |-> slot.on, for |-> Nobody, overtaken |-> FALSE]
    <3>1. new \in Trainings /\ new.for = Nobody
      BY DEF IInv, TypeOK, Trainings
    <3>2. trainings' = trainings \cup {new} /\ trainings \in SUBSET Trainings
      BY <2>1 DEF TrainByHand, IInv, TypeOK, Trainings
    <3> HIDE DEF new
    <3> QED BY <3>1, <3>2
  <2>2. CASE RhasspyStarts \/ SetClockBack \/ ClockCatchesUp
    BY <2>2 DEF RhasspyStarts, SetClockBack, ClockCatchesUp, IInv, TypeOK, Trainings
  <2> QED BY <2>1, <2>2
<1> QED BY <1>1, <1>2, OthersInv

LEMMA StutterInv == ASSUME IInv, UNCHANGED vars PROVE IInv'
BY DEF vars, files, IInv, TypeOK, OneInside, Inside, StillTrying, At, TrainingIsCurrent,
       UntrainedIsNoticed, GraphIsNewer, AnswersAreKnown, Excused

LEMMA StepInv == IInv /\ [Next]_vars => IInv'
<1> SUFFICES ASSUME IInv, [Next]_vars PROVE IInv'
  OBVIOUS
<1>1. ASSUME NEW c \in Callers, LoadPage(c) \/ Enter(c) \/ Proceeds(c) \/ TimesOut(c) PROVE IInv'
  BY <1>1, LoadPageInv, EnterInv, TimesOutInv, CompareInv, WriteInv, CheckInv, PostInv,
     AnswerInv, TryAgainInv DEF Proceeds
<1>2. ASSUME NEW t \in trainings, Trained(t) \/ TrainingFails(t) PROVE IInv'
  BY <1>2, TrainedInv, TrainingFailsInv
<1>3. CASE RhasspyStops \/ Restart
  BY <1>3, RhasspyStopsInv, RestartInv
<1>4. CASE TrainByHand \/ RhasspyStarts \/ SetClockBack \/ ClockCatchesUp
  BY <1>4, EnvironmentInv
<1>5. CASE \E v \in Versions : ChangeFolder(v)
  BY <1>5, ChangeFolderInv
<1>6. CASE UNCHANGED vars
  BY <1>6, StutterInv
<1> QED BY <1>1, <1>2, <1>3, <1>4, <1>5, <1>6 DEF Next

LEMMA Invariance == Spec => []IInv
BY InitInv, StepInv, PTL DEF Spec

(* The state keeps its type, with any number of pages, for any bounds.      *)
THEOREM TypeCorrect == Spec => []TypeOK
<1>1. IInv => TypeOK
  BY DEF IInv
<1> QED BY <1>1, Invariance, PTL

(* A slot that Rhasspy has not learned is newer than the graph, so that the *)
(* next sync trains it: after failed trainings, crashes between truncating  *)
(* and writing, and changes out of git.                                     *)
THEOREM UntrainedNoticed == Spec => []UntrainedIsNoticed
<1>1. IInv => UntrainedIsNoticed
  BY DEF IInv
<1> QED BY <1>1, Invariance, PTL

(* A page that asks for the slots its sync has left suggests nothing that   *)
(* Rhasspy has not been trained on.                                         *)
THEOREM SuggestionsKnown == Spec => []SuggestionsAreKnown
<1>1. IInv => SuggestionsAreKnown
  BY DEF IInv, AnswersAreKnown, SuggestionsAreKnown, Excused, Callers
<1> QED BY <1>1, Invariance, PTL
====================================

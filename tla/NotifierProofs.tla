--------------------------- MODULE NotifierProofs ---------------------------
(* Proofs about meter/notify.py, for any keys, callers, fuses and worker:   *)
(* types; the rate cap, of which two threads may be inside at once; of each *)
(* key failures and recoveries alternate; and what the phone shows.         *)
EXTENDS Notifier, FiniteSetTheorems, TLAPS

Kinds == {"failure", "recovery", "event"}

(* Only event() sends messages of the kind "event", and without a key.      *)
KindsAgree(s) == \A i \in DOMAIN s.passed :
  s.passed[i].kind = "event" <=> s.passed[i].key = "event"

(* What is queued has passed the cap; 0 is the sentinel.                    *)
QueuedPassed(s) == \A i \in DOMAIN s.q : s.q[i] <= Len(s.passed)

(* A thread speaks of its own keys, and places what has passed.             *)
CallsPlain == \A c \in Threads :
  /\ call[c].step # "idle" => /\ call[c].key \in KeysOf(c) \cup {"event"}
                              /\ call[c].kind = "event" <=> call[c].key = "event"
  /\ call[c].step = "put" => call[c].place # 0
  /\ call[c].place <= Len(n.passed)

Base == TypeOK /\ KindsAgree(n) /\ QueuedPassed(n) /\ CallsPlain

----------------------------------------------------------------------------
(* The parts of the state, one by one.                                      *)
LEMMA Parts ==
  ASSUME NEW s \in Notifiers
  PROVE  /\ s.alerts \in [Keys -> Alert \cup {NoAlert}]
         /\ s.passed \in Seq(Messages) /\ DOMAIN s.passed = 1 .. Len(s.passed)
         /\ Len(s.passed) \in Nat
         /\ \A i \in DOMAIN s.passed : s.passed[i] \in Messages /\ s.passed[i].at \in Nat
         /\ s.recent \subseteq Nat \ {0}
         /\ s.q \in Seq(Nat)
         /\ s.lost \subseteq Keys \cup {"event"}
<1>1. /\ s.alerts \in [Keys -> Alert \cup {NoAlert}] /\ s.passed \in Seq(Messages)
      /\ s.recent \subseteq Nat \ {0} /\ s.q \in Seq(Nat)
      /\ s.lost \subseteq Keys \cup {"event"}
  BY DEF Notifiers
<1>2. \A i \in DOMAIN s.passed : s.passed[i] \in Messages
  BY <1>1
<1>3. \A m \in Messages : m.at \in Nat
  BY DEF Messages
<1> QED BY <1>1, <1>2, <1>3

(* Changing one part at a time.                                             *)
LEMMA Updates ==
  ASSUME NEW s \in Notifiers
  PROVE  /\ \A R \in SUBSET (Nat \ {0}) :
              LET e == [s EXCEPT !.recent = R]
              IN  /\ e \in Notifiers /\ e.recent = R
                  /\ e.alerts = s.alerts /\ e.passed = s.passed /\ e.q = s.q /\ e.lost = s.lost
         /\ \A k \in Keys \cup {"event"} :
              LET e == [s EXCEPT !.lost = @ \cup {k}]
              IN  /\ e \in Notifiers /\ e.recent = s.recent
                  /\ e.alerts = s.alerts /\ e.passed = s.passed /\ e.q = s.q
                  /\ e.lost = s.lost \cup {k}
         /\ \A q \in Seq(Nat) :
              LET e == [s EXCEPT !.q = q]
              IN  /\ e \in Notifiers /\ e.recent = s.recent
                  /\ e.alerts = s.alerts /\ e.passed = s.passed /\ e.q = q /\ e.lost = s.lost
<1> DEFINE R0 == SUBSET (Nat \ {0})
           L0 == SUBSET (Keys \cup {"event"})
           A0 == [Keys -> Alert \cup {NoAlert}]
           P0 == Seq(Messages)
           Q0 == Seq(Nat)
<1>1. Notifiers = [alerts : A0, passed : P0, recent : R0, q : Q0, lost : L0]
  BY DEF Notifiers
<1>2. \A k \in Keys \cup {"event"} : s.lost \cup {k} \in L0
  BY Parts
<1> HIDE DEF A0, P0, Q0, L0, R0
<1>3. \A R \in R0 : LET e == [s EXCEPT !.recent = R]
                    IN  /\ e \in Notifiers /\ e.recent = R
                        /\ e.alerts = s.alerts /\ e.passed = s.passed /\ e.q = s.q
                        /\ e.lost = s.lost
  BY <1>1
<1>4. \A k \in Keys \cup {"event"} :
        LET e == [s EXCEPT !.lost = @ \cup {k}]
        IN  /\ e \in Notifiers /\ e.recent = s.recent
            /\ e.alerts = s.alerts /\ e.passed = s.passed /\ e.q = s.q
            /\ e.lost = s.lost \cup {k}
  BY <1>1, <1>2
<1>5. \A q \in Q0 : LET e == [s EXCEPT !.q = q]
                    IN  /\ e \in Notifiers /\ e.recent = s.recent
                        /\ e.alerts = s.alerts /\ e.passed = s.passed /\ e.q = q
                        /\ e.lost = s.lost
  BY <1>1
<1> QED BY <1>3, <1>4, <1>5 DEF R0, Q0

(* The cap notes a message, and the message gets a place.                   *)
LEMMA NotedFields ==
  ASSUME NEW s \in Notifiers, NEW m \in Messages
  PROVE  LET e == Noted(s, m)
             last == Len(s.passed) + 1
         IN  /\ e \in Notifiers /\ e.alerts = s.alerts /\ e.q = s.q /\ e.lost = s.lost
             /\ e.passed = Append(s.passed, m) /\ e.recent = s.recent \cup {last}
<1> DEFINE R0 == SUBSET (Nat \ {0})
           L0 == SUBSET (Keys \cup {"event"})
           A0 == [Keys -> Alert \cup {NoAlert}]
           P0 == Seq(Messages)
           Q0 == Seq(Nat)
           last == Len(s.passed) + 1
           p == Append(s.passed, m)
           R == s.recent \cup {last}
           e == [s EXCEPT !.passed = p, !.recent = R]
<1>1. Notifiers = [alerts : A0, passed : P0, recent : R0, q : Q0, lost : L0]
  BY DEF Notifiers
<1>2. p \in P0
  BY Parts
<1>3. R \in R0
  BY Parts
<1>4. Noted(s, m) = e
  BY DEF Noted
<1> HIDE DEF A0, P0, Q0, L0, R0, p, R
<1>5. /\ e \in Notifiers /\ e.alerts = s.alerts /\ e.q = s.q /\ e.lost = s.lost
      /\ e.passed = p /\ e.recent = R
  BY <1>1, <1>2, <1>3
<1> QED BY <1>4, <1>5 DEF p, R

(* The message passes, and nobody will know.                                *)
LEMMA UnnotedFields ==
  ASSUME NEW s \in Notifiers, NEW m \in Messages
  PROVE  LET e == [s EXCEPT !.passed = Append(@, m)]
         IN  /\ e \in Notifiers /\ e.alerts = s.alerts /\ e.q = s.q /\ e.lost = s.lost
             /\ e.passed = Append(s.passed, m) /\ e.recent = s.recent
<1> DEFINE R0 == SUBSET (Nat \ {0})
           L0 == SUBSET (Keys \cup {"event"})
           A0 == [Keys -> Alert \cup {NoAlert}]
           P0 == Seq(Messages)
           Q0 == Seq(Nat)
           p == Append(s.passed, m)
           e == [s EXCEPT !.passed = p]
<1>1. Notifiers = [alerts : A0, passed : P0, recent : R0, q : Q0, lost : L0]
  BY DEF Notifiers
<1>2. p \in P0
  BY Parts
<1> HIDE DEF A0, P0, Q0, L0, R0, p
<1> QED BY <1>1, <1>2 DEF p

(* The alert of a key changes.                                              *)
LEMMA AlertSet ==
  ASSUME NEW s \in Notifiers, NEW k \in Keys, NEW a \in Alert \cup {NoAlert}
  PROVE  LET e == [s EXCEPT !.alerts[k] = a]
         IN  /\ e \in Notifiers /\ e.recent = s.recent /\ e.passed = s.passed
             /\ e.q = s.q /\ e.lost = s.lost
             /\ e.alerts[k] = a /\ \A l \in Keys \ {k} : e.alerts[l] = s.alerts[l]
<1>1. s.alerts \in [Keys -> Alert \cup {NoAlert}]
  BY Parts
<1>2. [s.alerts EXCEPT ![k] = a] \in [Keys -> Alert \cup {NoAlert}]
  BY <1>1
<1> QED BY <1>1, <1>2 DEF Notifiers

(* A report leaves an alert, and announces one that was not announced.      *)
LEMMA ReportedType ==
  ASSUME NEW a \in Alert \cup {NoAlert}, NEW fuse \in Nat, NEW t \in Nat
  PROVE  /\ Reported(a, fuse, t) \in Alert
         /\ Announced(Reported(a, fuse, t)) <=> Announced(a) \/ Proven(a, fuse, t)
         /\ Proven(a, fuse, t) => ~Announced(a)
<1> DEFINE r == Reported(a, fuse, t)
<1>1. MinCount \in Nat \ {0} /\ NoAlert \notin Alert
  BY AlertsAssumption, NoAlertAssumption
<1>2. Proven(a, fuse, t) \in BOOLEAN
  BY DEF Proven
<1>3. CASE a = NoAlert
  <2>1. r \in Alert /\ ~r.notified
    BY <1>1, <1>3 DEF Reported, Alert
  <2> QED BY <1>3, <2>1 DEF Announced, Proven
<1>4. CASE a # NoAlert
  <2>1. a \in Alert /\ a.count \in 1..MinCount /\ a.notified \in BOOLEAN
    BY <1>4 DEF Alert
  <2>2. OneMore(a.count) \in 1..MinCount
    BY <1>1, <2>1 DEF OneMore
  <2> DEFINE b == a.notified \/ Proven(a, fuse, t)
             c == OneMore(a.count)
  <2>3. b \in BOOLEAN
    OBVIOUS
  <2>4. r = [a EXCEPT !.count = c, !.notified = b]
    BY <1>4 DEF Reported
  <2> HIDE DEF b, c
  <2>5. r \in Alert /\ r.notified = b
    BY <2>1, <2>2, <2>3, <2>4 DEF Alert, c
  <2>6. r # NoAlert
    BY <1>1, <2>5
  <2> QED BY <1>4, <2>5, <2>6 DEF Announced, Proven, b
<1> QED BY <1>3, <1>4

(* What is in a sequence after Append was there before, or is new.          *)
LEMMA Appended ==
  ASSUME NEW S, NEW s \in Seq(S), NEW x \in S
  PROVE  \A i \in DOMAIN Append(s, x) :
           (i \in DOMAIN s /\ Append(s, x)[i] = s[i]) \/ Append(s, x)[i] = x
OBVIOUS

(* The parts of a call.                                                     *)
LEMMA CallParts ==
  ASSUME NEW r \in Call
  PROVE  /\ r.step \in Steps /\ r.key \in Keys \cup {"event"} /\ r.kind \in Kinds
         /\ r.kept \subseteq Nat \ {0} /\ r.raced \in BOOLEAN /\ r.place \in Nat
BY DEF Call, Kinds

LEMMA NoCallParts ==
  /\ NoCall \in Call /\ NoCall.step = "idle" /\ NoCall.key = "event" /\ NoCall.kind = "event"
  /\ NoCall.kept = {} /\ NoCall.raced = FALSE /\ NoCall.place = 0
BY DEF NoCall, Call, Steps

----------------------------------------------------------------------------
(* The steps of the callers, part by part.                                  *)

(* A report or an all-clear: the alert of one key of the thread changes, and*)
(* it begins to say so if that is news.                                     *)
News(k, kind) == /\ Announced(n.alerts[k]) <=> kind # "failure"
                 /\ Announced(n'.alerts[k]) <=> kind = "failure"

LEMMA ReportStep ==
  ASSUME TypeOK, NEW c \in Threads, CallFailure(c) \/ CallResolved(c)
  PROVE  /\ call[c].step = "idle" /\ UNCHANGED <<raced, now, stop, thread>>
         /\ \E k \in KeysOf(c) :
              /\ n' \in Notifiers /\ n'.recent = n.recent /\ n'.passed = n.passed
              /\ n'.q = n.q /\ n'.lost = n.lost
              /\ \A l \in Keys \ {k} : n'.alerts[l] = n.alerts[l]
              /\ \/ call' = call /\ (Announced(n'.alerts[k]) <=> Announced(n.alerts[k]))
                 \/ \E kind \in {"failure", "recovery"} : Ask(c, k, kind) /\ News(k, kind)
<1>1. n \in Notifiers /\ now \in Nat /\ KeysOf(c) \subseteq Keys /\ Fuses \subseteq Nat
  BY NotifierAssumption DEF TypeOK, KeysOf
<1>2. \A k \in Keys : n.alerts[k] \in Alert \cup {NoAlert}
  BY <1>1, Parts
<1>3. CASE CallFailure(c)
  <2>1. PICK k \in KeysOf(c), fuse \in Fuses :
          /\ n' = [n EXCEPT !.alerts[k] = Reported(@, fuse, now)]
          /\ IF Proven(n.alerts[k], fuse, now) THEN Ask(c, k, "failure") ELSE UNCHANGED call
    BY <1>3 DEF CallFailure
  <2> DEFINE a == n.alerts[k]
             r == Reported(a, fuse, now)
  <2>2. k \in Keys /\ fuse \in Nat /\ a \in Alert \cup {NoAlert}
    BY <1>1, <1>2
  <2>3. /\ r \in Alert
        /\ Announced(r) <=> Announced(a) \/ Proven(a, fuse, now)
        /\ Proven(a, fuse, now) => ~Announced(a)
    BY <1>1, <2>2, ReportedType
  <2>4. n' = [n EXCEPT !.alerts[k] = r]
    BY <2>1
  <2> HIDE DEF r
  <2>5. /\ n' \in Notifiers /\ n'.recent = n.recent /\ n'.passed = n.passed
        /\ n'.q = n.q /\ n'.lost = n.lost
        /\ n'.alerts[k] = r /\ \A l \in Keys \ {k} : n'.alerts[l] = n.alerts[l]
    BY <1>1, <2>2, <2>3, <2>4, AlertSet
  <2>6. CASE Proven(a, fuse, now)
    <3>1. Ask(c, k, "failure") /\ News(k, "failure")
      BY <2>1, <2>3, <2>5, <2>6 DEF News
    <3> QED BY <1>3, <2>5, <3>1 DEF CallFailure
  <2>7. CASE ~Proven(a, fuse, now)
    BY <1>3, <2>1, <2>3, <2>5, <2>7 DEF CallFailure
  <2> QED BY <2>6, <2>7
<1>4. CASE CallResolved(c)
  <2>1. PICK k \in KeysOf(c) :
          /\ n' = Popped(n, k)
          /\ IF Announced(n.alerts[k]) THEN Ask(c, k, "recovery") ELSE UNCHANGED call
    BY <1>4 DEF CallResolved
  <2>2. n' = [n EXCEPT !.alerts[k] = NoAlert]
    BY <2>1 DEF Popped
  <2>3. /\ n' \in Notifiers /\ n'.recent = n.recent /\ n'.passed = n.passed
        /\ n'.q = n.q /\ n'.lost = n.lost
        /\ n'.alerts[k] = NoAlert /\ \A l \in Keys \ {k} : n'.alerts[l] = n.alerts[l]
    BY <1>1, <2>2, AlertSet
  <2>4. ~Announced(n'.alerts[k])
    BY <2>3 DEF Announced
  <2>5. CASE Announced(n.alerts[k])
    <3>1. Ask(c, k, "recovery") /\ News(k, "recovery")
      BY <2>1, <2>4, <2>5 DEF News
    <3> QED BY <1>4, <2>3, <3>1 DEF CallResolved
  <2>6. CASE ~Announced(n.alerts[k])
    BY <1>4, <2>1, <2>3, <2>4, <2>6 DEF CallResolved
  <2> QED BY <2>5, <2>6
<1> QED BY <1>3, <1>4

LEMMA AskStep ==
  ASSUME TypeOK, NEW c \in Threads, NEW k \in Keys \cup {"event"}, NEW kind \in Kinds,
         Ask(c, k, kind)
  PROVE  /\ call' \in [Threads -> Call]
         /\ call'[c].step = "trim" /\ call'[c].key = k /\ call'[c].kind = kind
         /\ call'[c].kept = {} /\ call'[c].place = 0
         /\ \A d \in Threads \ {c} : call'[d] = call[d]
<1> DEFINE r == [NoCall EXCEPT !.step = "trim", !.key = k, !.kind = kind]
<1>1. r \in Call /\ r.step = "trim" /\ r.key = k /\ r.kind = kind /\ r.kept = {} /\ r.place = 0
  BY DEF NoCall, Call, Steps, Kinds
<1>2. call' = [call EXCEPT ![c] = r]
  BY DEF Ask
<1> HIDE DEF r
<1> QED BY <1>1, <1>2 DEF TypeOK

LEMMA TrimStep ==
  ASSUME TypeOK, NEW c \in Threads, Trim(c)
  PROVE  /\ UNCHANGED <<n, raced, now, stop, thread>> /\ call[c].step = "trim"
         /\ call' \in [Threads -> Call]
         /\ call'[c].step = "assign" /\ call'[c].kept = StillRecent(n, now)
         /\ call'[c].raced <=> \E d \in Threads \ {c} : Checking(d)
         /\ \A d \in Threads \ {c} : /\ call'[d].step = call[d].step /\ call'[d].kept = call[d].kept
                                     /\ call'[d].raced <=> call[d].raced \/ Checking(d)
         /\ \A d \in Threads : /\ call'[d].key = call[d].key /\ call'[d].kind = call[d].kind
                               /\ call'[d].place = call[d].place
<1> DEFINE R == StillRecent(n, now)
           crossed == \E d \in Threads \ {c} : Checking(d)
           r == [call[c] EXCEPT !.step = "assign", !.kept = R, !.raced = crossed]
           other(d) == [call[d] EXCEPT !.raced = @ \/ Checking(d)]
<1>1. /\ call[c].step = "trim" /\ UNCHANGED <<n, raced, now, stop, thread>>
      /\ call' = [d \in Threads |-> IF d = c THEN r ELSE other(d)]
  BY DEF Trim
<1>2. n \in Notifiers /\ call \in [Threads -> Call]
  BY DEF TypeOK
<1>3. R \in SUBSET (Nat \ {0}) /\ crossed \in BOOLEAN /\ "assign" \in Steps
  BY <1>2, Parts DEF StillRecent, Steps
<1> HIDE DEF R, crossed
<1>4. /\ r \in Call /\ r.step = "assign" /\ r.kept = R /\ r.raced = crossed
      /\ r.key = call[c].key /\ r.kind = call[c].kind /\ r.place = call[c].place
  BY <1>2, <1>3 DEF Call
<1>5. ASSUME NEW d \in Threads
      PROVE  /\ other(d) \in Call /\ other(d).step = call[d].step /\ other(d).kept = call[d].kept
             /\ other(d).raced <=> call[d].raced \/ Checking(d)
             /\ other(d).key = call[d].key /\ other(d).kind = call[d].kind
             /\ other(d).place = call[d].place
  <2> DEFINE b == call[d].raced \/ Checking(d)
  <2>1. call[d] \in Call /\ call[d].raced \in BOOLEAN
    BY <1>2, CallParts
  <2>2. b \in BOOLEAN
    OBVIOUS
  <2>3. other(d) = [call[d] EXCEPT !.raced = b]
    OBVIOUS
  <2> HIDE DEF b, other
  <2>4. /\ other(d) \in Call /\ other(d).step = call[d].step /\ other(d).kept = call[d].kept
        /\ other(d).raced = b
        /\ other(d).key = call[d].key /\ other(d).kind = call[d].kind
        /\ other(d).place = call[d].place
    BY <2>1, <2>2, <2>3 DEF Call
  <2> QED BY <2>4 DEF b
<1> HIDE DEF r, other
<1>6. call'[c] = r /\ \A d \in Threads \ {c} : call'[d] = other(d)
  BY <1>1
<1>7. call' \in [Threads -> Call]
  BY <1>1, <1>4, <1>5
<1> QED BY <1>1, <1>4, <1>5, <1>6, <1>7 DEF R, crossed

LEMMA AssignStep ==
  ASSUME TypeOK, NEW c \in Threads, Assign(c)
  PROVE  /\ UNCHANGED <<raced, now, stop, thread>> /\ call[c].step = "assign"
         /\ n' \in Notifiers /\ n'.recent = call[c].kept /\ n'.passed = n.passed
         /\ n'.alerts = n.alerts /\ n'.q = n.q /\ n'.lost = n.lost
         /\ call' \in [Threads -> Call] /\ call'[c].step = "check"
         /\ \A d \in Threads \ {c} :
              /\ call'[d].step = IF call[d].step = "append" THEN "astray" ELSE call[d].step
              /\ call'[d].kept = call[d].kept
         /\ \A d \in Threads : /\ call'[d].key = call[d].key /\ call'[d].kind = call[d].kind
                               /\ call'[d].place = call[d].place /\ call'[d].raced = call[d].raced
<1> DEFINE r == [call[c] EXCEPT !.step = "check", !.kept = {}]
           other(d) == IF call[d].step = "append" THEN [call[d] EXCEPT !.step = "astray"] ELSE call[d]
           K == call[c].kept
<1>1. /\ call[c].step = "assign" /\ n' = [n EXCEPT !.recent = K]
      /\ call' = [d \in Threads |-> IF d = c THEN r ELSE other(d)]
      /\ UNCHANGED <<raced, now, stop, thread>>
  BY DEF Assign
<1>2. n \in Notifiers /\ call \in [Threads -> Call]
  BY DEF TypeOK
<1>3. K \in SUBSET (Nat \ {0}) /\ {} \in SUBSET (Nat \ {0}) /\ {"check", "astray"} \subseteq Steps
  BY <1>2, CallParts DEF Steps
<1>4. /\ r \in Call /\ r.step = "check" /\ r.raced = call[c].raced
      /\ r.key = call[c].key /\ r.kind = call[c].kind /\ r.place = call[c].place
  BY <1>2, <1>3 DEF Call
<1>5. ASSUME NEW d \in Threads
      PROVE  /\ other(d) \in Call /\ other(d).kept = call[d].kept
             /\ other(d).step = IF call[d].step = "append" THEN "astray" ELSE call[d].step
             /\ other(d).raced = call[d].raced
             /\ other(d).key = call[d].key /\ other(d).kind = call[d].kind
             /\ other(d).place = call[d].place
  BY <1>2, <1>3 DEF Call
<1> HIDE DEF r, other, K
<1>6. call'[c] = r /\ \A d \in Threads \ {c} : call'[d] = other(d)
  BY <1>1
<1>7. call' \in [Threads -> Call]
  BY <1>1, <1>4, <1>5
<1>8. /\ n' \in Notifiers /\ n'.recent = K /\ n'.passed = n.passed
      /\ n'.alerts = n.alerts /\ n'.q = n.q /\ n'.lost = n.lost
  BY <1>1, <1>2, <1>3, Updates
<1> QED BY <1>1, <1>4, <1>5, <1>6, <1>7, <1>8 DEF K

(* The cap refuses the message, or lets it on.                              *)
LEMMA CheckStep ==
  ASSUME TypeOK, NEW c \in Threads, Check(c)
  PROVE  /\ UNCHANGED <<raced, now, stop, thread>> /\ call[c].step = "check"
         /\ n' \in Notifiers /\ n'.recent = n.recent /\ n'.passed = n.passed
         /\ n'.alerts = n.alerts /\ n'.q = n.q
         /\ call' \in [Threads -> Call] /\ \A d \in Threads \ {c} : call'[d] = call[d]
         /\ \/ call'[c] = NoCall /\ n'.lost = n.lost \cup {call[c].key}
            \/ /\ ~(Cardinality(n.recent) >= MaxPerHour) /\ n'.lost = n.lost
               /\ call'[c].step = "append" /\ call'[c].kept = call[c].kept
               /\ call'[c].raced = call[c].raced /\ call'[c].key = call[c].key
               /\ call'[c].kind = call[c].kind /\ call'[c].place = call[c].place
<1> DEFINE r == [call[c] EXCEPT !.step = "append"]
           k == call[c].key
<1>1. /\ call[c].step = "check" /\ UNCHANGED <<raced, now, stop, thread>>
      /\ \/ n' = [n EXCEPT !.lost = @ \cup {k}] /\ call' = [call EXCEPT ![c] = NoCall]
         \/ ~(Cardinality(n.recent) >= MaxPerHour) /\ n' = n /\ call' = [call EXCEPT ![c] = r]
  BY DEF Check
<1>2. n \in Notifiers /\ call \in [Threads -> Call] /\ NoCall \in Call
  BY NoCallParts DEF TypeOK
<1>3. k \in Keys \cup {"event"} /\ "append" \in Steps
  BY <1>2, CallParts DEF Steps
<1>4. /\ r \in Call /\ r.step = "append" /\ r.kept = call[c].kept /\ r.raced = call[c].raced
      /\ r.key = call[c].key /\ r.kind = call[c].kind /\ r.place = call[c].place
  BY <1>2, <1>3 DEF Call
<1> HIDE DEF r, k
<1>5. CASE n' = [n EXCEPT !.lost = @ \cup {k}] /\ call' = [call EXCEPT ![c] = NoCall]
  <2>1. /\ n' \in Notifiers /\ n'.recent = n.recent /\ n'.passed = n.passed
        /\ n'.alerts = n.alerts /\ n'.q = n.q /\ n'.lost = n.lost \cup {k}
    BY <1>2, <1>3, <1>5, Updates
  <2> QED BY <1>1, <1>2, <1>5, <2>1 DEF k
<1>6. CASE /\ ~(Cardinality(n.recent) >= MaxPerHour) /\ n' = n
           /\ call' = [call EXCEPT ![c] = r]
  BY <1>1, <1>2, <1>4, <1>6
<1> QED BY <1>1, <1>5, <1>6

(* The message passes; whether it is noted is certain if nothing came in.   *)
LEMMA PassStep ==
  ASSUME TypeOK, NEW c \in Threads, Pass(c)
  PROVE  LET place == Len(n.passed) + 1
             m == [key |-> call[c].key, kind |-> call[c].kind, at |-> now]
         IN  /\ UNCHANGED <<now, stop, thread>> /\ call[c].step \in {"append", "astray"}
             /\ m \in Messages /\ place \in Nat \ {0}
             /\ n' \in Notifiers /\ n'.passed = Append(n.passed, m)
             /\ n'.alerts = n.alerts /\ n'.q = n.q /\ n'.lost = n.lost
             /\ \/ n'.recent = n.recent \cup {place}
                \/ call[c].step = "astray" /\ n'.recent = n.recent
             /\ raced' = IF call[c].raced THEN raced \cup {place} ELSE raced
             /\ call' \in [Threads -> Call] /\ \A d \in Threads \ {c} : call'[d] = call[d]
             /\ call'[c].step = "put" /\ call'[c].key = call[c].key
             /\ call'[c].kind = call[c].kind /\ call'[c].place = place /\ call'[c].kept = {}
<1> DEFINE place == Len(n.passed) + 1
           k == call[c].key
           kind == call[c].kind
           m == [key |-> k, kind |-> kind, at |-> now]
           r == [NoCall EXCEPT !.step = "put", !.key = k, !.kind = kind, !.place = place]
<1>1. /\ call[c].step \in {"append", "astray"} /\ UNCHANGED <<now, stop, thread>>
      /\ \/ n' = Noted(n, m)
         \/ call[c].step = "astray" /\ n' = [n EXCEPT !.passed = Append(@, m)]
      /\ raced' = IF call[c].raced THEN raced \cup {place} ELSE raced
      /\ call' = [call EXCEPT ![c] = r]
  BY DEF Pass
<1>2. n \in Notifiers /\ call \in [Threads -> Call] /\ now \in Nat
  BY DEF TypeOK
<1>3. k \in Keys \cup {"event"} /\ kind \in Kinds /\ place \in Nat \ {0}
  BY <1>2, CallParts, Parts
<1>4. m \in Messages
  BY <1>2, <1>3 DEF Messages, Kinds
<1>5. /\ r \in Call /\ r.step = "put" /\ r.key = k /\ r.kind = kind
      /\ r.kept = {} /\ r.place = place
  BY <1>3 DEF NoCall, Call, Steps, Kinds
<1> HIDE DEF r, m
<1>6. /\ n' \in Notifiers /\ n'.passed = Append(n.passed, m)
      /\ n'.alerts = n.alerts /\ n'.q = n.q /\ n'.lost = n.lost
      /\ \/ n'.recent = n.recent \cup {place}
         \/ call[c].step = "astray" /\ n'.recent = n.recent
  <2>1. CASE n' = Noted(n, m)
    BY <1>2, <1>4, <2>1, NotedFields
  <2>2. CASE call[c].step = "astray" /\ n' = [n EXCEPT !.passed = Append(@, m)]
    BY <1>2, <1>4, <2>2, UnnotedFields
  <2> QED BY <1>1, <2>1, <2>2
<1> HIDE DEF place, k, kind
<1>7. call' \in [Threads -> Call] /\ call'[c] = r /\ \A d \in Threads \ {c} : call'[d] = call[d]
  BY <1>1, <1>2, <1>5
<1> QED BY <1>1, <1>3, <1>4, <1>5, <1>6, <1>7 DEF place, k, kind, m

(* The message is queued, or its key has lost it.                           *)
LEMMA PutStep ==
  ASSUME TypeOK, NEW c \in Threads, Put(c)
  PROVE  /\ UNCHANGED <<raced, now, stop, thread>> /\ call[c].step = "put"
         /\ n' \in Notifiers /\ n'.recent = n.recent /\ n'.passed = n.passed
         /\ n'.alerts = n.alerts
         /\ \/ n'.q = Append(n.q, call[c].place) /\ n'.lost = n.lost
            \/ n'.q = n.q /\ n'.lost = n.lost \cup {call[c].key}
         /\ call' \in [Threads -> Call] /\ call'[c] = NoCall
         /\ \A d \in Threads \ {c} : call'[d] = call[d]
<1> DEFINE k == call[c].key
           q == Append(n.q, call[c].place)
<1>1. /\ call[c].step = "put" /\ UNCHANGED <<raced, now, stop, thread>>
      /\ n' = [n EXCEPT !.q = q] \/ n' = [n EXCEPT !.lost = @ \cup {k}]
      /\ call' = [call EXCEPT ![c] = NoCall]
  BY DEF Put, Queued
<1>2. n \in Notifiers /\ call \in [Threads -> Call] /\ NoCall \in Call
  BY NoCallParts DEF TypeOK
<1>3. k \in Keys \cup {"event"} /\ q \in Seq(Nat)
  <2>1. call[c].place \in Nat /\ n.q \in Seq(Nat)
    BY <1>2, CallParts, Parts
  <2> QED BY <1>2, <2>1, CallParts
<1> HIDE DEF k, q
<1>4. /\ n' \in Notifiers /\ n'.recent = n.recent /\ n'.passed = n.passed
      /\ n'.alerts = n.alerts
      /\ \/ n'.q = q /\ n'.lost = n.lost
         \/ n'.q = n.q /\ n'.lost = n.lost \cup {k}
  <2>1. CASE n' = [n EXCEPT !.q = q]
    BY <1>2, <1>3, <2>1, Updates
  <2>2. CASE n' = [n EXCEPT !.lost = @ \cup {k}]
    BY <1>2, <1>3, <2>2, Updates
  <2> QED BY <1>1, <2>1, <2>2
<1> QED BY <1>1, <1>2, <1>4 DEF k, q

----------------------------------------------------------------------------
(* Types, and what a message is.                                            *)

(* The state of the worker, for a notifier whose passed has not shrunk.     *)
LEMMA ThreadTypes ==
  ASSUME TypeOK, UNCHANGED thread, n' \in Notifiers, Len(n.passed) <= Len(n'.passed)
  PROVE  /\ worker' \in {"head", "waiting", "posting", "ended"}
         /\ hand' \in 0..Len(n'.passed) /\ (worker' = "posting" => hand' # 0)
         /\ tried' \subseteq 1..Len(n'.passed)
         /\ phone' \in [Keys -> {"failure", "recovery"}]
<1>1. Len(n.passed) \in Nat /\ Len(n'.passed) \in Nat
  BY Parts DEF TypeOK
<1>2. 0..Len(n.passed) \subseteq 0..Len(n'.passed) /\ 1..Len(n.passed) \subseteq 1..Len(n'.passed)
  BY <1>1
<1> QED BY <1>2 DEF TypeOK, thread

(* A step of a caller that changes nothing of what has passed.              *)
LEMMA CallBase ==
  ASSUME Base, UNCHANGED <<raced, now, stop, thread>>,
         n' \in Notifiers, n'.passed = n.passed, QueuedPassed(n'),
         call' \in [Threads -> Call], CallsPlain'
  PROVE  Base'
<1>1. Len(n.passed) \in Nat
  BY Parts DEF Base, TypeOK
<1>2. TypeOK'
  BY <1>1, ThreadTypes DEF Base, TypeOK
<1>3. KindsAgree(n')
  BY DEF Base, KindsAgree
<1> QED BY <1>2, <1>3 DEF Base

LEMMA ReportBase ==
  ASSUME Base, NEW c \in Threads, CallFailure(c) \/ CallResolved(c) PROVE Base'
<1>1. UNCHANGED <<raced, now, stop, thread>> /\ TypeOK
  BY ReportStep DEF Base
<1>2. PICK k \in KeysOf(c) :
        /\ n' \in Notifiers /\ n'.passed = n.passed /\ n'.q = n.q
        /\ \/ call' = call
           \/ \E kind \in {"failure", "recovery"} : Ask(c, k, kind)
  BY <1>1, ReportStep
<1>3. k \in Keys /\ k # "event" /\ QueuedPassed(n') /\ Len(n.passed) \in Nat
  BY <1>1, <1>2, AlertsAssumption, NotifierAssumption, Parts DEF KeysOf, Base, QueuedPassed, TypeOK
<1>4. CASE call' = call
  <2>1. CallsPlain'
    BY <1>2, <1>4 DEF Base, CallsPlain
  <2> QED BY <1>1, <1>2, <1>3, <1>4, <2>1, CallBase DEF TypeOK
<1>5. CASE \E kind \in {"failure", "recovery"} : Ask(c, k, kind)
  <2>1. PICK kind \in {"failure", "recovery"} : Ask(c, k, kind)
    BY <1>5
  <2>2. kind \in Kinds
    BY DEF Kinds
  <2>3. /\ call' \in [Threads -> Call]
        /\ call'[c].step = "trim" /\ call'[c].key = k /\ call'[c].kind = kind
        /\ call'[c].place = 0
        /\ \A d \in Threads \ {c} : call'[d] = call[d]
    BY <1>1, <1>3, <2>1, <2>2, AskStep
  <2>4. CallsPlain'
    BY <1>2, <1>3, <2>3 DEF Base, CallsPlain
  <2> QED BY <1>1, <1>2, <1>3, <2>3, <2>4, CallBase
<1> QED BY <1>2, <1>4, <1>5

LEMMA EventBase == ASSUME Base, CallEvent PROVE Base'
<1>1. UNCHANGED <<n, raced, now, stop, thread>> /\ TypeOK /\ Ask("main", "event", "event")
  BY DEF Base, CallEvent
<1>2. "main" \in Threads /\ "event" \in Kinds /\ n' \in Notifiers /\ Len(n.passed) \in Nat
  BY <1>1, Parts DEF Threads, Kinds, TypeOK
<1>3. /\ call' \in [Threads -> Call]
      /\ call'["main"].step = "trim" /\ call'["main"].key = "event" /\ call'["main"].kind = "event"
      /\ call'["main"].place = 0
      /\ \A d \in Threads \ {"main"} : call'[d] = call[d]
  BY <1>1, <1>2, AskStep
<1>4. CallsPlain'
  BY <1>1, <1>2, <1>3 DEF Base, CallsPlain
<1>5. QueuedPassed(n')
  BY <1>1 DEF Base
<1> QED BY <1>1, <1>2, <1>3, <1>4, <1>5, CallBase

LEMMA TrimBase == ASSUME Base, NEW c \in Threads, Trim(c) PROVE Base'
<1>1. /\ UNCHANGED <<n, raced, now, stop, thread>> /\ call[c].step = "trim"
      /\ call' \in [Threads -> Call] /\ call'[c].step = "assign"
      /\ \A d \in Threads \ {c} : call'[d].step = call[d].step
      /\ \A d \in Threads : /\ call'[d].key = call[d].key /\ call'[d].kind = call[d].kind
                            /\ call'[d].place = call[d].place
  BY TrimStep DEF Base
<1>2. CallsPlain'
  BY <1>1 DEF Base, CallsPlain
<1>3. n' \in Notifiers /\ QueuedPassed(n')
  BY <1>1 DEF Base, TypeOK
<1> QED BY <1>1, <1>2, <1>3, CallBase

LEMMA AssignBase == ASSUME Base, NEW c \in Threads, Assign(c) PROVE Base'
<1>1. /\ UNCHANGED <<raced, now, stop, thread>> /\ call[c].step = "assign"
      /\ n' \in Notifiers /\ n'.passed = n.passed /\ n'.q = n.q
      /\ call' \in [Threads -> Call] /\ call'[c].step = "check"
      /\ \A d \in Threads \ {c} :
           call'[d].step = IF call[d].step = "append" THEN "astray" ELSE call[d].step
      /\ \A d \in Threads : /\ call'[d].key = call[d].key /\ call'[d].kind = call[d].kind
                            /\ call'[d].place = call[d].place
  BY AssignStep DEF Base
<1>2. CallsPlain'
  BY <1>1 DEF Base, CallsPlain
<1>3. QueuedPassed(n')
  BY <1>1 DEF Base, QueuedPassed
<1> QED BY <1>1, <1>2, <1>3, CallBase

LEMMA CheckBase == ASSUME Base, NEW c \in Threads, Check(c) PROVE Base'
<1>1. /\ UNCHANGED <<raced, now, stop, thread>> /\ call[c].step = "check"
      /\ n' \in Notifiers /\ n'.passed = n.passed /\ n'.q = n.q
      /\ call' \in [Threads -> Call] /\ \A d \in Threads \ {c} : call'[d] = call[d]
      /\ \/ call'[c] = NoCall
         \/ /\ call'[c].step = "append" /\ call'[c].key = call[c].key
            /\ call'[c].kind = call[c].kind /\ call'[c].place = call[c].place
  BY CheckStep DEF Base
<1>2. CallsPlain'
  <2>1. 0 <= Len(n.passed)
    BY Parts DEF Base, TypeOK
  <2> QED BY <1>1, <2>1, NoCallParts DEF Base, CallsPlain
<1>3. QueuedPassed(n')
  BY <1>1 DEF Base, QueuedPassed
<1> QED BY <1>1, <1>2, <1>3, CallBase

LEMMA PutBase == ASSUME Base, NEW c \in Threads, Put(c) PROVE Base'
<1>1. /\ UNCHANGED <<raced, now, stop, thread>> /\ call[c].step = "put"
      /\ n' \in Notifiers /\ n'.passed = n.passed
      /\ n'.q = Append(n.q, call[c].place) \/ n'.q = n.q
      /\ call' \in [Threads -> Call] /\ call'[c] = NoCall
      /\ \A d \in Threads \ {c} : call'[d] = call[d]
  BY PutStep DEF Base
<1>2. CallsPlain'
  BY <1>1, NoCallParts, Parts DEF Base, CallsPlain, TypeOK
<1>3. QueuedPassed(n')
  <2> DEFINE i == call[c].place
  <2>1. i \in Nat /\ i <= Len(n.passed) /\ n.q \in Seq(Nat)
    BY CallParts, Parts DEF Base, TypeOK, CallsPlain
  <2> HIDE DEF i
  <2>2. \A j \in DOMAIN n'.q : (j \in DOMAIN n.q /\ n'.q[j] = n.q[j]) \/ n'.q[j] = i
    <3>1. CASE n'.q = Append(n.q, i)
      BY <2>1, <3>1, Appended
    <3> QED BY <1>1, <3>1 DEF i
  <2> QED BY <1>1, <2>1, <2>2 DEF Base, QueuedPassed
<1> QED BY <1>1, <1>2, <1>3, CallBase

LEMMA PassBase == ASSUME Base, NEW c \in Threads, Pass(c) PROVE Base'
<1> DEFINE place == Len(n.passed) + 1
           m == [key |-> call[c].key, kind |-> call[c].kind, at |-> now]
<1>1. /\ UNCHANGED <<now, stop, thread>> /\ call[c].step \in {"append", "astray"}
      /\ m \in Messages /\ n' \in Notifiers /\ n'.passed = Append(n.passed, m) /\ n'.q = n.q
      /\ raced' = raced \/ raced' = raced \cup {place}
      /\ call' \in [Threads -> Call] /\ \A d \in Threads \ {c} : call'[d] = call[d]
      /\ call'[c].step = "put" /\ call'[c].key = call[c].key
      /\ call'[c].kind = call[c].kind /\ call'[c].place = place
  BY PassStep DEF Base
<1>2. m.key = call[c].key /\ m.kind = call[c].kind
  OBVIOUS
<1>3. n.passed \in Seq(Messages) /\ Len(n.passed) \in Nat /\ DOMAIN n.passed = 1 .. Len(n.passed)
  BY Parts DEF Base, TypeOK
<1> HIDE DEF m
<1>4. /\ Len(n'.passed) = place /\ DOMAIN n'.passed = 1 .. place /\ n'.passed[place] = m
      /\ \A i \in DOMAIN n.passed : n'.passed[i] = n.passed[i]
      /\ place \in Nat \ {0} /\ Len(n.passed) <= place
  BY <1>1, <1>3
<1>5. TypeOK'
  <2>1. raced' \subseteq 1..Len(n'.passed)
    <3>1. raced \subseteq 1..Len(n.passed)
      BY DEF Base, TypeOK
    <3>2. 1..Len(n.passed) \subseteq 1..place /\ place \in 1..place
      BY <1>3
    <3> HIDE DEF place
    <3> QED BY <1>1, <1>4, <3>1, <3>2
  <2>2. Len(n.passed) <= Len(n'.passed)
    BY <1>4
  <2> QED BY <1>1, <2>1, <2>2, ThreadTypes DEF Base, TypeOK
<1>6. KindsAgree(n')
  <2>1. m.kind = "event" <=> m.key = "event"
    <3>1. call[c].step # "idle"
      BY <1>1
    <3>2. call[c].kind = "event" <=> call[c].key = "event"
      BY <3>1 DEF Base, CallsPlain
    <3> QED BY <1>2, <3>2
  <2> QED BY <1>3, <1>4, <2>1 DEF Base, KindsAgree
<1>7. QueuedPassed(n')
  <2>1. \A i \in DOMAIN n.q : n.q[i] \in Nat
    BY Parts DEF Base, TypeOK
  <2> QED BY <1>1, <1>3, <1>4, <2>1 DEF Base, QueuedPassed
<1>8. CallsPlain'
  <2>1. \A d \in Threads : call[d].place \in Nat
    BY CallParts DEF Base, TypeOK
  <2> HIDE DEF place
  <2> QED BY <1>1, <1>3, <1>4, <2>1 DEF Base, CallsPlain
<1> QED BY <1>5, <1>6, <1>7, <1>8 DEF Base

LEMMA ShutdownBase == ASSUME Base, Shutdown PROVE Base'
<1> DEFINE q == Append(n.q, 0)
<1>1. n \in Notifiers /\ n.q \in Seq(Nat) /\ q \in Seq(Nat) /\ Len(n.passed) \in Nat
  BY Parts DEF Base, TypeOK
<1>2. /\ n' = n \/ n' = [n EXCEPT !.q = q]
      /\ stop' = TRUE /\ now' = now /\ UNCHANGED checks /\ UNCHANGED thread
  BY DEF Shutdown
<1>3. \A i \in DOMAIN q : (i \in DOMAIN n.q /\ q[i] = n.q[i]) \/ q[i] = 0
  BY <1>1, Appended
<1> HIDE DEF q
<1>4. n' \in Notifiers /\ n'.passed = n.passed /\ (n'.q = n.q \/ n'.q = q)
  <2>1. CASE n' = n
    BY <1>1, <2>1
  <2>2. CASE n' = [n EXCEPT !.q = q]
    BY <1>1, <2>2, Updates
  <2> QED BY <1>2, <2>1, <2>2
<1>5. QueuedPassed(n') /\ KindsAgree(n')
  <2>1. KindsAgree(n')
    BY <1>4 DEF Base, KindsAgree
  <2>2. \A i \in DOMAIN n.q : n.q[i] <= Len(n.passed)
    BY DEF Base, QueuedPassed
  <2>3. QueuedPassed(n')
    BY <1>1, <1>3, <1>4, <2>2 DEF QueuedPassed
  <2> QED BY <2>1, <2>3
<1>6. CallsPlain'
  BY <1>2, <1>4 DEF Base, CallsPlain, checks
<1>7. TypeOK'
  BY <1>1, <1>2, <1>4, ThreadTypes DEF Base, TypeOK, checks
<1> QED BY <1>5, <1>6, <1>7 DEF Base

LEMMA TickBase == ASSUME Base, Tick PROVE Base'
BY DEF Base, TypeOK, Tick, checks, thread, CallsPlain

----------------------------------------------------------------------------
(* The worker.                                                              *)
LEMMA GetParts ==
  ASSUME Base, Get
  PROVE  /\ UNCHANGED <<checks, now, stop, tried, phone>> /\ n.q # <<>> /\ n.q \in Seq(Nat)
         /\ n' \in Notifiers /\ n'.recent = n.recent /\ n'.passed = n.passed
         /\ n'.alerts = n.alerts /\ n'.lost = n.lost /\ n'.q = Tail(n.q)
         /\ hand' = n.q[1] /\ 1 \in DOMAIN n.q
         /\ worker = "waiting" /\ worker' = IF hand' = 0 THEN "ended" ELSE "posting"
<1> DEFINE q == Tail(n.q)
<1>1. n \in Notifiers /\ n.q \in Seq(Nat) /\ n.q # <<>>
  BY Parts DEF Base, TypeOK, Get
<1>2. q \in Seq(Nat) /\ Head(n.q) = n.q[1] /\ 1 \in DOMAIN n.q
  BY <1>1
<1>3. n' = [n EXCEPT !.q = q]
  BY DEF Get
<1> HIDE DEF q
<1>4. /\ n' \in Notifiers /\ n'.recent = n.recent /\ n'.passed = n.passed
      /\ n'.alerts = n.alerts /\ n'.lost = n.lost /\ n'.q = q
  BY <1>1, <1>2, <1>3, Updates
<1> QED BY <1>1, <1>2, <1>4 DEF Get, q

LEMMA GetBase == ASSUME Base, Get PROVE Base'
<1>1. /\ UNCHANGED <<checks, now, stop, tried, phone>> /\ n.q # <<>> /\ n.q \in Seq(Nat)
      /\ n' \in Notifiers /\ n'.passed = n.passed /\ n'.q = Tail(n.q)
      /\ hand' = n.q[1] /\ 1 \in DOMAIN n.q
      /\ worker' = IF hand' = 0 THEN "ended" ELSE "posting"
  BY GetParts
<1>2. Len(n.passed) \in Nat /\ n.q[1] \in Nat /\ n.q[1] <= Len(n.passed)
  BY <1>1, Parts DEF Base, TypeOK, QueuedPassed
<1>3. TypeOK'
  BY <1>1, <1>2 DEF Base, TypeOK, checks
<1>4. KindsAgree(n') /\ CallsPlain'
  BY <1>1 DEF Base, KindsAgree, CallsPlain, checks
<1>5. QueuedPassed(n')
  <2>1. \A i \in DOMAIN n'.q : i + 1 \in DOMAIN n.q /\ n'.q[i] = n.q[i + 1]
    BY <1>1
  <2> QED BY <1>1, <2>1 DEF Base, QueuedPassed
<1> QED BY <1>3, <1>4, <1>5 DEF Base

(* The steps of the worker between two messages.                            *)
LEMMA HeadBase == ASSUME Base, LoopHead \/ GetTimesOut \/ Exit PROVE Base'
<1>1. UNCHANGED <<n, call, raced, now, stop, hand, tried, phone>>
      /\ (worker' = "posting" => worker = "posting")
      /\ worker' \in {"head", "waiting", "ended"}
  BY DEF LoopHead, GetTimesOut, Exit, callers, checks
<1>2. TypeOK'
  BY <1>1 DEF Base, TypeOK
<1> QED BY <1>1, <1>2 DEF Base, CallsPlain

(* What is in hand is a message, and one of a key is no event.              *)
LEMMA InHand ==
  ASSUME Base, worker = "posting"
  PROVE  /\ hand \in 1..Len(n.passed)
         /\ Message.key \in Keys \cup {"event"}
         /\ Message.key \in Keys => Message.kind \in {"failure", "recovery"}
<1>1. n \in Notifiers /\ hand \in 0..Len(n.passed) /\ hand # 0 /\ KindsAgree(n)
  BY DEF Base, TypeOK
<1>2. hand \in DOMAIN n.passed /\ hand \in 1..Len(n.passed)
  BY <1>1, Parts
<1>3. Message \in Messages
  BY <1>1, <1>2, Parts DEF Message
<1>4. Message.kind = "event" <=> Message.key = "event"
  BY <1>1, <1>2 DEF KindsAgree, Message
<1> QED BY <1>2, <1>3, <1>4, AlertsAssumption DEF Messages

LEMMA PostedBase == ASSUME Base, Posted PROVE Base'
<1>1. hand \in 1..Len(n.passed)
      /\ (Message.key \in Keys => Message.kind \in {"failure", "recovery"})
  BY InHand DEF Posted
<1>2. UNCHANGED callers /\ worker' = "head" /\ hand' = 0 /\ tried' = tried \cup {hand}
  BY DEF Posted
<1>3. phone' \in [Keys -> {"failure", "recovery"}]
  BY <1>1 DEF Posted, Base, TypeOK
<1>4. n \in Notifiers /\ Len(n.passed) \in Nat
  BY Parts DEF Base, TypeOK
<1>5. TypeOK'
  BY <1>1, <1>2, <1>3, <1>4 DEF Base, TypeOK, callers, checks
<1> QED BY <1>2, <1>5 DEF Base, callers, checks, CallsPlain

LEMMA PostFailsParts ==
  ASSUME Base, PostFails
  PROVE  /\ UNCHANGED <<checks, now, stop, phone>> /\ worker = "posting" /\ worker' = "head"
         /\ hand' = 0 /\ tried' = tried \cup {hand} /\ hand \in 1..Len(n.passed)
         /\ n' \in Notifiers /\ n'.recent = n.recent /\ n'.passed = n.passed
         /\ n'.alerts = n.alerts /\ n'.q = n.q /\ n'.lost = n.lost \cup {Message.key}
<1> DEFINE k == Message.key
<1>1. hand \in 1..Len(n.passed) /\ k \in Keys \cup {"event"} /\ n \in Notifiers
  BY InHand DEF PostFails, Base, TypeOK
<1>2. n' = [n EXCEPT !.lost = @ \cup {k}]
  BY DEF PostFails
<1> HIDE DEF k
<1>3. /\ n' \in Notifiers /\ n'.recent = n.recent /\ n'.passed = n.passed
      /\ n'.alerts = n.alerts /\ n'.q = n.q /\ n'.lost = n.lost \cup {k}
  BY <1>1, <1>2, Updates
<1> QED BY <1>1, <1>3 DEF PostFails, k

LEMMA PostFailsBase == ASSUME Base, PostFails PROVE Base'
<1>1. /\ UNCHANGED <<checks, now, stop, phone>> /\ worker' = "head"
      /\ hand' = 0 /\ tried' = tried \cup {hand} /\ hand \in 1..Len(n.passed)
      /\ n' \in Notifiers /\ n'.passed = n.passed /\ n'.q = n.q
  BY PostFailsParts
<1>2. Len(n.passed) \in Nat
  BY Parts DEF Base, TypeOK
<1>3. TypeOK'
  BY <1>1, <1>2 DEF Base, TypeOK, checks
<1> QED BY <1>1, <1>3 DEF Base, KindsAgree, QueuedPassed, CallsPlain, checks

LEMMA InitBase == Init => Base
<1> SUFFICES ASSUME Init PROVE Base
  OBVIOUS
<1>1. n \in Notifiers /\ n.passed = <<>> /\ n.q = <<>>
  <2>1. [k \in Keys |-> NoAlert] \in [Keys -> Alert \cup {NoAlert}]
    OBVIOUS
  <2>2. <<>> \in Seq(Messages) /\ <<>> \in Seq(Nat) /\ {} \in SUBSET (Nat \ {0})
        /\ {} \in SUBSET (Keys \cup {"event"})
    OBVIOUS
  <2> QED BY <2>1, <2>2 DEF Init, FreshNotifier, Notifiers
<1>2. Len(n.passed) = 0
  BY <1>1
<1>3. TypeOK
  <2>1. call \in [Threads -> Call]
    BY NoCallParts DEF Init
  <2>2. /\ raced = {} /\ now = 0 /\ stop = FALSE /\ worker = "head" /\ hand = 0 /\ tried = {}
        /\ phone \in [Keys -> {"failure", "recovery"}]
    BY DEF Init
  <2>3. hand \in 0..Len(n.passed) /\ tried \subseteq 1..Len(n.passed) /\ raced \subseteq 1..Len(n.passed)
    BY <1>2, <2>2
  <2>4. now \in Nat /\ stop \in BOOLEAN /\ worker # "posting"
        /\ worker \in {"head", "waiting", "posting", "ended"}
    BY <2>2
  <2> QED BY <1>1, <2>1, <2>2, <2>3, <2>4 DEF TypeOK
<1>4. CallsPlain
  BY <1>2, NoCallParts DEF Init, CallsPlain
<1> QED BY <1>1, <1>3, <1>4 DEF Base, KindsAgree, QueuedPassed

LEMMA NextBase == ASSUME Base, [Next]_vars PROVE Base'
<1>1. CASE \E c \in Threads : Says(c)
  BY <1>1, ReportBase, TrimBase, AssignBase, CheckBase, PassBase, PutBase DEF Says
<1>2. CASE UNCHANGED vars
  BY <1>2 DEF vars, callers, checks, thread, Base, TypeOK, CallsPlain
<1> QED BY <1>1, <1>2, EventBase, ShutdownBase, TickBase, GetBase, HeadBase, PostedBase,
           PostFailsBase DEF Next

----------------------------------------------------------------------------
(* The rate cap.  The messages of the last hour that passed undisturbed ... *)
Fresh == {i \in DOMAIN n.passed \ raced : n.passed[i].at > now - Hour}

(* ... passed in the order of time, ...                                     *)
Timed == /\ \A i \in DOMAIN n.passed : n.passed[i].at <= now
         /\ \A i, j \in DOMAIN n.passed : i <= j => n.passed[i].at <= n.passed[j].at

(* ... and are still counted, also by a thread that is about to replace the *)
(* list: what was appended since it read the list raced it.                 *)
Counted ==
  /\ n.recent \subseteq DOMAIN n.passed /\ Fresh \subseteq n.recent
  /\ \A c \in Threads : call[c].step = "assign" =>
       call[c].kept \subseteq DOMAIN n.passed /\ Fresh \subseteq call[c].kept

(* Two threads inside _rate_ok know of each other, ...                      *)
Crossed == \A c, d \in Threads : c # d /\ Checking(c) /\ Checking(d) => call[c].raced

(* ... and to one that is alone the room it found is still there.           *)
Room == \A c \in Threads :
  call[c].step \in {"append", "astray"} /\ ~call[c].raced
    => call[c].step = "append" /\ Cardinality(Fresh) < MaxPerHour

Cap == Timed /\ Counted /\ Crossed /\ Room /\ HourlyCap

LEMMA FreshFinite ==
  ASSUME TypeOK, NEW S, S \subseteq DOMAIN n.passed
  PROVE  IsFiniteSet(S) /\ Cardinality(S) \in Nat
<1>1. DOMAIN n.passed = 1 .. Len(n.passed) /\ Len(n.passed) \in Nat
  BY Parts DEF TypeOK
<1>2. IsFiniteSet(1 .. Len(n.passed))
  BY <1>1, FS_Interval
<1>3. IsFiniteSet(S)
  BY <1>1, <1>2, FS_Subset
<1> QED BY <1>3, FS_CardinalityType

(* Nothing passes, and no thread gets further in _rate_ok.                  *)
LEMMA SameCap ==
  ASSUME Cap, n'.passed = n.passed, n'.recent = n.recent, raced' = raced, now' = now,
         \A c \in Threads : \/ call'[c] = call[c]
                            \/ call'[c].step \notin {"assign", "check", "append", "astray"}
  PROVE  Cap'
<1>1. Fresh' = Fresh
  BY DEF Fresh
<1>2. \A c \in Threads : Checking(c)' => call'[c] = call[c]
  BY DEF Checking
<1>3. Timed' /\ HourlyCap'
  BY DEF Cap, Timed, HourlyCap
<1>4. Counted'
  BY <1>1, <1>2 DEF Cap, Counted, Checking
<1>5. Crossed'
  BY <1>2 DEF Cap, Crossed, Checking
<1>6. Room'
  BY <1>1, <1>2 DEF Cap, Room, Checking
<1> QED BY <1>3, <1>4, <1>5, <1>6 DEF Cap

LEMMA TrimCap == ASSUME TypeOK, Cap, NEW c \in Threads, Trim(c) PROVE Cap'
<1>1. /\ UNCHANGED <<n, raced, now>> /\ call[c].step = "trim"
      /\ call'[c].step = "assign" /\ call'[c].kept = StillRecent(n, now)
      /\ call'[c].raced <=> \E d \in Threads \ {c} : Checking(d)
      /\ \A d \in Threads \ {c} : call'[d].step = call[d].step /\ call'[d].kept = call[d].kept
      /\ \A d \in Threads \ {c} : call'[d].raced <=> call[d].raced \/ Checking(d)
  BY TrimStep
<1>2. Fresh' = Fresh /\ \A d \in Threads \ {c} : Checking(d)' <=> Checking(d)
  BY <1>1 DEF Fresh, Checking
<1>3. Timed' /\ HourlyCap'
  BY <1>1 DEF Cap, Timed, HourlyCap
<1>4. Counted'
  <2>1. StillRecent(n, now) \subseteq DOMAIN n.passed /\ Fresh \subseteq StillRecent(n, now)
    BY DEF Cap, Counted, StillRecent, Fresh
  <2> QED BY <1>1, <1>2, <2>1 DEF Cap, Counted
<1>5. Crossed'
  <2>1. ASSUME NEW d \in Threads, NEW e \in Threads, d # e, Checking(d)', Checking(e)'
        PROVE  call'[d].raced
    <3>1. CASE d = c
      BY <1>1, <1>2, <2>1, <3>1
    <3>2. CASE d # c
      BY <1>1, <1>2, <2>1, <3>2
    <3> QED BY <3>1, <3>2
  <2> QED BY <2>1 DEF Crossed
<1>6. Room'
  BY <1>1, <1>2 DEF Cap, Room
<1> QED BY <1>3, <1>4, <1>5, <1>6 DEF Cap

LEMMA AssignCap == ASSUME TypeOK, Cap, NEW c \in Threads, Assign(c) PROVE Cap'
<1>1. /\ UNCHANGED <<raced, now>> /\ call[c].step = "assign"
      /\ n'.recent = call[c].kept /\ n'.passed = n.passed /\ call'[c].step = "check"
      /\ \A d \in Threads \ {c} :
           /\ call'[d].step = IF call[d].step = "append" THEN "astray" ELSE call[d].step
           /\ call'[d].kept = call[d].kept
      /\ \A d \in Threads : call'[d].raced = call[d].raced
  BY AssignStep
<1>2. Fresh' = Fresh /\ \A d \in Threads : Checking(d)' <=> Checking(d)
  BY <1>1 DEF Fresh, Checking
<1>3. Timed' /\ HourlyCap'
  BY <1>1 DEF Cap, Timed, HourlyCap
<1>4. Counted'
  BY <1>1, <1>2 DEF Cap, Counted
<1>5. Crossed'
  BY <1>1, <1>2 DEF Cap, Crossed
<1>6. Room'
  <2>1. ASSUME NEW d \in Threads, call'[d].step \in {"append", "astray"} PROVE call'[d].raced
    <3>1. d # c /\ Checking(d) /\ Checking(c)
      BY <1>1, <2>1 DEF Checking
    <3> QED BY <1>1, <3>1 DEF Cap, Crossed
  <2> QED BY <2>1 DEF Room
<1> QED BY <1>3, <1>4, <1>5, <1>6 DEF Cap

LEMMA CheckCap == ASSUME TypeOK, Cap, NEW c \in Threads, Check(c) PROVE Cap'
<1>1. /\ UNCHANGED <<raced, now>> /\ call[c].step = "check"
      /\ n'.recent = n.recent /\ n'.passed = n.passed
      /\ \A d \in Threads \ {c} : call'[d] = call[d]
      /\ \/ call'[c] = NoCall
         \/ /\ ~(Cardinality(n.recent) >= MaxPerHour)
            /\ call'[c].step = "append" /\ call'[c].raced = call[c].raced
  BY CheckStep
<1>2. CASE call'[c] = NoCall
  BY <1>1, <1>2, NoCallParts, SameCap
<1>3. CASE ~(Cardinality(n.recent) >= MaxPerHour) /\ call'[c].step = "append"
           /\ call'[c].raced = call[c].raced
  <2>1. Fresh' = Fresh /\ \A d \in Threads : /\ Checking(d)' <=> Checking(d)
                                             /\ call'[d].raced = call[d].raced
    BY <1>1, <1>3 DEF Fresh, Checking
  <2>2. Timed' /\ HourlyCap'
    BY <1>1 DEF Cap, Timed, HourlyCap
  <2>3. Counted'
    BY <1>1, <1>3, <2>1 DEF Cap, Counted
  <2>4. Crossed'
    BY <2>1 DEF Cap, Crossed
  <2>5. Cardinality(Fresh) < MaxPerHour
    <3>1. n.recent \subseteq DOMAIN n.passed /\ Fresh \subseteq n.recent
      BY DEF Cap, Counted
    <3>2. IsFiniteSet(n.recent) /\ Cardinality(n.recent) \in Nat
      BY <3>1, FreshFinite
    <3>3. Cardinality(Fresh) <= Cardinality(n.recent)
      BY <3>1, <3>2, FS_Subset
    <3>4. Cardinality(Fresh) \in Nat /\ MaxPerHour \in Nat
      BY <3>1, FreshFinite, AlertsAssumption
    <3> QED BY <1>3, <3>2, <3>3, <3>4
  <2>6. Room'
    BY <1>1, <1>3, <2>1, <2>5 DEF Cap, Room
  <2> QED BY <2>2, <2>3, <2>4, <2>6 DEF Cap
<1> QED BY <1>1, <1>2, <1>3

(* A message that passes undisturbed has found room for itself.             *)
LEMMA PassCap == ASSUME Base, Base', Cap, NEW c \in Threads, Pass(c) PROVE Cap'
<1> DEFINE place == Len(n.passed) + 1
           m == [key |-> call[c].key, kind |-> call[c].kind, at |-> now]
           p == n.passed
           e == n'.passed
<1>1. /\ now' = now /\ call[c].step \in {"append", "astray"} /\ m \in Messages
      /\ e = Append(p, m)
      /\ \/ n'.recent = n.recent \cup {place}
         \/ call[c].step = "astray" /\ n'.recent = n.recent
      /\ raced' = IF call[c].raced THEN raced \cup {place} ELSE raced
      /\ \A d \in Threads \ {c} : call'[d] = call[d]
      /\ call'[c].step = "put"
  BY PassStep DEF Base
<1>2. m.at = now
  OBVIOUS
<1>3. /\ p \in Seq(Messages) /\ Len(p) \in Nat /\ DOMAIN p = 1 .. Len(p)
      /\ \A i \in DOMAIN p : p[i].at \in Nat
      /\ now \in Nat /\ raced \subseteq DOMAIN p /\ Hour \in Nat \ {0} /\ MaxPerHour \in Nat \ {0}
  BY Parts, AlertsAssumption DEF Base, TypeOK
<1> HIDE DEF m
<1>4. /\ DOMAIN e = DOMAIN p \cup {place} /\ place \notin DOMAIN p /\ place \in Nat
      /\ \A i \in DOMAIN p : e[i] = p[i] /\ i <= place /\ i \in Nat
      /\ e[place] = m /\ e[place].at = now
  BY <1>1, <1>2, <1>3
<1> HIDE DEF place, e, p
<1>5. Timed'
  <2>1. \A i \in DOMAIN e : e[i].at <= now
    BY <1>3, <1>4 DEF Cap, Timed, p
  <2>2. ASSUME NEW i \in DOMAIN e, NEW j \in DOMAIN e, i <= j PROVE e[i].at <= e[j].at
    <3>1. CASE j = place
      BY <1>4, <2>1, <3>1
    <3>2. CASE j \in DOMAIN p
      <4>1. i \in DOMAIN p
        BY <1>3, <1>4, <2>2, <3>2
      <4> QED BY <1>4, <2>2, <3>2, <4>1 DEF Cap, Timed, p
    <3> QED BY <1>4, <3>1, <3>2
  <2> QED BY <1>1, <2>1, <2>2 DEF Timed, e
<1>6. Fresh' = IF call[c].raced THEN Fresh ELSE Fresh \cup {place}
  <2>1. Fresh' = {i \in DOMAIN e \ raced' : e[i].at > now - Hour}
    BY <1>1 DEF Fresh, e
  <2>2. Fresh = {i \in DOMAIN p \ raced : p[i].at > now - Hour}
    BY DEF Fresh, p
  <2>3. now > now - Hour
    BY <1>3
  <2>4. CASE call[c].raced
    BY <1>1, <1>3, <1>4, <2>1, <2>2, <2>4
  <2>5. CASE ~call[c].raced
    BY <1>1, <1>3, <1>4, <2>1, <2>2, <2>3, <2>5
  <2> QED BY <2>4, <2>5
<1>7. ~call[c].raced => /\ n'.recent = n.recent \cup {place}
                        /\ Cardinality(Fresh) < MaxPerHour
                        /\ \A d \in Threads \ {c} : ~Checking(d)
  BY <1>1 DEF Cap, Room, Crossed, Checking
<1>8. Counted'
  <2>1. n'.recent \subseteq DOMAIN e /\ Fresh' \subseteq n'.recent
    BY <1>1, <1>4, <1>6, <1>7 DEF Cap, Counted, p
  <2>2. ASSUME NEW d \in Threads, call'[d].step = "assign"
        PROVE  call'[d].kept \subseteq DOMAIN e /\ Fresh' \subseteq call'[d].kept
    <3>1. d # c /\ call'[d] = call[d] /\ Checking(d)
      BY <1>1, <2>2 DEF Checking
    <3> QED BY <1>4, <1>6, <1>7, <2>2, <3>1 DEF Cap, Counted, p
  <2> QED BY <2>1, <2>2 DEF Counted, e
<1>9. Crossed'
  BY <1>1 DEF Cap, Crossed, Checking
<1>10. Room'
  <2>1. ASSUME NEW d \in Threads, call'[d].step \in {"append", "astray"}, ~call'[d].raced
        PROVE  call'[d].step = "append" /\ Cardinality(Fresh') < MaxPerHour
    <3>1. d # c /\ call'[d] = call[d] /\ Checking(d) /\ Checking(c)
      BY <1>1, <2>1 DEF Checking
    <3>2. call[d].raced
      BY <3>1 DEF Cap, Crossed
    <3> QED BY <2>1, <3>1, <3>2
  <2> QED BY <2>1 DEF Room
<1>11. HourlyCap'
  <2> SUFFICES ASSUME NEW i \in DOMAIN e, NEW j \in DOMAIN e, e[j].at - e[i].at < Hour
               PROVE  Cardinality((i..j) \ raced') <= MaxPerHour
    BY DEF HourlyCap, e
  <2>1. CASE i = place
    <3>1. (i..j) \ raced' \subseteq {place}
      BY <1>3, <1>4, <2>1
    <3>2. IsFiniteSet({place}) /\ Cardinality({place}) = 1
      BY FS_Singleton
    <3>3. Cardinality((i..j) \ raced') <= 1
      BY <3>1, <3>2, FS_Subset
    <3>4. Cardinality((i..j) \ raced') \in Nat
      BY <3>1, <3>2, FS_Subset, FS_CardinalityType
    <3> QED BY <1>3, <3>3, <3>4
  <2>2. CASE i \in DOMAIN p /\ j \in DOMAIN p
    <3>1. p[j].at - p[i].at < Hour
      BY <1>4, <2>2
    <3>2. Cardinality((i..j) \ raced) <= MaxPerHour
      BY <2>2, <3>1 DEF Cap, HourlyCap, p
    <3>3. (i..j) \ raced' = (i..j) \ raced
      <4>1. place \notin i..j
        BY <1>3, <1>4, <2>2
      <4> QED BY <1>1, <4>1
    <3> QED BY <3>2, <3>3
  <2>3. CASE i \in DOMAIN p /\ j = place
    <3> DEFINE W == (i..Len(p)) \ raced
    <3>1. (i..place) \ raced' = IF call[c].raced THEN W ELSE W \cup {place}
      <4>1. i..place = (i..Len(p)) \cup {place} /\ place \notin raced
        BY <1>3, <1>4, <2>3 DEF place, p
      <4>2. \A l \in i..Len(p) : l # place
        BY <1>3, <1>4, <2>3
      <4> HIDE DEF place, p
      <4> QED BY <1>1, <4>1, <4>2
    <3>2. p[i].at > now - Hour
      BY <1>3, <1>4, <2>3
    <3>3. W \subseteq Fresh
      <4>1. ASSUME NEW l \in i..Len(p), l \notin raced PROVE l \in Fresh
        <5>1. l \in DOMAIN p /\ i <= l
          BY <1>3, <2>3, <4>1
        <5>2. p[i].at <= p[l].at
          BY <2>3, <5>1 DEF Cap, Timed, p
        <5>3. p[l].at > now - Hour
          BY <1>3, <2>3, <3>2, <5>1, <5>2
        <5> QED BY <4>1, <5>1, <5>3 DEF Fresh, p
      <4> QED BY <4>1
    <3>4. Fresh \subseteq DOMAIN n.passed /\ TypeOK
      BY DEF Fresh, Base
    <3>5. IsFiniteSet(Fresh) /\ Cardinality(Fresh) \in Nat
      BY <3>4, FreshFinite
    <3>6. IsFiniteSet(W) /\ Cardinality(W) <= Cardinality(Fresh) /\ Cardinality(W) \in Nat
      BY <3>3, <3>5, FS_Subset, FS_CardinalityType
    <3>7. CASE ~call[c].raced
      <4>1. Cardinality(W \cup {place}) <= Cardinality(W) + 1 /\ Cardinality(W \cup {place}) \in Nat
        <5>1. /\ IsFiniteSet(W \cup {place})
              /\ Cardinality(W \cup {place}) = IF place \in W THEN Cardinality(W) ELSE Cardinality(W) + 1
          BY <3>6, FS_AddElement
        <5> QED BY <3>6, <5>1
      <4>2. Cardinality(W \cup {place}) <= MaxPerHour
        <5> HIDE DEF W
        <5> QED BY <1>3, <1>7, <3>5, <3>6, <3>7, <4>1
      <4>3. (i..j) \ raced' = W \cup {place}
        BY <2>3, <3>1, <3>7
      <4> QED BY <4>2, <4>3
    <3>8. CASE call[c].raced
      <4>1. i..Len(p) = i..Len(p) /\ Len(p) \in DOMAIN p
        BY <1>3, <2>3
      <4>2. p[Len(p)].at - p[i].at < Hour
        <5>1. p[Len(p)].at <= now /\ p[Len(p)].at \in Nat /\ p[i].at \in Nat
          BY <1>3, <2>3, <4>1 DEF Cap, Timed, p
        <5> QED BY <1>3, <3>2, <5>1
      <4>3. Cardinality(W) <= MaxPerHour
        BY <2>3, <4>1, <4>2 DEF Cap, HourlyCap, p
      <4> QED BY <2>3, <3>1, <3>8, <4>3
    <3> QED BY <3>7, <3>8
  <2> QED BY <1>4, <2>1, <2>2, <2>3
<1> QED BY <1>5, <1>8, <1>9, <1>10, <1>11 DEF Cap

LEMMA TickCap == ASSUME TypeOK, Cap, Tick PROVE Cap'
<1>1. UNCHANGED <<n, call, raced>> /\ now' = now + 1 /\ now \in Nat /\ Hour \in Nat
  BY AlertsAssumption DEF Tick, checks, TypeOK
<1>2. \A i \in DOMAIN n.passed : n.passed[i].at \in Nat
  BY Parts DEF TypeOK
<1>3. Fresh' \subseteq Fresh
  BY <1>1, <1>2 DEF Fresh
<1>4. Timed'
  BY <1>1, <1>2 DEF Cap, Timed
<1>5. HourlyCap'
  BY <1>1 DEF Cap, HourlyCap
<1>6. Counted'
  BY <1>1, <1>3 DEF Cap, Counted
<1>7. Crossed'
  BY <1>1 DEF Cap, Crossed, Checking
<1>8. Room'
  <2>1. Fresh \subseteq DOMAIN n.passed
    BY DEF Fresh
  <2>2. IsFiniteSet(Fresh) /\ Cardinality(Fresh) \in Nat
    BY <2>1, FreshFinite
  <2>3. Cardinality(Fresh') <= Cardinality(Fresh) /\ Cardinality(Fresh') \in Nat
    BY <1>3, <2>2, FS_Subset, FS_CardinalityType
  <2>4. MaxPerHour \in Nat
    BY AlertsAssumption
  <2> QED BY <1>1, <2>2, <2>3, <2>4 DEF Cap, Room
<1> QED BY <1>4, <1>5, <1>6, <1>7, <1>8 DEF Cap

Inv == Base /\ Cap

LEMMA NextInv == ASSUME Inv, [Next]_vars PROVE Inv'
<1>1. Base /\ Cap /\ TypeOK /\ Base'
  BY NextBase DEF Inv, Base
<1>2. ASSUME NEW c \in Threads, CallFailure(c) \/ CallResolved(c) PROVE Cap'
  <2>1. /\ UNCHANGED <<raced, now>> /\ n'.recent = n.recent /\ n'.passed = n.passed
        /\ call' = call \/ \E k \in Keys, kind \in Kinds : Ask(c, k, kind)
    <3>1. KeysOf(c) \subseteq Keys
      BY NotifierAssumption DEF KeysOf
    <3> QED BY <1>1, <1>2, <3>1, ReportStep DEF Kinds
  <2>2. CASE call' = call
    BY <1>1, <2>1, <2>2, SameCap
  <2>3. CASE \E k \in Keys, kind \in Kinds : Ask(c, k, kind)
    <3>1. call'[c].step = "trim" /\ \A d \in Threads \ {c} : call'[d] = call[d]
      BY <1>1, <2>3, AskStep
    <3> QED BY <1>1, <2>1, <3>1, SameCap
  <2> QED BY <2>1, <2>2, <2>3
<1>3. ASSUME CallEvent PROVE Cap'
  <2>1. "main" \in Threads /\ "event" \in Kinds /\ Ask("main", "event", "event")
        /\ UNCHANGED <<n, raced, now>>
    BY <1>3 DEF CallEvent, Threads, Kinds
  <2>2. call'["main"].step = "trim" /\ \A d \in Threads \ {"main"} : call'[d] = call[d]
    BY <1>1, <2>1, AskStep
  <2> QED BY <1>1, <2>1, <2>2, SameCap
<1>4. ASSUME NEW c \in Threads, Put(c) PROVE Cap'
  <2>1. /\ UNCHANGED <<raced, now>> /\ n'.recent = n.recent /\ n'.passed = n.passed
        /\ call'[c] = NoCall /\ \A d \in Threads \ {c} : call'[d] = call[d]
    BY <1>1, <1>4, PutStep
  <2> QED BY <1>1, <2>1, NoCallParts, SameCap
<1>5. ASSUME Shutdown PROVE Cap'
  <2>1. /\ UNCHANGED <<call, raced, now>>
        /\ n' = n \/ n' = [n EXCEPT !.q = Append(@, 0)]
    BY <1>5 DEF Shutdown, checks
  <2>2. n.q \in Seq(Nat) /\ n \in Notifiers /\ Append(n.q, 0) \in Seq(Nat)
    BY <1>1, Parts DEF TypeOK
  <2>3. n'.recent = n.recent /\ n'.passed = n.passed
    <3> DEFINE q == Append(n.q, 0)
    <3>1. n' = n \/ n' = [n EXCEPT !.q = q]
      BY <2>1
    <3>2. q \in Seq(Nat)
      BY <2>2
    <3> HIDE DEF q
    <3>3. CASE n' = [n EXCEPT !.q = q]
      BY <2>2, <3>2, <3>3, Updates
    <3> QED BY <3>1, <3>3
  <2> QED BY <1>1, <2>1, <2>3, SameCap
<1>6. ASSUME Get PROVE Cap'
  <2>1. UNCHANGED <<call, raced, now>> /\ n'.recent = n.recent /\ n'.passed = n.passed
    BY <1>1, <1>6, GetParts DEF checks
  <2> QED BY <1>1, <2>1, SameCap
<1>7. ASSUME PostFails PROVE Cap'
  <2>1. UNCHANGED <<call, raced, now>> /\ n'.recent = n.recent /\ n'.passed = n.passed
    BY <1>1, <1>7, PostFailsParts DEF checks
  <2> QED BY <1>1, <2>1, SameCap
<1>8. ASSUME LoopHead \/ GetTimesOut \/ Posted \/ Exit \/ UNCHANGED vars PROVE Cap'
  <2>1. UNCHANGED <<n, call, raced, now>>
    BY <1>8 DEF LoopHead, GetTimesOut, Posted, Exit, vars, callers, checks
  <2> QED BY <1>1, <2>1, SameCap
<1>9. Cap'
  BY <1>1, <1>2, <1>3, <1>4, <1>5, <1>6, <1>7, <1>8, TrimCap, AssignCap, CheckCap, PassCap,
     TickCap DEF Next, Says
<1> QED BY <1>1, <1>9 DEF Inv

LEMMA InitInv == Init => Inv
<1> SUFFICES ASSUME Init PROVE Inv
  OBVIOUS
<1>1. /\ DOMAIN n.passed = {} /\ n.recent = {} /\ \A c \in Threads : call[c] = NoCall
  BY DEF Init, FreshNotifier
<1>2. Fresh = {} /\ \A c \in Threads : call[c].step = "idle"
  BY <1>1, NoCallParts DEF Fresh
<1>3. Cap
  BY <1>1, <1>2 DEF Cap, Timed, Counted, Crossed, Room, HourlyCap, Checking
<1> QED BY <1>3, InitBase DEF Inv

LEMMA AlwaysInv == Spec => []Inv
BY InitInv, NextInv, PTL DEF Spec

----------------------------------------------------------------------------
(* What is said of a key, and what the phone shows of it.                   *)
Of(p, k) == {i \in DOMAIN p : p[i].key = k}

(* Failures and recoveries of a key alternate, and a failure comes first.   *)
Alternate(p, k) ==
  /\ \A i \in Of(p, k) : (\A j \in Of(p, k) : i <= j) => p[i].kind = "failure"
  /\ \A i, j \in Of(p, k) :
       i < j /\ (\A m \in Of(p, k) : m <= i \/ j <= m) => p[i].kind # p[j].kind

(* The last of some messages is of kind v; a phone without any shows none.  *)
LastIn(p, S, v) ==
  IF S = {} THEN v = "recovery"
  ELSE \E j \in S : (\A i \in S : i <= j) /\ p[j].kind = v

(* What the notifier would say of a key, and the contrary.                  *)
Word(k) == IF Announced(n.alerts[k]) THEN "failure" ELSE "recovery"
Contrary(k) == IF Announced(n.alerts[k]) THEN "recovery" ELSE "failure"

Saying(c, k) == /\ call[c].key = k
                /\ call[c].step \in {"trim", "assign", "check", "append", "astray"}
Placing(c, k) == call[c].key = k /\ call[c].step = "put"

(* The last message of the key says how it stands, unless one that does is  *)
(* about to pass.                                                           *)
Spoken(k) ==
  /\ Alternate(n.passed, k)
  /\ \A c \in Threads : Saying(c, k) => /\ call[c].kind = Word(k)
                                        /\ LastIn(n.passed, Of(n.passed, k), Contrary(k))
  /\ (\A c \in Threads : ~Saying(c, k)) => LastIn(n.passed, Of(n.passed, k), Word(k))

(* The messages of the key are in order: tried, in the hand, in the queue   *)
(* and on the way into it.                                                  *)
InOrder(k) ==
  LET S == Of(n.passed, k) IN
  /\ \A i, j \in DOMAIN n.q : i < j /\ n.q[i] \in S /\ n.q[j] \in S => n.q[i] < n.q[j]
  /\ \A i \in DOMAIN n.q : n.q[i] \in S =>
       /\ hand \in S => hand < n.q[i]
       /\ \A m \in tried \cap S : m < n.q[i]
  /\ hand \in S => \A m \in tried \cap S : m < hand
  /\ \A c \in Threads : Placing(c, k) =>
       /\ \A m \in S : m <= call[c].place
       /\ call[c].place \notin tried /\ call[c].place # hand
       /\ \A i \in DOMAIN n.q : n.q[i] # call[c].place

(* None of them is forgotten, and the phone shows the last that was tried.  *)
Kept(k) == \A m \in Of(n.passed, k) :
  \/ m \in tried \/ m = hand
  \/ \E i \in DOMAIN n.q : n.q[i] = m
  \/ \E c \in Threads : Placing(c, k) /\ call[c].place = m

Shows(k) == LastIn(n.passed, Of(n.passed, k) \cap tried, phone[k])

ToldOf(k) == Spoken(k) /\ InOrder(k) /\ Kept(k) /\ Shows(k)

Told == /\ Inv
        /\ hand # 0 => worker \in {"posting", "ended"}
        /\ \A c \in Threads : call[c].step = "put" => call[c].place \in Of(n.passed, call[c].key)
        /\ \A k \in Keys \ n.lost : ToldOf(k)

LEMMA Numbers ==
  ASSUME Base
  PROVE  /\ n \in Notifiers /\ n.passed \in Seq(Messages) /\ Len(n.passed) \in Nat
         /\ DOMAIN n.passed = 1 .. Len(n.passed)
         /\ n.q \in Seq(Nat) /\ \A i \in DOMAIN n.q : n.q[i] \in Nat /\ n.q[i] <= Len(n.passed)
         /\ \A k : \A m \in Of(n.passed, k) : m \in Nat /\ m # 0 /\ m <= Len(n.passed)
         /\ hand \in Nat /\ hand <= Len(n.passed) /\ tried \subseteq 1 .. Len(n.passed)
BY Parts DEF Base, TypeOK, QueuedPassed, Of

(* A key is spoken of by one thread.                                        *)
LEMMA OneSpeaker ==
  ASSUME Base, NEW k \in Keys, NEW c \in Threads, call[c].step # "idle" => call[c].key # k,
         k \in KeysOf(c)
  PROVE  \A d \in Threads : ~Saying(d, k) /\ ~Placing(d, k)
<1> SUFFICES ASSUME NEW d \in Threads, call[d].key = k, call[d].step # "idle" PROVE FALSE
  BY DEF Saying, Placing
<1>1. k \in KeysOf(d)
  BY AlertsAssumption DEF Base, CallsPlain
<1>2. d = c
  BY <1>1 DEF KeysOf, Threads
<1> QED BY <1>2

LEMMA OneCall ==
  ASSUME Base, NEW k \in Keys, NEW c \in Threads, call[c].step # "idle", call[c].key = k
  PROVE  k \in KeysOf(c) /\ \A d \in Threads \ {c} : ~Saying(d, k) /\ ~Placing(d, k)
<1>1. k \in KeysOf(c)
  BY AlertsAssumption DEF Base, CallsPlain
<1>2. ASSUME NEW d \in Threads \ {c}, call[d].key = k, call[d].step # "idle" PROVE FALSE
  <2>1. k \in KeysOf(d)
    BY <1>2, AlertsAssumption DEF Base, CallsPlain
  <2> QED BY <1>1, <2>1 DEF KeysOf, Threads
<1> QED BY <1>1, <1>2 DEF Saying, Placing

(* Nothing of the key happens.                                              *)
LEMMA Untouched ==
  ASSUME NEW k, ToldOf(k), phone[k] \in {"failure", "recovery"},
         Of(n'.passed, k) = Of(n.passed, k),
         \A m \in Of(n.passed, k) : n'.passed[m].kind = n.passed[m].kind,
         Announced(n'.alerts[k]) <=> Announced(n.alerts[k]),
         \A i \in DOMAIN n.q : i \in DOMAIN n'.q /\ n'.q[i] = n.q[i],
         \A i \in DOMAIN n'.q : \/ i \in DOMAIN n.q /\ n'.q[i] = n.q[i]
                                \/ /\ n'.q[i] \notin Of(n.passed, k)
                                   /\ \A c \in Threads : Placing(c, k) => n'.q[i] # call[c].place,
         hand' = hand, tried' = tried, phone'[k] = phone[k],
         \A c \in Threads : /\ Saying(c, k)' <=> Saying(c, k)
                            /\ Placing(c, k)' <=> Placing(c, k)
                            /\ Saying(c, k) => call'[c].kind = call[c].kind
                            /\ Placing(c, k) => call'[c].place = call[c].place
  PROVE  ToldOf(k)'
<1> DEFINE S == Of(n.passed, k)
<1>1. /\ Word(k)' = Word(k) /\ Contrary(k)' = Contrary(k)
      /\ Word(k) \in {"failure", "recovery"} /\ Contrary(k) \in {"failure", "recovery"}
  BY DEF Word, Contrary
<1>2. \A T \in SUBSET S, v \in {"failure", "recovery"} : LastIn(n.passed, T, v) => LastIn(n'.passed, T, v)
  BY DEF LastIn
<1>3. Alternate(n.passed, k) => Alternate(n'.passed, k)
  BY DEF Alternate
<1>4. Spoken(k)'
  BY <1>1, <1>2, <1>3 DEF ToldOf, Spoken
<1>5. Shows(k)'
  <2>1. S \cap tried \in SUBSET S
    OBVIOUS
  <2>2. LastIn(n'.passed, S \cap tried, phone[k])
    BY <1>2, <2>1 DEF ToldOf, Shows
  <2> QED BY <2>2 DEF Shows
<1>6. InOrder(k)'
  BY DEF ToldOf, InOrder
<1>7. Kept(k)'
  BY DEF ToldOf, Kept
<1> QED BY <1>4, <1>5, <1>6, <1>7 DEF ToldOf

(* The key has news, and its thread begins to say so.                       *)
LEMMA NewsTold ==
  ASSUME Base, NEW c \in Threads, NEW k \in KeysOf(c), NEW kind \in {"failure", "recovery"},
         ToldOf(k), call[c].step = "idle", Ask(c, k, kind), News(k, kind),
         n'.passed = n.passed, n'.q = n.q, UNCHANGED thread
  PROVE  ToldOf(k)'
<1>1. k \in Keys /\ kind \in Kinds /\ TypeOK
  BY NotifierAssumption DEF KeysOf, Kinds, Base
<1>2. \A d \in Threads : ~Saying(d, k) /\ ~Placing(d, k)
  BY <1>1, OneSpeaker
<1>3. /\ call'[c].step = "trim" /\ call'[c].key = k /\ call'[c].kind = kind
      /\ \A d \in Threads \ {c} : call'[d] = call[d]
  BY <1>1, AskStep
<1>4. /\ Saying(c, k)' /\ \A d \in Threads : ~Placing(d, k)'
      /\ \A d \in Threads \ {c} : ~Saying(d, k)'
  BY <1>2, <1>3 DEF Saying, Placing
<1>5. Word(k)' = kind /\ Contrary(k)' = Word(k)
  BY DEF News, Word, Contrary
<1>6. UNCHANGED <<hand, tried, phone>>
  BY DEF thread
<1>7. Spoken(k)'
  BY <1>2, <1>3, <1>4, <1>5 DEF ToldOf, Spoken
<1>8. InOrder(k)' /\ Kept(k)' /\ Shows(k)'
  BY <1>2, <1>4, <1>6 DEF ToldOf, InOrder, Kept, Shows
<1> QED BY <1>7, <1>8 DEF ToldOf

LEMMA ReportTold ==
  ASSUME Told, NEW c \in Threads, CallFailure(c) \/ CallResolved(c), NEW k \in Keys \ n'.lost
  PROVE  ToldOf(k)'
<1>1. Base /\ TypeOK
  BY DEF Told, Inv, Base
<1>2. call[c].step = "idle" /\ UNCHANGED <<raced, now, stop, thread>>
  BY <1>1, ReportStep
<1>3. PICK l \in KeysOf(c) :
        /\ n' \in Notifiers /\ n'.passed = n.passed /\ n'.q = n.q /\ n'.lost = n.lost
        /\ \A j \in Keys \ {l} : n'.alerts[j] = n.alerts[j]
        /\ \/ call' = call /\ (Announced(n'.alerts[l]) <=> Announced(n.alerts[l]))
           \/ \E kind \in {"failure", "recovery"} : Ask(c, l, kind) /\ News(l, kind)
  BY <1>1, ReportStep
<1>4. ToldOf(k) /\ l \in Keys /\ phone[k] \in {"failure", "recovery"}
  BY <1>1, <1>3, NotifierAssumption DEF Told, KeysOf, TypeOK
<1>5. CASE call' = call /\ (Announced(n'.alerts[l]) <=> Announced(n.alerts[l]))
  <2>1. Announced(n'.alerts[k]) <=> Announced(n.alerts[k])
    BY <1>3, <1>5
  <2>2. \A d \in Threads : (Saying(d, k)' <=> Saying(d, k)) /\ (Placing(d, k)' <=> Placing(d, k))
    BY <1>5 DEF Saying, Placing
  <2>3. UNCHANGED <<hand, tried, phone>>
    BY <1>2 DEF thread
  <2> QED BY <1>3, <1>4, <1>5, <2>1, <2>2, <2>3, Untouched
<1>6. CASE \E kind \in {"failure", "recovery"} : Ask(c, l, kind) /\ News(l, kind)
  <2>1. PICK kind \in {"failure", "recovery"} : Ask(c, l, kind) /\ News(l, kind)
    BY <1>6
  <2>2. CASE k = l
    BY <1>1, <1>2, <1>3, <1>4, <2>1, <2>2, NewsTold
  <2>3. CASE k # l
    <3>1. kind \in Kinds
      BY DEF Kinds
    <3>2. /\ call'[c].key = l /\ \A d \in Threads \ {c} : call'[d] = call[d]
      BY <1>1, <1>4, <2>1, <3>1, AskStep
    <3>3. \A d \in Threads : /\ Saying(d, k)' <=> Saying(d, k)
                             /\ Placing(d, k)' <=> Placing(d, k)
                             /\ Saying(d, k) \/ Placing(d, k) => call'[d] = call[d]
      BY <1>2, <2>3, <3>2 DEF Saying, Placing
    <3>4. UNCHANGED <<hand, tried, phone>> /\ n'.alerts[k] = n.alerts[k]
      BY <1>2, <1>3, <2>3 DEF thread
    <3> QED BY <1>3, <1>4, <3>3, <3>4, Untouched
  <2> QED BY <2>2, <2>3
<1> QED BY <1>3, <1>5, <1>6

(* What happens in _rate_ok before a message passes.                        *)
LEMMA CheckingTold ==
  ASSUME Told, NEW c \in Threads, Trim(c) \/ Assign(c) \/ Check(c), NEW k \in Keys \ n'.lost
  PROVE  ToldOf(k)'
<1>1. Base /\ TypeOK
  BY DEF Told, Inv, Base
<1>2. /\ UNCHANGED thread /\ n'.passed = n.passed /\ n'.q = n.q /\ n'.alerts = n.alerts
      /\ n.lost \subseteq n'.lost
  BY <1>1, TrimStep, AssignStep, CheckStep
<1>3. \A d \in Threads : /\ Saying(d, k)' <=> Saying(d, k)
                         /\ Placing(d, k)' <=> Placing(d, k)
                         /\ Saying(d, k) => call'[d].kind = call[d].kind
                         /\ Placing(d, k) => call'[d].place = call[d].place
  <2>1. CASE Trim(c)
    BY <1>1, <2>1, TrimStep DEF Saying, Placing
  <2>2. CASE Assign(c)
    BY <1>1, <2>2, AssignStep DEF Saying, Placing
  <2>3. CASE Check(c)
    <3>1. call'[c] = NoCall => n'.lost = n.lost \cup {call[c].key}
      BY <1>1, <2>3, CheckStep, NoCallParts
    <3>2. call'[c] = NoCall => call[c].key # k
      BY <3>1
    <3>3. "event" # k
      BY AlertsAssumption
    <3> QED BY <1>1, <2>3, <3>2, <3>3, CheckStep, NoCallParts DEF Saying, Placing
  <2> QED BY <2>1, <2>2, <2>3
<1>4. ToldOf(k) /\ UNCHANGED <<hand, tried, phone>> /\ phone[k] \in {"failure", "recovery"}
  BY <1>1, <1>2 DEF Told, thread, TypeOK
<1> QED BY <1>2, <1>3, <1>4, Untouched

LEMMA EventTold ==
  ASSUME Told, CallEvent, NEW k \in Keys \ n'.lost
  PROVE  ToldOf(k)'
<1>1. Base /\ TypeOK
  BY DEF Told, Inv, Base
<1>2. /\ "main" \in Threads /\ "event" \in Kinds /\ Ask("main", "event", "event")
      /\ UNCHANGED <<n, thread>> /\ call["main"].step = "idle"
  BY DEF CallEvent, Threads, Kinds
<1>3. call'["main"].key = "event" /\ \A d \in Threads \ {"main"} : call'[d] = call[d]
  BY <1>1, <1>2, AskStep
<1>4. \A d \in Threads : /\ Saying(d, k)' <=> Saying(d, k)
                         /\ Placing(d, k)' <=> Placing(d, k)
                         /\ Saying(d, k) \/ Placing(d, k) => call'[d] = call[d]
  BY <1>2, <1>3, AlertsAssumption DEF Saying, Placing
<1>5. ToldOf(k) /\ UNCHANGED <<hand, tried, phone>> /\ phone[k] \in {"failure", "recovery"}
  BY <1>1, <1>2 DEF Told, thread, TypeOK
<1> QED BY <1>2, <1>4, <1>5, Untouched

(* The message passes, and says of its key what the alert says.             *)
LEMMA PassTold ==
  ASSUME Told, NEW c \in Threads, Pass(c), NEW k \in Keys \ n'.lost
  PROVE  ToldOf(k)'
<1> DEFINE place == Len(n.passed) + 1
           m == [key |-> call[c].key, kind |-> call[c].kind, at |-> now]
           p == n.passed
           e == n'.passed
           S == Of(p, k)
<1>1. Base /\ TypeOK
  BY DEF Told, Inv, Base
<1>2. /\ UNCHANGED thread /\ call[c].step \in {"append", "astray"} /\ m \in Messages
      /\ e = Append(p, m) /\ n'.alerts = n.alerts /\ n'.q = n.q /\ n'.lost = n.lost
      /\ \A d \in Threads \ {c} : call'[d] = call[d]
      /\ call'[c].step = "put" /\ call'[c].key = call[c].key
      /\ call'[c].place = place
  BY <1>1, PassStep
<1>3. m.key = call[c].key /\ m.kind = call[c].kind
  OBVIOUS
<1>4. /\ p \in Seq(Messages) /\ Len(p) \in Nat /\ DOMAIN p = 1 .. Len(p)
      /\ \A i \in DOMAIN n.q : n.q[i] \in Nat /\ n.q[i] <= Len(p)
      /\ \A i \in S : i \in Nat /\ i # 0 /\ i <= Len(p)
      /\ hand \in Nat /\ hand <= Len(p) /\ tried \subseteq 1 .. Len(p)
  BY <1>1, Numbers
<1> HIDE DEF m
<1>5. /\ DOMAIN e = DOMAIN p \cup {place} /\ place \notin DOMAIN p /\ place \in Nat
      /\ \A i \in DOMAIN p : e[i] = p[i]
      /\ e[place] = m
  BY <1>2, <1>4
<1>6. /\ \A i \in S : i < place
      /\ \A i \in DOMAIN n.q : n.q[i] < place /\ n.q[i] # place
      /\ hand < place /\ hand # place /\ \A i \in tried : i < place /\ i # place
  BY <1>4
<1>7. ToldOf(k) /\ UNCHANGED <<hand, tried, phone>> /\ phone[k] \in {"failure", "recovery"}
  BY <1>1, <1>2 DEF Told, thread, TypeOK
<1> HIDE DEF place, p, e
<1>8. CASE call[c].key # k
  <2>1. Of(e, k) = S /\ \A i \in S : e[i].kind = p[i].kind
    BY <1>3, <1>5, <1>8 DEF Of
  <2>2. \A d \in Threads : /\ Saying(d, k)' <=> Saying(d, k)
                           /\ Placing(d, k)' <=> Placing(d, k)
                           /\ Saying(d, k) \/ Placing(d, k) => call'[d] = call[d]
    BY <1>2, <1>8 DEF Saying, Placing
  <2> QED BY <1>2, <1>7, <2>1, <2>2, Untouched DEF e, p
<1>9. CASE call[c].key = k
  <2> DEFINE T == Of(e, k)
  <2>1. /\ Saying(c, k) /\ \A d \in Threads : ~Placing(d, k)
        /\ \A d \in Threads \ {c} : ~Saying(d, k)
    BY <1>1, <1>2, <1>9, OneCall DEF Saying, Placing
  <2>2. /\ Placing(c, k)' /\ \A d \in Threads : ~Saying(d, k)'
        /\ \A d \in Threads \ {c} : ~Placing(d, k)'
    BY <1>2, <1>9, <2>1 DEF Saying, Placing
  <2>3. T = S \cup {place} /\ \A i \in S : e[i].kind = p[i].kind
    BY <1>3, <1>5, <1>9 DEF Of
  <2>4. Word(k)' = Word(k) /\ Contrary(k) # Word(k)
        /\ (Contrary(k) = "recovery" => Word(k) = "failure")
    BY <1>2 DEF Word, Contrary
  <2>5. /\ Alternate(p, k) /\ e[place].kind = Word(k) /\ LastIn(p, S, Contrary(k))
    BY <1>3, <1>5, <1>7, <2>1 DEF ToldOf, Spoken, p
  <2> HIDE DEF T, S
  <2>6. Alternate(e, k)
    <3>1. ASSUME NEW i \in T, \A j \in T : i <= j PROVE e[i].kind = "failure"
      <4>1. CASE i \in S
        <5>1. \A j \in S : i <= j
          BY <2>3, <3>1
        <5> QED BY <2>3, <2>5, <4>1, <5>1 DEF Alternate, S
      <4>2. CASE i = place
        <5>1. S = {}
          BY <1>4, <1>5, <1>6, <2>3, <3>1, <4>2 DEF S
        <5>2. Contrary(k) = "recovery"
          BY <2>5, <5>1 DEF LastIn
        <5> QED BY <2>4, <2>5, <4>2, <5>2
      <4> QED BY <2>3, <4>1, <4>2
    <3>2. ASSUME NEW i \in T, NEW j \in T, i < j, \A l \in T : l <= i \/ j <= l
          PROVE  e[i].kind # e[j].kind
      <4>1. i \in S
        BY <1>4, <1>5, <1>6, <2>3, <3>2 DEF S
      <4>2. CASE j \in S
        <5>1. p[i].kind # p[j].kind
          BY <2>3, <2>5, <3>2, <4>1, <4>2 DEF Alternate, S
        <5> QED BY <2>3, <4>1, <4>2, <5>1
      <4>3. CASE j = place
        <5>1. \A l \in S : l <= i
          BY <1>4, <1>5, <1>6, <2>3, <3>2, <4>1, <4>3 DEF S
        <5>2. PICK l \in S : (\A h \in S : h <= l) /\ p[l].kind = Contrary(k)
          BY <2>5, <4>1 DEF LastIn
        <5>3. l = i
          <6>1. l <= i /\ i <= l /\ l \in Nat /\ i \in Nat
            BY <1>4, <4>1, <5>1, <5>2 DEF S
          <6> QED BY <6>1
        <5> QED BY <2>3, <2>4, <2>5, <4>1, <4>3, <5>2, <5>3
      <4> QED BY <2>3, <4>2, <4>3
    <3> QED BY <3>1, <3>2 DEF Alternate, T
  <2>7. LastIn(e, T, Word(k))
    <3>1. \A i \in T : i <= place
      BY <1>4, <1>5, <1>6, <2>3 DEF S
    <3> QED BY <2>3, <2>5, <3>1 DEF LastIn
  <2>8. Spoken(k)'
    BY <2>2, <2>4, <2>6, <2>7 DEF Spoken, T, e
  <2>9. InOrder(k)'
    <3>1. InOrder(k)
      BY <1>7 DEF ToldOf
    <3>2. \A i \in DOMAIN n.q : n.q[i] \in T => n.q[i] \in S
      BY <1>6, <2>3
    <3>3. (hand \in T => hand \in S) /\ tried \cap T = tried \cap S
      BY <1>6, <2>3
    <3>4. /\ \A i \in T : i <= place
          /\ place \notin tried /\ place # hand /\ \A i \in DOMAIN n.q : n.q[i] # place
      BY <1>4, <1>5, <1>6, <2>3 DEF S
    <3> QED BY <1>2, <1>7, <2>2, <3>1, <3>2, <3>3, <3>4 DEF InOrder, T, S, e, p
  <2>10. Kept(k)'
    <3>1. ASSUME NEW i \in S
          PROVE  i \in tried \/ i = hand \/ \E j \in DOMAIN n.q : n.q[j] = i
      BY <1>7, <2>1 DEF ToldOf, Kept, S, p
    <3> QED BY <1>2, <1>7, <2>2, <2>3, <3>1 DEF Kept, T, e
  <2>11. Shows(k)'
    <3>1. T \cap tried = S \cap tried
      BY <1>6, <2>3
    <3>2. LastIn(p, S \cap tried, phone[k])
      BY <1>7 DEF ToldOf, Shows, S, p
    <3>3. LastIn(e, T \cap tried, phone[k])
      BY <2>3, <3>1, <3>2 DEF LastIn
    <3> QED BY <1>7, <3>3 DEF Shows, T, e
  <2> QED BY <2>8, <2>9, <2>10, <2>11 DEF ToldOf
<1> QED BY <1>8, <1>9

(* The message gets into the queue, behind those of its key.                *)
LEMMA PutTold ==
  ASSUME Told, NEW c \in Threads, Put(c), NEW k \in Keys \ n'.lost
  PROVE  ToldOf(k)'
<1> DEFINE i0 == call[c].place
           S == Of(n.passed, k)
           q == n.q
           w == n'.q
<1>1. Base /\ TypeOK
  BY DEF Told, Inv, Base
<1>2. /\ UNCHANGED thread /\ call[c].step = "put" /\ n'.passed = n.passed
      /\ n'.alerts = n.alerts
      /\ \/ w = Append(q, i0) /\ n'.lost = n.lost
         \/ w = q /\ n'.lost = n.lost \cup {call[c].key}
      /\ call'[c] = NoCall /\ \A d \in Threads \ {c} : call'[d] = call[d]
  BY <1>1, PutStep
<1>3. ToldOf(k) /\ UNCHANGED <<hand, tried, phone>> /\ phone[k] \in {"failure", "recovery"}
  BY <1>1, <1>2 DEF Told, thread, TypeOK
<1>4. /\ q \in Seq(Nat) /\ i0 \in Nat /\ i0 \in Of(n.passed, call[c].key)
      /\ call[c].key \in Keys \cup {"event"}
  BY <1>1, <1>2, Numbers, CallParts DEF Told, TypeOK
<1> HIDE DEF q, w, i0
<1>5. /\ \A i \in DOMAIN q : i \in DOMAIN w /\ w[i] = q[i]
      /\ \A i \in DOMAIN w : \/ i \in DOMAIN q /\ w[i] = q[i]
                             \/ w[i] = i0 /\ \A j \in DOMAIN q : j < i
      /\ \A i \in DOMAIN w : i \in Nat
  <2>1. CASE w = Append(q, i0)
    BY <1>4, <2>1
  <2>2. CASE w = q
    BY <1>4, <2>2
  <2> QED BY <1>2, <2>1, <2>2
<1>6. CASE call[c].key # k
  <2>1. \A d \in Threads : /\ Saying(d, k)' <=> Saying(d, k)
                           /\ Placing(d, k)' <=> Placing(d, k)
                           /\ Saying(d, k) \/ Placing(d, k) => call'[d] = call[d]
    BY <1>2, <1>6, NoCallParts DEF Saying, Placing
  <2>2. i0 \notin S
    BY <1>4, <1>6 DEF Of
  <2>3. \A d \in Threads : Placing(d, k) => i0 # call[d].place
    <3>1. \A d \in Threads : Placing(d, k) => call[d].place \in S
      BY DEF Told, Placing
    <3> QED BY <2>2, <3>1
  <2> QED BY <1>2, <1>3, <1>5, <2>1, <2>2, <2>3, Untouched DEF q, w
<1>7. CASE call[c].key = k
  <2>1. w = Append(q, i0)
    BY <1>2, <1>7
  <2>2. /\ Placing(c, k) /\ \A d \in Threads : ~Saying(d, k)
        /\ \A d \in Threads \ {c} : ~Placing(d, k)
    BY <1>1, <1>2, <1>7, OneCall DEF Saying, Placing
  <2>3. \A d \in Threads : ~Placing(d, k)' /\ ~Saying(d, k)'
    BY <1>2, <2>2, NoCallParts DEF Saying, Placing
  <2>4. Spoken(k)'
    BY <1>2, <1>3, <2>2, <2>3 DEF ToldOf, Spoken, Word, Contrary
  <2>5. /\ \A m \in S : m <= i0
        /\ i0 \notin tried /\ i0 # hand /\ \A i \in DOMAIN q : q[i] # i0
        /\ \A m \in S : m \in Nat
    BY <1>1, <1>3, <2>2, Numbers DEF ToldOf, InOrder, q, i0
  <2>6. \A m \in S : m # i0 => m < i0
    BY <1>4, <2>5
  <2>7. InOrder(k)'
    <3> HIDE DEF S
    <3>1. /\ \A i, j \in DOMAIN q : i < j /\ q[i] \in S /\ q[j] \in S => q[i] < q[j]
          /\ \A i \in DOMAIN q : q[i] \in S => /\ hand \in S => hand < q[i]
                                               /\ \A m \in tried \cap S : m < q[i]
          /\ hand \in S => \A m \in tried \cap S : m < hand
      BY <1>3 DEF ToldOf, InOrder, S, q
    <3>2. ASSUME NEW i \in DOMAIN w, NEW j \in DOMAIN w, i < j, w[i] \in S, w[j] \in S
          PROVE  w[i] < w[j]
      <4>1. CASE j \in DOMAIN q /\ w[j] = q[j]
        <5>1. i \in DOMAIN q /\ w[i] = q[i]
          BY <1>4, <1>5, <3>2, <4>1
        <5> QED BY <3>1, <3>2, <4>1, <5>1
      <4>2. CASE w[j] = i0 /\ \A l \in DOMAIN q : l < j
        <5>1. i \in DOMAIN q /\ w[i] = q[i]
          BY <1>4, <2>1, <3>2
        <5> QED BY <2>5, <2>6, <3>2, <4>2, <5>1
      <4> QED BY <1>5, <4>1, <4>2
    <3>3. ASSUME NEW i \in DOMAIN w, w[i] \in S
          PROVE  (hand \in S => hand < w[i]) /\ \A m \in tried \cap S : m < w[i]
      BY <1>5, <2>5, <2>6, <3>1, <3>3
    <3> QED BY <1>2, <1>3, <2>3, <3>1, <3>2, <3>3 DEF InOrder, S, w
  <2>8. Kept(k)'
    <3>1. \E i \in DOMAIN w : w[i] = i0
      BY <1>4, <2>1
    <3>2. ASSUME NEW m \in S
          PROVE  m \in tried \/ m = hand \/ \E i \in DOMAIN w : w[i] = m
      <4>1. m \in tried \/ m = hand \/ (\E i \in DOMAIN q : q[i] = m) \/ m = i0
        BY <1>3, <2>2 DEF ToldOf, Kept, q, i0
      <4> QED BY <1>5, <3>1, <4>1
    <3> QED BY <1>2, <1>3, <3>2 DEF Kept, w
  <2>9. Shows(k)'
    BY <1>2, <1>3 DEF ToldOf, Shows
  <2> QED BY <2>4, <2>7, <2>8, <2>9 DEF ToldOf
<1> QED BY <1>6, <1>7

(* The sentinel is no message.                                              *)
LEMMA ShutdownTold ==
  ASSUME Told, Shutdown, NEW k \in Keys \ n'.lost
  PROVE  ToldOf(k)'
<1> DEFINE q == n.q
           w == n'.q
           s == Append(q, 0)
<1>1. Base /\ TypeOK
  BY DEF Told, Inv, Base
<1>2. n \in Notifiers /\ q \in Seq(Nat) /\ s \in Seq(Nat)
  BY <1>1, Numbers
<1>3. UNCHANGED <<call, thread>> /\ (n' = n \/ n' = [n EXCEPT !.q = s])
      /\ \A d \in Threads : call[d].step = "idle"
  BY DEF Shutdown, checks
<1> HIDE DEF s
<1>4. /\ n'.passed = n.passed /\ n'.alerts = n.alerts /\ n'.lost = n.lost
      /\ w = q \/ w = s
  <2>1. CASE n' = n
    BY <2>1
  <2>2. CASE n' = [n EXCEPT !.q = s]
    BY <1>2, <2>2, Updates
  <2> QED BY <1>3, <2>1, <2>2
<1> HIDE DEF w, q
<1>5. /\ \A i \in DOMAIN q : i \in DOMAIN w /\ w[i] = q[i]
      /\ \A i \in DOMAIN w : (i \in DOMAIN q /\ w[i] = q[i]) \/ w[i] = 0
  <2>1. CASE w = q
    BY <1>2, <2>1
  <2>2. CASE w = s
    BY <1>2, <2>2 DEF s
  <2> QED BY <1>4, <2>1, <2>2
<1>6. 0 \notin Of(n.passed, k)
  BY <1>1, Numbers
<1>7. ToldOf(k) /\ UNCHANGED <<hand, tried, phone>> /\ phone[k] \in {"failure", "recovery"}
  BY <1>1, <1>3, <1>4 DEF Told, thread, TypeOK
<1>8. \A d \in Threads : /\ Saying(d, k)' <=> Saying(d, k)
                         /\ Placing(d, k)' <=> Placing(d, k)
                         /\ ~Placing(d, k)
  BY <1>3 DEF Saying, Placing
<1> QED BY <1>3, <1>4, <1>5, <1>6, <1>7, <1>8, Untouched DEF q, w

(* The head of the queue comes into the hand, which was empty.              *)
LEMMA GetTold ==
  ASSUME Told, Get, NEW k \in Keys \ n'.lost
  PROVE  ToldOf(k)'
<1> DEFINE q == n.q
           w == n'.q
           S == Of(n.passed, k)
<1>1. Base /\ TypeOK
  BY DEF Told, Inv, Base
<1>2. /\ UNCHANGED <<checks, tried, phone>> /\ q # <<>> /\ q \in Seq(Nat)
      /\ n'.passed = n.passed /\ n'.alerts = n.alerts /\ n'.lost = n.lost /\ w = Tail(q)
      /\ hand' = q[1] /\ 1 \in DOMAIN q /\ worker = "waiting"
  BY <1>1, GetParts
<1>3. ToldOf(k) /\ hand = 0 /\ UNCHANGED call
  BY <1>2 DEF Told, checks
<1> HIDE DEF q, w
<1>4. /\ \A i \in DOMAIN w : i + 1 \in DOMAIN q /\ w[i] = q[i + 1] /\ i \in Nat /\ 1 < i + 1
      /\ \A i \in DOMAIN q : i = 1 \/ (i - 1 \in DOMAIN w /\ w[i - 1] = q[i])
  BY <1>2
<1>5. 0 \notin S
  BY <1>1, Numbers
<1>6. Spoken(k)' /\ Shows(k)'
  <2>1. \A d \in Threads : Saying(d, k)' <=> Saying(d, k)
    BY <1>3 DEF Saying
  <2> QED BY <1>2, <1>3, <2>1 DEF ToldOf, Spoken, Shows, Word, Contrary
<1>7. InOrder(k)'
  <2> HIDE DEF S
  <2>1. /\ \A i, j \in DOMAIN q : i < j /\ q[i] \in S /\ q[j] \in S => q[i] < q[j]
        /\ \A i \in DOMAIN q : q[i] \in S => \A m \in tried \cap S : m < q[i]
        /\ \A d \in Threads : Placing(d, k) =>
             /\ \A m \in S : m <= call[d].place
             /\ call[d].place \notin tried
             /\ \A i \in DOMAIN q : q[i] # call[d].place
    BY <1>3 DEF ToldOf, InOrder, S, q
  <2>2. ASSUME NEW i \in DOMAIN w, NEW j \in DOMAIN w, i < j, w[i] \in S, w[j] \in S
        PROVE  w[i] < w[j]
    <3>1. i + 1 < j + 1
      BY <1>4, <2>2
    <3> QED BY <1>4, <2>1, <2>2, <3>1
  <2>3. ASSUME NEW i \in DOMAIN w, w[i] \in S
        PROVE  (hand' \in S => hand' < w[i]) /\ \A m \in tried \cap S : m < w[i]
    BY <1>2, <1>4, <2>1, <2>3
  <2>4. hand' \in S => \A m \in tried \cap S : m < hand'
    BY <1>2, <2>1
  <2>5. ASSUME NEW d \in Threads, Placing(d, k)
        PROVE  /\ \A m \in S : m <= call[d].place
               /\ call[d].place \notin tried /\ call[d].place # hand'
               /\ \A i \in DOMAIN w : w[i] # call[d].place
    BY <1>2, <1>4, <2>1, <2>5
  <2>6. \A d \in Threads : Placing(d, k)' <=> Placing(d, k)
    BY <1>3 DEF Placing
  <2> QED BY <1>2, <1>3, <2>2, <2>3, <2>4, <2>5, <2>6 DEF InOrder, S, w
<1>8. Kept(k)'
  <2>1. ASSUME NEW m \in S
        PROVE  \/ m \in tried \/ m = hand' \/ \E i \in DOMAIN w : w[i] = m
               \/ \E d \in Threads : Placing(d, k) /\ call[d].place = m
    <3>1. \/ m \in tried \/ \E i \in DOMAIN q : q[i] = m
          \/ \E d \in Threads : Placing(d, k) /\ call[d].place = m
      BY <1>3, <1>5 DEF ToldOf, Kept, q
    <3> QED BY <1>2, <1>4, <3>1
  <2>2. \A d \in Threads : Placing(d, k)' <=> Placing(d, k)
    BY <1>3 DEF Placing
  <2> QED BY <1>2, <1>3, <2>1, <2>2 DEF Kept, w
<1> QED BY <1>6, <1>7, <1>8 DEF ToldOf

(* The message in the hand becomes the last of its key that was tried.      *)
LEMMA TriedTold ==
  ASSUME Told, worker = "posting", hand' = 0, tried' = tried \cup {hand},
         n'.passed = n.passed, n'.q = n.q, n'.alerts = n.alerts, n.lost \subseteq n'.lost,
         UNCHANGED call, NEW k \in Keys \ n'.lost,
         LastIn(n.passed, Of(n.passed, k) \cap tried', phone'[k])
  PROVE  ToldOf(k)'
<1> DEFINE S == Of(n.passed, k)
<1>1. Base /\ ToldOf(k)
  BY DEF Told, Inv
<1>2. 0 \notin S
  BY <1>1, Numbers
<1>3. \A d \in Threads : (Saying(d, k)' <=> Saying(d, k)) /\ (Placing(d, k)' <=> Placing(d, k))
  BY DEF Saying, Placing
<1>4. Spoken(k)'
  BY <1>1, <1>3 DEF ToldOf, Spoken, Word, Contrary
<1>5. InOrder(k)'
  <2>1. \A d \in Threads : Placing(d, k) => call[d].place # 0
    BY <1>1 DEF Base, CallsPlain, Placing
  <2> QED BY <1>1, <1>2, <1>3, <2>1 DEF ToldOf, InOrder
<1>6. Kept(k)'
  BY <1>1, <1>2, <1>3 DEF ToldOf, Kept
<1>7. Shows(k)'
  BY DEF Shows
<1> QED BY <1>4, <1>5, <1>6, <1>7 DEF ToldOf

LEMMA PostedTold ==
  ASSUME Told, Posted, NEW k \in Keys \ n'.lost
  PROVE  ToldOf(k)'
<1> DEFINE S == Of(n.passed, k)
<1>1. /\ n' = n /\ UNCHANGED call /\ hand' = 0 /\ tried' = tried \cup {hand}
      /\ worker = "posting"
      /\ phone'[k] = IF k = Message.key THEN Message.kind ELSE phone[k]
  BY DEF Posted, callers, checks
<1>2. Base /\ ToldOf(k) /\ hand \in DOMAIN n.passed
  <2>1. Base
    BY DEF Told, Inv
  <2> QED BY <1>1, <2>1, InHand, Numbers DEF Told
<1>3. hand \in Nat /\ \A i \in S : i \in Nat
  BY <1>2, Numbers
<1>4. CASE k = Message.key
  <2>1. hand \in S
    BY <1>2, <1>4 DEF Of, Message
  <2>2. \A m \in S \cap tried' : m <= hand
    <3>1. \A m \in tried \cap S : m < hand
      BY <1>2, <2>1 DEF ToldOf, InOrder
    <3> QED BY <1>1, <1>3, <3>1
  <2>3. LastIn(n.passed, S \cap tried', phone'[k])
    BY <1>1, <1>4, <2>1, <2>2 DEF LastIn, Message
  <2> QED BY <1>1, <2>3, TriedTold
<1>5. CASE k # Message.key
  <2>1. S \cap tried' = S \cap tried
    BY <1>1, <1>5 DEF Of, Message
  <2>2. LastIn(n.passed, S \cap tried', phone'[k])
    BY <1>1, <1>2, <1>5, <2>1 DEF ToldOf, Shows
  <2> QED BY <1>1, <2>2, TriedTold
<1> QED BY <1>4, <1>5

LEMMA PostFailsTold ==
  ASSUME Told, PostFails, NEW k \in Keys \ n'.lost
  PROVE  ToldOf(k)'
<1>1. Base /\ ToldOf(k)
  <2>1. Base
    BY DEF Told, Inv
  <2> QED BY <2>1, PostFailsParts DEF Told
<1>2. /\ UNCHANGED call /\ phone' = phone /\ worker = "posting" /\ hand' = 0
      /\ tried' = tried \cup {hand} /\ n'.passed = n.passed /\ n'.alerts = n.alerts
      /\ n'.q = n.q /\ n'.lost = n.lost \cup {Message.key}
  BY <1>1, PostFailsParts DEF checks
<1>3. Of(n.passed, k) \cap tried' = Of(n.passed, k) \cap tried
  BY <1>2 DEF Of, Message
<1>4. LastIn(n.passed, Of(n.passed, k) \cap tried', phone'[k])
  BY <1>1, <1>2, <1>3 DEF ToldOf, Shows
<1> QED BY <1>2, <1>4, TriedTold

LEMMA InitTold == Init => Told
<1> SUFFICES ASSUME Init PROVE Told
  OBVIOUS
<1>1. /\ n.passed = <<>> /\ n.q = <<>> /\ \A k \in Keys : n.alerts[k] = NoAlert
      /\ hand = 0 /\ tried = {} /\ \A k \in Keys : phone[k] = "recovery"
      /\ \A c \in Threads : call[c] = NoCall
  BY DEF Init, FreshNotifier
<1>2. \A k : Of(n.passed, k) = {}
  BY <1>1 DEF Of
<1>3. \A c \in Threads : call[c].step = "idle" /\ \A k : ~Saying(c, k) /\ ~Placing(c, k)
  BY <1>1, NoCallParts DEF Saying, Placing
<1>4. ASSUME NEW k \in Keys PROVE ToldOf(k)
  <2>1. Spoken(k)
    BY <1>1, <1>2, <1>3 DEF Spoken, Alternate, LastIn, Word, Announced
  <2>2. InOrder(k) /\ Kept(k) /\ Shows(k)
    BY <1>1, <1>2, <1>3 DEF InOrder, Kept, Shows, LastIn
  <2> QED BY <2>1, <2>2 DEF ToldOf
<1> QED BY <1>1, <1>3, <1>4, InitInv DEF Told

(* A message in the hand is being posted, or was when the process ended.    *)
LEMMA HandNext ==
  ASSUME Told, [Next]_vars PROVE hand' # 0 => worker' \in {"posting", "ended"}
<1>1. CASE Get
  BY <1>1, GetParts DEF Told, Inv
<1>2. CASE LoopHead \/ GetTimesOut \/ Posted \/ PostFails \/ Exit
  BY <1>2 DEF LoopHead, GetTimesOut, Posted, PostFails, Exit, Told
<1>3. CASE \/ \E c \in Threads : Says(c)
           \/ CallEvent \/ Shutdown \/ Tick \/ UNCHANGED vars
  <2>1. UNCHANGED <<worker, hand>>
    BY <1>3 DEF Says, CallFailure, CallResolved, Trim, Assign, Check, Pass, Put,
       CallEvent, Shutdown, Tick, vars, thread
  <2> QED BY <2>1 DEF Told
<1> QED BY <1>1, <1>2, <1>3 DEF Next

(* A message on its way into the queue is the one its call speaks of.       *)
LEMMA PlaceNext ==
  ASSUME Told, [Next]_vars, NEW c \in Threads, call'[c].step = "put"
  PROVE  call'[c].place \in Of(n'.passed, call'[c].key)
<1>1. Base /\ TypeOK
  BY DEF Told, Inv, Base
<1>2. CASE Pass(c)
  <2> DEFINE m == [key |-> call[c].key, kind |-> call[c].kind, at |-> now]
             place == Len(n.passed) + 1
  <2>1. /\ n'.passed = Append(n.passed, m) /\ call'[c].key = call[c].key
        /\ call'[c].place = place /\ m \in Messages
    BY <1>1, <1>2, PassStep
  <2>2. m.key = call[c].key
    OBVIOUS
  <2>3. n.passed \in Seq(Messages) /\ Len(n.passed) \in Nat
    BY <1>1, Numbers
  <2> HIDE DEF m
  <2>4. place \in DOMAIN n'.passed /\ n'.passed[place] = m
    BY <2>1, <2>3
  <2> QED BY <2>1, <2>2, <2>4 DEF Of
<1>3. /\ \A i \in DOMAIN n.passed : i \in DOMAIN n'.passed /\ n'.passed[i] = n.passed[i]
      /\ ~Pass(c) => /\ call[c].step = "put" /\ call'[c].key = call[c].key
                     /\ call'[c].place = call[c].place
  <2>1. CASE \E d \in Threads : CallFailure(d) \/ CallResolved(d)
    <3>1. PICK d \in Threads : CallFailure(d) \/ CallResolved(d)
      BY <2>1
    <3>2. n'.passed = n.passed
          /\ (call' = call \/ \E k \in Keys, kind \in Kinds : Ask(d, k, kind))
      <4>1. KeysOf(d) \subseteq Keys
        BY NotifierAssumption DEF KeysOf
      <4> QED BY <1>1, <3>1, <4>1, ReportStep DEF Kinds
    <3>3. CASE call' = call
      BY <3>2, <3>3
    <3>4. CASE \E k \in Keys, kind \in Kinds : Ask(d, k, kind)
      <4>1. call'[d].step = "trim" /\ \A e \in Threads \ {d} : call'[e] = call[e]
        BY <1>1, <3>4, AskStep
      <4> QED BY <3>2, <4>1
    <3> QED BY <3>2, <3>3, <3>4
  <2>2. CASE CallEvent
    <3>1. /\ "main" \in Threads /\ "event" \in Kinds /\ Ask("main", "event", "event") /\ n' = n
      BY <2>2 DEF CallEvent, Threads, Kinds
    <3>2. call'["main"].step = "trim" /\ \A e \in Threads \ {"main"} : call'[e] = call[e]
      BY <1>1, <3>1, AskStep
    <3> QED BY <3>1, <3>2
  <2>3. CASE \E d \in Threads : Trim(d) \/ Assign(d) \/ Check(d) \/ Put(d)
    <3>1. PICK d \in Threads : Trim(d) \/ Assign(d) \/ Check(d) \/ Put(d)
      BY <2>3
    <3>2. CASE Trim(d)
      BY <1>1, <3>2, TrimStep
    <3>3. CASE Assign(d)
      BY <1>1, <3>3, AssignStep
    <3>4. CASE Check(d)
      BY <1>1, <3>4, CheckStep, NoCallParts
    <3>5. CASE Put(d)
      BY <1>1, <3>5, PutStep, NoCallParts
    <3> QED BY <3>1, <3>2, <3>3, <3>4, <3>5
  <2>4. CASE \E d \in Threads : Pass(d)
    <3>1. PICK d \in Threads : Pass(d)
      BY <2>4
    <3>2. \E m \in Messages : n'.passed = Append(n.passed, m)
      BY <1>1, <3>1, PassStep
    <3>3. n.passed \in Seq(Messages)
      BY <1>1, Numbers
    <3>4. \A e \in Threads \ {d} : call'[e] = call[e]
      BY <1>1, <3>1, PassStep
    <3> QED BY <3>1, <3>2, <3>3, <3>4
  <2>5. CASE Shutdown \/ Get \/ PostFails
    <3>1. UNCHANGED call
      BY <2>5 DEF Shutdown, Get, PostFails, checks
    <3>2. CASE Shutdown
      <4> DEFINE s == Append(n.q, 0)
      <4>1. s \in Seq(Nat) /\ n \in Notifiers
        BY <1>1, Numbers
      <4>2. n' = n \/ n' = [n EXCEPT !.q = s]
        BY <3>2 DEF Shutdown
      <4> HIDE DEF s
      <4>3. CASE n' = [n EXCEPT !.q = s]
        BY <3>1, <4>1, <4>3, Updates
      <4> QED BY <3>1, <4>2, <4>3
    <3>3. CASE Get \/ PostFails
      BY <1>1, <3>1, <3>3, GetParts, PostFailsParts
    <3> QED BY <2>5, <3>2, <3>3
  <2>6. CASE Tick \/ LoopHead \/ GetTimesOut \/ Posted \/ Exit \/ UNCHANGED vars
    BY <2>6 DEF Tick, LoopHead, GetTimesOut, Posted, Exit, vars, callers, checks
  <2> QED BY <2>1, <2>2, <2>3, <2>4, <2>5, <2>6 DEF Next, Says
<1>4. CASE ~Pass(c)
  BY <1>3, <1>4 DEF Told, Of
<1> QED BY <1>2, <1>4

LEMMA NextTold == ASSUME Told, [Next]_vars PROVE Told'
<1>1. Inv'
  BY NextInv DEF Told
<1>2. ASSUME NEW k \in Keys \ n'.lost PROVE ToldOf(k)'
  <2>1. CASE Tick \/ LoopHead \/ GetTimesOut \/ Exit \/ UNCHANGED vars
    <3>1. UNCHANGED <<n, call, hand, tried, phone>>
      BY <2>1 DEF Tick, LoopHead, GetTimesOut, Exit, vars, callers, checks, thread
    <3>2. ToldOf(k) /\ phone[k] \in {"failure", "recovery"}
      BY <1>2, <3>1 DEF Told, Inv, Base, TypeOK
    <3>3. \A d \in Threads : /\ Saying(d, k)' <=> Saying(d, k)
                             /\ Placing(d, k)' <=> Placing(d, k)
      BY <3>1 DEF Saying, Placing
    <3> QED BY <3>1, <3>2, <3>3, Untouched
  <2>2. CASE \E c \in Threads : Says(c)
    BY <1>2, <2>2, ReportTold, CheckingTold, PassTold, PutTold DEF Says
  <2> QED BY <1>2, <2>1, <2>2, EventTold, ShutdownTold, GetTold, PostedTold, PostFailsTold
          DEF Next
<1>3. (hand' # 0 => worker' \in {"posting", "ended"})
      /\ \A c \in Threads : call'[c].step = "put"
                            => call'[c].place \in Of(n'.passed, call'[c].key)
  BY HandNext, PlaceNext
<1> QED BY <1>1, <1>2, <1>3 DEF Told

LEMMA AlwaysTold == Spec => []Told
BY InitTold, NextTold, PTL DEF Spec

----------------------------------------------------------------------------
(* Type correctness: in particular the worker never posts the sentinel, and *)
(* what it posts was let through by the cap.                                *)
THEOREM TypeCorrect == Spec => []TypeOK
<1>1. Inv => TypeOK
  BY DEF Inv, Base
<1> QED BY <1>1, AlwaysInv, PTL

(* README: "max_per_hour is a hard backstop".  However two threads get into *)
(* each other's way in the unlocked _rate_ok, of the messages of an hour    *)
(* whose check no other overlapped no more than max_per_hour pass.          *)
THEOREM CapHolds == Spec => []HourlyCap
<1>1. Inv => HourlyCap
  BY DEF Inv, Cap
<1> QED BY <1>1, AlwaysInv, PTL

(* If none of the messages of a key was lost, the phone shows the condition *)
(* as the notifier sees it as soon as nothing is under way: every message   *)
(* was tried, so the last tried is the last that was said.                  *)
THEOREM PhoneShowsTheLast == Spec => []PhoneAgrees
<1>1. ASSUME Told, Quiet, NEW k \in Keys \ n.lost
      PROVE  phone[k] = "failure" <=> Announced(n.alerts[k])
  <2> DEFINE S == Of(n.passed, k)
  <2>1. hand = 0 /\ n.q = <<>> /\ ToldOf(k) /\ Base
    BY <1>1 DEF Told, Quiet, Inv
  <2>2. \A c \in Threads : ~Saying(c, k) /\ ~Placing(c, k)
    BY <1>1 DEF Quiet, Saying, Placing
  <2>3. 0 \notin S /\ \A i \in S : i \in Nat
    BY <2>1, Numbers
  <2>4. S \cap tried = S
    BY <2>1, <2>2, <2>3 DEF ToldOf, Kept
  <2>5. LastIn(n.passed, S, Word(k)) /\ LastIn(n.passed, S, phone[k])
    BY <2>1, <2>2, <2>4 DEF ToldOf, Spoken, Shows
  <2>6. phone[k] = Word(k)
    BY <2>3, <2>5 DEF LastIn
  <2> QED BY <2>6 DEF Word
<1>2. Told => PhoneAgrees
  BY <1>1 DEF PhoneAgrees
<1> QED BY <1>2, AlwaysTold, PTL

(* Exactly one message per outage and one when it clears: what is posted    *)
(* for a key differs from the message before it, unless one was lost.       *)
THEOREM NoMessageRepeats == Spec => NoRepeats
<1>1. ASSUME Told, Posted, Message.key \in Keys \ n.lost
      PROVE  phone'[Message.key] # phone[Message.key]
  <2> DEFINE k == Message.key
             S == Of(n.passed, k)
             p == n.passed
  <2>1. worker = "posting" /\ phone'[k] = p[hand].kind
    BY <1>1 DEF Posted, Message
  <2>2. ToldOf(k) /\ Base /\ hand \in S
    <3>1. ToldOf(k) /\ Base
      BY <1>1 DEF Told, Inv
    <3>2. hand \in DOMAIN p
      BY <2>1, <3>1, InHand, Numbers
    <3> QED BY <3>1, <3>2 DEF Of, Message
  <2>3. \A i \in S : i \in Nat
    BY <2>2, Numbers
  <2>4. /\ Alternate(p, k) /\ LastIn(p, S \cap tried, phone[k])
        /\ \A m \in tried \cap S : m < hand
        /\ \A i \in DOMAIN n.q : n.q[i] \in S => hand < n.q[i]
        /\ \A c \in Threads : Placing(c, k) => hand <= call[c].place
    BY <2>2 DEF ToldOf, Spoken, Shows, InOrder
  <2>5. ASSUME NEW i \in S, i < hand PROVE i \in tried
    <3>1. \/ i \in tried \/ i = hand \/ \E j \in DOMAIN n.q : n.q[j] = i
          \/ \E c \in Threads : Placing(c, k) /\ call[c].place = i
      BY <2>2 DEF ToldOf, Kept
    <3> QED BY <2>2, <2>3, <2>4, <2>5, <3>1
  <2> HIDE DEF k, S, p
  <2>6. CASE S \cap tried = {}
    <3>1. \A i \in S : hand <= i
      BY <2>2, <2>3, <2>5, <2>6
    <3>2. p[hand].kind = "failure"
      BY <2>2, <2>4, <3>1 DEF Alternate, S, p
    <3>3. phone[k] = "recovery"
      BY <2>4, <2>6 DEF LastIn
    <3> QED BY <2>1, <3>2, <3>3 DEF k
  <2>7. CASE S \cap tried # {}
    <3>1. PICK i \in S \cap tried : (\A l \in S \cap tried : l <= i) /\ p[i].kind = phone[k]
      BY <2>4, <2>7 DEF LastIn
    <3>2. i < hand /\ \A l \in S : l <= i \/ hand <= l
      BY <2>2, <2>3, <2>4, <2>5, <3>1
    <3>3. p[i].kind # p[hand].kind
      BY <2>2, <2>4, <3>1, <3>2 DEF Alternate, S, p
    <3> QED BY <2>1, <3>1, <3>3 DEF k
  <2> QED BY <2>6, <2>7
<1>2. Told /\ [Next]_vars =>
        [Posted /\ Message.key \in Keys \ n.lost => phone'[Message.key] # phone[Message.key]]_vars
  BY <1>1
<1> QED BY <1>2, AlwaysTold, PTL DEF Spec, NoRepeats
=============================================================================

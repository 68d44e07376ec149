---------------------------- MODULE MeterProofs ----------------------------
(* Proofs about meter/meter_service.py.  First its MQTT side (MeterLink):   *)
(* for any default mode and any number of commands, restarts, kills and     *)
(* failed saves.  Then its loop (MeterService): for any timing constants,   *)
(* any delays the box imposes, and any changes of box, device and mode.     *)
EXTENDS MeterLink, MeterService, FiniteSetTheorems, SequenceTheorems, TLAPS

(* Only a service that is up has a connection that lives.                   *)
LiveIsUp == peer = "live" => process = "up"

(* A command that the broker holds and the service is connected to has been *)
(* obeyed, or is the last of those on their way.                            *)
Delivered ==
  peer = "live" /\ asked # Absent /\ retained.cmd = asked
    => IF inbox = <<>> THEN flag = asked ELSE inbox[Len(inbox)] = asked

(* Outside a save the mode is what the file says, if its last save went     *)
(* well.                                                                    *)
FileAgrees == process # "down" /\ step # "set" /\ ~unwritten /\ file # Absent => flag = file

(* What waits for a connection ends with the mode; if nothing waits, the    *)
(* mirror shows it, or has been forgotten.                                  *)
MirrorFollows ==
  /\ peer = "live" => outbox = <<>>
  /\ process = "up" /\ step = "ready" => SentLast \in {flag, Absent}

LinkInv == /\ LinkTypeOK /\ LiveIsUp /\ Delivered /\ FileAgrees /\ MirrorFollows
       /\ StatusAgrees

----------------------------------------------------------------------------
(* Absent on its way.                                                      *)
LEMMA EmptyTypes == <<>> \in Seq(Commands) /\ <<>> \in Seq(BOOLEAN)
OBVIOUS

(* A message taken from, or put into, what waits.                           *)
LEMMA QueueTypes == ASSUME NEW S, NEW q \in Seq(S), NEW x \in S
                    PROVE  Append(q, x) \in Seq(S) /\ (q # <<>> => Tail(q) \in Seq(S))
OBVIOUS

(* The last to wait remains the last.                                       *)
LEMMA TailLast == ASSUME NEW S, NEW q \in Seq(S), Len(q) > 1
                  PROVE  /\ Len(Tail(q)) = Len(q) - 1
                         /\ Tail(q) # <<>> /\ Tail(q)[Len(q) - 1] = q[Len(q)]
<1>1. Len(q) \in Nat /\ q # <<>>
  OBVIOUS
<1>2. /\ Len(Tail(q)) = Len(q) - 1
      /\ \A i \in 1..Len(Tail(q)) : Tail(q)[i] = q[i + 1]
  BY <1>1, HeadTailProperties
<1>3. Len(q) - 1 \in 1..Len(Tail(q)) /\ Len(q) - 1 + 1 = Len(q)
  BY <1>1, <1>2
<1>4. ASSUME Tail(q) = <<>> PROVE FALSE
  <2>1. Len(Tail(q)) = 0
    <3>1. Len(<<>>) = 0
      OBVIOUS
    <3> QED BY <1>4, <3>1, Zenon
  <2>2. Len(q) - 1 \in 1..0
    BY <1>3, <2>1
  <2> QED BY <2>2
<1> QED BY <1>2, <1>3, <1>4

(* Anything that goes wrong is counted.                                     *)
LEMMA TroubleType == LinkTypeOK /\ Trouble => troubles' \in 0..MaxTroubles
BY LinkAssumption DEF LinkTypeOK, Trouble

(* A retained message replaced is one of its kind.                          *)
LEMMA RetainedTypes ==
  ASSUME LinkTypeOK, NEW c \in Commands \cup {Absent}, NEW m \in BOOLEAN \cup {Absent},
         NEW w \in {"online", "offline", Absent}
  PROVE  /\ Forgotten \in LinkMessages
         /\ [retained EXCEPT !.cmd = c] \in LinkMessages
         /\ [retained EXCEPT !.mirror = m] \in LinkMessages
         /\ [retained EXCEPT !.status = w] \in LinkMessages
         /\ [retained EXCEPT !.status = w, !.mirror = m] \in LinkMessages
BY DEF LinkTypeOK, LinkMessages, Forgotten

LEMMA LinkInitInv == LinkInit => LinkInv
<1> SUFFICES ASSUME LinkInit PROVE LinkInv
  OBVIOUS
<1> USE LinkAssumption DEF LinkInit, Forgotten
<1>1. LinkTypeOK
  <2>1. MaxAsks \in Nat /\ MaxTroubles \in Nat
    OBVIOUS
  <2>2. retained \in LinkMessages
    BY DEF LinkMessages
  <2>3. asks \in 0..MaxAsks /\ troubles \in 0..MaxTroubles
    BY <2>1
  <2> QED BY <2>2, <2>3, EmptyTypes DEF LinkTypeOK
<1>2. LiveIsUp /\ Delivered /\ FileAgrees /\ MirrorFollows /\ StatusAgrees
  BY DEF LiveIsUp, Delivered, FileAgrees, MirrorFollows, StatusAgrees
<1> QED BY <1>1, <1>2 DEF LinkInv

LEMMA LinkStutterInv == LinkInv /\ UNCHANGED linkVars => LinkInv'
BY DEF LinkInv, linkVars, disk, LinkTypeOK, LiveIsUp, Delivered, FileAgrees, MirrorFollows, SentLast,
     Last, StatusAgrees

(* The battery manager and the broker.                                      *)
LEMMA AskInv == ASSUME NEW v \in Commands, LinkInv, Ask(v) PROVE LinkInv'
<1> USE LinkAssumption DEF LinkInv, Ask, disk
<1>1. LinkTypeOK'
  <2>1. inbox' \in Seq(Commands)
    BY DEF LinkTypeOK
  <2> QED BY <2>1 DEF LinkTypeOK, LinkMessages, Commands
<1>2. Delivered'
  <2> SUFFICES ASSUME peer' = "live", asked' # Absent, retained'.cmd = asked'
               PROVE  inbox' # <<>> /\ inbox'[Len(inbox')] = asked'
    BY DEF Delivered
  <2>1. v = asked' /\ inbox' = Append(inbox, v)
    BY DEF LinkTypeOK
  <2> QED BY <2>1 DEF LinkTypeOK
<1>3. MirrorFollows'
  BY DEF MirrorFollows, SentLast, Last, LinkTypeOK
<1>4. (LiveIsUp /\ FileAgrees /\ StatusAgrees)'
  BY DEF LiveIsUp, FileAgrees, StatusAgrees, LinkTypeOK
<1> QED BY <1>1, <1>2, <1>3, <1>4

LEMMA BrokerStopsInv == ASSUME LinkInv, BrokerStops PROVE LinkInv'
<1> USE LinkAssumption DEF LinkInv, BrokerStops, Trouble, disk, Forgotten
<1>1. LinkTypeOK'
  <2>1. retained' \in LinkMessages /\ inbox' \in Seq(Commands)
    BY EmptyTypes DEF LinkTypeOK, LinkMessages
  <2>2. troubles' \in 0..MaxTroubles
    BY TroubleType DEF Trouble
  <2> QED BY <2>1, <2>2 DEF LinkTypeOK
<1>2. MirrorFollows'
  BY DEF MirrorFollows, SentLast, Last, LinkTypeOK
<1>3. (LiveIsUp /\ Delivered /\ FileAgrees /\ StatusAgrees)'
  BY DEF LiveIsUp, Delivered, FileAgrees, StatusAgrees
<1> QED BY <1>1, <1>2, <1>3

LEMMA BrokerStartsInv == ASSUME LinkInv, BrokerStarts PROVE LinkInv'
BY DEF LinkInv, BrokerStarts, disk, LinkTypeOK, LiveIsUp, Delivered, FileAgrees, MirrorFollows,
     SentLast, Last, StatusAgrees

LEMMA WillFiresInv == ASSUME LinkInv, WillFires PROVE LinkInv'
BY DEF LinkInv, WillFires, disk, LinkTypeOK, LinkMessages, LiveIsUp, Delivered, FileAgrees, MirrorFollows,
     SentLast, Last, StatusAgrees

(* The life of the service.                                                 *)
LEMMA StartInv == ASSUME LinkInv, Start PROVE LinkInv'
<1> USE LinkAssumption DEF LinkInv, Start, disk
<1>1. Restored \in BOOLEAN
  BY DEF Restored, LinkTypeOK
<1>2. LinkTypeOK'
  BY <1>1 DEF LinkTypeOK
<1>3. peer # "live"
  BY DEF LiveIsUp
<1>4. MirrorFollows'
  BY <1>1, <1>3 DEF MirrorFollows, SentLast, Last
<1>5. (LiveIsUp /\ Delivered /\ FileAgrees /\ StatusAgrees)'
  BY <1>3 DEF LiveIsUp, Delivered, FileAgrees, StatusAgrees, Restored
<1> QED BY <1>2, <1>4, <1>5

LEMMA CrashInv == ASSUME LinkInv, Crash PROVE LinkInv'
<1> USE DEF LinkInv, Crash, Trouble, disk
<1>1. LinkTypeOK'
  BY EmptyTypes, TroubleType DEF LinkTypeOK
<1>2. (LiveIsUp /\ Delivered /\ FileAgrees /\ MirrorFollows /\ StatusAgrees)'
  BY DEF LiveIsUp, Delivered, FileAgrees, MirrorFollows, StatusAgrees
<1> QED BY <1>1, <1>2

LEMMA StopBeginsInv == ASSUME LinkInv, StopBegins PROVE LinkInv'
<1> USE DEF LinkInv, StopBegins, Trouble, disk
<1>1. LinkTypeOK'
  <2>1. retained' \in LinkMessages
    BY RetainedTypes DEF LinkTypeOK
  <2> QED BY <2>1, EmptyTypes, TroubleType DEF LinkTypeOK
<1>2. peer' # "live"
  OBVIOUS
<1>3. (LiveIsUp /\ Delivered /\ FileAgrees /\ MirrorFollows /\ StatusAgrees)'
  BY <1>2 DEF LiveIsUp, Delivered, FileAgrees, MirrorFollows, StatusAgrees, LinkTypeOK, LinkMessages
<1> QED BY <1>1, <1>3

LEMMA StopEndsInv == ASSUME LinkInv, StopEnds PROVE LinkInv'
BY DEF LinkInv, StopEnds, disk, LinkTypeOK, LiveIsUp, Delivered, FileAgrees, MirrorFollows,
     StatusAgrees

(* The network thread.                                                      *)
LEMMA SentLastType == LinkTypeOK => SentLast \in BOOLEAN \cup {Absent}
BY DEF LinkTypeOK, LinkMessages, SentLast, Last

LEMMA ConnectInv == ASSUME LinkInv, Connect PROVE LinkInv'
<1> USE LinkAssumption DEF LinkInv, Connect, disk
<1>1. SentLast \in BOOLEAN \cup {Absent} /\ SentLast \in {flag, Absent}
  BY SentLastType DEF MirrorFollows
<1>2. Subscribed(retained.cmd) \in Seq(Commands)
  BY DEF LinkTypeOK, LinkMessages, Subscribed
<1>3. LinkTypeOK'
  BY <1>1, <1>2, EmptyTypes, RetainedTypes DEF LinkTypeOK
<1>4. retained'.mirror = SentLast /\ retained'.cmd = retained.cmd /\ retained'.status = "online"
  BY DEF LinkTypeOK
<1>5. MirrorFollows'
  BY <1>1, <1>4 DEF MirrorFollows, SentLast
<1>6. (LiveIsUp /\ Delivered /\ FileAgrees /\ StatusAgrees)'
  BY <1>4 DEF LiveIsUp, Delivered, FileAgrees, StatusAgrees, Subscribed
<1> QED BY <1>3, <1>5, <1>6

LEMMA DiscardInv == ASSUME LinkInv, Discard PROVE LinkInv'
<1> USE LinkAssumption DEF LinkInv, Discard, disk
<1>1. LinkTypeOK'
  BY DEF LinkTypeOK
<1>2. Delivered'
  <2> SUFFICES ASSUME peer = "live", asked # Absent, retained.cmd = asked
               PROVE  inbox' # <<>> /\ inbox'[Len(inbox')] = asked
    BY DEF Delivered
  <2>1. inbox[Len(inbox)] = asked /\ asked # Unknown /\ inbox[1] = Unknown
    BY DEF Delivered, LinkTypeOK
  <2>2. Len(inbox) \in Nat /\ Len(inbox) > 1
    BY <2>1 DEF LinkTypeOK
  <2> QED BY <2>1, <2>2, TailLast DEF LinkTypeOK
<1>3. (LiveIsUp /\ FileAgrees /\ MirrorFollows /\ StatusAgrees)'
  BY DEF LiveIsUp, FileAgrees, MirrorFollows, SentLast, Last, StatusAgrees
<1> QED BY <1>1, <1>2, <1>3

LEMMA SetInv == ASSUME LinkInv, Set PROVE LinkInv'
<1> USE LinkAssumption DEF LinkInv, Set, disk
<1>1. Head(inbox) \in BOOLEAN /\ inbox' \in Seq(Commands)
  BY DEF LinkTypeOK, Commands
<1>2. LinkTypeOK'
  BY <1>1 DEF LinkTypeOK
<1>3. Delivered'
  BY DEF Delivered, LinkTypeOK, LinkMessages
<1>4. (LiveIsUp /\ FileAgrees /\ MirrorFollows /\ StatusAgrees)'
  BY DEF LiveIsUp, FileAgrees, MirrorFollows, SentLast, Last, StatusAgrees
<1> QED BY <1>2, <1>3, <1>4

LEMMA SaveInv == ASSUME LinkInv, Save PROVE LinkInv'
<1> USE DEF LinkInv, Save, disk
<1>1. LinkTypeOK'
  BY DEF LinkTypeOK
<1>2. (LiveIsUp /\ Delivered /\ FileAgrees /\ MirrorFollows /\ StatusAgrees)'
  BY DEF LiveIsUp, Delivered, FileAgrees, MirrorFollows, StatusAgrees
<1> QED BY <1>1, <1>2

LEMMA SaveFailsInv == ASSUME LinkInv, SaveFails PROVE LinkInv'
<1> USE DEF LinkInv, SaveFails
<1>1. LinkTypeOK'
  BY TroubleType DEF LinkTypeOK
<1>2. (LiveIsUp /\ Delivered /\ FileAgrees /\ MirrorFollows /\ StatusAgrees)'
  BY DEF LiveIsUp, Delivered, FileAgrees, MirrorFollows, StatusAgrees
<1> QED BY <1>1, <1>2

LEMMA MirrorInv == ASSUME LinkInv, Mirror PROVE LinkInv'
<1> USE LinkAssumption DEF LinkInv, Mirror, disk
<1>1. LinkTypeOK'
  <2>1. retained' \in LinkMessages /\ outbox' \in Seq(BOOLEAN)
    BY RetainedTypes, QueueTypes DEF LinkTypeOK
  <2> QED BY <2>1 DEF LinkTypeOK
<1>2. MirrorFollows'
  BY DEF MirrorFollows, SentLast, Last, LinkTypeOK, LinkMessages
<1>3. (LiveIsUp /\ Delivered /\ FileAgrees /\ StatusAgrees)'
  BY DEF LiveIsUp, Delivered, FileAgrees, StatusAgrees, LinkTypeOK, LinkMessages
<1> QED BY <1>1, <1>2, <1>3

----------------------------------------------------------------------------
LEMMA LinkStepInv == LinkInv /\ [LinkNext]_linkVars => LinkInv'
<1> SUFFICES ASSUME LinkInv, [LinkNext]_linkVars PROVE LinkInv'
  OBVIOUS
<1>1. CASE \E v \in Commands : Ask(v)
  BY <1>1, AskInv
<1>2. CASE BrokerStops \/ BrokerStarts \/ WillFires
  BY <1>2, BrokerStopsInv, BrokerStartsInv, WillFiresInv
<1>3. CASE Start \/ Crash \/ StopBegins \/ StopEnds
  BY <1>3, StartInv, CrashInv, StopBeginsInv, StopEndsInv
<1>4. CASE Connect \/ Discard \/ Set \/ Save \/ SaveFails \/ Mirror
  BY <1>4, ConnectInv, DiscardInv, SetInv, SaveInv, SaveFailsInv, MirrorInv
<1>5. CASE UNCHANGED linkVars
  BY <1>5, LinkStutterInv
<1> QED BY <1>1, <1>2, <1>3, <1>4, <1>5 DEF LinkNext

THEOREM LinkInvariance == LinkSpec => []LinkInv
BY LinkInitInv, LinkStepInv, PTL DEF LinkSpec

(* The variables of MeterLink keep their types.                             *)
THEOREM LinkTypeCorrect == LinkSpec => []LinkTypeOK
<1>1. LinkInv => LinkTypeOK
  BY DEF LinkInv
<1> QED BY <1>1, LinkInvariance, PTL

(* The battery manager has the last word, through any number of restarts of *)
(* the broker and of the service.                                           *)
THEOREM LastWordHolds == LinkSpec => []LastWord
<1>1. LinkInv => LastWord
  <2> SUFFICES ASSUME LinkInv, Quiet, asked # Absent, flag # asked PROVE Lost
    BY DEF LastWord
  <2>1. retained.cmd # asked
    BY DEF LinkInv, Delivered, Quiet
  <2>2. file # asked \/ unwritten
    BY DEF LinkInv, FileAgrees, Quiet
  <2> QED BY <2>1, <2>2 DEF Lost
<1> QED BY <1>1, LinkInvariance, PTL

(* The mirror shows the mode, or is not there.                              *)
THEOREM MirrorIsNeverWrong == LinkSpec => []MirrorNeverWrong
<1>1. LinkInv => MirrorNeverWrong
  BY DEF LinkInv, MirrorFollows, SentLast, MirrorNeverWrong, Quiet
<1> QED BY <1>1, LinkInvariance, PTL

(* The status is "online" exactly while the broker knows a connection.      *)
THEOREM StatusIsRight == LinkSpec => []StatusAgrees
<1>1. LinkInv => StatusAgrees
  BY DEF LinkInv
<1> QED BY <1>1, LinkInvariance, PTL
----------------------------------------------------------------------------
(* MeterService.  First its numbers: a power of two is how many subsets     *)
(* there are.                                                               *)
LEMMA PowerType == ASSUME NEW k \in Nat PROVE 2 ^ k \in Nat \ {0}
<1>1. IsFiniteSet(1..k) /\ Cardinality(1..k) = k
  <2>1. IsFiniteSet(1..k) /\ Cardinality(1..k) = IF 1 > k THEN 0 ELSE k - 1 + 1
    BY FS_Interval
  <2> QED BY <2>1
<1>2. IsFiniteSet(SUBSET (1..k)) /\ Cardinality(SUBSET (1..k)) = 2 ^ k
  <2>1. /\ IsFiniteSet(SUBSET (1..k))
        /\ Cardinality(SUBSET (1..k)) = 2 ^ Cardinality(1..k)
    BY <1>1, FS_SUBSET
  <2> QED BY <1>1, <2>1
<1>3. Cardinality(SUBSET (1..k)) \in Nat /\ Cardinality(SUBSET (1..k)) # 0
  <2>1. SUBSET (1..k) # {}
    OBVIOUS
  <2> QED BY <1>2, <2>1, FS_CardinalityType, FS_EmptySet
<1> QED BY <1>2, <1>3

LEMMA BackoffType ==
  ASSUME NEW f \in Nat \ {0}
  PROVE  Backoff(f) \in Nat \ {0} /\ Backoff(f) <= BackoffMax
<1>1. f - 1 \in Nat
  OBVIOUS
<1>2. PICK p : p = 2 ^ (f - 1)
  OBVIOUS
<1>3. p \in Nat \ {0}
  BY <1>1, <1>2, PowerType
<1>4. BackoffInitial * p \in Nat \ {0}
  BY <1>3, MeterAssumption
<1> QED BY <1>2, <1>4, MeterAssumption DEF Backoff, Least

LEMMA LongestType ==
  /\ LongestBlock \in Nat /\ BackoffMax <= LongestBlock
  /\ \A d \in BlockTimes : d <= LongestBlock
<1>1. /\ LongestBlock \in BlockTimes \cup {BackoffMax}
      /\ \A e \in BlockTimes \cup {BackoffMax} : e <= LongestBlock
  BY BlockTimesAssumption DEF LongestBlock
<1> QED BY <1>1, MeterAssumption

----------------------------------------------------------------------------
(* What the calls of the notifier do to its alerts.                         *)
LEMMA EnqueueKeeps ==
  ASSUME NEW s \in Notifiers, NEW k \in Keys, NEW kind \in {"failure", "recovery"}, NEW u \in Nat
  PROVE  Enqueue(s, k, kind, u) \in Notifiers /\ Enqueue(s, k, kind, u).alerts = s.alerts
<1> DEFINE R0 == SUBSET (Nat \ {0})
           L0 == SUBSET (Keys \cup {"event"})
           A0 == [Keys -> Alert \cup {NoAlert}]
           P0 == Seq(Messages)
           Q0 == Seq(Nat)
           m == [key |-> k, kind |-> kind, at |-> u]
           last == Len(s.passed) + 1
           R == StillRecent(s, u)
<1>1. Notifiers = [alerts : A0, passed : P0, recent : R0, q : Q0, lost : L0]
  BY DEF Notifiers
<1>2. s.passed \in P0 /\ s.recent \in R0 /\ s.q \in Q0 /\ s.lost \in L0
  BY DEF Notifiers
<1>3. last \in Nat \ {0} /\ m \in Messages
  BY <1>2 DEF Messages
<1>4. Append(s.passed, m) \in P0 /\ Append(s.q, last) \in Q0
  BY <1>2, <1>3
<1>5. R \in R0 /\ R \cup {last} \in R0 /\ s.lost \cup {k} \in L0
  BY <1>2, <1>3 DEF StillRecent
<1> DEFINE pruned == [s EXCEPT !.recent = R]
           noted == [pruned EXCEPT !.passed = Append(s.passed, m), !.recent = R \cup {last}]
<1>6. Enqueue(s, k, kind, u) \in {[pruned EXCEPT !.lost = @ \cup {k}],
                                  [noted EXCEPT !.q = Append(@, last)],
                                  [noted EXCEPT !.lost = @ \cup {k}]}
  <2>1. pruned.passed = s.passed /\ pruned.recent = R
    BY DEF Notifiers
  <2>2. Noted(pruned, m) = noted
    BY <2>1 DEF Noted
  <2> HIDE DEF pruned, noted, m, last, R
  <2> QED BY <2>2 DEF Enqueue, Queued, pruned, m, last, R
<1> HIDE DEF A0, P0, Q0, L0, R0, m, last, R
<1>7. pruned \in Notifiers /\ pruned.alerts = s.alerts /\ pruned.lost = s.lost /\ pruned.q = s.q
  BY <1>1, <1>5
<1>8. noted \in Notifiers /\ noted.alerts = s.alerts /\ noted.lost = s.lost /\ noted.q = s.q
  BY <1>1, <1>4, <1>5
<1> HIDE DEF pruned, noted
<1>9. /\ [pruned EXCEPT !.lost = @ \cup {k}] \in Notifiers
      /\ [pruned EXCEPT !.lost = @ \cup {k}].alerts = s.alerts
  BY <1>1, <1>5, <1>7
<1>10. /\ [noted EXCEPT !.lost = @ \cup {k}] \in Notifiers
       /\ [noted EXCEPT !.lost = @ \cup {k}].alerts = s.alerts
  BY <1>1, <1>5, <1>8
<1>11. /\ [noted EXCEPT !.q = Append(@, last)] \in Notifiers
       /\ [noted EXCEPT !.q = Append(@, last)].alerts = s.alerts
  BY <1>1, <1>4, <1>8
<1> QED BY <1>6, <1>9, <1>10, <1>11

LEMMA AlertSet ==
  ASSUME NEW s \in Notifiers, NEW k \in Keys, NEW a \in Alert \cup {NoAlert}
  PROVE  LET e == [s EXCEPT !.alerts[k] = a]
         IN  e \in Notifiers /\ e.alerts = [s.alerts EXCEPT ![k] = a]
BY DEF Notifiers

(* A report: the first one is noted, a later one counted or announced.      *)
Step(a, b) ==
  /\ b \in Alert
  /\ a = NoAlert => b.count = 1 /\ ~b.notified
  /\ a # NoAlert => \/ b.notified
                    \/ ~a.notified /\ b.count = a.count + 1 /\ b.count < MinCount

LEMMA ReportedSteps ==
  ASSUME NEW a \in Alert \cup {NoAlert}, NEW fuse \in Nat, NEW u \in Nat
  PROVE  Step(a, Reported(a, fuse, u))
<1> DEFINE b == Reported(a, fuse, u)
<1>1. MinCount \in Nat \ {0}
  BY AlertsAssumption
<1>2. CASE a = NoAlert
  <2>1. b = [since |-> u, count |-> 1, notified |-> FALSE]
    BY <1>2 DEF Reported
  <2> HIDE DEF b
  <2>2. b \in Alert /\ b.count = 1 /\ ~b.notified
    BY <1>1, <2>1 DEF Alert
  <2> QED BY <1>2, <2>2 DEF Step, b
<1>3. CASE a # NoAlert
  <2> DEFINE sent == a.notified \/ Proven(a, fuse, u)
             c == OneMore(a.count)
  <2>1. a \in Alert /\ a.count \in 1..MinCount /\ a.notified \in BOOLEAN
    BY <1>3 DEF Alert
  <2>2. c \in 1..MinCount /\ (c < MinCount => c = a.count + 1) /\ (c >= MinCount => c = MinCount)
    BY <1>1, <2>1 DEF OneMore
  <2>3. ~sent => ~a.notified /\ ~(c >= MinCount)
    BY <1>3 DEF Proven
  <2>4. b = [a EXCEPT !.count = c, !.notified = sent] /\ sent \in BOOLEAN
    BY <1>3, <2>1 DEF Reported, Proven
  <2> HIDE DEF b, c, sent
  <2>5. b \in Alert /\ b.count = c /\ b.notified = sent
    BY <2>1, <2>2, <2>4 DEF Alert
  <2>6. b.notified \/ (~a.notified /\ b.count = a.count + 1 /\ b.count < MinCount)
    <3>1. CASE sent
      BY <2>5, <3>1
    <3>2. CASE ~sent
      BY <1>1, <2>2, <2>3, <2>5, <3>2
    <3> QED BY <3>1, <3>2
  <2> QED BY <1>3, <2>5, <2>6 DEF Step, b
<1> QED BY <1>2, <1>3

(* Of all alerts only that of k may differ.                                 *)
Only(k, s, e) == e \in Notifiers /\ \A j \in Keys \ {k} : e.alerts[j] = s.alerts[j]

LEMMA FailureAlerts ==
  ASSUME NEW s \in Notifiers, NEW k \in Keys, NEW fuse \in Nat, NEW u \in Nat
  PROVE  /\ Only(k, s, Failure(s, k, fuse, u))
         /\ Step(s.alerts[k], Failure(s, k, fuse, u).alerts[k])
<1> DEFINE b == Reported(s.alerts[k], fuse, u)
           c == [s EXCEPT !.alerts[k] = b]
           e == Failure(s, k, fuse, u)
<1>1. s.alerts[k] \in Alert \cup {NoAlert} /\ s.alerts \in [Keys -> Alert \cup {NoAlert}]
  BY DEF Notifiers
<1>2. Step(s.alerts[k], b)
  BY <1>1, ReportedSteps
<1>3. e = c \/ e = Enqueue(c, k, "failure", u)
  BY DEF Failure
<1> HIDE DEF b, e
<1>4. c \in Notifiers /\ c.alerts = [s.alerts EXCEPT ![k] = b]
  BY <1>2, AlertSet DEF Step
<1> HIDE DEF c
<1>5. e \in Notifiers /\ e.alerts = c.alerts
  BY <1>3, <1>4, EnqueueKeeps
<1>6. e.alerts[k] = b /\ \A j \in Keys \ {k} : e.alerts[j] = s.alerts[j]
  BY <1>1, <1>4, <1>5
<1> QED BY <1>2, <1>5, <1>6 DEF Only, e

LEMMA ResolvedAlerts ==
  ASSUME NEW s \in Notifiers, NEW k \in Keys, NEW u \in Nat
  PROVE  Only(k, s, Resolved(s, k, u)) /\ Resolved(s, k, u).alerts[k] = NoAlert
<1> DEFINE popped == Popped(s, k)
           e == Resolved(s, k, u)
<1>1. popped \in Notifiers /\ popped.alerts = [s.alerts EXCEPT ![k] = NoAlert]
  BY AlertSet DEF Popped
<1>2. e = popped \/ e = Enqueue(popped, k, "recovery", u)
  BY DEF Resolved
<1>3. s.alerts \in [Keys -> Alert \cup {NoAlert}]
  BY DEF Notifiers
<1> HIDE DEF popped, e
<1>4. e \in Notifiers /\ e.alerts = popped.alerts
  BY <1>1, <1>2, EnqueueKeeps
<1> QED BY <1>1, <1>3, <1>4 DEF Only, e

----------------------------------------------------------------------------
(* What holds of the service.                                               *)
Sessions == [held : BOOLEAN, failures : Nat, notBefore : Nat]
Boxes == [up : BOOLEAN, lag : 0..Timeout, rights : {"all", "login", "none"},
          present : BOOLEAN, sends : BOOLEAN, valid : BOOLEAN, delay : Nat]
Requests == [call : {"none", "info", "post", "get"}, again : BOOLEAN, from : Nat]

(* The HTTP calls an iteration has made at most: six by each user before    *)
(* this one, and those of the request under way.                            *)
Users == IF pc = "keep_awake" THEN 0 ELSE IF pc = "history" THEN 1
         ELSE IF pc = "poll" THEN 2 ELSE 3
Made == (IF req.again THEN 3 ELSE 0)
        + (IF req.call = "post" THEN 1 ELSE IF req.call = "get" THEN 2 ELSE 0)
Calls == 6 * Users + IF pc = "wait" THEN 0 ELSE Made

InTime == /\ began <= t /\ t - began <= Calls * Timeout
          /\ pc = "wait" => req.call = "none"

(* What is published was fresh enough when it was published, an iteration   *)
(* began at most a wait after that, and both clocks go together.            *)
Steady == /\ ~tracker.seen => published = Nothing
          /\ ~disturbed => /\ started = began + drift
                           /\ tracker.seen => tracker.measured = heard + drift
          /\ published = FALSE /\ ~disturbed =>
               IF pc = "wait" THEN t - heard <= StaleAfter
               ELSE began - heard <= StaleAfter + 1

(* The next login waits for the backoff after the last rejection.           *)
Spaced == /\ session.failures > 0 =>
               rejected \in Nat /\ session.notBefore >= rejected + Backoff(session.failures)
          /\ req.call = "post" => session.notBefore <= t

(* All delays of the session and of the box were imposed while not all was  *)
(* well.                                                                    *)
BlocksEnd == /\ fine <= t
             /\ LET base == IF AllWell(box) THEN fine ELSE t
                IN  /\ box.delay <= base + LongestBlock
                    /\ session.notBefore <= base + LongestBlock + Timeout

(* A request that has logged in again, in an iteration in which all is well,*)
(* has a SID that counts.                                                   *)
LoggedIn == req.call = "get" /\ req.again /\ AllWell(box) /\ fine < began => box.valid

(* Every poll of an outage is counted by one of the two keys, and neither   *)
(* gets far without being announced.                                        *)
OutageKeys == {"poll", "login"}
OutageSent == \E k \in OutageKeys : n.alerts[k] # NoAlert /\ n.alerts[k].notified
Reports(k) == IF n.alerts[k] = NoAlert THEN 0 ELSE n.alerts[k].count
Counted ==
  /\ \A k \in OutageKeys : n.alerts[k] # NoAlert /\ ~n.alerts[k].notified
                             => n.alerts[k].count < Most(MinCount, 2)
  /\ OutageSent \/ streak <= Reports("poll") + Reports("login")

ServiceInv == /\ TypeOK
              /\ InTime /\ Steady
              /\ Spaced /\ BlocksEnd /\ LoggedIn /\ RecoversInTime /\ Counted

LEMMA Types ==
  ASSUME TypeOK
  PROVE  /\ box \in Boxes /\ session \in Sessions /\ req \in Requests
         /\ t \in Nat /\ began \in Nat /\ heard \in Nat /\ streak \in Nat /\ fine \in Nat
         /\ drift \in Int /\ started \in Int /\ Timeout \in Nat /\ StaleAfter \in Nat
         /\ LongestBlock \in Nat
         /\ box.delay \in Nat /\ session.notBefore \in Nat /\ session.failures \in Nat
         /\ box.lag \in 0..Timeout /\ rejected \in Nat \cup {Nothing}
BY MeterAssumption, LongestType DEF TypeOK, Boxes, Sessions, Requests

LEMMA CallsType == ASSUME TypeOK PROVE Made \in 0..5 /\ Users \in 0..3 /\ Calls \in 0..18
<1>1. Made \in 0..5 /\ Users \in 0..3
  BY Types DEF Made, Users, Requests
<1>2. pc # "wait" => Users \in 0..2
  BY DEF TypeOK, Users
<1> QED BY <1>1, <1>2 DEF Calls

(* A call more takes a timeout more.                                        *)
LEMMA Spent ==
  ASSUME NEW c \in Nat, NEW d \in Nat, NEW T \in Nat
  PROVE  /\ c <= d => c * T <= d * T
         /\ c < d => c * T + T <= d * T
<1>1. ASSUME NEW k \in Nat, d = c + k PROVE d * T = c * T + k * T /\ k * T \in Nat
  BY <1>1
<1>2. ASSUME c <= d PROVE c * T <= d * T
  <2>1. PICK k \in Nat : d = c + k
    <3>1. d - c \in Nat /\ d = c + (d - c)
      BY <1>2
    <3> QED BY <3>1
  <2>2. d * T = c * T + k * T /\ k * T \in Nat /\ c * T \in Nat
    BY <1>1, <2>1
  <2> QED BY <2>2
<1>3. ASSUME c < d PROVE c * T + T <= d * T
  <2>1. PICK k \in Nat : d = c + (k + 1)
    <3>1. d - c - 1 \in Nat /\ d = c + ((d - c - 1) + 1)
      BY <1>3
    <3> QED BY <3>1
  <2>2. k + 1 \in Nat /\ (k + 1) * T = k * T + T /\ k * T \in Nat /\ c * T \in Nat
    OBVIOUS
  <2>3. d * T = c * T + (k + 1) * T
    BY <1>1, <2>1, <2>2
  <2> QED BY <2>2, <2>3
<1> QED BY <1>2, <1>3

----------------------------------------------------------------------------
(* The HTTP calls.  What they do to clock, box and session:                 *)
LEMMA TakesTime == ASSUME TypeOK, Takes PROVE t' \in Nat /\ t <= t' /\ t' <= t + Timeout
<1>1. t \in Nat /\ Timeout \in Nat /\ box.lag \in 0..Timeout /\ t' = t + box.lag
  BY Types DEF Takes
<1> QED BY <1>1

LEMMA CallFacts ==
  ASSUME TypeOK, HttpCall
  PROVE  /\ t' \in Nat /\ t <= t' /\ t' <= t + Timeout
         /\ UNCHANGED <<drift, started, began, fine, events>>
         /\ box' \in Boxes /\ session' \in Sessions /\ rejected' \in Nat \cup {Nothing}
         /\ box'.up = box.up /\ box'.rights = box.rights /\ box'.present = box.present
         /\ box'.sends = box.sends
<1>0. /\ t \in Nat /\ Timeout \in Nat /\ box \in Boxes /\ session \in Sessions
      /\ rejected \in Nat \cup {Nothing} /\ session.failures \in Nat /\ box.delay \in Nat
  BY Types
<1>1. CASE LoginBlocked
  BY <1>0, <1>1 DEF LoginBlocked, clocks
<1>2. CASE LoginInfo
  <2>1. Takes /\ box' = box /\ rejected' = rejected
    BY <1>2 DEF LoginInfo
  <2>2. PICK v : /\ v = t' + BlockTime
                 /\ session' = session \/ session' = [session EXCEPT !.notBefore = v]
    BY <1>2 DEF LoginInfo, Goes
  <2>3. t' \in Nat /\ BlockTime \in Nat
    BY <1>0, <2>1, TakesTime DEF BlockTime, Most
  <2>4. session' \in Sessions
    BY <1>0, <2>2, <2>3 DEF Sessions
  <2> QED BY <1>0, <2>1, <2>4, TakesTime DEF Takes, clocks
<1>3. CASE LoginPost
  <2>1. Takes /\ t' \in Nat
    BY <1>3, TakesTime DEF LoginPost
  <2>2. CASE UNCHANGED <<session, box, rejected>>
    BY <1>0, <2>1, <2>2, TakesTime DEF Takes, clocks
  <2>3. CASE session' = Accepted /\ box' = [box EXCEPT !.valid = TRUE] /\ rejected' = rejected
    <3>1. session' \in Sessions
      BY <1>0, <2>3 DEF Sessions, Accepted
    <3>2. /\ box' \in Boxes /\ box'.up = box.up /\ box'.rights = box.rights
          /\ box'.present = box.present /\ box'.sends = box.sends
      BY <1>0, <2>3 DEF Boxes
    <3> QED BY <1>0, <2>1, <2>3, <3>1, <3>2, TakesTime DEF Takes, clocks
  <2>4. CASE \E delay \in BlockTimes : /\ session' = Rejected(delay)
                                       /\ box' = [box EXCEPT !.delay = t + delay]
                                       /\ rejected' = t'
    <3>1. PICK delay \in BlockTimes : /\ session' = Rejected(delay)
                                      /\ box' = [box EXCEPT !.delay = t + delay]
                                      /\ rejected' = t'
      BY <2>4
    <3>2. delay \in Nat /\ t + delay \in Nat
      BY <1>0, MeterAssumption
    <3>3. PICK f, v : /\ session' = [session EXCEPT !.failures = f, !.notBefore = v]
                      /\ f = session.failures + 1 /\ v = t' + Most(Backoff(f), delay)
      BY <3>1 DEF Rejected
    <3>4. f \in Nat \ {0} /\ Backoff(f) \in Nat
      BY <1>0, <3>3, BackoffType
    <3>5. v \in Nat
      <4>1. PICK b : b = Backoff(f)
        OBVIOUS
      <4> QED BY <2>1, <3>2, <3>3, <3>4, <4>1 DEF Most
    <3>6. session' \in Sessions
      BY <1>0, <3>3, <3>4, <3>5 DEF Sessions
    <3>7. /\ box' \in Boxes /\ box'.up = box.up /\ box'.rights = box.rights
          /\ box'.present = box.present /\ box'.sends = box.sends
      BY <1>0, <3>1, <3>2 DEF Boxes
    <3> QED BY <1>0, <2>1, <3>1, <3>6, <3>7, TakesTime DEF Takes, clocks
  <2> QED BY <1>3, <2>2, <2>3, <2>4 DEF LoginPost
<1>4. CASE Get
  <2>1. Takes /\ box' = box /\ rejected' = rejected
    BY <1>4 DEF Get
  <2>2. session' = session \/ session' = [session EXCEPT !.held = FALSE]
    BY <1>4 DEF Get
  <2>3. session' \in Sessions
    BY <1>0, <2>2 DEF Sessions
  <2> QED BY <1>0, <2>1, <2>3, TakesTime DEF Takes, clocks
<1> QED BY <1>1, <1>2, <1>3, <1>4 DEF HttpCall

LEMMA Sums ==
  ASSUME NEW a \in Nat, NEW b \in Nat, a <= b, NEW c \in Nat, NEW d \in Nat, c <= d
  PROVE  a + c <= b + d
OBVIOUS

(* ... to the delays of box and session ...                                 *)
LEMMA CallBlocks ==
  ASSUME TypeOK, Spaced, BlocksEnd, HttpCall
  PROVE  Spaced' /\ BlocksEnd'
<1>0. /\ t \in Nat /\ Timeout \in Nat /\ fine \in Nat /\ LongestBlock \in Nat
      /\ session \in Sessions /\ session.failures \in Nat /\ session.notBefore \in Nat
      /\ box \in Boxes /\ box.delay \in Nat
  BY Types
<1>1. /\ t' \in Nat /\ t <= t' /\ t' <= t + Timeout /\ fine' = fine /\ session' \in Sessions
      /\ AllWell(box') <=> AllWell(box)
  BY CallFacts DEF AllWell
<1>2. PICK base, base1 : /\ base = (IF AllWell(box) THEN fine ELSE t)
                         /\ base1 = (IF AllWell(box') THEN fine' ELSE t')
  OBVIOUS
<1>3. base \in Nat /\ base1 \in Nat /\ base <= base1
  BY <1>0, <1>1, <1>2
<1>4. box.delay <= base + LongestBlock /\ session.notBefore <= base + LongestBlock + Timeout
  BY <1>2 DEF BlocksEnd
<1>5. ASSUME box'.delay <= base1 + LongestBlock,
             session'.notBefore <= base1 + LongestBlock + Timeout
      PROVE  BlocksEnd'
  <2>1. fine <= t
    BY DEF BlocksEnd
  <2>2. fine' <= t'
    BY <1>0, <1>1, <2>1
  <2> QED BY <1>2, <1>5, <2>2 DEF BlocksEnd
<1>6. ASSUME session'.failures \in {0, session.failures}, rejected' = rejected,
             session'.notBefore = session.notBefore, box'.delay = box.delay
      PROVE  BlocksEnd'
  BY <1>0, <1>3, <1>4, <1>5, <1>6
<1>7. ASSUME session'.failures \in {0, session.failures}, rejected' = rejected,
             session'.notBefore >= session.notBefore,
             req'.call = "post" => session'.notBefore <= t'
      PROVE  Spaced'
  <2> SUFFICES ASSUME session'.failures > 0
               PROVE  rejected' \in Nat /\ session'.notBefore >= rejected' + Backoff(session'.failures)
    BY <1>7 DEF Spaced, Backoff
  <2>1. session'.failures = session.failures
    BY <1>0, <1>7
  <2>2. rejected \in Nat /\ session.notBefore >= rejected + Backoff(session.failures)
    BY <2>1 DEF Spaced
  <2>3. Backoff(session.failures) \in Nat
    BY <1>0, <2>1, BackoffType
  <2>4. session'.notBefore \in Nat
    BY <1>1 DEF Sessions
  <2> QED BY <1>0, <1>7, <2>1, <2>2, <2>3, <2>4
<1>8. CASE LoginBlocked
  <2>1. UNCHANGED <<t, fine, box, session, rejected>> /\ req' = Idle
    BY <1>8 DEF LoginBlocked, Ends
  <2> QED BY <1>0, <1>6, <1>7, <2>1 DEF Idle
<1>9. CASE LoginInfo
  <2>1. session.notBefore <= t /\ box' = box /\ rejected' = rejected
    BY <1>9 DEF LoginInfo
  <2>2. CASE session' = session
    BY <1>0, <1>1, <1>6, <1>7, <2>1, <2>2
  <2>3. CASE /\ BlockTime > 0 /\ session' = [session EXCEPT !.notBefore = t' + BlockTime]
             /\ Ends("blocked")
    <3>1. /\ session'.failures = session.failures /\ session'.notBefore = t' + (box.delay - t)
          /\ box.delay > t
      BY <1>0, <2>3 DEF Sessions, BlockTime, Most
    <3>2. req'.call = "none"
      BY <2>3 DEF Ends, Idle
    <3>3. session'.notBefore >= session.notBefore
      BY <1>0, <1>1, <2>1, <3>1
    <3>4. session'.notBefore <= base1 + LongestBlock + Timeout
      <4>1. PICK now, d : now = t' /\ d = box.delay
        OBVIOUS
      <4>2. now \in Nat /\ now - t <= Timeout /\ d \in Nat /\ d <= base1 + LongestBlock
        <5>1. now \in Nat /\ now <= t + Timeout
          BY <1>1, <4>1
        <5>2. d \in Nat /\ d <= base + LongestBlock
          BY <1>0, <1>4, <4>1
        <5> QED BY <1>0, <1>3, <5>1, <5>2
      <4>3. now + (d - t) <= base1 + LongestBlock + Timeout
        <5>1. PICK bound : bound = base1 + LongestBlock
          OBVIOUS
        <5>2. bound \in Nat /\ d <= bound
          BY <1>0, <1>3, <4>2, <5>1
        <5>3. now + (d - t) <= bound + Timeout
          BY <1>0, <4>2, <5>2
        <5> QED BY <5>1, <5>3
      <4> QED BY <3>1, <4>1, <4>3
    <3>5. box'.delay <= base1 + LongestBlock
      BY <1>0, <1>3, <1>4, <2>1
    <3> QED BY <1>5, <1>7, <2>1, <3>1, <3>2, <3>3, <3>4, <3>5
  <2> QED BY <1>9, <2>2, <2>3 DEF LoginInfo
<1>10. CASE LoginPost
  <2>1. req.call = "post" /\ session.notBefore <= t
    BY <1>10 DEF LoginPost, Spaced
  <2>2. CASE UNCHANGED <<session, box, rejected>>
    BY <1>0, <1>1, <1>6, <1>7, <2>1, <2>2
  <2>3. CASE session' = Accepted /\ box' = [box EXCEPT !.valid = TRUE] /\ rejected' = rejected
    <3>1. session'.failures = 0 /\ session'.notBefore = session.notBefore /\ box'.delay = box.delay
      BY <1>0, <2>3 DEF Sessions, Accepted, Boxes
    <3> QED BY <1>0, <1>1, <1>6, <1>7, <2>1, <2>3, <3>1
  <2>4. CASE /\ box.rights = "none" /\ rejected' = t' /\ Ends("rejected")
             /\ \E delay \in BlockTimes : /\ session' = Rejected(delay)
                                          /\ box' = [box EXCEPT !.delay = t + delay]
    <3>1. PICK delay \in BlockTimes : /\ session' = Rejected(delay)
                                      /\ box' = [box EXCEPT !.delay = t + delay]
      BY <2>4
    <3>2. delay \in Nat /\ delay <= LongestBlock /\ BackoffMax \in Nat /\ BackoffMax <= LongestBlock
      BY LongestType, MeterAssumption
    <3>3. PICK b : b = Backoff(session.failures + 1)
      OBVIOUS
    <3>4. b \in Nat /\ b <= LongestBlock
      <4>1. session.failures + 1 \in Nat \ {0}
        BY <1>0
      <4> QED BY <1>0, <3>2, <3>3, <4>1, BackoffType
    <3>5. PICK m : m = Most(b, delay)
      OBVIOUS
    <3>6. m \in Nat /\ m <= LongestBlock /\ b <= m
      BY <1>0, <3>2, <3>4, <3>5 DEF Most
    <3>7. session'.failures = session.failures + 1 /\ session'.notBefore = t' + m
      <4>1. PICK f, v : f = session.failures + 1 /\ v = t' + m
        OBVIOUS
      <4>2. session' = [session EXCEPT !.failures = f, !.notBefore = v]
        BY <3>1, <3>3, <3>5, <4>1 DEF Rejected
      <4> QED BY <1>0, <4>1, <4>2 DEF Sessions
    <3>8. box'.delay = t + delay /\ req'.call = "none"
      BY <1>0, <2>4, <3>1 DEF Boxes, Ends, Idle
    <3>9. base1 = t'
      BY <1>1, <1>2, <2>4 DEF AllWell
    <3>10. BlocksEnd'
      <4>1. PICK now : now = t'
        OBVIOUS
      <4>2. now \in Nat /\ t <= now
        BY <1>1, <4>1
      <4>3. t + delay <= now + LongestBlock
        BY <1>0, <3>2, <4>2, Sums
      <4>4. now + m <= now + LongestBlock + Timeout
        BY <1>0, <3>6, <4>2
      <4> QED BY <1>5, <3>7, <3>8, <3>9, <4>1, <4>3, <4>4
    <3>11. Spaced'
      <4>1. Backoff(session'.failures) = b
        BY <3>3, <3>7
      <4>2. rejected' \in Nat /\ session'.notBefore >= rejected' + b
        BY <1>1, <2>4, <3>4, <3>6, <3>7
      <4>3. Backoff(session.failures)' = b
        BY <4>1 DEF Backoff
      <4> QED BY <3>8, <4>2, <4>3 DEF Spaced
    <3> QED BY <3>10, <3>11
  <2> QED BY <1>10, <2>2, <2>3, <2>4 DEF LoginPost
<1>11. CASE Get
  <2>1. req.call = "get" /\ box' = box /\ rejected' = rejected
    BY <1>11 DEF Get
  <2>2. session' = session \/ session' = [session EXCEPT !.held = FALSE]
    BY <1>11 DEF Get
  <2>3. session'.failures = session.failures /\ session'.notBefore = session.notBefore
    BY <1>0, <2>2 DEF Sessions
  <2>4. req'.call # "post"
    <3>1. req' = Idle \/ req' = [req EXCEPT !.call = "info", !.again = TRUE]
      BY <1>11 DEF Get, Goes, Ends
    <3>2. CASE req' = Idle
      BY <3>2 DEF Idle
    <3>3. CASE req' = [req EXCEPT !.call = "info", !.again = TRUE]
      <4>1. req \in Requests
        BY Types
      <4> QED BY <3>3, <4>1 DEF Requests
    <3> QED BY <3>1, <3>2, <3>3
  <2> QED BY <1>0, <1>6, <1>7, <2>1, <2>3, <2>4
<1> QED BY <1>8, <1>9, <1>10, <1>11 DEF HttpCall

(* ... and to the request: it goes on, or comes to an answer, which is none *)
(* but "ok" when all has been well for long enough.                         *)
GoesOn == /\ UNCHANGED <<pc, users>>
          /\ req' \in Requests /\ req'.call # "none"
          /\ Made < Made' /\ LoggedIn'

EndsWell(answer) ==
  /\ Ends(answer)
  /\ AllWell(box) /\ began - fine > LongestBlock + Timeout => answer = "ok"

LEMMA CallOutcome ==
  ASSUME ServiceInv, HttpCall
  PROVE  /\ pc # "wait"
         /\ GoesOn \/ \E answer : EndsWell(answer)
<1>0. /\ t \in Nat /\ Timeout \in Nat /\ fine \in Nat /\ LongestBlock \in Nat /\ began \in Nat
      /\ session.notBefore \in Nat /\ box.delay \in Nat /\ req \in Requests /\ box \in Boxes
  BY Types DEF ServiceInv
<1>1. began <= t /\ (pc = "wait" => req.call = "none")
  BY DEF ServiceInv, InTime
<1>2. pc # "wait"
  BY <1>1 DEF HttpCall, LoginBlocked, LoginInfo, LoginPost, Get
<1>3. ASSUME AllWell(box), began - fine > LongestBlock + Timeout
      PROVE  session.notBefore <= t /\ BlockTime = 0 /\ fine < began
  <2>1. box.delay <= fine + LongestBlock /\ session.notBefore <= fine + LongestBlock + Timeout
    BY <1>3 DEF ServiceInv, BlocksEnd
  <2>2. box.delay <= t /\ session.notBefore <= t /\ fine < began
    BY <1>0, <1>1, <1>3, <2>1
  <2> QED BY <1>0, <2>2 DEF BlockTime, Most
<1>4. CASE LoginBlocked
  <2>1. Ends("blocked") /\ session.notBefore > t
    BY <1>4 DEF LoginBlocked
  <2>2. ~(session.notBefore <= t)
    BY <1>0, <2>1
  <2> QED BY <1>2, <1>3, <2>1, <2>2 DEF EndsWell
<1>5. CASE LoginInfo
  <2>1. CASE ~box.up /\ Ends("unreachable")
    BY <1>2, <2>1 DEF EndsWell, AllWell
  <2>2. CASE BlockTime > 0 /\ Ends("blocked")
    <3>1. BlockTime # 0
      BY <1>0, <2>2
    <3> QED BY <1>2, <1>3, <2>2, <3>1 DEF EndsWell
  <2>3. CASE Goes([req EXCEPT !.call = "post"])
    <3>1. req' = [req EXCEPT !.call = "post"] /\ req.call = "info"
      BY <1>5, <2>3 DEF Goes, LoginInfo
    <3>2. req' \in Requests /\ req'.call = "post" /\ req'.again = req.again
      BY <1>0, <3>1 DEF Requests
    <3>3. Made' = Made + 1 /\ Made \in Nat
      BY <3>1, <3>2 DEF Made
    <3>4. Made < Made'
      BY <3>3
    <3>5. LoggedIn'
      BY <3>2 DEF LoggedIn
    <3> QED BY <1>2, <2>3, <3>2, <3>4, <3>5 DEF GoesOn, Goes
  <2> QED BY <1>5, <2>1, <2>2, <2>3 DEF LoginInfo
<1>6. CASE LoginPost
  <2>1. CASE ~box.up /\ Ends("unreachable")
    BY <1>2, <2>1 DEF EndsWell, AllWell
  <2>2. CASE box.rights = "none" /\ Ends("rejected")
    BY <1>2, <2>2 DEF EndsWell, AllWell
  <2>3. CASE box' = [box EXCEPT !.valid = TRUE] /\ Goes([req EXCEPT !.call = "get"])
    <3>1. req' = [req EXCEPT !.call = "get"] /\ req.call = "post"
      BY <1>6, <2>3 DEF Goes, LoginPost
    <3>2. req' \in Requests /\ req'.call = "get" /\ req'.again = req.again
      BY <1>0, <3>1 DEF Requests
    <3>3. Made' = Made + 1 /\ Made \in Nat
      BY <3>1, <3>2 DEF Made
    <3>4. Made < Made'
      BY <3>3
    <3>5. LoggedIn'
      BY <1>0, <2>3 DEF LoggedIn, Boxes
    <3> QED BY <1>2, <2>3, <3>2, <3>4, <3>5 DEF GoesOn, Goes
  <2> QED BY <1>6, <2>1, <2>2, <2>3 DEF LoginPost
<1>7. CASE Get
  <2>1. PICK served : served = (box.valid /\ box.rights = "all")
    OBVIOUS
  <2>2. CASE /\ ~box.up \/ served \/ req.again
             /\ Ends(IF ~box.up THEN "unreachable" ELSE IF served THEN "ok" ELSE "forbidden")
    <3>1. ASSUME AllWell(box), began - fine > LongestBlock + Timeout PROVE box.up /\ served
      <4>1. box.up /\ box.rights = "all" /\ fine < began /\ req.call = "get"
        BY <1>3, <1>7, <3>1 DEF AllWell, Get
      <4>2. served \/ req.again
        BY <2>2, <4>1
      <4> QED BY <2>1, <3>1, <4>1, <4>2 DEF ServiceInv, LoggedIn
    <3>2. PICK answer : answer = IF ~box.up THEN "unreachable" ELSE IF served THEN "ok"
                                 ELSE "forbidden"
      OBVIOUS
    <3> QED BY <1>2, <2>2, <3>1, <3>2 DEF EndsWell
  <2>3. CASE ~req.again /\ Goes([req EXCEPT !.call = "info", !.again = TRUE])
    <3>1. req' = [req EXCEPT !.call = "info", !.again = TRUE] /\ req.call = "get"
      BY <1>7, <2>3 DEF Goes, Get
    <3>2. req' \in Requests /\ req'.call = "info" /\ req'.again = TRUE
      BY <1>0, <3>1 DEF Requests
    <3>3. Made' = 3 /\ Made = 2
      BY <2>3, <3>1, <3>2 DEF Made
    <3>4. LoggedIn'
      BY <3>2 DEF LoggedIn
    <3> QED BY <1>2, <2>3, <3>2, <3>3, <3>4 DEF GoesOn, Goes
  <2> QED BY <1>7, <2>1, <2>2, <2>3 DEF Get
<1> QED BY <1>4, <1>5, <1>6, <1>7 DEF HttpCall

(* However it goes on, a call more is made.                                 *)
LEMMA CallInTime ==
  ASSUME ServiceInv, HttpCall, TypeOK',
         \/ GoesOn
         \/ /\ req' = Idle
            /\ \/ pc = "keep_awake" /\ pc' = "history"
               \/ pc = "history" /\ pc' = "poll"
               \/ pc = "poll" /\ pc' = "wait"
  PROVE  InTime'
<1>0. t \in Nat /\ began \in Nat /\ Timeout \in Nat /\ pc # "wait"
  BY Types, CallOutcome DEF ServiceInv
<1>1. PICK u, m, u1, m1 : u = Users /\ m = Made /\ u1 = Users' /\ m1 = Made'
  OBVIOUS
<1>2. m \in 0..5 /\ u \in 0..3
  BY <1>1, CallsType DEF ServiceInv
<1>3. m1 \in 0..5 /\ u1 \in 0..3
  <2>1. req' \in Requests
    BY DEF TypeOK, Requests
  <2>2. Made' \in 0..5
    BY <2>1 DEF Made, Requests
  <2>3. Users' \in 0..3
    BY DEF Users
  <2> QED BY <1>1, <2>2, <2>3
<1>4. PICK c, d, now : c = Calls /\ d = Calls' /\ now = t'
  OBVIOUS
<1>5. c = 6 * u + m /\ d = 6 * u1 + IF pc' = "wait" THEN 0 ELSE m1
  BY <1>0, <1>1, <1>4 DEF Calls
<1>6. c \in Nat /\ d \in Nat /\ c < d /\ (pc' = "wait" => req'.call = "none")
  <2>1. CASE GoesOn
    <3>1. u1 = u /\ m < m1 /\ pc' = pc
      BY <1>1, <2>1 DEF GoesOn, Users
    <3> QED BY <1>0, <1>2, <1>3, <1>5, <3>1
  <2>2. CASE /\ req' = Idle
             /\ \/ pc = "keep_awake" /\ pc' = "history"
                \/ pc = "history" /\ pc' = "poll"
                \/ pc = "poll" /\ pc' = "wait"
    <3>1. m1 = 0 /\ req'.call = "none"
      BY <1>1, <2>2 DEF Made, Idle
    <3>2. u1 = u + 1
      BY <1>1, <2>2 DEF Users
    <3> QED BY <1>2, <1>3, <1>5, <3>1, <3>2
  <2> QED BY <2>1, <2>2
<1>7. now \in Nat /\ t <= now /\ now <= t + Timeout /\ began' = began
  BY <1>4, CallFacts DEF ServiceInv
<1>8. c * Timeout + Timeout <= d * Timeout /\ c * Timeout \in Nat /\ d * Timeout \in Nat
  BY <1>0, <1>6, Spent
<1>9. began <= t /\ t - began <= c * Timeout
  BY <1>4 DEF ServiceInv, InTime
<1>10. began <= now /\ now - began <= d * Timeout
  <2>1. PICK x, y : x = c * Timeout /\ y = d * Timeout
    OBVIOUS
  <2>2. began <= now /\ now - began <= y
    BY <1>0, <1>7, <1>8, <1>9, <2>1
  <2> QED BY <2>1, <2>2
<1> QED BY <1>4, <1>6, <1>7, <1>10 DEF InTime

----------------------------------------------------------------------------
(* Invariance, action by action.                                            *)
LEMMA SameCounted == ASSUME Counted, UNCHANGED <<n, streak>> PROVE Counted'
BY DEF Counted, Reports, OutageSent

LEMMA ServiceInitInv == Init => ServiceInv
<1> SUFFICES ASSUME Init PROVE ServiceInv
  OBVIOUS
<1> USE DEF Init
<1>0. Timeout \in Nat /\ StaleAfter \in Nat /\ PokeEvery \in Nat /\ LongestBlock \in Nat
  BY MeterAssumption, LongestType
<1>1. FreshNotifier \in Notifiers
  BY DEF FreshNotifier, Notifiers
<1>2. TypeOK
  <2>1. events \in 0..MaxEvents
    BY MeterAssumption
  <2>2. session \in Sessions /\ tracker \in [seen : BOOLEAN, measured : Int]
    BY DEF NoSession, NoReading, Sessions
  <2>3. box \in Boxes
    <3>1. {0, Timeout} \subseteq 0..Timeout
      BY <1>0
    <3> HIDE DEF Init
    <3>2. box \in [up : BOOLEAN, lag : {0, Timeout}, rights : {"all", "login", "none"},
                   present : {TRUE}, sends : {TRUE}, valid : {FALSE}, delay : {0}]
      BY DEF Init
    <3> QED BY <3>1, <3>2, {FALSE} \subseteq BOOLEAN, {TRUE} \subseteq BOOLEAN, {0} \subseteq Nat
            DEF Boxes
  <2>4. poke \in [on : BOOLEAN, last : Int, error : BOOLEAN]
    <3>1. LongAgo \in Int
      BY <1>0 DEF LongAgo
    <3> QED BY <3>1, {FALSE} \subseteq BOOLEAN
  <2>5. history \in [next : Nat, error : BOOLEAN] /\ req \in Requests
    BY DEF Idle, Requests
  <2>6. /\ n \in Notifiers /\ published = Nothing /\ rejected = Nothing /\ disturbed = FALSE
        /\ t = 0 /\ began = 0 /\ streak = 0 /\ fine = 0 /\ pc = "keep_awake"
        /\ heard = 0 /\ drift = 0 /\ started = 0
    BY <1>1
  <2> HIDE DEF Init
  <2>7. /\ t \in Nat /\ began \in Nat /\ heard \in Nat /\ streak \in Nat /\ fine \in Nat
        /\ drift \in Int /\ started \in Int
        /\ pc \in {"keep_awake", "history", "poll", "wait"}
    BY <2>6
  <2>8. disturbed \in BOOLEAN
    BY <2>6, Zenon
  <2>9. published \in BOOLEAN \cup {Nothing} /\ rejected \in Nat \cup {Nothing} /\ n \in Notifiers
    <3>1. published = Nothing /\ rejected = Nothing /\ n \in Notifiers
      BY <2>6
    <3> QED BY <3>1
  <2> QED BY <2>1, <2>2, <2>3, <2>4, <2>5, <2>7, <2>8, <2>9 DEF TypeOK, Boxes, Sessions, Requests
<1>3. InTime
  <2>1. Calls = 0
    BY DEF Calls, Users, Made, Idle
  <2> QED BY <1>0, <2>1 DEF InTime
<1>4. Steady /\ LoggedIn /\ RecoversInTime
  BY <1>0, NothingAssumption DEF Steady, LoggedIn, RecoversInTime, NoReading, Idle
<1>5. Spaced /\ BlocksEnd
  <2>1. /\ box.delay = 0 /\ session.notBefore = 0 /\ session.failures = 0 /\ req.call = "none"
        /\ fine = 0 /\ t = 0
    BY DEF NoSession, Idle
  <2> HIDE DEF Init
  <2> QED BY <1>0, <2>1 DEF Spaced, BlocksEnd
<1>6. Counted
  <2>1. OutageKeys \subseteq Keys
    BY MeterAssumption DEF OutageKeys
  <2>2. \A k \in OutageKeys : n.alerts[k] = NoAlert
    BY <2>1 DEF FreshNotifier
  <2>3. Reports("poll") = 0 /\ Reports("login") = 0 /\ streak = 0
    BY <2>2 DEF Reports, OutageKeys
  <2> HIDE DEF Init
  <2> QED BY <2>2, <2>3 DEF Counted
<1> QED BY <1>2, <1>3, <1>4, <1>5, <1>6 DEF ServiceInv

(* The world does not touch what the loop has measured.                     *)
LEMMA SameTime ==
  ASSUME InTime, UNCHANGED <<t, pc, req, began>>
  PROVE  InTime'
BY DEF InTime, Calls, Users, Made

LEMMA BoxChangesInv == ASSUME ServiceInv, BoxChanges PROVE ServiceInv'
<1>0. /\ UNCHANGED <<t, drift, started, began, pc, req, session, poke, history, tracker,
                     published, n, heard, disturbed, streak, rejected>>
      /\ fine' = IF AllWell(box) /\ ~req.again THEN fine ELSE t
  BY DEF BoxChanges, clocks, ghosts
<1>1. /\ t \in Nat /\ fine \in Nat /\ box \in Boxes /\ began \in Nat /\ Timeout \in Nat
      /\ fine <= t /\ began <= t /\ LongestBlock \in Nat /\ events \in 0..MaxEvents
      /\ session.notBefore \in Nat /\ box.delay \in Nat
  BY Types DEF ServiceInv, TypeOK, BlocksEnd, InTime
<1>2. box' \in Boxes /\ box'.delay = box.delay
  <2>1. CASE box' \in {[box EXCEPT !.up = ~@, !.valid = FALSE], [box EXCEPT !.present = ~@],
                       [box EXCEPT !.sends = ~@], [box EXCEPT !.valid = FALSE]}
    BY <1>1, <2>1 DEF Boxes
  <2>2. CASE box' \in {[box EXCEPT !.lag = by] : by \in 0..Timeout}
    BY <1>1, <2>2 DEF Boxes
  <2>3. CASE box' \in {[box EXCEPT !.rights = r] : r \in {"all", "login", "none"}}
    BY <1>1, <2>3 DEF Boxes
  <2> QED BY <2>1, <2>2, <2>3 DEF BoxChanges
<1>3. fine' \in Nat /\ fine <= fine' /\ fine' <= t
  BY <1>0, <1>1
<1>4. TypeOK'
  <2>1. events' \in 0..MaxEvents
    BY <1>1, MeterAssumption DEF BoxChanges
  <2> QED BY <1>0, <1>2, <1>3, <2>1 DEF ServiceInv, TypeOK, Boxes
<1>5. (InTime /\ Steady /\ Spaced)'
  BY <1>0, SameTime DEF ServiceInv, Steady, Spaced, Backoff
<1>6. BlocksEnd'
  <2>1. PICK to, now : /\ to = (IF AllWell(box) THEN fine ELSE t)
                       /\ now = (IF AllWell(box') THEN fine' ELSE t')
    OBVIOUS
  <2>2. session.notBefore <= to + LongestBlock + Timeout /\ box.delay <= to + LongestBlock
    BY <2>1 DEF ServiceInv, BlocksEnd
  <2>3. to \in Nat /\ now \in Nat /\ to <= now
    BY <1>0, <1>1, <1>3, <2>1
  <2>4. /\ session.notBefore <= now + LongestBlock + Timeout
        /\ box.delay <= now + LongestBlock
    BY <1>1, <2>2, <2>3
  <2> QED BY <1>0, <1>2, <1>3, <2>1, <2>4 DEF BlocksEnd
<1>7. LoggedIn'
  <2> SUFFICES ASSUME req.call = "get", req.again, AllWell(box'), fine' < began PROVE FALSE
    BY <1>0 DEF LoggedIn
  <2>1. fine' = t
    BY <1>0
  <2> QED BY <1>1, <2>1
<1>8. RecoversInTime'
  <2>1. CASE fine' = fine /\ AllWell(box)
    BY <1>0, <2>1 DEF ServiceInv, RecoversInTime
  <2>2. CASE fine' = t
    <3>1. ~(began - t > LongestBlock + Timeout)
      BY <1>1
    <3> QED BY <1>0, <2>2, <3>1 DEF RecoversInTime
  <2> QED BY <1>0, <2>1, <2>2
<1>9. Counted'
  BY <1>0, SameCounted DEF ServiceInv
<1> QED BY <1>4, <1>5, <1>6, <1>7, <1>8, <1>9 DEF ServiceInv

LEMMA SameWorld ==
  ASSUME ServiceInv, TypeOK', InTime', Steady',
         UNCHANGED <<t, pc, box, session, n, began, streak, rejected, fine>>,
         req' = req \/ (req'.call # "post" /\ ~req'.again)
  PROVE  ServiceInv'
<1>1. Spaced' /\ LoggedIn'
  BY DEF ServiceInv, Spaced, LoggedIn, Backoff
<1>2. BlocksEnd'
  BY DEF ServiceInv, BlocksEnd
<1>3. RecoversInTime'
  BY DEF ServiceInv, RecoversInTime
<1>4. Counted'
  BY SameCounted DEF ServiceInv
<1> QED BY <1>1, <1>2, <1>3, <1>4 DEF ServiceInv

LEMMA ClockSetInv == ASSUME ServiceInv, ClockSet PROVE ServiceInv'
<1>1. events' \in 0..MaxEvents
  BY MeterAssumption DEF ServiceInv, TypeOK, ClockSet
<1>2. drift' \in Int
  <2>1. PICK by \in ClockSteps : drift' = drift + by
    BY DEF ClockSet
  <2> QED BY <2>1, Types, MeterAssumption DEF ServiceInv
<1>3. TypeOK'
  BY <1>1, <1>2 DEF ServiceInv, TypeOK, ClockSet
<1>4. InTime' /\ Steady'
  BY SameTime DEF ServiceInv, Steady, ClockSet
<1> QED BY <1>3, <1>4, SameWorld DEF ClockSet

LEMMA KeepAwakeCommandInv == ASSUME ServiceInv, KeepAwakeCommand PROVE ServiceInv'
<1>1. poke' \in [on : BOOLEAN, last : Int, error : BOOLEAN]
  <2>1. LongAgo \in Int
    BY MeterAssumption DEF LongAgo
  <2>2. poke \in [on : BOOLEAN, last : Int, error : BOOLEAN]
    BY DEF ServiceInv, TypeOK
  <2>3. poke' = [poke EXCEPT !.on = FALSE] \/ poke' = [poke EXCEPT !.on = TRUE, !.last = LongAgo]
    BY DEF KeepAwakeCommand
  <2> QED BY <2>1, <2>2, <2>3
<1>2. events' \in 0..MaxEvents
  BY MeterAssumption DEF ServiceInv, TypeOK, KeepAwakeCommand
<1>3. TypeOK'
  BY <1>1, <1>2 DEF ServiceInv, TypeOK, KeepAwakeCommand, clocks, ghosts
<1>4. InTime' /\ Steady'
  BY SameTime DEF ServiceInv, Steady, KeepAwakeCommand, clocks, ghosts
<1> QED BY <1>3, <1>4, SameWorld DEF KeepAwakeCommand, clocks, ghosts

(* A user of the session begins a request ...                               *)
LEMMA BeginsInv ==
  ASSUME ServiceInv, Begins, req = Idle, pc # "wait",
         poke' \in [on : BOOLEAN, last : Int, error : BOOLEAN]
  PROVE  ServiceInv'
<1>0. /\ UNCHANGED <<t, drift, started, began, pc, box, fine, events, session, history,
                     tracker, published, n, heard, disturbed, streak, rejected>>
  BY DEF Begins, clocks, ghosts, world
<1>1. PICK c : c \in {"get", "info"} /\ req' = [call |-> c, again |-> FALSE, from |-> t]
  BY DEF Begins
<1>2. /\ req' \in Requests /\ req'.call = c /\ req'.again = FALSE
  BY <1>1, Types DEF ServiceInv, Requests
<1>3. TypeOK'
  BY <1>0, <1>2 DEF ServiceInv, TypeOK, Requests
<1>4. InTime'
  <2>1. PICK m, m1, x, y : /\ m = Made /\ m1 = Made' /\ x = Calls /\ y = Calls'
    OBVIOUS
  <2>2. m = 0 /\ m1 \in {0, 2} /\ Users \in 0..3
    <3>1. m = 0
      BY <2>1 DEF Made, Idle
    <3>2. m1 \in {0, 2}
      BY <1>1, <1>2, <2>1 DEF Made
    <3> QED BY <3>1, <3>2, CallsType DEF ServiceInv
  <2>3. Users' = Users
    BY <1>0 DEF Users
  <2>4. x = 6 * Users + m /\ y = 6 * Users + m1
    BY <1>0, <2>1, <2>3 DEF Calls
  <2>5. x \in Nat /\ y \in Nat /\ x <= y
    BY <2>2, <2>4
  <2>6. /\ t \in Nat /\ began \in Nat /\ Timeout \in Nat
        /\ began <= t /\ t - began <= x * Timeout
    BY <2>1, Types DEF ServiceInv, InTime
  <2>7. x * Timeout <= y * Timeout /\ x * Timeout \in Nat /\ y * Timeout \in Nat
    BY <2>5, <2>6, Spent
  <2>8. t - began <= y * Timeout
    BY <2>6, <2>7
  <2> QED BY <1>0, <2>1, <2>6, <2>8 DEF InTime
<1>5. Steady'
  <2>1. Steady
    BY DEF ServiceInv
  <2>2. /\ tracker' = tracker /\ published' = published /\ disturbed' = disturbed
        /\ started' = started /\ began' = began /\ drift' = drift /\ heard' = heard
        /\ pc' = pc /\ t' = t
    BY <1>0
  <2> QED BY <2>1, <2>2 DEF Steady
<1>6. req'.call # "post" /\ ~req'.again
  BY <1>1, <1>2
<1> QED BY <1>0, <1>3, <1>4, <1>5, <1>6, SameWorld

(* ... or leaves it to the next.                                            *)
LEMMA SkipsInv ==
  ASSUME ServiceInv, NEW next, Skips(next),
         \/ pc = "keep_awake" /\ next = "history"
         \/ pc = "history" /\ next = "poll"
  PROVE  ServiceInv'
<1>0. /\ UNCHANGED <<t, req, drift, started, began, box, fine, events, session, poke, history,
                     tracker, published, n, heard, disturbed, streak, rejected>>
      /\ pc' = next
  BY DEF Skips, clocks, ghosts, world
<1>1. TypeOK'
  BY <1>0 DEF ServiceInv, TypeOK
<1>2. InTime'
  <2>1. PICK u, u1, m, x, y : /\ u = Users /\ u1 = Users' /\ m = Made /\ x = Calls /\ y = Calls'
    OBVIOUS
  <2>2. m \in 0..5 /\ u \in 0..3
    BY <2>1, CallsType DEF ServiceInv
  <2>3. Made' = Made
    BY <1>0 DEF Made
  <2>4. u1 = u + 1
    BY <1>0, <2>1 DEF Users
  <2>5. x = 6 * u + m /\ y = 6 * u1 + m
    BY <1>0, <2>1, <2>3 DEF Calls
  <2>6. x \in Nat /\ y \in Nat /\ x <= y
    BY <2>2, <2>4, <2>5
  <2>7. /\ t \in Nat /\ began \in Nat /\ Timeout \in Nat
        /\ began <= t /\ t - began <= x * Timeout
    BY <2>1, Types DEF ServiceInv, InTime
  <2>8. x * Timeout <= y * Timeout /\ x * Timeout \in Nat /\ y * Timeout \in Nat
    BY <2>6, <2>7, Spent
  <2>9. t - began <= y * Timeout
    BY <2>7, <2>8
  <2> QED BY <1>0, <2>1, <2>7, <2>9 DEF InTime
<1>3. (Steady /\ Spaced /\ LoggedIn /\ RecoversInTime)'
  BY <1>0 DEF ServiceInv, Steady, Spaced, LoggedIn, RecoversInTime, Backoff
<1>4. BlocksEnd'
  BY <1>0 DEF ServiceInv, BlocksEnd
<1>5. Counted'
  BY <1>0, SameCounted DEF ServiceInv
<1> QED BY <1>1, <1>2, <1>3, <1>4, <1>5 DEF ServiceInv

LEMMA TickInv == ASSUME ServiceInv, KeepAwakeTick \/ HistoryTick \/ Poll PROVE ServiceInv'
<1>1. poke \in [on : BOOLEAN, last : Int, error : BOOLEAN] /\ t \in Nat
  BY DEF ServiceInv, TypeOK
<1>2. CASE KeepAwakeTick
  <2>1. CASE Begins /\ poke' = [poke EXCEPT !.last = t]
    <3>1. poke' \in [on : BOOLEAN, last : Int, error : BOOLEAN]
      BY <1>1, <2>1
    <3> QED BY <1>2, <2>1, <3>1, BeginsInv DEF KeepAwakeTick
  <2>2. CASE Skips("history")
    BY <1>2, <2>2, SkipsInv DEF KeepAwakeTick
  <2> QED BY <1>2, <2>1, <2>2 DEF KeepAwakeTick
<1>3. CASE HistoryTick
  <2>1. CASE Begins /\ poke' = poke
    BY <1>1, <1>3, <2>1, BeginsInv DEF HistoryTick
  <2>2. CASE Skips("poll")
    BY <1>3, <2>2, SkipsInv DEF HistoryTick
  <2> QED BY <1>3, <2>1, <2>2 DEF HistoryTick
<1>4. CASE Poll
  BY <1>1, <1>4, BeginsInv DEF Poll
<1> QED BY <1>2, <1>3, <1>4

(* The wait is what is left of the interval, if nobody sets the clock.      *)
LEMMA WaitInv == ASSUME ServiceInv, Wait PROVE ServiceInv'
<1>0. /\ UNCHANGED <<req, drift, box, fine, events, session, poke, history,
                     tracker, published, n, heard, disturbed, streak, rejected>>
      /\ pc = "wait" /\ pc' = "keep_awake" /\ began' = t' /\ started' = t' + drift
      /\ t' = t + Most(0, 1 - (t + drift - started))
  BY DEF Wait, ghosts, world
<1>1. /\ t \in Nat /\ began \in Nat /\ fine \in Nat /\ drift \in Int /\ started \in Int
      /\ heard \in Nat /\ StaleAfter \in Nat /\ Timeout \in Nat /\ LongestBlock \in Nat
      /\ fine <= t /\ began <= t /\ session.notBefore \in Nat /\ box.delay \in Nat
  BY Types DEF ServiceInv, BlocksEnd, InTime
<1>2. PICK now, rest : now = t' /\ rest = Most(0, 1 - (t + drift - started))
  OBVIOUS
<1>3. rest \in Nat /\ (started = began + drift => rest <= 1)
  BY <1>1, <1>2 DEF Most
<1>4. now = t + rest /\ now \in Nat /\ t <= now /\ fine <= now
  BY <1>0, <1>1, <1>2, <1>3
<1>5. TypeOK'
  BY <1>0, <1>1, <1>2, <1>4 DEF ServiceInv, TypeOK
<1>6. InTime'
  <2>1. PICK c : c = Calls'
    OBVIOUS
  <2>2. c \in Nat
    <3>1. req'.call = "none" /\ req' \in Requests
      BY <1>0, Types DEF ServiceInv, InTime
    <3>2. PICK u, m : u = Users' /\ m = Made'
      OBVIOUS
    <3>3. m \in 0..5 /\ u = 0
      <4>1. Made' \in 0..5
        BY <3>1 DEF Made, Requests
      <4>2. Users' = 0
        BY <1>0 DEF Users
      <4> QED BY <3>2, <4>1, <4>2
    <3>4. c = 6 * u + m
      BY <1>0, <2>1, <3>2 DEF Calls
    <3> QED BY <3>3, <3>4
  <2>3. 0 * Timeout <= c * Timeout
    BY <1>1, <2>2, Spent
  <2>4. began' <= t' /\ t' - began' <= c * Timeout
    <3>1. began' = now /\ now - now = 0 /\ c * Timeout >= 0
      BY <1>0, <1>1, <1>2, <1>4, <2>3
    <3> QED BY <1>2, <1>4, <3>1
  <2> QED BY <1>0, <2>1, <2>4 DEF InTime
<1>7. Steady'
  <2>1. ~tracker'.seen => published' = Nothing
    BY <1>0 DEF ServiceInv, Steady
  <2>2. /\ started' = began' + drift'
        /\ ~disturbed' /\ tracker'.seen => tracker'.measured = heard' + drift'
    BY <1>0 DEF ServiceInv, Steady
  <2>3. ASSUME published' = FALSE, ~disturbed' PROVE began' - heard' <= StaleAfter + 1
    <3>1. t - heard <= StaleAfter /\ started = began + drift
      BY <1>0, <2>3 DEF ServiceInv, Steady
    <3>2. now - heard <= StaleAfter + 1
      BY <1>1, <1>3, <1>4, <3>1
    <3> QED BY <1>0, <1>2, <3>2
  <2> QED BY <1>0, <2>1, <2>2, <2>3 DEF Steady
<1>8. (Spaced /\ LoggedIn /\ RecoversInTime)'
  <2>1. req.call = "none"
    BY <1>0 DEF ServiceInv, InTime
  <2> QED BY <1>0, <2>1 DEF ServiceInv, Spaced, LoggedIn, RecoversInTime, Backoff
<1>9. BlocksEnd'
  <2>1. PICK from, to : /\ from = (IF AllWell(box) THEN fine ELSE t)
                        /\ to = (IF AllWell(box) THEN fine ELSE now)
    OBVIOUS
  <2>2. from \in Nat /\ to \in Nat /\ from <= to
    BY <1>1, <1>4, <2>1
  <2>3. session.notBefore <= from + LongestBlock + Timeout /\ box.delay <= from + LongestBlock
    BY <2>1 DEF ServiceInv, BlocksEnd
  <2>4. session.notBefore <= to + LongestBlock + Timeout /\ box.delay <= to + LongestBlock
    BY <1>1, <2>2, <2>3
  <2> QED BY <1>0, <1>2, <1>4, <2>1, <2>4 DEF BlocksEnd
<1>10. Counted'
  BY <1>0, SameCounted DEF ServiceInv
<1> QED BY <1>5, <1>6, <1>7, <1>8, <1>9, <1>10 DEF ServiceInv

LEMMA EmptiedKeeps ==
  ASSUME NEW s \in Notifiers
  PROVE  Emptied(s) \in Notifiers /\ Emptied(s).alerts = s.alerts
<1> DEFINE R0 == SUBSET (Nat \ {0})
           P0 == Seq(Messages)
           Q0 == Seq(Nat)
<1>1. Notifiers = [alerts : [Keys -> Alert \cup {NoAlert}], passed : P0, recent : R0,
                   q : Q0, lost : SUBSET (Keys \cup {"event"})]
  BY DEF Notifiers
<1>2. <<>> \in P0 /\ <<>> \in Q0 /\ {} \in R0
  OBVIOUS
<1> HIDE DEF R0, P0, Q0
<1> QED BY <1>1, <1>2 DEF Emptied

(* What the reports of a poll make of the two keys of an outage: the reached*)
(* box resolves one, any other answer counts for one of them.               *)
LEMMA ReportsAlerts ==
  ASSUME TypeOK, t' \in Nat, NEW answer, NEW s, NEW stale
  PROVE  LET e == ReportOthers(Report(Emptied(n), answer, s, stale))
         IN  /\ e \in Notifiers
             /\ answer = "ok" => /\ e.alerts["poll"] = NoAlert
                                 /\ e.alerts["login"] = n.alerts["login"]
             /\ answer # "ok" =>
                  \/ /\ Step(n.alerts["login"], e.alerts["login"])
                     /\ e.alerts["poll"] = n.alerts["poll"]
                  \/ /\ Step(n.alerts["poll"], e.alerts["poll"])
                     /\ e.alerts["login"] = n.alerts["login"]
<1>1. PICK u : u = t'
  OBVIOUS
<1>2. u \in Nat /\ MinDuration \in Nat /\ StaleFuse \in Nat /\ n \in Notifiers
  BY <1>1, MeterAssumption DEF TypeOK
<1>3. /\ "poll" \in Keys /\ "login" \in Keys
      /\ "stale" \in Keys /\ "history" \in Keys /\ "keep_awake" \in Keys
  BY MeterAssumption
<1>4. PICK m : m = Emptied(n)
  OBVIOUS
<1>5. m \in Notifiers /\ m.alerts = n.alerts
  BY <1>2, <1>4, EmptiedKeeps
<1>6. PICK p : p = Report(m, answer, s, stale)
  OBVIOUS
<1>7. /\ p \in Notifiers
      /\ answer = "ok" => /\ p.alerts["poll"] = NoAlert
                          /\ p.alerts["login"] = m.alerts["login"]
      /\ answer # "ok" =>
           \/ /\ Step(m.alerts["login"], p.alerts["login"])
              /\ p.alerts["poll"] = m.alerts["poll"]
           \/ /\ Step(m.alerts["poll"], p.alerts["poll"])
              /\ p.alerts["login"] = m.alerts["login"]
  <2>1. CASE answer = "ok"
    <3>1. PICK reached : reached = Resolved(m, "poll", u)
      OBVIOUS
    <3>2. Only("poll", m, reached) /\ reached.alerts["poll"] = NoAlert
      BY <1>2, <1>3, <1>5, <3>1, ResolvedAlerts
    <3>3. p = Failure(reached, "stale", StaleFuse, u) \/ p = Resolved(reached, "stale", u)
      BY <1>1, <1>6, <2>1, <3>1 DEF Report
    <3>4. Only("stale", reached, p)
      <4>1. reached \in Notifiers
        BY <3>2 DEF Only
      <4>2. CASE p = Failure(reached, "stale", StaleFuse, u)
        BY <1>2, <1>3, <4>1, <4>2, FailureAlerts
      <4>3. CASE p = Resolved(reached, "stale", u)
        BY <1>2, <1>3, <4>1, <4>3, ResolvedAlerts
      <4> QED BY <3>3, <4>2, <4>3
    <3> QED BY <1>3, <2>1, <3>2, <3>4 DEF Only
  <2>2. CASE answer # "ok"
    <3>1. \/ p = Failure(m, "login", MinDuration, u)
          \/ p = Failure(m, "poll", MinDuration, u)
      BY <1>1, <1>6, <2>2 DEF Report
    <3>2. CASE p = Failure(m, "login", MinDuration, u)
      <4>1. Only("login", m, p) /\ Step(m.alerts["login"], p.alerts["login"])
        BY <1>2, <1>3, <1>5, <3>2, FailureAlerts
      <4> QED BY <1>3, <2>2, <4>1 DEF Only
    <3>3. CASE p = Failure(m, "poll", MinDuration, u)
      <4>1. Only("poll", m, p) /\ Step(m.alerts["poll"], p.alerts["poll"])
        BY <1>2, <1>3, <1>5, <3>3, FailureAlerts
      <4> QED BY <1>3, <2>2, <4>1 DEF Only
    <3> QED BY <3>1, <3>2, <3>3
  <2> QED BY <2>1, <2>2
<1>8. PICK poked : poked = IF poke.error THEN Failure(p, "keep_awake", MinDuration, u)
                           ELSE IF poke.on THEN Resolved(p, "keep_awake", u) ELSE p
  OBVIOUS
<1>9. Only("keep_awake", p, poked)
  <2>1. CASE poked = p
    BY <1>7, <2>1 DEF Only
  <2>2. CASE poked = Failure(p, "keep_awake", MinDuration, u)
    BY <1>2, <1>3, <1>7, <2>2, FailureAlerts
  <2>3. CASE poked = Resolved(p, "keep_awake", u)
    BY <1>2, <1>3, <1>7, <2>3, ResolvedAlerts
  <2> QED BY <1>8, <2>1, <2>2, <2>3
<1>10. PICK e : e = ReportOthers(p)
  OBVIOUS
<1>11. e = Failure(poked, "history", MinDuration, u) \/ e = Resolved(poked, "history", u)
  BY <1>1, <1>8, <1>10 DEF ReportOthers
<1>12. Only("history", poked, e)
  <2>1. poked \in Notifiers
    BY <1>9 DEF Only
  <2>2. CASE e = Failure(poked, "history", MinDuration, u)
    BY <1>2, <1>3, <2>1, <2>2, FailureAlerts
  <2>3. CASE e = Resolved(poked, "history", u)
    BY <1>2, <1>3, <2>1, <2>3, ResolvedAlerts
  <2> QED BY <1>11, <2>2, <2>3
<1>13. /\ e \in Notifiers
       /\ e.alerts["poll"] = p.alerts["poll"] /\ e.alerts["login"] = p.alerts["login"]
  BY <1>3, <1>9, <1>12 DEF Only
<1>14. ReportOthers(Report(Emptied(n), answer, s, stale)) = e
  BY <1>4, <1>6, <1>10
<1> QED BY <1>5, <1>7, <1>13, <1>14

(* One report more of one of the keys.                                      *)
LEMMA StepCounts ==
  ASSUME NEW a \in Alert \cup {NoAlert}, NEW b, Step(a, b),
         a # NoAlert /\ ~a.notified => a.count < Most(MinCount, 2)
  PROVE  /\ b # NoAlert
         /\ a # NoAlert /\ a.notified => b.notified
         /\ ~b.notified => /\ b.count < Most(MinCount, 2)
                           /\ b.count = 1 + IF a = NoAlert THEN 0 ELSE a.count
<1>1. b \in Alert /\ b # NoAlert /\ MinCount \in Nat \ {0} /\ b.count \in Nat
  BY NoAlertAssumption, AlertsAssumption DEF Step, Alert
<1>2. CASE a = NoAlert
  BY <1>1, <1>2 DEF Step, Most
<1>3. CASE a # NoAlert
  <2>1. a.count \in Nat /\ a.notified \in BOOLEAN
    BY <1>3, AlertsAssumption DEF Alert
  <2>2. CASE b.notified
    BY <1>1, <2>2
  <2>3. CASE ~a.notified /\ b.count = a.count + 1 /\ b.count < MinCount
    BY <1>1, <1>3, <2>1, <2>3 DEF Most
  <2> QED BY <1>3, <2>2, <2>3 DEF Step
<1> QED BY <1>2, <1>3

LEMMA PollCounted ==
  ASSUME TypeOK, Counted,
         IF streak' = 0
           THEN n'.alerts["poll"] = NoAlert /\ n'.alerts["login"] = n.alerts["login"]
           ELSE \/ /\ Step(n.alerts["login"], n'.alerts["login"])
                   /\ n'.alerts["poll"] = n.alerts["poll"]
                \/ /\ Step(n.alerts["poll"], n'.alerts["poll"])
                   /\ n'.alerts["login"] = n.alerts["login"],
         n' \in Notifiers, streak' \in {0, streak + 1}
  PROVE  Counted'
<1>1. PICK p, l, p1, l1 : /\ p = n.alerts["poll"] /\ p1 = n'.alerts["poll"]
                          /\ l = n.alerts["login"] /\ l1 = n'.alerts["login"]
  OBVIOUS
<1>2. {p, l, p1, l1} \subseteq Alert \cup {NoAlert} /\ streak \in Nat
  <2>1. {"poll", "login"} \subseteq Keys
    BY MeterAssumption
  <2> QED BY <1>1, <2>1 DEF TypeOK, Notifiers
<1> DEFINE Count(a) == IF a = NoAlert THEN 0 ELSE a.count
           Early(a) == a # NoAlert /\ ~a.notified => a.count < Most(MinCount, 2)
           Sent(a) == a # NoAlert /\ a.notified
<1>3. \A a \in Alert \cup {NoAlert} : Count(a) \in Nat
  BY AlertsAssumption DEF Alert
<1>4. Early(p) /\ Early(l) /\ (Sent(p) \/ Sent(l) \/ streak <= Count(p) + Count(l))
  BY <1>1 DEF Counted, OutageSent, Reports, OutageKeys
<1>5. ASSUME Early(p1), Early(l1), Sent(p1) \/ Sent(l1) \/ streak' <= Count(p1) + Count(l1)
      PROVE  Counted'
  BY <1>1, <1>5 DEF Counted, OutageSent, Reports, OutageKeys
<1>6. CASE streak' = 0
  <2>1. Early(p1) /\ Early(l1)
    BY <1>1, <1>4, <1>6
  <2>2. Count(p1) \in Nat /\ Count(l1) \in Nat
    BY <1>2, <1>3
  <2>3. streak' <= Count(p1) + Count(l1)
    <3> HIDE DEF Count
    <3> QED BY <1>6, <2>2
  <2> QED BY <1>5, <2>1, <2>3
<1>7. CASE streak' # 0 /\ Step(l, l1) /\ p1 = p
  <2>1. /\ Sent(l) => Sent(l1)
        /\ Early(l1)
        /\ Sent(l1) \/ Count(l1) = 1 + Count(l)
    BY <1>2, <1>4, <1>7, StepCounts
  <2>2. streak' = streak + 1 /\ Count(p) \in Nat /\ Count(l) \in Nat
    BY <1>2, <1>3, <1>7
  <2>3. CASE Sent(p) \/ Sent(l1)
    BY <1>4, <1>5, <1>7, <2>1, <2>3
  <2>4. CASE ~Sent(p) /\ ~Sent(l1)
    <3>1. Count(l1) = 1 + Count(l) /\ streak <= Count(p) + Count(l)
      BY <1>4, <2>1, <2>4
    <3>2. streak' <= Count(p1) + Count(l1)
      <4> HIDE DEF Count
      <4> QED BY <1>2, <1>7, <2>2, <3>1
    <3> QED BY <1>4, <1>5, <1>7, <2>1, <3>2
  <2> QED BY <2>3, <2>4
<1>8. CASE streak' # 0 /\ Step(p, p1) /\ l1 = l
  <2>1. /\ Sent(p) => Sent(p1)
        /\ Early(p1)
        /\ Sent(p1) \/ Count(p1) = 1 + Count(p)
    BY <1>2, <1>4, <1>8, StepCounts
  <2>2. streak' = streak + 1 /\ Count(p) \in Nat /\ Count(l) \in Nat
    BY <1>2, <1>3, <1>8
  <2>3. CASE Sent(l) \/ Sent(p1)
    BY <1>4, <1>5, <1>8, <2>1, <2>3
  <2>4. CASE ~Sent(l) /\ ~Sent(p1)
    <3>1. Count(p1) = 1 + Count(p) /\ streak <= Count(p) + Count(l)
      BY <1>4, <2>1, <2>4
    <3>2. streak' <= Count(p1) + Count(l1)
      <4> HIDE DEF Count
      <4> QED BY <1>2, <1>8, <2>2, <3>1
    <3> QED BY <1>4, <1>5, <1>8, <2>1, <3>2
  <2> QED BY <2>3, <2>4
<1> QED BY <1>1, <1>6, <1>7, <1>8

----------------------------------------------------------------------------
(* An HTTP call: the request goes on ...                                    *)
LEMMA GoesOnInv == ASSUME ServiceInv, HttpCall, GoesOn PROVE ServiceInv'
<1>0. /\ UNCHANGED <<drift, started, began, fine, events, pc, poke, history, tracker,
                     published, n, heard, disturbed, streak>>
      /\ pc # "wait"
  BY CallFacts, CallOutcome DEF GoesOn, users, ServiceInv
<1>1. /\ t' \in Nat /\ box' \in Boxes /\ session' \in Sessions /\ rejected' \in Nat \cup {Nothing}
      /\ req' \in Requests
  BY CallFacts DEF ServiceInv, GoesOn
<1>2. TypeOK'
  BY <1>0, <1>1 DEF ServiceInv, TypeOK, Boxes, Sessions, Requests
<1>3. InTime' /\ Spaced' /\ BlocksEnd' /\ LoggedIn'
  BY <1>2, CallInTime, CallBlocks DEF ServiceInv, GoesOn
<1>4. Steady'
  <2>1. Steady
    BY DEF ServiceInv
  <2>2. /\ tracker' = tracker /\ published' = published /\ disturbed' = disturbed
        /\ started' = started /\ began' = began /\ drift' = drift /\ heard' = heard
        /\ pc' = pc /\ pc # "wait"
    BY <1>0
  <2> QED BY <2>1, <2>2 DEF Steady
<1>5. RecoversInTime' /\ Counted'
  BY <1>0, SameCounted DEF ServiceInv, RecoversInTime
<1> QED BY <1>2, <1>3, <1>4, <1>5 DEF ServiceInv

(* ... or comes to an answer, for a side channel ...                        *)
LEMMA SideEndsInv ==
  ASSUME ServiceInv, HttpCall, NEW answer, req' = Idle,
         \/ pc = "keep_awake" /\ PokeEnds(answer)
         \/ pc = "history" /\ HistoryEnds(answer)
  PROVE  ServiceInv'
<1>0. /\ UNCHANGED <<drift, started, began, fine, events, tracker, published, n, heard,
                     disturbed, streak>>
      /\ pc # "wait" /\ pc' # "wait"
  BY CallFacts DEF ServiceInv, PokeEnds, HistoryEnds
<1>1. /\ t' \in Nat /\ box' \in Boxes /\ session' \in Sessions /\ rejected' \in Nat \cup {Nothing}
      /\ req' \in Requests
  BY CallFacts DEF ServiceInv, Idle, Requests
<1>2. poke' \in [on : BOOLEAN, last : Int, error : BOOLEAN]
  <2>1. PICK failed : failed = (answer # "ok")
    OBVIOUS
  <2>2. poke' = poke \/ poke' = [poke EXCEPT !.error = failed]
    BY <2>1 DEF PokeEnds, HistoryEnds
  <2>3. failed \in BOOLEAN /\ poke \in [on : BOOLEAN, last : Int, error : BOOLEAN]
    BY <2>1 DEF ServiceInv, TypeOK
  <2> QED BY <2>2, <2>3
<1>3. history' \in [next : Nat, error : BOOLEAN]
  <2>1. PICK from : from = req.from
    OBVIOUS
  <2>2. from \in Nat /\ HistoryEvery \in Nat /\ HistoryRetry \in Nat
    BY <2>1, MeterAssumption DEF ServiceInv, TypeOK
  <2>3. /\ [next |-> from + HistoryEvery, error |-> FALSE] \in [next : Nat, error : BOOLEAN]
        /\ [next |-> from + HistoryRetry, error |-> TRUE] \in [next : Nat, error : BOOLEAN]
    BY <2>2
  <2>4. history \in [next : Nat, error : BOOLEAN]
    BY DEF ServiceInv, TypeOK
  <2>5. \/ history' = history
        \/ history' = [next |-> from + HistoryEvery, error |-> FALSE]
        \/ history' = [next |-> from + HistoryRetry, error |-> TRUE]
    BY <2>1 DEF PokeEnds, HistoryEnds
  <2> QED BY <2>3, <2>4, <2>5
<1>4. TypeOK'
  <2>1. pc' \in {"keep_awake", "history", "poll", "wait"}
    BY DEF PokeEnds, HistoryEnds
  <2> QED BY <1>0, <1>1, <1>2, <1>3, <2>1 DEF ServiceInv, TypeOK, Boxes, Sessions, Requests
<1>5. InTime' /\ Spaced' /\ BlocksEnd'
  <2>1. (pc = "keep_awake" /\ pc' = "history") \/ (pc = "history" /\ pc' = "poll")
    BY DEF PokeEnds, HistoryEnds
  <2> QED BY <1>4, <2>1, CallInTime, CallBlocks DEF ServiceInv
<1>6. Steady'
  <2>1. Steady
    BY DEF ServiceInv
  <2>2. /\ tracker' = tracker /\ published' = published /\ disturbed' = disturbed
        /\ started' = started /\ began' = began /\ drift' = drift /\ heard' = heard
        /\ pc' # "wait" /\ pc # "wait"
    BY <1>0
  <2> QED BY <2>1, <2>2 DEF Steady
<1>7. LoggedIn' /\ RecoversInTime' /\ Counted'
  BY <1>0, SameCounted DEF ServiceInv, LoggedIn, RecoversInTime, Idle
<1> QED BY <1>4, <1>5, <1>6, <1>7 DEF ServiceInv

(* ... or for the poll.                                                     *)
LEMMA PollEndsInv ==
  ASSUME ServiceInv, HttpCall, NEW given, EndsWell(given), pc = "poll"
  PROVE  ServiceInv'
<1>0. PICK answer : answer = Parsed(given)
  OBVIOUS
<1>1. req' = Idle /\ PollEnds(answer)
  BY <1>0 DEF EndsWell, Ends
<1>2. /\ t' \in Nat /\ box' \in Boxes /\ session' \in Sessions /\ rejected' \in Nat \cup {Nothing}
      /\ UNCHANGED <<drift, started, began, fine, events>>
      /\ AllWell(box') <=> AllWell(box)
  BY CallFacts DEF ServiceInv, AllWell
<1>3. /\ pc' = "wait" /\ poke' = poke /\ history' = history
      /\ tracker' = (IF answer = "ok" THEN Updated ELSE tracker)
      /\ published' = Publishes(answer, tracker')
      /\ n' = ReportOthers(Report(Emptied(n), answer, session', IsStale(tracker')))
      /\ streak' = (IF answer = "ok" THEN 0 ELSE streak + 1)
      /\ heard' = (IF answer = "ok" /\ Fresh THEN t' ELSE heard)
      /\ disturbed' = (IF answer = "ok" /\ Fresh THEN started # began + drift ELSE disturbed)
  BY <1>1 DEF PollEnds
<1>4. PICK now : now = t'
  OBVIOUS
<1>5. /\ now \in Nat /\ t \in Nat /\ began \in Nat /\ drift \in Int /\ started \in Int
      /\ heard \in Nat /\ streak \in Nat /\ StaleAfter \in Nat /\ Fresh \in BOOLEAN
      /\ tracker \in [seen : BOOLEAN, measured : Int] /\ published \in BOOLEAN \cup {Nothing}
      /\ disturbed \in BOOLEAN
  BY <1>2, <1>4, Types DEF ServiceInv, TypeOK, Fresh
<1>6. /\ Updated \in [seen : BOOLEAN, measured : Int] /\ Updated.seen = TRUE
      /\ Updated.measured = IF Fresh THEN now + drift ELSE tracker.measured
  <2>1. Updated = [seen |-> TRUE, measured |-> IF Fresh THEN now + drift ELSE tracker.measured]
    BY <1>4 DEF Updated
  <2> QED BY <1>5, <2>1
<1>7. tracker' \in [seen : BOOLEAN, measured : Int]
  BY <1>3, <1>5, <1>6
<1>8. published' \in BOOLEAN \cup {Nothing}
  BY <1>3, <1>5 DEF Publishes, IsStale
<1>9. /\ n' \in Notifiers
      /\ answer = "ok" => /\ n'.alerts["poll"] = NoAlert
                          /\ n'.alerts["login"] = n.alerts["login"]
      /\ answer # "ok" =>
           \/ /\ Step(n.alerts["login"], n'.alerts["login"])
              /\ n'.alerts["poll"] = n.alerts["poll"]
           \/ /\ Step(n.alerts["poll"], n'.alerts["poll"])
              /\ n'.alerts["login"] = n.alerts["login"]
  <2>1. PICK s, stale : s = session' /\ stale = IsStale(tracker')
    OBVIOUS
  <2>2. n' = ReportOthers(Report(Emptied(n), answer, s, stale))
    BY <1>3, <2>1
  <2> QED BY <1>2, <2>2, ReportsAlerts DEF ServiceInv
<1>10. /\ streak' \in {0, streak + 1} /\ streak' \in Nat
       /\ streak' = 0 <=> answer = "ok"
  BY <1>3, <1>5
<1>11. heard' \in Nat /\ disturbed' \in BOOLEAN
  BY <1>3, <1>4, <1>5
<1>12. TypeOK'
  <2>1. req' \in Requests
    BY <1>1 DEF Idle, Requests
  <2> QED BY <1>2, <1>3, <1>7, <1>8, <1>9, <1>10, <1>11, <2>1
          DEF ServiceInv, TypeOK, Boxes, Sessions, Requests
<1>13. InTime' /\ Spaced' /\ BlocksEnd'
  BY <1>1, <1>3, <1>12, CallInTime, CallBlocks DEF ServiceInv
<1>14. Steady'
  <2>1. /\ ~tracker.seen => published = Nothing
        /\ ~disturbed => /\ started = began + drift
                         /\ tracker.seen => tracker.measured = heard + drift
    BY DEF ServiceInv, Steady
  <2>2. tracker'.seen => (published' = (now + drift - tracker'.measured > StaleAfter))
    BY <1>3, <1>4 DEF Publishes, IsStale
  <2>3. ~tracker'.seen => published' = Nothing
    <3> SUFFICES ASSUME ~tracker'.seen PROVE published' = Nothing
      OBVIOUS
    <3>1. tracker' = tracker
      BY <1>3, <1>6
    <3>2. published' = published
      BY <1>3 DEF Publishes
    <3> QED BY <2>1, <3>1, <3>2
  <2>4. ASSUME ~disturbed'
        PROVE  started = began + drift /\ (tracker'.seen => tracker'.measured = heard' + drift)
    <3>1. CASE answer = "ok" /\ Fresh
      BY <1>3, <1>4, <1>5, <1>6, <2>4, <3>1
    <3>2. CASE answer = "ok" /\ ~Fresh
      <4>1. tracker.seen
        BY <3>2 DEF Fresh
      <4> QED BY <1>3, <1>6, <2>1, <2>4, <3>2, <4>1
    <3>3. CASE answer # "ok"
      BY <1>3, <2>1, <2>4, <3>3
    <3> QED BY <3>1, <3>2, <3>3
  <2>5. ASSUME published' = FALSE, ~disturbed' PROVE t' - heard' <= StaleAfter
    <3>1. tracker'.seen
      BY <2>3, <2>5, NothingAssumption
    <3>2. PICK m, h : m = tracker'.measured /\ h = heard'
      OBVIOUS
    <3>3. m \in Int /\ h \in Nat /\ m = h + drift
      BY <1>7, <1>11, <2>4, <2>5, <3>1, <3>2
    <3>4. ~(now + drift - m > StaleAfter)
      BY <2>2, <2>5, <3>1, <3>2
    <3>5. now - h <= StaleAfter
      BY <1>5, <3>3, <3>4
    <3> QED BY <1>4, <3>2, <3>5
  <2> QED BY <1>2, <1>3, <2>3, <2>4, <2>5 DEF Steady
<1>15. LoggedIn'
  BY <1>1 DEF LoggedIn, Idle
<1>16. RecoversInTime'
  <2> SUFFICES ASSUME AllWell(box'), began' - fine' > LongestBlock + Timeout PROVE streak' = 0
    BY DEF RecoversInTime
  <2>1. AllWell(box) /\ given = "ok"
    BY <1>2 DEF EndsWell
  <2>2. answer = "ok"
    BY <1>0, <2>1 DEF Parsed, AllWell
  <2> QED BY <1>10, <2>2
<1>17. Counted'
  <2>1. IF streak' = 0
          THEN n'.alerts["poll"] = NoAlert /\ n'.alerts["login"] = n.alerts["login"]
          ELSE \/ /\ Step(n.alerts["login"], n'.alerts["login"])
                  /\ n'.alerts["poll"] = n.alerts["poll"]
               \/ /\ Step(n.alerts["poll"], n'.alerts["poll"])
                  /\ n'.alerts["login"] = n.alerts["login"]
    BY <1>9, <1>10
  <2> QED BY <1>9, <1>10, <2>1, PollCounted DEF ServiceInv
<1> QED BY <1>12, <1>13, <1>14, <1>15, <1>16, <1>17 DEF ServiceInv

LEMMA HttpCallInv == ASSUME ServiceInv, HttpCall PROVE ServiceInv'
<1>1. CASE GoesOn
  BY <1>1, GoesOnInv
<1>2. ASSUME NEW answer, EndsWell(answer) PROVE ServiceInv'
  <2>1. CASE pc = "poll"
    BY <1>2, <2>1, PollEndsInv
  <2>2. CASE pc # "poll"
    <3>1. /\ req' = Idle
          /\ \/ pc = "keep_awake" /\ PokeEnds(answer)
             \/ pc = "history" /\ HistoryEnds(answer)
      BY <1>2, <2>2 DEF EndsWell, Ends
    <3> QED BY <3>1, SideEndsInv
  <2> QED BY <2>1, <2>2
<1> QED BY <1>1, <1>2, CallOutcome

LEMMA ServiceStutterInv == ASSUME ServiceInv, UNCHANGED vars PROVE ServiceInv'
<1>0. UNCHANGED <<t, drift, started, began, pc, req, box, fine, events, session, poke, history,
                  tracker, published, n, heard, disturbed, streak, rejected>>
  BY DEF vars, clocks, world, ghosts
<1>1. TypeOK'
  BY <1>0 DEF ServiceInv, TypeOK
<1>2. InTime' /\ Steady'
  BY <1>0, SameTime DEF ServiceInv, Steady
<1> QED BY <1>0, <1>1, <1>2, SameWorld

LEMMA ServiceStepInv == ServiceInv /\ [Next]_vars => ServiceInv'
<1> SUFFICES ASSUME ServiceInv, [Next]_vars PROVE ServiceInv'
  OBVIOUS
<1>1. CASE Iteration
  BY <1>1, TickInv, HttpCallInv, WaitInv DEF Iteration
<1>2. CASE BoxChanges \/ ClockSet \/ KeepAwakeCommand
  BY <1>2, BoxChangesInv, ClockSetInv, KeepAwakeCommandInv
<1>3. CASE UNCHANGED vars
  BY <1>3, ServiceStutterInv
<1> QED BY <1>1, <1>2, <1>3 DEF Next

THEOREM ServiceInvariance == Spec => []ServiceInv
BY ServiceInitInv, ServiceStepInv, PTL DEF Spec

(* The variables of MeterService keep their types.                          *)
THEOREM ServiceTypeCorrect == Spec => []TypeOK
<1>1. ServiceInv => TypeOK
  BY DEF ServiceInv
<1> QED BY <1>1, ServiceInvariance, PTL

(* A retained power message that does not say stale is recent, however long *)
(* the three requests of an iteration take and whatever they come to, unless*)
(* the wall clock was set.                                                  *)
THEOREM FreshMessagesAreRecent == Spec => []FreshIsRecent
<1>1. ServiceInv => FreshIsRecent
  <2> SUFFICES ASSUME ServiceInv, published = FALSE, ~disturbed
               PROVE  t - heard <= StaleAfter + 1 + 3 * 6 * Timeout
    BY DEF FreshIsRecent
  <2>1. /\ t \in Nat /\ began \in Nat /\ heard \in Nat /\ Timeout \in Nat /\ StaleAfter \in Nat
        /\ Calls \in 0..18
    BY Types, CallsType DEF ServiceInv
  <2>2. Calls * Timeout <= 18 * Timeout /\ Calls * Timeout \in Nat
    BY <2>1, Spent
  <2>3. CASE pc = "wait"
    <3>1. t - heard <= StaleAfter
      BY <2>3 DEF ServiceInv, Steady
    <3> QED BY <2>1, <3>1
  <2>4. CASE pc # "wait"
    <3>1. began - heard <= StaleAfter + 1 /\ t - began <= Calls * Timeout
      BY <2>4 DEF ServiceInv, Steady, InTime
    <3>2. PICK x : x = Calls * Timeout
      OBVIOUS
    <3> QED BY <2>1, <2>2, <3>1, <3>2
  <2> QED BY <2>3, <2>4
<1> QED BY <1>1, ServiceInvariance, PTL

(* Two rejected logins are a backoff apart, whoever of the three users of   *)
(* the session asks for them.                                               *)
THEOREM LoginsAreSpaced == Spec => LoginSpacing
<1>1. ServiceInv /\ [Next]_vars =>
        [session'.failures > session.failures /\ session.failures > 0
           => t - rejected >= Backoff(session.failures)]_vars
  <2> SUFFICES ASSUME ServiceInv, Next,
                      session'.failures > session.failures, session.failures > 0
               PROVE  t - rejected >= Backoff(session.failures)
    OBVIOUS
  <2>1. /\ session.failures \in Nat /\ session.notBefore \in Nat /\ t \in Nat
        /\ session \in Sessions
    BY Types DEF ServiceInv
  <2>2. CASE LoginPost
    <3>1. session.notBefore <= t
      BY <2>2 DEF ServiceInv, Spaced, LoginPost
    <3>2. rejected \in Nat /\ session.notBefore >= rejected + Backoff(session.failures)
      BY DEF ServiceInv, Spaced
    <3>3. Backoff(session.failures) \in Nat
      BY <2>1, BackoffType
    <3> QED BY <2>1, <3>1, <3>2, <3>3
  <2>3. CASE ~LoginPost
    <3>1. session'.failures = session.failures
      <4>1. CASE LoginBlocked
        BY <4>1 DEF LoginBlocked
      <4>2. CASE LoginInfo
        <5>1. PICK v : session' = session \/ session' = [session EXCEPT !.notBefore = v]
          BY <4>2 DEF LoginInfo
        <5> QED BY <2>1, <5>1 DEF Sessions
      <4>3. CASE Get
        <5>1. session' = session \/ session' = [session EXCEPT !.held = FALSE]
          BY <4>3 DEF Get
        <5> QED BY <2>1, <5>1 DEF Sessions
      <4>4. CASE KeepAwakeTick \/ HistoryTick \/ Poll
        BY <4>4 DEF KeepAwakeTick, HistoryTick, Poll, Begins, Skips
      <4>5. CASE Wait \/ BoxChanges \/ ClockSet \/ KeepAwakeCommand
        BY <4>5 DEF Wait, BoxChanges, ClockSet, KeepAwakeCommand
      <4> QED BY <2>3, <4>1, <4>2, <4>3, <4>4, <4>5 DEF Next, Iteration, HttpCall
    <3> QED BY <2>1, <3>1
  <2> QED BY <2>2, <2>3
<1> QED BY <1>1, ServiceInvariance, PTL DEF Spec, LoginSpacing

(* No backoff and no delay of the box outlasts what caused it.              *)
THEOREM PollsRecover == Spec => []RecoversInTime
<1>1. ServiceInv => RecoversInTime
  BY DEF ServiceInv
<1> QED BY <1>1, ServiceInvariance, PTL

(* An outage is announced, however its polls fail.                          *)
THEOREM OutagesAreAnnounced == Spec => []OutageAnnounced
<1>1. ServiceInv => OutageAnnounced
  <2> SUFFICES ASSUME ServiceInv, streak >= 2 * Most(MinCount, 2) - 1, ~OutageSent PROVE FALSE
    BY DEF OutageAnnounced, OutageSent, OutageKeys
  <2>1. PICK m : m = Most(MinCount, 2)
    OBVIOUS
  <2>2. m \in Nat /\ m >= 2
    BY <2>1, AlertsAssumption DEF Most
  <2>3. \A k \in OutageKeys : Reports(k) \in Nat /\ Reports(k) <= m - 1
    <3> SUFFICES ASSUME NEW k \in OutageKeys PROVE Reports(k) \in Nat /\ Reports(k) <= m - 1
      OBVIOUS
    <3>1. k \in Keys
      BY MeterAssumption DEF OutageKeys
    <3>2. n.alerts[k] \in Alert \cup {NoAlert}
      BY <3>1 DEF ServiceInv, TypeOK, Notifiers
    <3>3. CASE n.alerts[k] = NoAlert
      BY <2>2, <3>3 DEF Reports
    <3>4. CASE n.alerts[k] # NoAlert
      <4>1. n.alerts[k].count \in Nat
        BY <3>2, <3>4, AlertsAssumption DEF Alert
      <4>2. n.alerts[k].count < m
        BY <2>1, <3>4 DEF ServiceInv, Counted, OutageSent
      <4> QED BY <2>2, <3>4, <4>1, <4>2 DEF Reports
    <3> QED BY <3>3, <3>4
  <2>4. PICK p, l : p = Reports("poll") /\ l = Reports("login")
    OBVIOUS
  <2>5. p \in Nat /\ p <= m - 1 /\ l \in Nat /\ l <= m - 1
    BY <2>3, <2>4 DEF OutageKeys
  <2>6. streak \in Nat /\ streak <= p + l
    BY <2>4 DEF ServiceInv, TypeOK, Counted
  <2> QED BY <2>1, <2>2, <2>5, <2>6
<1> QED BY <1>1, ServiceInvariance, PTL
============================================================================

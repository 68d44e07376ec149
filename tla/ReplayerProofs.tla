--------------------------- MODULE ReplayerProofs ---------------------------
(* Proofs about lib/replayer.py: for any timing constants, payloads and     *)
(* numbers of boots, commands, read-backs and losses.                       *)
EXTENDS Replayer, TLAPS

(* When an attempt must have been given up: it is the a-th of its episode.  *)
FirstBudget == IF WatchWindow > FirstSendDelay + AckTimeout THEN WatchWindow
               ELSE FirstSendDelay + AckTimeout
Budget(a) == IF a = 0 THEN FirstSendDelay ELSE FirstBudget + (a - 1) * AckTimeout

(* The thread is on time, in each of its states.                            *)
OnTime == pc # "none" =>
  /\ left = IF age < WatchWindow THEN WatchWindow - age ELSE 0
  /\ pc = "delay" => age + wake <= FirstSendDelay /\ attempts = 0
  /\ pc = "loop" => age <= Budget(attempts)
  /\ pc = "acking" => attempts # 0 /\ age + wake <= Budget(attempts)
  /\ pc = "watching" => attempts # 0 /\ age + left <= Budget(attempts)
  /\ pc \in {"confirmed", "gave_up"} => age <= Budget(MaxAttempts)
  /\ pc = "gave_up" => attempts = MaxAttempts

(* The last message of zigbee2mqtt tells how the bulb is now.               *)
LastIsTrue ==
  inbox # <<>> => inbox[Len(inbox)] = Announce \/ inbox[Len(inbox)] = Report(bulb)

(* The episode and the bulb, as long as nothing else touches it: until one  *)
(* of its messages arrives, none is known to have been answered, and the    *)
(* newest report, read or not, contradicts it.                              *)
Unanswered ==
  /\ inbox = <<>> /\ queue # <<>> => ~queue[Len(queue)]
  /\ inbox = <<>> /\ queue = <<>> => pc \notin {"watching", "confirmed"}
  /\ lost + Len(air) >= attempts

Undisturbed == pc # "none" /\ ~disturbed =>
  /\ want = desired
  /\ \A i \in DOMAIN air : air[i] = desired
  /\ \A i \in DOMAIN inbox : inbox[i] # Announce
  /\ ~StateMatches(desired, bulb) => Unanswered

Inv == TypeOK /\ OnTime /\ LastIsTrue /\ Undisturbed

----------------------------------------------------------------------------
LEMMA Constants ==
  /\ FirstSendDelay \in Nat /\ AckTimeout \in Nat /\ MaxAttempts \in Nat /\ WatchWindow \in Nat
  /\ FirstSendDelay > 0 /\ AckTimeout > 0 /\ MaxAttempts > 0 /\ WatchWindow > 0
BY ReplayerAssumption

LEMMA BudgetGrows ==
  ASSUME NEW a \in Nat
  PROVE  /\ Budget(a) \in Nat /\ Budget(a + 1) \in Nat
         /\ Budget(a) + AckTimeout <= Budget(a + 1)
         /\ WatchWindow <= Budget(a + 1)
<1>1. a * AckTimeout \in Nat /\ (a - 1) * AckTimeout = a * AckTimeout - AckTimeout
  BY Constants
<1>2. FirstBudget \in Nat /\ WatchWindow <= FirstBudget
      /\ FirstSendDelay + AckTimeout <= FirstBudget
  BY Constants DEF FirstBudget
<1>3. Budget(a + 1) = FirstBudget + a * AckTimeout
  BY DEF Budget
<1>4. CASE a = 0
  BY <1>1, <1>2, <1>3, <1>4, Constants DEF Budget
<1>5. CASE a # 0
  <2>1. Budget(a) = FirstBudget + a * AckTimeout - AckTimeout
    BY <1>1, <1>2, <1>5, Constants DEF Budget
  <2>2. AckTimeout <= a * AckTimeout
    BY <1>5, Constants
  <2> QED BY <1>1, <1>2, <1>3, <2>1, <2>2, Constants
<1> QED BY <1>4, <1>5

LEMMA BudgetMost ==
  ASSUME NEW a \in 0..MaxAttempts
  PROVE  Budget(a) \in Nat /\ Budget(a) <= Budget(MaxAttempts) /\ Budget(MaxAttempts) \in Nat
<1>1. FirstBudget \in Nat /\ FirstSendDelay <= FirstBudget
  BY Constants DEF FirstBudget
<1>2. Budget(MaxAttempts) = FirstBudget + (MaxAttempts - 1) * AckTimeout
      /\ (MaxAttempts - 1) * AckTimeout \in Nat
  BY Constants DEF Budget
<1>3. CASE a = 0
  BY <1>1, <1>2, <1>3, Constants DEF Budget
<1>4. CASE a # 0
  <2>1. Budget(a) = FirstBudget + (a - 1) * AckTimeout
    BY <1>4 DEF Budget
  <2>2. (a - 1) * AckTimeout <= (MaxAttempts - 1) * AckTimeout /\ (a - 1) * AckTimeout \in Nat
    <3> DEFINE x == a - 1
               y == MaxAttempts - 1
    <3>1. x \in Nat /\ y \in Nat /\ x <= y
      BY <1>4, Constants
    <3>2. x * AckTimeout <= y * AckTimeout /\ x * AckTimeout \in Nat
      <4> HIDE DEF x, y
      <4> QED BY <3>1, Constants
    <3> QED BY <3>2
  <2> QED BY <1>1, <1>2, <2>1, <2>2
<1> QED BY <1>3, <1>4

(* What is left of a sequence after Tail, and what it becomes by Append.    *)
LEMMA TailFacts ==
  ASSUME NEW S, NEW s \in Seq(S), s # <<>>
  PROVE  /\ Tail(s) \in Seq(S) /\ Head(s) \in S /\ Head(s) = s[1]
         /\ 1 \in DOMAIN s /\ Len(s) \in DOMAIN s
         /\ Len(s) \in Nat /\ Len(Tail(s)) = Len(s) - 1
         /\ \A i \in DOMAIN Tail(s) : i + 1 \in DOMAIN s /\ Tail(s)[i] = s[i + 1]
         /\ Tail(s) # <<>> => Tail(s)[Len(Tail(s))] = s[Len(s)]
         /\ Tail(s) = <<>> => s[Len(s)] = Head(s)
OBVIOUS

LEMMA AppendFacts ==
  ASSUME NEW S, NEW s \in Seq(S), NEW x \in S
  PROVE  /\ Append(s, x) \in Seq(S) /\ Append(s, x) # <<>>
         /\ Len(s) \in Nat /\ Len(Append(s, x)) = Len(s) + 1
         /\ Append(s, x)[Len(Append(s, x))] = x
         /\ \A i \in DOMAIN Append(s, x) :
              (i \in DOMAIN s /\ Append(s, x)[i] = s[i]) \/ Append(s, x)[i] = x
OBVIOUS

(* What the scalars of the episode are.                                     *)
LEMMA Scalars ==
  ASSUME TypeOK
  PROVE  /\ attempts \in Nat /\ attempts <= MaxAttempts /\ attempts \in 0..MaxAttempts
         /\ age \in Nat /\ left \in Nat /\ wake \in Nat /\ lost \in Nat
         /\ Budget(attempts) \in Nat /\ Budget(MaxAttempts) \in Nat
         /\ Budget(attempts) <= Budget(MaxAttempts)
<1>1. attempts \in 0..MaxAttempts /\ age \in Nat /\ left \in Nat /\ wake \in Nat /\ lost \in Nat
  BY DEF TypeOK, EpisodeOK
<1>2. attempts \in Nat /\ attempts <= MaxAttempts
  BY <1>1, Constants
<1> QED BY <1>1, <1>2, BudgetMost

(* A payload that arrives is what the bulb then shows.                      *)
LEMMA AppliedMatches ==
  ASSUME NEW p \in Payloads, NEW s \in States
  PROVE  Applied(p, s) \in States /\ StateMatches(p, Applied(p, s))
<1>1. PICK K \in SUBSET Keys : p \in [K -> Values]
  BY StatesAssumption DEF States
<1>2. PICK L \in SUBSET Keys : s \in [L -> Values]
  BY DEF States
<1>3. Applied(p, s) \in [L -> Values]
  BY <1>1, <1>2 DEF Applied
<1>4. StateMatches(p, Applied(p, s))
  BY <1>1, <1>2 DEF StateMatches, Applied
<1> QED BY <1>3, <1>4 DEF States

LEMMA MatchIsBoolean == ASSUME NEW p, NEW s PROVE StateMatches(p, s) \in BOOLEAN
BY DEF StateMatches

(* A report is a message, and not an announce.                              *)
LEMMA ReportIsMessage ==
  ASSUME NEW s \in States
  PROVE  Report(s) \in Messages /\ Report(s) # Announce /\ Report(s).state = s
         /\ Report(s).type = "state"
<1>1. Report(s).type = "state" /\ Announce.type = "device_announce"
  BY DEF Report, Announce
<1> QED BY <1>1 DEF Report, Messages

----------------------------------------------------------------------------
LEMMA InitInv == Init => Inv
<1> SUFFICES ASSUME Init PROVE Inv
  OBVIOUS
<1>1. TypeOK
  <2>1. EpisodeOK
    BY Constants DEF Init, EpisodeOK
  <2>2. LinksOK
    BY StatesAssumption DEF Init, LinksOK
  <2>3. disturbed \in BOOLEAN
    BY DEF Init
  <2> QED BY <2>1, <2>2, <2>3 DEF TypeOK
<1>2. OnTime /\ LastIsTrue /\ Undisturbed
  BY DEF Init, OnTime, LastIsTrue, Undisturbed
<1> QED BY <1>1, <1>2 DEF Inv

LEMMA TypeParts == TypeOK => EpisodeOK /\ LinksOK
BY DEF TypeOK

LEMMA PowerReturnsInv == ASSUME Inv, PowerReturns PROVE Inv'
<1> USE DEF Inv, PowerReturns, thread
<1>1. inbox \in Seq(Messages) /\ Announce \in Messages /\ inbox' = Append(inbox, Announce)
  BY DEF TypeOK, LinksOK, Messages
<1>2. /\ inbox' \in Seq(Messages) /\ inbox' # <<>>
      /\ inbox'[Len(inbox')] = Announce
  BY <1>1, AppendFacts
<1>3. EpisodeOK'
  BY DEF TypeOK, EpisodeOK
<1>4. LinksOK'
  BY <1>2, StatesAssumption DEF TypeOK, LinksOK
<1>5. OnTime'
  BY DEF OnTime
<1>6. LastIsTrue'
  BY <1>2 DEF LastIsTrue
<1>7. disturbed' \/ pc' = "none"
  OBVIOUS
<1>8. Undisturbed'
  BY <1>7 DEF Undisturbed
<1> QED BY <1>3, <1>4, <1>5, <1>6, <1>8 DEF TypeOK

LEMMA UserCommandInv == ASSUME Inv, UserCommand PROVE Inv'
<1> USE DEF Inv, UserCommand, thread
<1>1. PICK p \in Payloads : want' = p /\ air' = Append(air, p)
  OBVIOUS
<1>2. air' \in Seq(Payloads)
  BY <1>1, AppendFacts DEF TypeOK, LinksOK
<1>3. EpisodeOK'
  BY DEF TypeOK, EpisodeOK
<1>4. LinksOK'
  BY <1>1, <1>2 DEF TypeOK, LinksOK
<1>5. OnTime' /\ LastIsTrue'
  BY DEF OnTime, LastIsTrue
<1>6. disturbed' \/ pc' = "none"
  OBVIOUS
<1>7. Undisturbed'
  BY <1>6 DEF Undisturbed
<1> QED BY <1>3, <1>4, <1>5, <1>7 DEF TypeOK

LEMMA ArrivesInv == ASSUME Inv, Arrives PROVE Inv'
<1> USE DEF Inv, Arrives, thread, history
<1> DEFINE s == Applied(Head(air), bulb)
<1>1. /\ Head(air) \in Payloads /\ Tail(air) \in Seq(Payloads)
      /\ 1 \in DOMAIN air /\ Head(air) = air[1]
      /\ \A i \in DOMAIN Tail(air) : i + 1 \in DOMAIN air /\ Tail(air)[i] = air[i + 1]
  BY TailFacts DEF TypeOK, LinksOK
<1>2. s \in States /\ StateMatches(Head(air), s)
  BY <1>1, AppliedMatches DEF TypeOK, LinksOK
<1>3. bulb' = s /\ inbox' = Append(inbox, Report(s))
  OBVIOUS
<1> HIDE DEF s
<1>4. Report(s) \in Messages /\ Report(s) # Announce
  BY <1>2, ReportIsMessage
<1>5. /\ inbox' \in Seq(Messages) /\ inbox'[Len(inbox')] = Report(s)
      /\ \A i \in DOMAIN inbox' : (i \in DOMAIN inbox /\ inbox'[i] = inbox[i]) \/ inbox'[i] = Report(s)
  BY <1>3, <1>4, AppendFacts DEF TypeOK, LinksOK
<1>6. EpisodeOK'
  BY DEF TypeOK, EpisodeOK
<1>7. LinksOK'
  BY <1>1, <1>2, <1>3, <1>5 DEF TypeOK, LinksOK
<1>8. OnTime'
  BY DEF OnTime
<1>9. LastIsTrue'
  BY <1>3, <1>5 DEF LastIsTrue
<1>10. Undisturbed'
  <2> SUFFICES ASSUME pc # "none", ~disturbed
               PROVE  /\ want' = desired'
                      /\ \A i \in DOMAIN air' : air'[i] = desired'
                      /\ \A i \in DOMAIN inbox' : inbox'[i] # Announce
                      /\ StateMatches(desired', bulb')
    BY DEF Undisturbed
  <2>1. Head(air) = desired /\ \A i \in DOMAIN air' : air'[i] = desired
    BY <1>1 DEF Undisturbed
  <2>2. \A i \in DOMAIN inbox' : inbox'[i] # Announce
    BY <1>4, <1>5 DEF Undisturbed
  <2> QED BY <1>2, <1>3, <2>1, <2>2 DEF Undisturbed
<1> QED BY <1>6, <1>7, <1>8, <1>9, <1>10 DEF TypeOK

LEMMA LosesInv == ASSUME Inv, Loses PROVE Inv'
<1> USE DEF Inv, Loses, thread
<1>1. /\ air' \in Seq(Payloads) /\ Len(air) \in Nat /\ Len(air') = Len(air) - 1
      /\ \A i \in DOMAIN air' : i + 1 \in DOMAIN air /\ air'[i] = air[i + 1]
  BY TailFacts DEF TypeOK, LinksOK
<1>2. EpisodeOK'
  BY TypeParts DEF EpisodeOK
<1>3. LinksOK'
  BY <1>1 DEF TypeOK, LinksOK
<1>4. OnTime' /\ LastIsTrue'
  BY DEF OnTime, LastIsTrue
<1>5. lost' + Len(air') = lost + Len(air)
  BY <1>1, TypeParts DEF EpisodeOK
<1>6. Undisturbed'
  BY <1>1, <1>5 DEF Undisturbed, Unanswered
<1> QED BY <1>2, <1>3, <1>4, <1>6 DEF TypeOK

LEMMA ReadBackInv == ASSUME Inv, ReadBack PROVE Inv'
<1> USE DEF Inv, ReadBack, thread, history
<1>1. Report(bulb) \in Messages /\ Report(bulb) # Announce
  BY ReportIsMessage DEF TypeOK, LinksOK
<1>2. /\ inbox' \in Seq(Messages) /\ inbox' # <<>> /\ inbox'[Len(inbox')] = Report(bulb)
      /\ \A i \in DOMAIN inbox' : (i \in DOMAIN inbox /\ inbox'[i] = inbox[i])
                                   \/ inbox'[i] = Report(bulb)
  BY <1>1, AppendFacts DEF TypeOK, LinksOK
<1>3. EpisodeOK'
  BY DEF TypeOK, EpisodeOK
<1>4. LinksOK'
  BY <1>2 DEF TypeOK, LinksOK
<1>5. OnTime'
  BY DEF OnTime
<1>6. LastIsTrue'
  BY <1>2 DEF LastIsTrue
<1>7. Undisturbed'
  BY <1>1, <1>2 DEF Undisturbed, Unanswered
<1> QED BY <1>3, <1>4, <1>5, <1>6, <1>7 DEF TypeOK

----------------------------------------------------------------------------
(* What is left of the inbox still ends with the same message.              *)
LEMMA InboxTail ==
  ASSUME TypeOK, inbox # <<>>, inbox' = Tail(inbox)
  PROVE  /\ inbox' \in Seq(Messages) /\ Head(inbox) \in Messages /\ Head(inbox) = inbox[1]
         /\ \A i \in DOMAIN inbox' : i + 1 \in DOMAIN inbox /\ inbox'[i] = inbox[i + 1]
         /\ inbox' # <<>> => inbox'[Len(inbox')] = inbox[Len(inbox)]
         /\ inbox' = <<>> => inbox[Len(inbox)] = Head(inbox)
         /\ 1 \in DOMAIN inbox /\ Len(inbox) \in DOMAIN inbox
BY TailFacts DEF TypeOK, LinksOK

LEMMA OnAnnounceInv == ASSUME Inv, OnAnnounce PROVE Inv'
<1> USE DEF Inv, OnAnnounce
<1>1. inbox # <<>> /\ inbox' = Tail(inbox) /\ Head(inbox).type = "device_announce"
  OBVIOUS
<1>2. LastIsTrue'
  BY <1>1, InboxTail DEF LastIsTrue
<1>3. CASE pc = "none"
  <2> USE <1>3 DEF StartEpisode
  <2>7. EpisodeOK'
    BY Constants DEF TypeOK, LinksOK, EpisodeOK
  <2>8. LinksOK'
    BY <1>1, InboxTail DEF TypeOK, LinksOK
  <2>1. TypeOK'
    BY <2>7, <2>8 DEF TypeOK
  <2>2. OnTime'
    BY Constants DEF OnTime
  <2>3. ~disturbed' => \A i \in DOMAIN air' : air'[i] = desired'
    OBVIOUS
  <2>4. ~disturbed' => \A i \in DOMAIN inbox' : inbox'[i] # Announce
    <3>1. \A i \in DOMAIN inbox' : i + 1 \in 2..Len(inbox) /\ inbox'[i] = inbox[i + 1]
      <4>1. inbox \in Seq(Messages) /\ inbox' \in Seq(Messages)
        BY <1>1, InboxTail DEF TypeOK, LinksOK
      <4>2. DOMAIN inbox = 1..Len(inbox) /\ DOMAIN inbox' = 1..Len(inbox') /\ Len(inbox) \in Nat
            /\ Len(inbox') \in Nat
        BY <4>1
      <4> QED BY <1>1, <4>2, InboxTail
    <3> QED BY <3>1
  <2>5. Unanswered' \/ StateMatches(desired', bulb')
    <3> SUFFICES Unanswered'
      OBVIOUS
    <3>1. Len(air) \in Nat
      BY DEF TypeOK, LinksOK
    <3>2. lost' + Len(air') >= attempts'
      BY <3>1
    <3> QED BY <3>2 DEF Unanswered
  <2>6. Undisturbed'
    BY <2>3, <2>4, <2>5 DEF Undisturbed
  <2> QED BY <1>2, <2>1, <2>2, <2>6
<1>4. CASE pc # "none"
  <2> USE <1>4 DEF thread, history, counters
  <2>1. TypeOK'
    BY <1>1, InboxTail DEF TypeOK, EpisodeOK, LinksOK
  <2>2. OnTime'
    BY DEF OnTime
  <2>3. disturbed
    <3>1. Announce \in Messages /\ \A m \in Messages : m.type = "device_announce" => m = Announce
      BY DEF Messages, Announce
    <3>2. inbox[1] = Announce /\ 1 \in DOMAIN inbox
      BY <1>1, <3>1, InboxTail
    <3> QED BY <3>2 DEF Undisturbed
  <2>4. Undisturbed'
    BY <2>3 DEF Undisturbed
  <2> QED BY <1>2, <2>1, <2>2, <2>4
<1> QED BY <1>3, <1>4

LEMMA OnStateInv == ASSUME Inv, OnState PROVE Inv'
<1> USE DEF Inv, OnState, history
<1> DEFINE b == StateMatches(desired, Head(inbox).state)
<1>1. inbox # <<>> /\ inbox' = Tail(inbox)
  OBVIOUS
<1>2. queue \in Seq(BOOLEAN) /\ b \in BOOLEAN
  BY MatchIsBoolean DEF TypeOK, LinksOK
<1>3. LastIsTrue'
  BY <1>1, InboxTail DEF LastIsTrue
<1>4. queue' = (IF pc = "none" THEN queue ELSE Append(queue, b))
  OBVIOUS
<1>5. inbox' = <<>> => Head(inbox) = Announce \/ Head(inbox) = Report(bulb)
  BY <1>1, InboxTail DEF LastIsTrue
<1>6. inbox' = <<>> => b = StateMatches(desired, bulb)
  <2>1. Announce.type # "state"
    BY DEF Announce
  <2>2. Report(bulb).state = bulb
    BY DEF Report
  <2> QED BY <1>5, <2>1, <2>2
<1> HIDE DEF b
<1>10. queue' \in Seq(BOOLEAN)
  <2>1. Append(queue, b) \in Seq(BOOLEAN)
    BY <1>2, AppendFacts
  <2> QED BY <1>2, <1>4, <2>1
<1>7. TypeOK'
  BY <1>1, <1>10, InboxTail DEF TypeOK, EpisodeOK, LinksOK
<1>8. OnTime'
  BY DEF OnTime
<1>9. Undisturbed'
  <2> SUFFICES ASSUME pc # "none", ~disturbed
               PROVE  /\ want' = desired'
                      /\ \A i \in DOMAIN air' : air'[i] = desired'
                      /\ \A i \in DOMAIN inbox' : inbox'[i] # Announce
                      /\ ~StateMatches(desired', bulb') => Unanswered'
    BY DEF Undisturbed
  <2>1. \A i \in DOMAIN inbox' : inbox'[i] # Announce
    BY <1>1, InboxTail DEF Undisturbed
  <2>2. queue' # <<>> /\ queue'[Len(queue')] = b
    BY <1>2, <1>4, AppendFacts
  <2>3. ~StateMatches(desired', bulb') => Unanswered'
    BY <1>6, <2>2 DEF Undisturbed, Unanswered
  <2> QED BY <2>1, <2>3 DEF Undisturbed
<1> QED BY <1>3, <1>7, <1>8, <1>9

----------------------------------------------------------------------------
LEMMA DelayOverInv == ASSUME Inv, DelayOver PROVE Inv'
<1> USE DEF Inv, DelayOver, GoTo, history
<1>1. TypeOK'
  BY DEF TypeOK, EpisodeOK, LinksOK
<1>2. OnTime'
  BY Constants DEF OnTime, TypeOK, EpisodeOK, Budget
<1>3. LastIsTrue'
  BY DEF LastIsTrue
<1>4. Undisturbed'
  BY DEF Undisturbed, Unanswered
<1> QED BY <1>1, <1>2, <1>3, <1>4

LEMMA SendInv == ASSUME Inv, Send PROVE Inv'
<1> USE DEF Inv, Send, history
<1>6. /\ air' \in Seq(Payloads) /\ Len(air) \in Nat /\ Len(air') = Len(air) + 1
      /\ \A i \in DOMAIN air' : (i \in DOMAIN air /\ air'[i] = air[i]) \/ air'[i] = desired
  BY AppendFacts DEF TypeOK, EpisodeOK, LinksOK
<1>1. TypeOK'
  <2>1. EpisodeOK'
    BY Constants DEF TypeOK, EpisodeOK
  <2>2. LinksOK'
    BY <1>6 DEF TypeOK, LinksOK
  <2> QED BY <2>1, <2>2 DEF TypeOK
<1>2. OnTime'
  <2>1. attempts \in Nat /\ age \in Nat /\ age <= Budget(attempts)
    BY Constants DEF OnTime, TypeOK, EpisodeOK
  <2>2. age + AckTimeout <= Budget(attempts + 1)
    <3>1. Budget(attempts) + AckTimeout <= Budget(attempts + 1) /\ Budget(attempts) \in Nat
          /\ Budget(attempts + 1) \in Nat
      BY <2>1, BudgetGrows
    <3> QED BY <2>1, <3>1, Constants
  <2>3. attempts' # 0 /\ age' + wake' <= Budget(attempts')
    BY <2>1, <2>2
  <2> QED BY <2>3 DEF OnTime
<1>3. LastIsTrue'
  BY DEF LastIsTrue
<1>4. lost + Len(air) >= attempts => lost' + Len(air') >= attempts'
  BY <1>6, Constants DEF TypeOK, EpisodeOK
<1>5. Undisturbed'
  BY <1>4, <1>6 DEF Undisturbed, Unanswered
<1> QED BY <1>1, <1>2, <1>3, <1>5

(* A report is read from the queue, and decides what comes next.            *)
LEMMA ReadReport ==
  ASSUME Inv, queue # <<>>, queue' = Tail(queue), pc # "none",
         pc' = IF Head(queue) THEN "watching" ELSE "loop",
         UNCHANGED <<desired, attempts, want, bulb, inbox, air, history>>
  PROVE  queue' \in Seq(BOOLEAN) /\ Undisturbed'
<1> USE DEF Inv, history
<1>1. queue' \in Seq(BOOLEAN) /\ Len(queue) \in Nat
      /\ (queue' # <<>> => queue'[Len(queue')] = queue[Len(queue)])
      /\ (queue' = <<>> => Head(queue) = queue[Len(queue)])
  BY TailFacts DEF TypeOK, LinksOK
<1>2. ASSUME ~disturbed, ~StateMatches(desired, bulb) PROVE Unanswered'
  BY <1>1, <1>2 DEF Undisturbed, Unanswered
<1> QED BY <1>1, <1>2 DEF Undisturbed

(* A wait that is on time ends on time, and so does the watch after it.     *)
LEMMA InTime ==
  ASSUME TypeOK
  PROVE  /\ attempts # 0 /\ age + wake <= Budget(attempts)
              /\ left = (IF age < WatchWindow THEN WatchWindow - age ELSE 0)
            => age <= Budget(attempts) /\ age + left <= Budget(attempts)
         /\ age + left <= Budget(attempts) => age <= Budget(attempts)
<1>1. /\ attempts \in Nat /\ age \in Nat /\ left \in Nat /\ wake \in Nat
      /\ Budget(attempts) \in Nat
  BY Scalars
<1>2. attempts # 0 => WatchWindow <= Budget(attempts)
  <2>1. attempts # 0 => attempts - 1 \in Nat /\ (attempts - 1) + 1 = attempts
    BY <1>1
  <2> QED BY <2>1, BudgetGrows
<1> QED BY <1>1, <1>2, Constants

LEMMA AckOrNackInv == ASSUME Inv, AckOrNack PROVE Inv'
<1> USE DEF Inv, AckOrNack, GoTo, history
<1>1. queue' \in Seq(BOOLEAN) /\ Undisturbed'
  BY ReadReport
<1>2. TypeOK'
  BY <1>1 DEF TypeOK, EpisodeOK, LinksOK
<1>3. OnTime'
  <2>1. attempts # 0 /\ age + wake <= Budget(attempts)
        /\ left = IF age < WatchWindow THEN WatchWindow - age ELSE 0
    BY DEF OnTime
  <2>2. TypeOK
    BY DEF Inv
  <2>3. age <= Budget(attempts) /\ age + left <= Budget(attempts)
    BY <2>1, <2>2, InTime
  <2> QED BY <2>1, <2>3 DEF OnTime
<1>4. LastIsTrue'
  BY DEF LastIsTrue
<1> QED BY <1>1, <1>2, <1>3, <1>4

LEMMA NoAckInv == ASSUME Inv, NoAck PROVE Inv'
<1> USE DEF Inv, NoAck, GoTo, history
<1>1. TypeOK'
  BY DEF TypeOK, EpisodeOK, LinksOK
<1>2. OnTime'
  BY DEF OnTime, TypeOK, EpisodeOK
<1>3. LastIsTrue'
  BY DEF LastIsTrue
<1>4. Undisturbed'
  BY DEF Undisturbed, Unanswered
<1> QED BY <1>1, <1>2, <1>3, <1>4

LEMMA WatchReportInv == ASSUME Inv, WatchReport PROVE Inv'
<1> USE DEF Inv, WatchReport, GoTo, history
<1>1. queue' \in Seq(BOOLEAN) /\ Undisturbed'
  BY ReadReport
<1>2. TypeOK'
  BY <1>1 DEF TypeOK, EpisodeOK, LinksOK
<1>3. OnTime'
  <2>1. age + left <= Budget(attempts)
    BY DEF OnTime
  <2>2. TypeOK
    BY DEF Inv
  <2>3. age <= Budget(attempts)
    BY <2>1, <2>2, InTime
  <2> QED BY <2>1, <2>3 DEF OnTime
<1>4. LastIsTrue'
  BY DEF LastIsTrue
<1> QED BY <1>1, <1>2, <1>3, <1>4

LEMMA EndsInv == ASSUME Inv, Confirmed \/ GivesUp PROVE Inv'
<1> USE DEF Inv, GoTo, history
<1>1. TypeOK' /\ LastIsTrue'
  BY DEF TypeOK, EpisodeOK, LinksOK, LastIsTrue, Confirmed, GivesUp
<1>2. OnTime'
  <2>1. age <= Budget(attempts) \/ age + left <= Budget(attempts)
    BY DEF OnTime, Confirmed, GivesUp
  <2>2. age <= Budget(MaxAttempts)
    BY <2>1, Scalars
  <2> QED BY <2>1, <2>2 DEF OnTime, Confirmed, GivesUp
<1>3. Undisturbed'
  BY DEF Undisturbed, Unanswered, Confirmed, GivesUp
<1> QED BY <1>1, <1>2, <1>3

LEMMA LeaveInv == ASSUME Inv, Leave PROVE Inv'
<1> USE DEF Inv, Leave, history
<1>1. TypeOK' /\ LastIsTrue'
  BY DEF TypeOK, EpisodeOK, LinksOK, LastIsTrue
<1>2. OnTime' /\ Undisturbed'
  BY DEF OnTime, Undisturbed
<1> QED BY <1>1, <1>2

LEMMA TickInv == ASSUME Inv, Tick PROVE Inv'
<1> USE DEF Inv, Tick, Minus1
<1>1. TypeOK' /\ LastIsTrue'
  BY DEF TypeOK, EpisodeOK, LinksOK, LastIsTrue
<1>2. OnTime'
  <2>1. pc \in {"delay", "acking", "watching"} /\ (pc # "watching" => wake > 0)
        /\ (pc = "watching" => left > 0) /\ UNCHANGED <<pc, attempts>> /\ age' = age + 1
    BY DEF Waits
  <2>2. left' = IF age' < WatchWindow THEN WatchWindow - age' ELSE 0
    <3>1. left = IF age < WatchWindow THEN WatchWindow - age ELSE 0
      BY <2>1 DEF OnTime
    <3> QED BY <3>1, Scalars, Constants
  <2>3. wake > 0 => age' + wake' = age + wake
    BY Scalars
  <2>4. left > 0 => age' + left' = age + left
    BY Scalars
  <2> QED BY <2>1, <2>2, <2>3, <2>4 DEF OnTime
<1>3. Undisturbed'
  BY DEF Undisturbed, Unanswered
<1> QED BY <1>1, <1>2, <1>3

LEMMA NextInv == ASSUME Inv, [Next]_vars PROVE Inv'
<1>1. CASE ThreadStep
  BY <1>1, DelayOverInv, SendInv, AckOrNackInv, NoAckInv, WatchReportInv, EndsInv, LeaveInv
     DEF ThreadStep
<1>2. CASE Callback
  BY <1>2, OnAnnounceInv, OnStateInv DEF Callback
<1>3. CASE World
  BY <1>3, PowerReturnsInv, UserCommandInv, ArrivesInv, LosesInv, ReadBackInv DEF World
<1>4. CASE Tick
  BY <1>4, TickInv
<1>5. CASE UNCHANGED vars
  BY <1>5 DEF vars, thread, history, counters, Inv, TypeOK, OnTime, EpisodeOK, LinksOK, LastIsTrue, Undisturbed, Unanswered
<1> QED BY <1>1, <1>2, <1>3, <1>4, <1>5 DEF Next

LEMMA AlwaysInv == Spec => []Inv
BY InitInv, NextInv, PTL DEF Spec

----------------------------------------------------------------------------
(* The variables keep their types; in particular there is no attempt after  *)
(* the last one.                                                            *)
THEOREM TypeCorrect == Spec => []TypeOK
<1>1. Inv => TypeOK
  BY DEF Inv
<1> QED BY <1>1, AlwaysInv, PTL

(* replayer.py, _run: whatever acks, timeouts and contradictions come, an   *)
(* episode is over after LongestEpisode.                                    *)
THEOREM EpisodesAreShort == Spec => []EpisodeIsShort
<1>1. Inv => EpisodeIsShort
  <2> SUFFICES ASSUME Inv, pc # "none" PROVE age <= LongestEpisode
    BY DEF EpisodeIsShort
  <2> USE DEF Inv
  <2>1. LongestEpisode = Budget(MaxAttempts)
    BY Constants DEF LongestEpisode, Budget, FirstBudget
  <2>2. FirstSendDelay <= Budget(MaxAttempts)
    <3>1. 0 \in 0..MaxAttempts /\ Budget(0) = FirstSendDelay
      BY Constants DEF Budget
    <3> QED BY <3>1, BudgetMost
  <2>3. CASE pc = "delay"
    <3>1. age + wake <= FirstSendDelay
      BY <2>3 DEF OnTime
    <3> QED BY <2>1, <2>2, <3>1, Scalars, Constants
  <2>4. CASE pc # "delay"
    <3>1. pc \in {"loop", "acking", "watching", "confirmed", "gave_up"}
      BY <2>4 DEF TypeOK, EpisodeOK
    <3>2. \/ age <= Budget(attempts) \/ age + wake <= Budget(attempts)
          \/ age + left <= Budget(attempts) \/ age <= Budget(MaxAttempts)
      BY <3>1 DEF OnTime
    <3> QED BY <2>1, <3>2, Scalars
  <2> QED BY <2>3, <2>4
<1> QED BY <1>1, AlwaysInv, PTL

(* replayer.py, _watch: a confirmation is true, though any report counts as *)
(* the acknowledgement of the last message.                                 *)
THEOREM ConfirmationsAreTrue == Spec => []ConfirmationIsTrue
<1>1. Inv => ConfirmationIsTrue
  <2> SUFFICES ASSUME Inv, pc = "confirmed", ~disturbed, ~StateMatches(desired, bulb)
               PROVE  ContradictionUnread
    BY DEF ConfirmationIsTrue
  <2> USE DEF Inv
  <2>1. Unanswered
    BY DEF Undisturbed
  <2>2. CASE inbox = <<>>
    <3>1. queue # <<>> /\ ~queue[Len(queue)] /\ Len(queue) \in DOMAIN queue
      BY <2>1, <2>2 DEF Unanswered, TypeOK, LinksOK
    <3> QED BY <3>1 DEF ContradictionUnread
  <2>3. CASE inbox # <<>>
    <3>1. Len(inbox) \in DOMAIN inbox
      BY <2>3 DEF TypeOK, LinksOK
    <3>2. inbox[Len(inbox)] = Report(bulb)
      BY <2>3, <3>1 DEF LastIsTrue, Undisturbed
    <3>3. inbox[Len(inbox)].type = "state" /\ inbox[Len(inbox)].state = bulb
      BY <3>2 DEF Report
    <3> QED BY <3>1, <3>3 DEF ContradictionUnread
  <2> QED BY <2>2, <2>3
<1> QED BY <1>1, AlwaysInv, PTL

(* replayer.py, _run: it gives up only if every message was lost.           *)
THEOREM OneArrivalIsEnough == Spec => []OneArrivalSuffices
<1>1. Inv => OneArrivalSuffices
  <2> SUFFICES ASSUME Inv, pc = "gave_up", ~disturbed, air = <<>>, ~StateMatches(desired, bulb)
               PROVE  ~(lost < MaxAttempts)
    BY DEF OneArrivalSuffices
  <2>1. attempts = MaxAttempts /\ lost + Len(air) >= attempts
    BY DEF Inv, OnTime, Undisturbed, Unanswered
  <2>2. Len(air) = 0 /\ lost \in Nat
    BY DEF Inv, TypeOK, EpisodeOK
  <2> QED BY <2>1, <2>2, Constants
<1> QED BY <1>1, AlwaysInv, PTL
============================================================================

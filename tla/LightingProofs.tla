--------------------------- MODULE LightingProofs ---------------------------
(* Proofs about Lighting: for any replies of users and jobs, any devices    *)
(* and any queue, a scheduled base reaches an overridden device at most once*)
(* per override, and a device that is not marked agrees with the store once *)
(* all has been delivered.  Then about LightingOnFile: the processes do the *)
(* same on the file, where a call of the store is many steps.               *)
EXTENDS LightingOnFile, TLAPS

(* x is a message to t.                                                     *)
IsTo(x, t) == x # Nothing /\ x.topic = t

(* v is the newest of what the main process has for t, or, if nothing is    *)
(* under way, what the device has.                                          *)
Newest(t, v) ==
  \/ IsTo(send[Main], t) /\ send[Main].payload = v
  \/ /\ ~IsTo(send[Main], t)
     /\ \E i \in DOMAIN pubq : /\ pubq[i].topic = t /\ pubq[i].payload = v
                               /\ \A j \in DOMAIN pubq : i < j => pubq[j].topic # t
  \/ /\ ~IsTo(send[Main], t) /\ \A j \in DOMAIN pubq : pubq[j].topic # t
     /\ IsTo(hand, t) /\ hand.payload = v
  \/ ~UnderWay(t) /\ device[t] = v

(* A device that is not marked, and to which the child is not about to      *)
(* publish, will agree with the store.                                      *)
Agreeing(t) ==
  cause[t] = "none" /\ ~IsTo(send[Child], t)
    => EffectiveState(store, t) = None \/ Newest(t, EffectiveState(store, t))

(* Only a message that was decided before the override is late.             *)
LateRule(t) ==
  /\ late[t] <= 1
  /\ ~OverrideActive(store, t) => late[t] = 0
  /\ IsTo(send[Child], t) /\ ~reply[Child].override => late[t] = 0

IInv == TypeOK /\ \A t \in Topics : Agreeing(t) /\ LateRule(t)

----------------------------------------------------------------------------
(* One store call of publish(), for an item of a reply.                     *)
LEMMA ItemCases ==
  ASSUME NEW i \in Items
  PROVE  /\ i.topic \in Topics /\ i.payload \in Payloads \cup {Release, Announced}
         /\ Release # Announced /\ Announced \notin Payloads
         /\ Release \notin Payloads /\ None \notin Payloads
BY LightingAssumption, NoneAssumption DEF Items

LEMMA CallEffect ==
  ASSUME NEW s \in Store, NEW i \in Items, NEW override \in BOOLEAN, NEW p \in Processes
  PROVE  LET c == CallFor(override, i)
             e == AfterCall(s, c)
             m == Message(p, c, AnswerTo(s, c))
             t == i.topic
         IN  /\ c.topic = t /\ e \in Store /\ m \in Payloads \cup {None}
             /\ \A u \in Topics \ {t} : e[u] = s[u]
             /\ m = None => \/ EffectiveState(e, t) = None
                            \/ EffectiveState(e, t) = EffectiveState(s, t)
             /\ p = Child /\ m # None /\ ~override => ~OverrideActive(e, t)
<1> DEFINE c == CallFor(override, i)
           e == AfterCall(s, c)
           m == Message(p, c, AnswerTo(s, c))
           t == i.topic
<1>1. /\ t \in Topics /\ i.payload \in Payloads \cup {Release, Announced} /\ None \notin Payloads
      /\ Release # Announced /\ Announced \notin Payloads /\ Release \notin Payloads
  BY ItemCases
<1>2. /\ s[t] \in Entry /\ s[t].base \in Payloads \cup {None}
      /\ s[t].override \in Payloads \cup {None}
  BY <1>1 DEF Store, Entry
<1>3. CASE i.payload = Release
  <2>1. c = [kind |-> "clear_override", topic |-> t]
    BY <1>1, <1>3 DEF CallFor
  <2>2. e = [s EXCEPT ![t].override = None] /\ m = s[t].base
    BY <2>1 DEF AfterCall, Message, AnswerTo
  <2>3. c.topic = t
    BY <2>1
  <2> HIDE DEF c, e, m, t
  <2>4. e \in Store /\ (\A u \in Topics \ {t} : e[u] = s[u])
    BY <1>1, <1>2, <2>2 DEF Store, Entry
  <2>5. e[t].override = None /\ e[t].base = s[t].base
    BY <1>1, <1>2, <2>2 DEF Store, Entry
  <2> QED BY <1>2, <2>2, <2>3, <2>4, <2>5 DEF EffectiveState, OverrideActive, c, e, m, t
<1>4. CASE i.payload \in Payloads /\ override
  <2>1. c = [kind |-> "set_override", topic |-> t, payload |-> i.payload]
    BY <1>1, <1>4 DEF CallFor
  <2>2. e = [s EXCEPT ![t].override = i.payload] /\ m = i.payload
    BY <2>1 DEF AfterCall, Message
  <2>3. c.topic = t
    BY <2>1
  <2> HIDE DEF c, e, m, t
  <2>4. e \in Store /\ (\A u \in Topics \ {t} : e[u] = s[u]) /\ m \in Payloads
    BY <1>1, <1>2, <1>4, <2>2 DEF Store, Entry
  <2> QED BY <1>1, <1>4, <2>3, <2>4 DEF c, e, m, t
<1>5. CASE i.payload \in Payloads /\ ~override
  <2>1. c = [kind |-> "update_base", topic |-> t, payload |-> i.payload]
    BY <1>1, <1>5 DEF CallFor
  <2>2. /\ e = [s EXCEPT ![t].base = i.payload]
        /\ m = IF p = Child /\ OverrideActive(s, t) THEN None ELSE i.payload
    BY <2>1 DEF AfterCall, Message, AnswerTo
  <2>3. c.topic = t
    BY <2>1
  <2> HIDE DEF c, e, m, t
  <2>4. e \in Store /\ (\A u \in Topics \ {t} : e[u] = s[u]) /\ m \in Payloads \cup {None}
    BY <1>1, <1>2, <1>5, <2>2 DEF Store, Entry
  <2>5. e[t].override = s[t].override
    BY <1>1, <1>2, <2>2 DEF Store, Entry
  <2> QED BY <1>1, <1>5, <2>2, <2>3, <2>4, <2>5 DEF EffectiveState, OverrideActive, c, e, m, t
<1>6. CASE i.payload = Announced
  <2>1. c = [kind |-> "get_state", topic |-> t]
    BY <1>1, <1>6 DEF CallFor
  <2>2. e = s /\ m = None
    BY <2>1 DEF AfterCall, Message
  <2>3. c.topic = t
    BY <2>1
  <2> HIDE DEF c, e, m, t
  <2> QED BY <2>2, <2>3 DEF c, e, m, t
<1> QED BY <1>1, <1>3, <1>4, <1>5, <1>6

----------------------------------------------------------------------------
LEMMA InitInv == Init => IInv
<1> SUFFICES ASSUME Init PROVE IInv
  OBVIOUS
<1> USE DEF Init
<1>1. Done \in Replies
  BY DEF Done, Reply, Replies
<1>2. store \in Store
  BY DEF EmptyStore, Store, Entry
<1>3. reply \in [Processes -> Replies] /\ send \in [Processes -> Sends \cup {Nothing}]
  BY <1>1
<1>4. TypeOK
  BY <1>2, <1>3 DEF TypeOK
<1>5. \A t \in Topics : Agreeing(t)
  BY DEF Agreeing, EffectiveState, OverrideActive, EmptyStore
<1>6. \A t \in Topics : LateRule(t)
  <2>1. ASSUME NEW t \in Topics PROVE late[t] = 0
    OBVIOUS
  <2> HIDE DEF Init
  <2>2. ASSUME NEW t \in Topics PROVE LateRule(t)
    <3>1. late[t] = 0 /\ late[t] <= 1
      BY <2>1
    <3> QED BY <3>1 DEF LateRule
  <2> QED BY <2>2
<1> QED BY <1>4, <1>5, <1>6 DEF IInv

(* A topic that a step is not about.                                        *)
LEMMA SameNews ==
  ASSUME NEW u \in Topics, NEW v, Newest(u, v), pubq' = pubq, hand' = hand,
         device'[u] = device[u],
         send'[Main] = send[Main] \/ (~IsTo(send[Main], u) /\ ~IsTo(send'[Main], u))
  PROVE  Newest(u, v)'
<1>1. UnderWay(u)' <=> UnderWay(u)
  BY DEF UnderWay, IsTo
<1>2. CASE send'[Main] = send[Main]
  BY <1>1, <1>2 DEF Newest
<1>3. CASE ~IsTo(send[Main], u) /\ ~IsTo(send'[Main], u)
  BY <1>1, <1>3 DEF Newest
<1> QED BY <1>2, <1>3

LEMMA SameState ==
  ASSUME NEW u \in Topics, store'[u] = store[u]
  PROVE  /\ EffectiveState(store, u)' = EffectiveState(store, u)
         /\ OverrideActive(store, u)' <=> OverrideActive(store, u)
BY DEF EffectiveState, OverrideActive

LEMMA StillAgreeing ==
  ASSUME NEW u \in Topics, Agreeing(u), store'[u] = store[u],
         cause'[u] = "none" => cause[u] = "none",
         cause'[u] = "none" /\ IsTo(send[Child], u) => IsTo(send'[Child], u),
         pubq' = pubq, hand' = hand, device'[u] = device[u],
         send'[Main] = send[Main] \/ (~IsTo(send[Main], u) /\ ~IsTo(send'[Main], u))
  PROVE  Agreeing(u)'
<1>0. PICK v : v = EffectiveState(store, u)
  OBVIOUS
<1>1. EffectiveState(store, u)' = v
  BY <1>0, SameState
<1>2. Newest(u, v) => Newest(u, v)'
  BY SameNews
<1>3. ASSUME cause'[u] = "none", ~IsTo(send'[Child], u), v # None
      PROVE  Newest(u, v)'
  <2>1. cause[u] = "none" /\ ~IsTo(send[Child], u)
    BY <1>3
  <2>2. Newest(u, v)
    BY <1>0, <1>3, <2>1 DEF Agreeing
  <2> QED BY <1>2, <2>2
<1> QED BY <1>1, <1>3 DEF Agreeing

LEMMA StillLate ==
  ASSUME NEW u \in Topics, LateRule(u), store'[u] = store[u], late'[u] = late[u],
         IsTo(send'[Child], u) /\ ~reply'[Child].override =>
           IsTo(send[Child], u) /\ ~reply[Child].override
  PROVE  LateRule(u)'
BY SameState DEF LateRule

(* A reply to go through, and no message yet.                               *)
LEMMA NewReplyInv ==
  ASSUME IInv, NEW p \in Processes, NEW r \in Replies,
         reply' = [reply EXCEPT ![p] = r], p = Child => ~Busy(Child),
         UNCHANGED <<store, send, pubq, hand, replay, alive, device, late, cause>>
  PROVE  IInv'
<1>1. TypeOK'
  BY DEF IInv, TypeOK
<1>2. ASSUME NEW t \in Topics PROVE Agreeing(t)'
  BY DEF IInv, Agreeing, Newest, UnderWay
<1>3. ASSUME NEW t \in Topics PROVE LateRule(t)'
  <2>1. CASE p = Child
    BY <2>1 DEF IInv, LateRule, IsTo, Busy
  <2>2. CASE p # Child
    <3>1. reply'[Child] = reply[Child]
      BY <2>2 DEF IInv, TypeOK, Processes
    <3> QED BY <3>1 DEF IInv, LateRule
  <2> QED BY <2>1, <2>2
<1> QED BY <1>1, <1>2, <1>3 DEF IInv

LEMMA CommandsInv == ASSUME IInv, UserCommand \/ DeviceAnnounced \/ JobDue PROVE IInv'
<1>1. UserReplies \subseteq Replies /\ JobReplies \subseteq Replies
  BY RepliesAssumption
<1>2. CASE UserCommand
  BY <1>1, <1>2, NewReplyInv, LightingAssumption DEF UserCommand, Processes
<1>3. CASE JobDue
  BY <1>1, <1>3, NewReplyInv DEF JobDue, Processes
<1>4. CASE DeviceAnnounced
  <2>1. PICK t \in Announcers : reply' = [reply EXCEPT ![Main] = Reply(To(<<t>>, Announced), FALSE)]
    BY <1>4 DEF DeviceAnnounced
  <2>2. t \in Topics
    BY LightingAssumption
  <2>3. PICK i \in Items : i = [topic |-> t, payload |-> Announced]
    BY <2>2 DEF Items
  <2>4. To(<<t>>, Announced) = <<i>>
    BY <2>3 DEF To
  <2>5. Reply(To(<<t>>, Announced), FALSE) \in Replies
    <3>1. <<i>> \in Seq(Items)
      OBVIOUS
    <3> QED BY <2>4, <3>1 DEF Reply, Replies
  <2> QED BY <1>4, <2>1, <2>5, NewReplyInv, LightingAssumption DEF DeviceAnnounced, Processes
<1> QED BY <1>2, <1>3, <1>4

(* publish(), one topic.                                                    *)
LEMMA StoreCallInv == ASSUME IInv, NEW p \in Processes, StoreCall(p) PROVE IInv'
<1>1. /\ reply[p] \in Replies /\ reply[p].items \in Seq(Items) /\ reply[p].override \in BOOLEAN
      /\ reply[p].items # <<>> /\ Head(reply[p].items) \in Items /\ send[p] = Nothing
  <2>1. reply[p] \in Replies
    BY DEF IInv, TypeOK
  <2>2. reply[p].items \in Seq(Items) /\ reply[p].override \in BOOLEAN
    BY <2>1 DEF Replies
  <2>3. reply[p].items # <<>> /\ send[p] = Nothing
    BY DEF StoreCall
  <2> QED BY <2>1, <2>2, <2>3
<1>2. PICK i \in Items, o \in BOOLEAN : i = Head(reply[p].items) /\ o = reply[p].override
  BY <1>1
<1> DEFINE t == i.topic
<1>3. store \in Store
  BY DEF IInv, TypeOK
<1>4. PICK e \in Store, m \in Payloads \cup {None} :
        /\ e = AfterCall(store, CallFor(o, i))
        /\ m = Message(p, CallFor(o, i), AnswerTo(store, CallFor(o, i)))
        /\ CallFor(o, i).topic = t
  BY <1>2, <1>3, CallEffect
<1>5. /\ \A u \in Topics \ {t} : e[u] = store[u]
      /\ m = None => \/ EffectiveState(e, t) = None
                     \/ EffectiveState(e, t) = EffectiveState(store, t)
      /\ p = Child /\ m # None /\ ~o => ~OverrideActive(e, t)
  <2>1. \A u \in Topics \ {t} : AfterCall(store, CallFor(o, i))[u] = store[u]
    BY <1>2, <1>3, CallEffect
  <2>2. m = None => \/ EffectiveState(e, t) = None
                   \/ EffectiveState(e, t) = EffectiveState(store, t)
    BY <1>2, <1>3, <1>4, CallEffect
  <2>3. p = Child /\ m # None /\ ~o => ~OverrideActive(e, t)
    BY <1>2, <1>3, <1>4, CallEffect
  <2> QED BY <1>4, <2>1, <2>2, <2>3
<1>7. t \in Topics /\ None \notin Payloads
  BY <1>1, ItemCases
<1>8. /\ store' = e
      /\ send' = [send EXCEPT ![p] = IF m = None THEN Nothing
                                      ELSE [topic |-> t, payload |-> m]]
      /\ late' = [late EXCEPT ![t] = IF OverrideActive(e, t) THEN @ ELSE 0]
      /\ cause' = [cause EXCEPT ![t] =
              IF p = Child \/ m = None THEN @
              ELSE IF m # EffectiveState(e, t) THEN "base_under_override"
              ELSE "none"]
      /\ replay' = [replay EXCEPT ![t] =
              IF CallFor(o, i).kind = "get_state" /\ @ = None
              THEN AnswerTo(store, CallFor(o, i)) ELSE @]
      /\ reply' = [reply EXCEPT ![p].items = Tail(@)]
      /\ UNCHANGED <<pubq, hand, alive, device>>
  BY <1>2, <1>4 DEF StoreCall, Answered, CallOf
<1> HIDE DEF t
<1>9. TypeOK'
  <2>1. reply' \in [Processes -> Replies]
    <3>1. Tail(reply[p].items) \in Seq(Items)
      BY <1>1
    <3>2. [reply[p] EXCEPT !.items = Tail(reply[p].items)] \in Replies
      BY <1>1, <3>1 DEF Replies
    <3> QED BY <1>8, <3>2 DEF IInv, TypeOK
  <2>2. send' \in [Processes -> Sends \cup {Nothing}]
    BY <1>7, <1>8 DEF IInv, TypeOK, Sends
  <2>3. late' \in [Topics -> Nat]
    BY <1>7, <1>8 DEF IInv, TypeOK
  <2>4. cause' \in [Topics -> {"none", "base_under_override", "overtook_queue",
                              "stale_decision", "died_before_publishing",
                              "replayed_old"}]
    BY <1>7, <1>8 DEF IInv, TypeOK
  <2>5. replay' \in [Topics -> Payloads \cup {None}]
    <3>1. CallFor(o, i).kind = "get_state" =>
            AnswerTo(store, CallFor(o, i)) \in Payloads \cup {None}
      BY <1>3, <1>4, <1>7 DEF AnswerTo, EffectiveState, Store, Entry
    <3> QED BY <1>7, <1>8, <3>1 DEF IInv, TypeOK
  <2> QED BY <1>8, <2>1, <2>2, <2>3, <2>4, <2>5 DEF IInv, TypeOK
<1>10. /\ send'[p] = IF m = None THEN Nothing ELSE [topic |-> t, payload |-> m]
       /\ \A q \in Processes \ {p} : send'[q] = send[q] /\ reply'[q] = reply[q]
       /\ reply'[p].override = o
       /\ \A u \in Topics \ {t} : late'[u] = late[u] /\ cause'[u] = cause[u]
       /\ late'[t] = IF OverrideActive(e, t) THEN late[t] ELSE 0
  BY <1>1, <1>2, <1>7, <1>8 DEF IInv, TypeOK, Replies
<1>11. [topic |-> t, payload |-> m] # Nothing \/ m = None
  BY <1>7, LightingAssumption
<1>12. Main \in Processes /\ Child \in Processes /\ Main # Child /\ (p = Main \/ p = Child)
  BY LightingAssumption DEF Processes
<1>13. ASSUME NEW u \in Topics, u # t PROVE Agreeing(u)' /\ LateRule(u)'
  <2>1. store'[u] = store[u] /\ late'[u] = late[u] /\ cause'[u] = cause[u]
    BY <1>5, <1>8, <1>10, <1>13
  <2>2. Agreeing(u) /\ LateRule(u)
    BY DEF IInv
  <2>3. ~IsTo(send[p], u) /\ ~IsTo(send'[p], u)
    BY <1>1, <1>10, <1>13 DEF IsTo
  <2>4. Agreeing(u)'
    <3>1. CASE p = Main
      BY <1>8, <1>10, <1>12, <2>1, <2>2, <2>3, <3>1, StillAgreeing
    <3>2. CASE p = Child
      BY <1>8, <1>10, <1>12, <2>1, <2>2, <2>3, <3>2, StillAgreeing
    <3> QED BY <1>12, <3>1, <3>2
  <2>5. LateRule(u)'
    <3>1. CASE p = Main
      <4>1. send'[Child] = send[Child] /\ reply'[Child] = reply[Child]
        BY <1>10, <1>12, <3>1
      <4> QED BY <2>1, <2>2, <4>1, StillLate
    <3>2. CASE p = Child
      BY <2>1, <2>2, <2>3, <3>2, StillLate
    <3> QED BY <1>12, <3>1, <3>2
  <2> QED BY <2>4, <2>5
<1>14. LateRule(t)'
  <2>1. LateRule(t) /\ late[t] \in Nat
    BY <1>7 DEF IInv, TypeOK
  <2>2. CASE p = Child
    BY <1>5, <1>8, <1>10, <2>1, <2>2 DEF LateRule, IsTo
  <2>3. CASE p = Main
    <3>1. send'[Child] = send[Child] /\ reply'[Child] = reply[Child]
      BY <1>10, <1>12, <2>3
    <3> QED BY <1>8, <1>10, <2>1, <3>1 DEF LateRule
  <2> QED BY <1>12, <2>2, <2>3
<1>15. Agreeing(t)'
  <2>1. CASE m = None
    <3>1. send'[p] = send[p] /\ cause'[t] = cause[t]
      BY <1>1, <1>7, <1>8, <1>10, <2>1 DEF IInv, TypeOK
    <3>2. send'[Child] = send[Child] /\ send'[Main] = send[Main]
      BY <1>10, <1>12, <3>1
    <3>3. /\ Agreeing(t)
          /\ /\ Newest(t, EffectiveState(store, t))
             /\ EffectiveState(e, t) = EffectiveState(store, t)
             => Newest(t, EffectiveState(store, t))'
      <4>1. Agreeing(t)
        BY <1>7 DEF IInv
      <4>2. ASSUME Newest(t, EffectiveState(store, t)), EffectiveState(e, t) = EffectiveState(store, t)
            PROVE  Newest(t, EffectiveState(store, t))'
        BY <1>8, <3>2, <4>2 DEF Newest, UnderWay
      <4> QED BY <4>1, <4>2
    <3> QED BY <1>5, <1>8, <2>1, <3>1, <3>2, <3>3 DEF Agreeing
  <2>2. CASE m # None /\ p = Child
    BY <1>10, <1>11, <2>2 DEF Agreeing, IsTo
  <2>3. CASE m # None /\ p = Main
    <3>1. cause'[t] = "none" => m = EffectiveState(store, t)'
      BY <1>7, <1>8, <1>12, <2>3 DEF IInv, TypeOK
    <3>2. IsTo(send'[Main], t) /\ send'[Main].payload = m
      BY <1>10, <1>11, <2>3 DEF IsTo
    <3> QED BY <3>1, <3>2 DEF Agreeing, Newest
  <2> QED BY <1>12, <2>1, <2>2, <2>3
<1> QED BY <1>9, <1>13, <1>14, <1>15 DEF IInv

----------------------------------------------------------------------------
(* The way of a message of the main process.                                *)
LEMMA QueueTypes == ASSUME IInv PROVE pubq \in Seq(Sends) /\ Nothing \notin Sends
BY LightingAssumption DEF IInv, TypeOK, Sends

(* The message of a call becomes the last of the queue.                     *)
LEMMA EnqueueInv == ASSUME IInv, Enqueue PROVE IInv'
<1> USE DEF Enqueue
<1>1. pubq \in Seq(Sends) /\ send[Main] \in Sends /\ Main \in Processes /\ Main # Child
  BY LightingAssumption DEF IInv, TypeOK, Processes
<1>2. send'[Main] = Nothing /\ send'[Child] = send[Child]
  BY <1>1 DEF IInv, TypeOK, Processes
<1>3. TypeOK'
  BY <1>1 DEF IInv, TypeOK
<1> DEFINE last == Len(pubq) + 1
<1>4. /\ DOMAIN pubq' = DOMAIN pubq \cup {last} /\ pubq'[last] = send[Main]
      /\ \A i \in DOMAIN pubq : pubq'[i] = pubq[i] /\ i \in Nat /\ i < last
      /\ last \in Nat
  BY <1>1
<1> HIDE DEF last
<1>5. ASSUME NEW t \in Topics PROVE Agreeing(t)'
  <2>1. PICK v : v = EffectiveState(store, t)
    OBVIOUS
  <2>2. EffectiveState(store, t)' = v
    BY <2>1 DEF EffectiveState, OverrideActive
  <2>3. ASSUME Newest(t, v) PROVE Newest(t, v)'
    <3>1. CASE IsTo(send[Main], t)
      <4>1. send[Main].payload = v /\ send[Main].topic = t
        BY <2>3, <3>1 DEF Newest, IsTo, UnderWay
      <4>2. \A j \in DOMAIN pubq' : ~(last < j)
        BY <1>4
      <4>3. ~IsTo(send'[Main], t) /\ last \in DOMAIN pubq'
        BY <1>2, <1>4 DEF IsTo
      <4> QED BY <1>4, <4>1, <4>2, <4>3 DEF Newest
    <3>2. CASE ~IsTo(send[Main], t)
      <4>1. send[Main].topic # t /\ ~IsTo(send'[Main], t)
        BY <1>2, <3>2 DEF IsTo
      <4>2. UnderWay(t)' <=> UnderWay(t)
        BY <1>2, <1>4, <4>1 DEF UnderWay
      <4>3. CASE \E i \in DOMAIN pubq : /\ pubq[i].topic = t /\ pubq[i].payload = v
                                        /\ \A j \in DOMAIN pubq : i < j => pubq[j].topic # t
        BY <1>4, <4>1, <4>3 DEF Newest
      <4>4. CASE \A j \in DOMAIN pubq : pubq[j].topic # t
        BY <1>4, <2>3, <3>2, <4>1, <4>2, <4>4 DEF Newest
      <4>5. CASE ~UnderWay(t) /\ device[t] = v
        BY <4>2, <4>5 DEF Newest
      <4> QED BY <2>3, <3>2, <4>3, <4>4, <4>5 DEF Newest
    <3> QED BY <3>1, <3>2
  <2> QED BY <1>2, <2>1, <2>2, <2>3 DEF IInv, Agreeing
<1>6. ASSUME NEW t \in Topics PROVE LateRule(t)'
  BY <1>2, StillLate DEF IInv
<1> QED BY <1>3, <1>5, <1>6 DEF IInv

(* The first message of the queue comes into the hand, which was empty.     *)
LEMMA WorkerTakeInv == ASSUME IInv, WorkerTake PROVE IInv'
<1>1. pubq \in Seq(Sends) /\ pubq # <<>> /\ Nothing \notin Sends
  BY QueueTypes DEF WorkerTake
<1>2. /\ 1 \in DOMAIN pubq /\ hand' = pubq[1] /\ pubq[1] \in Sends
      /\ \A i \in DOMAIN pubq' : i + 1 \in DOMAIN pubq /\ pubq'[i] = pubq[i + 1]
      /\ \A i \in DOMAIN pubq : i = 1 \/ (i - 1 \in DOMAIN pubq' /\ pubq'[i - 1] = pubq[i])
      /\ DOMAIN pubq \subseteq Nat /\ DOMAIN pubq' \subseteq Nat \ {0}
  BY <1>1 DEF WorkerTake
<1>3. TypeOK'
  <2>1. pubq' \in Seq(Sends)
    BY <1>1 DEF WorkerTake
  <2> QED BY <1>2, <2>1 DEF IInv, TypeOK, WorkerTake
<1>4. hand = Nothing /\ hand' # Nothing
  BY <1>1, <1>2 DEF WorkerTake
<1>5. /\ store' = store /\ send' = send /\ device' = device
      /\ cause' = cause /\ late' = late /\ reply' = reply
  BY DEF WorkerTake
<1>6. ASSUME NEW t \in Topics PROVE Agreeing(t)'
  <2>1. PICK v : v = EffectiveState(store, t)
    OBVIOUS
  <2>2. EffectiveState(store, t)' = v
    BY <1>5, <2>1 DEF EffectiveState, OverrideActive
  <2>3. ASSUME NEW j \in DOMAIN pubq', pubq'[j].topic = t
        PROVE  UnderWay(t)
    BY <1>2, <2>3 DEF UnderWay
  <2>4. UnderWay(t)' => UnderWay(t)
    <3>1. CASE IsTo(send'[Main], t)
      BY <1>5, <3>1 DEF UnderWay, IsTo
    <3>2. CASE IsTo(hand', t)
      BY <1>2, <3>2 DEF UnderWay, IsTo
    <3>3. CASE \E j \in DOMAIN pubq' : pubq'[j].topic = t
      BY <2>3, <3>3
    <3> QED BY <3>1, <3>2, <3>3 DEF UnderWay, IsTo
  <2>5. ASSUME Newest(t, v) PROVE Newest(t, v)'
    <3>1. CASE IsTo(send[Main], t) /\ send[Main].payload = v
      BY <1>5, <3>1 DEF Newest
    <3>2. CASE /\ ~IsTo(send[Main], t)
               /\ \E i \in DOMAIN pubq : /\ pubq[i].topic = t /\ pubq[i].payload = v
                                         /\ \A j \in DOMAIN pubq : i < j => pubq[j].topic # t
      <4>1. PICK i \in DOMAIN pubq : /\ pubq[i].topic = t /\ pubq[i].payload = v
                                     /\ \A j \in DOMAIN pubq : i < j => pubq[j].topic # t
        BY <3>2
      <4>2. \A j \in DOMAIN pubq' : i < j + 1 => pubq'[j].topic # t
        BY <1>2, <4>1
      <4>3. ~IsTo(send'[Main], t)
        BY <1>5, <3>2
      <4>4. CASE i = 1
        <5>1. \A j \in DOMAIN pubq' : pubq'[j].topic # t
          BY <1>2, <4>2, <4>4
        <5>2. IsTo(hand', t) /\ hand'.payload = v
          BY <1>2, <1>4, <4>1, <4>4 DEF IsTo
        <5> QED BY <4>3, <5>1, <5>2 DEF Newest
      <4>5. CASE i # 1
        <5>1. i - 1 \in DOMAIN pubq' /\ pubq'[i - 1] = pubq[i]
          BY <1>2, <4>5
        <5>2. \A j \in DOMAIN pubq' : i - 1 < j => pubq'[j].topic # t
          BY <1>2, <4>2
        <5> QED BY <4>1, <4>3, <5>1, <5>2 DEF Newest
      <4> QED BY <4>4, <4>5
    <3>3. CASE ~UnderWay(t) /\ device[t] = v
      BY <1>5, <2>4, <3>3 DEF Newest
    <3> QED BY <1>4, <2>5, <3>1, <3>2, <3>3 DEF Newest, IsTo
  <2>6. CASE cause[t] = "none" /\ ~IsTo(send[Child], t)
    BY <1>5, <2>1, <2>2, <2>5, <2>6 DEF IInv, Agreeing
  <2> QED BY <1>5, <2>6 DEF Agreeing
<1>7. ASSUME NEW t \in Topics PROVE LateRule(t)'
  BY <1>5, StillLate DEF IInv
<1> QED BY <1>3, <1>6, <1>7 DEF IInv

(* The device gets what was in the hand.                                    *)
LEMMA WorkerPublishInv == ASSUME IInv, WorkerPublish PROVE IInv'
<1> USE DEF WorkerPublish
<1>1. hand \in Sends /\ hand.topic \in Topics /\ hand.payload \in Payloads
  BY DEF IInv, TypeOK, Sends
<1>2. TypeOK'
  BY <1>1 DEF IInv, TypeOK
<1>3. device' = [device EXCEPT ![hand.topic] = hand.payload] /\ device \in [Topics -> Payloads \cup {None}]
  BY DEF IInv, TypeOK
<1>4. ASSUME NEW t \in Topics PROVE Agreeing(t)'
  <2>1. PICK v : v = EffectiveState(store, t)
    OBVIOUS
  <2>2. EffectiveState(store, t)' = v
    BY <2>1 DEF EffectiveState, OverrideActive
  <2>3. ASSUME Newest(t, v) PROVE Newest(t, v)'
    <3>1. CASE IsTo(send[Main], t) \/ \E i \in DOMAIN pubq : pubq[i].topic = t
      BY <2>3, <3>1 DEF Newest, UnderWay, IsTo
    <3>2. CASE ~IsTo(send[Main], t) /\ \A i \in DOMAIN pubq : pubq[i].topic # t
      <4>1. ~UnderWay(t)'
        BY <3>2 DEF UnderWay, IsTo
      <4>2. device'[t] = v
        <5>1. CASE hand.topic = t
          BY <1>1, <1>3, <2>3, <3>2, <5>1 DEF Newest, UnderWay, IsTo
        <5>2. CASE hand.topic # t
          BY <1>1, <1>3, <2>3, <3>2, <5>2 DEF Newest, UnderWay, IsTo
        <5> QED BY <5>1, <5>2
      <4> QED BY <4>1, <4>2 DEF Newest
    <3> QED BY <3>1, <3>2
  <2> QED BY <2>1, <2>2, <2>3 DEF IInv, Agreeing
<1>5. ASSUME NEW t \in Topics PROVE LateRule(t)'
  BY StillLate DEF IInv
<1> QED BY <1>2, <1>4, <1>5 DEF IInv

(* A replay is the newest of what the main process sends to the device,     *)
(* unless the main process has a message in hand that it has yet to queue.  *)
LEMMA ResendInv == ASSUME IInv, NEW t \in Topics, Resend(t) PROVE IInv'
<1>1. PICK x \in Sends : x = [topic |-> t, payload |-> replay[t]]
  BY DEF Resend, IInv, TypeOK, Sends
<1>2. /\ x.topic = t /\ x.payload = replay[t] /\ pubq' = Append(pubq, x)
      /\ cause' = [cause EXCEPT ![t] =
           IF IsTo(send[Main], t) THEN @
           ELSE IF x.payload # EffectiveState(store, t) THEN "replayed_old" ELSE "none"]
      /\ UNCHANGED <<store, reply, send, hand, replay, alive, device, late>>
  BY <1>1 DEF Resend, IsTo
<1>3. pubq \in Seq(Sends)
  BY DEF IInv, TypeOK
<1>4. TypeOK'
  BY <1>2, <1>3 DEF IInv, TypeOK
<1> DEFINE last == Len(pubq) + 1
<1>5. /\ DOMAIN pubq' = DOMAIN pubq \cup {last} /\ pubq'[last] = x
      /\ \A i \in DOMAIN pubq : pubq'[i] = pubq[i] /\ i \in Nat /\ i < last
      /\ last \in Nat
  BY <1>2, <1>3
<1> HIDE DEF last
<1>6. ASSUME NEW u \in Topics, Agreeing(u), cause'[u] = cause[u],
             u # t \/ IsTo(send[Main], t)
      PROVE  Agreeing(u)'
  <2>1. PICK v : v = EffectiveState(store, u)
    OBVIOUS
  <2>2. EffectiveState(store, u)' = v
    BY <1>2, <2>1 DEF EffectiveState, OverrideActive
  <2>3. ASSUME Newest(u, v) PROVE Newest(u, v)'
    <3>1. CASE IsTo(send[Main], u)
      BY <1>2, <2>3, <3>1 DEF Newest, IsTo, UnderWay
    <3>2. CASE ~IsTo(send[Main], u)
      <4>1. u # t /\ ~IsTo(send'[Main], u)
        BY <1>2, <1>6, <3>2
      <4>2. UnderWay(u)' <=> UnderWay(u)
        BY <1>2, <1>5, <4>1 DEF UnderWay
      <4>3. CASE \E i \in DOMAIN pubq : /\ pubq[i].topic = u /\ pubq[i].payload = v
                                        /\ \A j \in DOMAIN pubq : i < j => pubq[j].topic # u
        BY <1>2, <1>5, <4>1, <4>3 DEF Newest
      <4>4. CASE \A j \in DOMAIN pubq : pubq[j].topic # u
        BY <1>2, <1>5, <2>3, <3>2, <4>1, <4>2, <4>4 DEF Newest
      <4>5. CASE ~UnderWay(u) /\ device[u] = v
        BY <1>2, <4>2, <4>5 DEF Newest
      <4> QED BY <2>3, <3>2, <4>3, <4>4, <4>5 DEF Newest
    <3> QED BY <3>1, <3>2
  <2> QED BY <1>2, <1>6, <2>1, <2>2, <2>3 DEF Agreeing
<1>7. ASSUME NEW u \in Topics PROVE Agreeing(u)'
  <2>1. Agreeing(u) /\ (u # t => cause'[u] = cause[u])
    BY <1>2 DEF IInv, TypeOK
  <2>2. CASE u # t
    BY <1>6, <2>1, <2>2
  <2>3. CASE u = t /\ IsTo(send[Main], t)
    BY <1>2, <1>6, <2>1, <2>3 DEF IInv, TypeOK
  <2>4. CASE u = t /\ ~IsTo(send[Main], t)
    <3>1. cause'[t] = "none" => x.payload = EffectiveState(store, t)
      BY <1>2, <2>4 DEF IInv, TypeOK
    <3>2. EffectiveState(store, t)' = EffectiveState(store, t) /\ ~IsTo(send'[Main], t)
      BY <1>2, <2>4 DEF EffectiveState, OverrideActive
    <3>3. \A j \in DOMAIN pubq' : ~(last < j)
      BY <1>5
    <3> QED BY <1>2, <1>5, <2>4, <3>1, <3>2, <3>3 DEF Agreeing, Newest
  <2> QED BY <2>2, <2>3, <2>4
<1>8. ASSUME NEW u \in Topics PROVE LateRule(u)'
  BY <1>2, StillLate DEF IInv
<1> QED BY <1>4, <1>7, <1>8 DEF IInv

LEMMA EpisodeEndsInv == ASSUME IInv, NEW t \in Topics, EpisodeEnds(t) PROVE IInv'
<1>1. TypeOK'
  BY DEF IInv, TypeOK, EpisodeEnds
<1>2. ASSUME NEW u \in Topics PROVE Agreeing(u)' /\ LateRule(u)'
  BY DEF IInv, EpisodeEnds, Agreeing, Newest, UnderWay, LateRule
<1> QED BY <1>1, <1>2 DEF IInv

----------------------------------------------------------------------------
(* The child publishes, or is gone.                                         *)
LEMMA PublishDirectInv == ASSUME IInv, PublishDirect PROVE IInv'
<1>1. PICK t \in Topics, m \in Payloads : t = send[Child].topic /\ m = send[Child].payload
  BY DEF IInv, TypeOK, PublishDirect, Sends, Processes
<1>2. /\ send[Child] # Nothing /\ device' = [device EXCEPT ![t] = m]
      /\ late' = [late EXCEPT ![t] =
              IF OverrideActive(store, t) /\ ~reply[Child].override THEN @ + 1 ELSE @]
      /\ cause' = [cause EXCEPT ![t] =
              IF UnderWay(t) THEN "overtook_queue"
              ELSE IF m # EffectiveState(store, t) THEN "stale_decision"
              ELSE "none"]
      /\ send' = [send EXCEPT ![Child] = Nothing]
      /\ UNCHANGED <<store, reply, pubq, hand, replay, alive>>
  BY <1>1 DEF PublishDirect
<1>3. TypeOK'
  <2>1. device' \in [Topics -> Payloads \cup {None}] /\ send' \in [Processes -> Sends \cup {Nothing}]
    BY <1>2 DEF IInv, TypeOK
  <2>2. late' \in [Topics -> Nat]
    BY <1>2 DEF IInv, TypeOK
  <2>3. cause' \in [Topics -> {"none", "base_under_override", "overtook_queue",
                              "stale_decision", "died_before_publishing",
                              "replayed_old"}]
    BY <1>2 DEF IInv, TypeOK
  <2> QED BY <1>2, <2>1, <2>2, <2>3 DEF IInv, TypeOK
<1>4. /\ send'[Child] = Nothing /\ send'[Main] = send[Main] /\ device'[t] = m
      /\ \A u \in Topics \ {t} : /\ device'[u] = device[u] /\ late'[u] = late[u]
                                 /\ cause'[u] = cause[u]
  BY <1>2, LightingAssumption DEF IInv, TypeOK, Processes
<1>5. ~IsTo(send'[Child], t) /\ \A u \in Topics : ~IsTo(send'[Child], u)
  BY <1>4 DEF IsTo
<1>6. ASSUME NEW u \in Topics \ {t} PROVE Agreeing(u)' /\ LateRule(u)'
  <2>1. ~IsTo(send[Child], u)
    BY <1>1, <1>6 DEF IsTo
  <2>2. Agreeing(u) /\ LateRule(u)
    BY <1>6 DEF IInv
  <2>3. Agreeing(u)'
    BY <1>2, <1>4, <1>6, <2>1, <2>2, StillAgreeing
  <2>4. LateRule(u)'
    BY <1>2, <1>4, <1>5, <1>6, <2>2, StillLate
  <2> QED BY <2>3, <2>4
<1>7. Agreeing(t)'
  <2>1. UnderWay(t)' <=> UnderWay(t)
    BY <1>2, <1>4 DEF UnderWay
  <2>2. EffectiveState(store, t)' = EffectiveState(store, t)
    BY <1>2 DEF EffectiveState, OverrideActive
  <2>3. cause'[t] = "none" => ~UnderWay(t) /\ m = EffectiveState(store, t)
    BY <1>2 DEF IInv, TypeOK
  <2> QED BY <1>4, <2>1, <2>2, <2>3 DEF Agreeing, Newest
<1>8. LateRule(t)'
  <2>1. IsTo(send[Child], t) /\ LateRule(t) /\ late[t] \in Nat
    BY <1>1, <1>2 DEF IInv, TypeOK, IsTo
  <2>2. late'[t] = IF OverrideActive(store, t) /\ ~reply[Child].override
                     THEN late[t] + 1 ELSE late[t]
    BY <1>2 DEF IInv, TypeOK
  <2>3. OverrideActive(store, t)' <=> OverrideActive(store, t)
    BY <1>2 DEF OverrideActive
  <2> QED BY <1>5, <2>1, <2>2, <2>3 DEF LateRule
<1> QED BY <1>3, <1>6, <1>7, <1>8 DEF IInv

(* A child that dies in front of the device marks it.                       *)
LEMMA ChildGoneInv ==
  ASSUME IInv, alive' \in BOOLEAN,
         reply' = [reply EXCEPT ![Child] = Done], send' = [send EXCEPT ![Child] = Nothing],
         cause' = [t \in Topics |-> IF send[Child] # Nothing /\ send[Child].topic = t
                                     THEN "died_before_publishing" ELSE cause[t]],
         \/ UNCHANGED <<store, late>>
         \/ store' = EmptyStore /\ late' = [t \in Topics |-> 0],
         UNCHANGED <<pubq, hand, replay, device>>
  PROVE  IInv'
<1>1. TypeOK'
  <2>1. Done \in Replies /\ EmptyStore \in Store
    BY DEF Done, Reply, Replies, EmptyStore, Store, Entry
  <2>2. store' \in Store /\ late' \in [Topics -> Nat]
    BY <2>1 DEF IInv, TypeOK
  <2>3. reply' \in [Processes -> Replies] /\ send' \in [Processes -> Sends \cup {Nothing}]
    BY <2>1 DEF IInv, TypeOK
  <2>4. cause' \in [Topics -> {"none", "base_under_override", "overtook_queue",
                              "stale_decision", "died_before_publishing",
                              "replayed_old"}]
    BY DEF IInv, TypeOK
  <2> QED BY <2>2, <2>3, <2>4 DEF IInv, TypeOK
<1>2. send'[Child] = Nothing /\ send'[Main] = send[Main]
  BY LightingAssumption DEF IInv, TypeOK, Processes
<1>3. ASSUME NEW u \in Topics PROVE Agreeing(u)' /\ LateRule(u)'
  <2>1. ~IsTo(send'[Child], u)
    BY <1>2 DEF IsTo
  <2>2. cause'[u] = "none" => cause[u] = "none" /\ ~IsTo(send[Child], u)
    BY DEF IsTo
  <2>3. Agreeing(u) /\ LateRule(u)
    BY DEF IInv
  <2>4. CASE UNCHANGED <<store, late>>
    <3>1. Agreeing(u)'
      BY <1>2, <2>2, <2>3, <2>4, StillAgreeing
    <3>2. LateRule(u)'
      BY <2>1, <2>3, <2>4, StillLate
    <3> QED BY <3>1, <3>2
  <2>5. CASE store' = EmptyStore /\ late' = [t \in Topics |-> 0]
    <3>1. EffectiveState(store, u)' = None /\ late'[u] = 0
      BY <2>5 DEF EffectiveState, OverrideActive, EmptyStore
    <3> QED BY <3>1 DEF Agreeing, LateRule
  <2> QED BY <2>4, <2>5
<1> QED BY <1>1, <1>3 DEF IInv

LEMMA NextInv == ASSUME IInv, [Next]_vars PROVE IInv'
<1>1. CASE JobFails
  BY <1>1, ChildGoneInv DEF JobFails
<1>2. CASE ReloadConfig
  BY <1>2, ChildGoneInv DEF ReloadConfig
<1>3. CASE UNCHANGED vars
  BY <1>3 DEF vars, IInv, TypeOK, Agreeing, LateRule, Newest, UnderWay
<1>4. CASE StoreCall(Main) \/ StoreCall(Child)
  BY <1>4, StoreCallInv DEF Processes
<1> QED BY <1>1, <1>2, <1>3, <1>4, CommandsInv, EnqueueInv, PublishDirectInv, WorkerTakeInv,
       WorkerPublishInv, ResendInv, EpisodeEndsInv DEF Next, Replays

LEMMA AlwaysInv == Spec => []IInv
BY InitInv, NextInv, PTL DEF Spec

----------------------------------------------------------------------------
(* The variables keep their types: replies, messages and the queue.         *)
THEOREM TypeCorrect == Spec => []TypeOK
<1>1. IInv => TypeOK
  BY DEF IInv
<1> QED BY <1>1, AlwaysInv, PTL

(* A scheduled base that was decided before an override may reach the       *)
(* device after it, but only one: the next job sees the override.           *)
THEOREM LateBaseIsOne == Spec => []OneLateBaseAtMost
<1>1. IInv => OneLateBaseAtMost
  BY DEF IInv, LateRule, OneLateBaseAtMost
<1> QED BY <1>1, AlwaysInv, PTL

(* A device that is not marked is in the state of the store once all has    *)
(* been delivered, whatever users, jobs, replays, reloads and deaths there  *)
(* were: a mark is one of the five causes that DeviceAgrees names.          *)
THEOREM DevicesAgree == Spec => []DeviceAgrees
<1>1. ASSUME IInv, Quiet, NEW t \in Topics, cause[t] = "none"
      PROVE  EffectiveState(store, t) = None \/ device[t] = EffectiveState(store, t)
  <2>1. /\ send[Main] = Nothing /\ send[Child] = Nothing /\ hand = Nothing
        /\ pubq = <<>>
    BY <1>1 DEF Quiet, Busy
  <2>2. ~IsTo(send[Child], t) /\ ~IsTo(send[Main], t) /\ ~IsTo(hand, t) /\ DOMAIN pubq = {}
    BY <2>1 DEF IsTo
  <2> QED BY <1>1, <2>2 DEF IInv, Agreeing, Newest
<1>2. IInv => DeviceAgrees
  BY <1>1 DEF DeviceAgrees
<1> QED BY <1>2, AlwaysInv, PTL

-----------------------------------------------------------------------------
(* The store on its file.  A caller between its read and its write holds    *)
(* the lock, and what it is about to write and to hear is what its call     *)
(* makes of the store; a caller that is making a call has nothing else to   *)
(* do meanwhile.                                                            *)
Inside(p) == pc[p] \in {"loaded", "truncated"}
Cutting == \E p \in Processes : pc[p] = "truncated"

FileTypes ==
  /\ pc \in [Processes -> {"idle", "waiting", "loaded", "truncated"}]
  /\ call \in [Processes -> Calls \cup {File!NoCall}]
  /\ data \in [Processes -> Store] /\ result \in [Processes -> Answers]

OneInside == \A p \in Processes : Inside(p) <=> lock = p

Making(p) == send[p] = Nothing /\ reply[p].items # <<>> /\ call[p] = CallOf(p)

CallsAreMade == \A p \in Processes : pc[p] # "idle" => Making(p)

CopiesAreFresh ==
  \A p \in Processes : Inside(p) => /\ data[p] = AfterCall(store, call[p])
                                    /\ result[p] = AnswerTo(store, call[p])

StoreIsTheFile ==
  IF Cutting THEN file = Truncated
  ELSE file \in Store \cup {Truncated} /\ File!Decode(file) = store

FileInv == FileTypes /\ OneInside /\ CallsAreMade /\ CopiesAreFresh /\ StoreIsTheFile

(* StoreFile reads the calls as Lighting does.                              *)
LEMMA SameStore ==
  /\ File!EmptyStore = EmptyStore /\ File!Answers = Answers /\ File!Calls = Calls
  /\ File!Store = Store
  /\ \A s, c : File!AfterCall(s, c) = AfterCall(s, c)
  /\ \A s, c : File!AnswerTo(s, c) = AnswerTo(s, c)
<1>1. /\ File!EmptyStore = EmptyStore /\ File!Answers = Answers /\ File!Calls = Calls
      /\ File!Store = Store
  BY DEF EmptyStore, File!EmptyStore, Answers, File!Answers, Calls, File!Calls,
         Store, File!Store, Entry, File!Entry
<1>2. \A s, c : File!AfterCall(s, c) = AfterCall(s, c)
  BY DEF AfterCall, File!AfterCall
<1>3. \A s, c : File!AnswerTo(s, c) = AnswerTo(s, c)
  BY DEF AnswerTo, File!AnswerTo, OverrideActive, File!OverrideActive,
         EffectiveState, File!EffectiveState
<1> QED BY <1>1, <1>2, <1>3

(* What a call leaves is a store, and what it says an answer.               *)
LEMMA CallTypes ==
  ASSUME NEW s \in Store, NEW c \in Calls
  PROVE  AfterCall(s, c) \in Store /\ AnswerTo(s, c) \in Answers
<1>1. CASE c \in [kind : {"update_base", "set_override"}, topic : Topics, payload : Payloads]
  BY <1>1 DEF AfterCall, AnswerTo, Answers, Store, Entry, OverrideActive, EffectiveState
<1>2. CASE c \in [kind : {"clear_override", "get_state"}, topic : Topics]
  BY <1>2 DEF AfterCall, AnswerTo, Answers, Store, Entry, OverrideActive, EffectiveState
<1> QED BY <1>1, <1>2 DEF Calls

(* What publish() asks of the store is one of its methods.                  *)
LEMMA CallIsKnown ==
  ASSUME TypeOK, NEW p \in Processes, reply[p].items # <<>>
  PROVE  CallOf(p) \in Calls
<1>1. Head(reply[p].items) \in Items
  BY DEF TypeOK, Replies
<1>2. PICK i \in Items : i = Head(reply[p].items)
  BY <1>1
<1>3. i.topic \in Topics /\ i.payload \in Payloads \cup {Release, Announced}
  BY <1>2, ItemCases
<1> QED BY <1>2, <1>3, ItemCases DEF CallOf, CallFor, Calls

(* Outside a call the file holds the store.                                 *)
LEMMA WholeFile ==
  ASSUME IInv, FileInv, lock = NoOne
  PROVE  ~Cutting /\ File!Decode(file) = store
<1>1. \A p \in Processes : ~Inside(p)
  BY FileAssumption DEF FileInv, OneInside
<1> QED BY <1>1 DEF FileInv, StoreIsTheFile, Cutting, Inside

LEMMA FileInitInv == FileInit => FileInv
<1> SUFFICES ASSUME FileInit PROVE FileInv
  OBVIOUS
<1>1. EmptyStore \in Store
  BY DEF EmptyStore, Store, Entry
<1>2. FileTypes /\ OneInside /\ CallsAreMade /\ CopiesAreFresh
  BY <1>1, SameStore, FileAssumption DEF FileInit, File!Init, FileTypes, OneInside, CallsAreMade,
     CopiesAreFresh, Inside, Answers
<1>3. ~Cutting /\ file = EmptyStore /\ store = EmptyStore
  BY SameStore DEF FileInit, Init, File!Init, Cutting
<1> QED BY <1>1, <1>2, <1>3, FileAssumption DEF FileInv, StoreIsTheFile, File!Decode

-----------------------------------------------------------------------------
(* The steps on the file.                                                   *)
LEMMA BeginsInv == ASSUME IInv, FileInv, NEW p \in Processes, CallBegins(p) PROVE FileInv'
<1>1. /\ pc' = [pc EXCEPT ![p] = "waiting"] /\ pc[p] = "idle"
      /\ call'[p] = CallOf(p) /\ \E c \in Calls : call' = [call EXCEPT ![p] = c]
      /\ UNCHANGED <<file, lock, data, result, returned>> /\ UNCHANGED vars
      /\ send[p] = Nothing /\ reply[p].items # <<>>
  BY SameStore DEF CallBegins, File!Open
<1>2. \A q \in Processes : Inside(q)' <=> Inside(q)
  BY <1>1 DEF FileInv, FileTypes, Inside
<1>3. Cutting' <=> Cutting
  BY <1>1 DEF FileInv, FileTypes, Cutting
<1>4. FileTypes' /\ OneInside'
  BY <1>1, <1>2 DEF FileInv, FileTypes, OneInside
<1>5. \A q \in Processes : CallOf(q)' = CallOf(q) /\ (q # p => call'[q] = call[q] /\ pc'[q] = pc[q])
  BY <1>1 DEF FileInv, FileTypes, CallOf, vars
<1>6. CallsAreMade'
  BY <1>1, <1>5 DEF FileInv, CallsAreMade, Making, vars
<1>7. CopiesAreFresh'
  BY <1>1, <1>2, <1>5 DEF FileInv, CopiesAreFresh, Inside, vars
<1>8. StoreIsTheFile'
  BY <1>1, <1>3 DEF FileInv, StoreIsTheFile, File!Decode, vars
<1> QED BY <1>4, <1>6, <1>7, <1>8 DEF FileInv

LEMMA LoadInv == ASSUME IInv, FileInv, NEW p \in Processes, File!Load(p), UNCHANGED vars PROVE FileInv'
<1>1. /\ pc[p] = "waiting" /\ lock = NoOne /\ lock' = p
      /\ data' = [data EXCEPT ![p] = AfterCall(File!Decode(file), call[p])]
      /\ result' = [result EXCEPT ![p] = AnswerTo(File!Decode(file), call[p])]
      /\ pc' = [pc EXCEPT ![p] = "loaded"] /\ UNCHANGED <<file, call, returned>>
  BY SameStore DEF File!Load, File!Read
<1>2. ~Cutting /\ File!Decode(file) = store
  BY <1>1, WholeFile
<1>3. \A q \in Processes : ~Inside(q)
  BY <1>1, FileAssumption DEF FileInv, OneInside
<1>4. Making(p) /\ store \in Store /\ call[p] \in Calls
  BY <1>1, CallIsKnown DEF FileInv, CallsAreMade, Making, IInv, TypeOK
<1>5. AfterCall(store, call[p]) \in Store /\ AnswerTo(store, call[p]) \in Answers
  BY <1>4, CallTypes
<1>6. FileTypes'
  BY <1>1, <1>2, <1>5 DEF FileInv, FileTypes
<1>7. OneInside'
  BY <1>1, <1>3 DEF FileInv, FileTypes, OneInside, Inside
<1>8. CallsAreMade'
  BY <1>1, <1>4 DEF FileInv, FileTypes, CallsAreMade, Making, CallOf, vars
<1>9. CopiesAreFresh'
  BY <1>1, <1>2, <1>3 DEF FileInv, FileTypes, CopiesAreFresh, Inside, vars
<1>10. StoreIsTheFile'
  <2>1. ~Cutting'
    BY <1>1, <1>2 DEF FileInv, FileTypes, Cutting
  <2> QED BY <1>1, <1>2, <2>1 DEF FileInv, StoreIsTheFile, File!Decode, vars
<1> QED BY <1>6, <1>7, <1>8, <1>9, <1>10 DEF FileInv

LEMMA TruncateInv ==
  ASSUME IInv, FileInv, NEW p \in Processes, File!Truncate(p), UNCHANGED vars PROVE FileInv'
<1>1. /\ pc[p] = "loaded" /\ pc' = [pc EXCEPT ![p] = "truncated"] /\ file' = Truncated
      /\ UNCHANGED <<lock, call, data, result, returned>>
  BY DEF File!Truncate, File!locals
<1>2. \A q \in Processes : (Inside(q)' <=> Inside(q)) /\ CallOf(q)' = CallOf(q)
                             /\ (pc'[q] # "idle" <=> pc[q] # "idle")
  BY <1>1 DEF FileInv, FileTypes, Inside, CallOf, vars
<1>3. FileTypes' /\ OneInside'
  BY <1>1, <1>2 DEF FileInv, FileTypes, OneInside
<1>4. CallsAreMade'
  BY <1>1, <1>2 DEF FileInv, CallsAreMade, Making, vars
<1>5. CopiesAreFresh'
  BY <1>1, <1>2 DEF FileInv, CopiesAreFresh, vars
<1>6. Cutting' /\ StoreIsTheFile'
  BY <1>1 DEF FileInv, FileTypes, Cutting, StoreIsTheFile
<1> QED BY <1>3, <1>4, <1>5, <1>6 DEF FileInv

(* The write, and the return of the method: the one step that Lighting sees.*)
LEMMA ReturnMaps ==
  ASSUME IInv, FileInv, NEW p \in Processes, CallReturns(p)
  PROVE  StoreCall(p) /\ FileInv'
<1>1. /\ pc[p] = "truncated" /\ pc' = [pc EXCEPT ![p] = "idle"] /\ file' = data[p] /\ store' = file'
      /\ lock' = NoOne
      /\ call' = [call EXCEPT ![p] = File!NoCall] /\ data' = [data EXCEPT ![p] = EmptyStore]
      /\ result' = [result EXCEPT ![p] = None] /\ Answered(p, result[p])
  BY SameStore DEF CallReturns, File!Close, File!Forget
<1>2. Inside(p) /\ Making(p) /\ lock = p
  BY <1>1 DEF FileInv, CallsAreMade, OneInside, Inside
<1>3. data[p] = AfterCall(store, CallOf(p)) /\ result[p] = AnswerTo(store, CallOf(p))
  BY <1>2 DEF FileInv, CopiesAreFresh, Making
<1>4. StoreCall(p)
  BY <1>1, <1>2, <1>3 DEF StoreCall, Making
<1>5. \A q \in Processes : (Inside(q) <=> q = p) /\ (q # p => pc'[q] = pc[q])
  BY <1>1, <1>2 DEF FileInv, FileTypes, OneInside
<1>6. \A q \in Processes : ~Inside(q)'
  BY <1>1, <1>5 DEF FileInv, FileTypes, Inside
<1>7. EmptyStore \in Store /\ None \in Answers /\ data[p] \in Store
  BY DEF EmptyStore, Store, Entry, Answers, FileInv, FileTypes
<1>8. FileTypes'
  BY <1>1, <1>7 DEF FileInv, FileTypes
<1>9. OneInside' /\ CopiesAreFresh'
  BY <1>1, <1>6, FileAssumption DEF OneInside, CopiesAreFresh
<1>10. CallsAreMade'
  <2>1. ASSUME NEW q \in Processes, q # p
        PROVE  send'[q] = send[q] /\ reply'[q] = reply[q] /\ call'[q] = call[q]
    BY <1>1, <2>1 DEF Answered, IInv, TypeOK, FileInv, FileTypes
  <2>2. pc'[p] = "idle"
    BY <1>1 DEF FileInv, FileTypes
  <2> QED BY <1>5, <2>1, <2>2 DEF FileInv, CallsAreMade, Making, CallOf
<1>11. StoreIsTheFile'
  <2>1. ~Cutting'
    BY <1>6 DEF Cutting, Inside
  <2>2. file' \in Store /\ file' # Truncated
    BY <1>1, <1>7, FileAssumption
  <2> QED BY <1>1, <2>1, <2>2 DEF StoreIsTheFile, File!Decode
<1> QED BY <1>4, <1>8, <1>9, <1>10, <1>11 DEF FileInv

(* load_config ends the child, wherever it is, and with it its lock.        *)
LEMMA ReloadInv == ASSUME IInv, FileInv, ReloadKills PROVE FileInv'
<1>1. /\ pc' = [pc EXCEPT ![Child] = "idle"]
      /\ lock' = IF lock = Child THEN NoOne ELSE lock
      /\ call' = [call EXCEPT ![Child] = File!NoCall] /\ data' = [data EXCEPT ![Child] = EmptyStore]
      /\ result' = [result EXCEPT ![Child] = None] /\ file' = file
      /\ store' = File!Decode(file)
      /\ ~Busy(Main) /\ reply' = [reply EXCEPT ![Child] = Done]
      /\ send' = [send EXCEPT ![Child] = Nothing]
  BY SameStore DEF ReloadKills, ReloadConfig, File!Forget
<1>2. Main \in Processes /\ Child \in Processes /\ \A p \in Processes : p = Main \/ p = Child
  BY DEF Processes
<1>3. pc[Main] = "idle"
  BY <1>1, <1>2 DEF FileInv, CallsAreMade, Making, Busy
<1>4. \A p \in Processes : pc'[p] = "idle" /\ ~Inside(p)'
  BY <1>1, <1>2, <1>3 DEF FileInv, FileTypes, Inside
<1>5. EmptyStore \in Store /\ None \in Answers
  BY DEF EmptyStore, Store, Entry, Answers
<1>6. FileTypes'
  BY <1>1, <1>2, <1>5 DEF FileInv, FileTypes
<1>7. \A p \in Processes : lock' # p
  BY <1>1, <1>2, <1>3, FileAssumption DEF FileInv, OneInside, Inside
<1>8. OneInside' /\ CallsAreMade' /\ CopiesAreFresh'
  BY <1>4, <1>7 DEF OneInside, CallsAreMade, CopiesAreFresh
<1>9. file \in Store \cup {Truncated}
  BY DEF FileInv, StoreIsTheFile
<1>10. StoreIsTheFile'
  BY <1>1, <1>4, <1>9 DEF StoreIsTheFile, Cutting, File!Decode
<1> QED BY <1>6, <1>8, <1>10 DEF FileInv

(* What touches neither the file nor a call under way.                      *)
LEMMA ElsewhereInv ==
  ASSUME IInv, FileInv, UNCHANGED fileVars, store' = store,
         \A p \in Processes : pc[p] # "idle" => send'[p] = send[p] /\ reply'[p] = reply[p]
  PROVE  FileInv'
<1>1. FileTypes' /\ OneInside' /\ CopiesAreFresh' /\ StoreIsTheFile'
  BY DEF FileInv, FileTypes, OneInside, CopiesAreFresh, StoreIsTheFile, Inside, Cutting, fileVars,
         File!Decode
<1>2. CallsAreMade'
  BY DEF FileInv, CallsAreMade, Making, CallOf, fileVars
<1> QED BY <1>1, <1>2 DEF FileInv

LEMMA FileStep ==
  ASSUME IInv, FileInv, [FileNext]_all
  PROVE  [Next]_vars /\ FileInv'
<1>1. ASSUME NEW p \in Processes, CallBegins(p) PROVE [Next]_vars /\ FileInv'
  BY <1>1, BeginsInv DEF CallBegins
<1>2. ASSUME NEW p \in Processes, CallGoesOn(p) PROVE [Next]_vars /\ FileInv'
  BY <1>2, LoadInv, TruncateInv DEF CallGoesOn
<1>3. ASSUME NEW p \in Processes, CallReturns(p) PROVE [Next]_vars /\ FileInv'
  BY <1>3, ReturnMaps DEF Next, Processes
<1>4. CASE JobFailsOutside
  <2>1. store' = store /\ \A p \in Processes : pc[p] # "idle" => send'[p] = send[p] /\ reply'[p] = reply[p]
    BY <1>4 DEF JobFailsOutside, JobFails, IInv, TypeOK
  <2> QED BY <1>4, <2>1, ElsewhereInv DEF JobFailsOutside, Next
<1>5. CASE ReloadKills
  BY <1>5, ReloadInv DEF ReloadKills, Next
<1>6. CASE Elsewhere
  <2>1. store' = store
    BY <1>6 DEF Elsewhere, UserCommand, DeviceAnnounced, Replays, Resend, EpisodeEnds, JobDue,
                Enqueue, PublishDirect, WorkerTake, WorkerPublish
  <2>2. ASSUME NEW p \in Processes, pc[p] # "idle" PROVE send'[p] = send[p] /\ reply'[p] = reply[p]
    <3>1. send[p] = Nothing /\ reply[p].items # <<>> /\ Busy(p) /\ (p = Main \/ p = Child)
      BY <2>2 DEF FileInv, CallsAreMade, Making, Busy, Processes
    <3> QED BY <1>6, <3>1 DEF Elsewhere, UserCommand, DeviceAnnounced, Replays, Resend,
                              EpisodeEnds, JobDue, Enqueue, PublishDirect, WorkerTake,
                              WorkerPublish, IInv, TypeOK
  <2> QED BY <1>6, <2>1, <2>2, ElsewhereInv DEF Elsewhere, Next
<1>7. CASE UNCHANGED all
  BY <1>7, ElsewhereInv DEF all, vars
<1> QED BY <1>1, <1>2, <1>3, <1>4, <1>5, <1>6, <1>7 DEF FileNext

(* The processes on the file, with its lock and the kills of the child, do  *)
(* nothing that Lighting does not say: a call of the store may be taken for *)
(* one step (publish, DeviceStateStore, load_config).                       *)
THEOREM CallsAreAtomic == FileSpec => Spec
<1>1. FileInit => Init /\ IInv /\ FileInv
  BY InitInv, FileInitInv DEF FileInit
<1>2. IInv /\ FileInv /\ [FileNext]_all => [Next]_vars /\ IInv' /\ FileInv'
  BY FileStep, NextInv
<1> QED BY <1>1, <1>2, PTL DEF FileSpec, Spec

(* Whenever nobody has the lock the file, read as the next caller reads it, *)
(* is the store that the properties speak of (_transact).                   *)
FileTellsTheStore == lock = NoOne => File!Decode(file) = store

THEOREM TheFileIsTheStore == FileSpec => []FileTellsTheStore
<1>1. FileInit => IInv /\ FileInv
  BY InitInv, FileInitInv DEF FileInit
<1>2. IInv /\ FileInv /\ [FileNext]_all => IInv' /\ FileInv'
  BY FileStep, NextInv
<1>3. IInv /\ FileInv => FileTellsTheStore
  BY WholeFile DEF FileTellsTheStore
<1> QED BY <1>1, <1>2, <1>3, PTL DEF FileSpec

(* So what Lighting promises of devices and late bases holds of the two     *)
(* processes with the file between them.                                    *)
THEOREM PromisesOnFile == FileSpec => [](OneLateBaseAtMost /\ DeviceAgrees)
BY CallsAreAtomic, LateBaseIsOne, DevicesAgree, PTL
============================================================================

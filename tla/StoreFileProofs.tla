-------------------------- MODULE StoreFileProofs --------------------------
(* Proofs about lib/device_state_store.py: the JSON file with its lock      *)
(* implements the atomic store, for any processes, topics and payloads.     *)
EXTENDS StoreFile, TLAPS

----------------------------------------------------------------------------
(* A call turns a state dict into a state dict, and answers with a payload, *)
(* None or a Boolean.                                                       *)
LEMMA CallTypes ==
  ASSUME NEW s \in Store, NEW c \in Calls
  PROVE  AfterCall(s, c) \in Store /\ AnswerTo(s, c) \in Answers
<1>1. CASE c \in [kind : {"update_base", "set_override"}, topic : Topics, payload : Payloads]
  <2>1. CASE c.kind = "update_base"
    BY <1>1, <2>1 DEF AfterCall, AnswerTo, Store, Entry, Answers, OverrideActive
  <2>2. CASE c.kind = "set_override"
    BY <1>1, <2>2 DEF AfterCall, AnswerTo, Store, Entry, Answers
  <2> QED BY <1>1, <2>1, <2>2
<1>2. CASE c \in [kind : {"clear_override", "get_state"}, topic : Topics]
  <2>1. CASE c.kind = "clear_override"
    BY <1>2, <2>1 DEF AfterCall, AnswerTo, Store, Entry, Answers
  <2>2. CASE c.kind = "get_state"
    BY <1>2, <2>2 DEF AfterCall, AnswerTo, Store, Entry, Answers, EffectiveState, OverrideActive
  <2> QED BY <1>2, <2>1, <2>2
<1> QED BY <1>1, <1>2 DEF Calls

(* Reading the file always yields a state dict.                             *)
LEMMA DecodeType ==
  ASSUME NEW f \in Store \cup {Truncated} PROVE Decode(f) \in Store
BY DEF Decode, EmptyStore, Store, Entry

----------------------------------------------------------------------------
(* The invariant that a single step preserves.                              *)
Inv == TypeOK /\ LockHeldInside /\ CallUnderWay /\ FreshCopy /\ TruncatedInside

LEMMA InitInv == Init => Inv
<1> SUFFICES ASSUME Init PROVE Inv
  OBVIOUS
<1> USE SentinelAssumption DEF Init
<1>1. EmptyStore \in Store
  BY DEF EmptyStore, Store, Entry
<1>2. TypeOK
  BY <1>1 DEF TypeOK, Answers
<1>3. LockHeldInside
  BY DEF LockHeldInside, Inside
<1> QED BY <1>2, <1>3 DEF Inv, CallUnderWay, FreshCopy, TruncatedInside

LEMMA OpenInv == ASSUME Inv, NEW p \in Callers, Open(p) PROVE Inv'
<1> USE DEF Inv, Open
<1>1. PICK c \in Calls : call' = [call EXCEPT ![p] = c]
  OBVIOUS
<1>2. TypeOK'
  BY <1>1 DEF TypeOK
<1>3. LockHeldInside'
  BY DEF LockHeldInside, Inside, TypeOK
<1>4. CallUnderWay'
  BY <1>1 DEF CallUnderWay, TypeOK
<1>5. FreshCopy'
  BY DEF FreshCopy, TypeOK
<1>8. TruncatedInside'
  BY DEF TruncatedInside, TypeOK
<1> QED BY <1>2, <1>3, <1>4, <1>5, <1>8

LEMMA LoadInv == ASSUME Inv, NEW p \in Callers, Load(p) PROVE Inv'
<1> USE DEF Inv, Load, Read
<1> DEFINE s == Decode(file)
<1>1. s \in Store /\ call[p] \in Calls
  BY DecodeType DEF TypeOK, CallUnderWay
<1>2. AfterCall(s, call[p]) \in Store /\ AnswerTo(s, call[p]) \in Answers
  BY <1>1, CallTypes
<1> HIDE DEF s
<1>3. TypeOK'
  BY <1>2 DEF TypeOK, s
<1>4. LockHeldInside'
  BY SentinelAssumption DEF LockHeldInside, Inside, TypeOK
<1>5. CallUnderWay'
  BY DEF CallUnderWay, TypeOK
<1>6. ASSUME NEW q \in Callers, pc'[q] = "loaded"
      PROVE  \E c \in Calls : /\ data'[q] = AfterCall(Decode(file'), c)
                              /\ result'[q] = AnswerTo(Decode(file'), c)
  <2>1. CASE q = p
    BY <1>1, <2>1 DEF TypeOK, s
  <2>2. CASE q # p
    BY <1>6, <2>2 DEF FreshCopy, TypeOK
  <2> QED BY <2>1, <2>2
<1>7. FreshCopy'
  BY <1>6 DEF FreshCopy
<1>8. TruncatedInside'
  BY DEF TruncatedInside, LockHeldInside, Inside, TypeOK
<1> QED BY <1>3, <1>4, <1>5, <1>7, <1>8

LEMMA TruncateInv == ASSUME Inv, NEW p \in Callers, Truncate(p) PROVE Inv'
<1> USE DEF Inv, Truncate, locals
<1>1. TypeOK'
  BY DEF TypeOK
<1>2. LockHeldInside'
  BY DEF LockHeldInside, Inside, TypeOK
<1>3. CallUnderWay'
  BY DEF CallUnderWay, TypeOK
<1>4. \A q \in Callers : pc'[q] # "loaded"
  BY DEF LockHeldInside, Inside, TypeOK
<1>5. FreshCopy'
  BY <1>4 DEF FreshCopy
<1>8. TruncatedInside'
  BY DEF TruncatedInside
<1> QED BY <1>1, <1>2, <1>3, <1>5, <1>8

(* The locals that go out of scope leave types and calls under way alone.   *)
LEMMA ForgetTypes ==
  ASSUME TypeOK, NEW p \in Callers, Forget(p)
  PROVE  /\ call' \in [Callers -> Calls \cup {NoCall}]
         /\ data' \in [Callers -> Store]
         /\ result' \in [Callers -> Answers]
<1>1. EmptyStore \in Store
  BY DEF EmptyStore, Store, Entry
<1> QED BY <1>1 DEF Forget, TypeOK, Answers

LEMMA CloseInv == ASSUME Inv, NEW p \in Callers, Close(p) PROVE Inv'
<1> USE DEF Inv, Close
<1>1. TypeOK'
  BY ForgetTypes DEF TypeOK
<1>2. LockHeldInside'
  BY SentinelAssumption DEF LockHeldInside, Inside, TypeOK
<1>3. CallUnderWay'
  BY DEF CallUnderWay, TypeOK, Forget
<1>4. \A q \in Callers : pc'[q] # "loaded"
  BY DEF LockHeldInside, Inside, TypeOK
<1>5. FreshCopy'
  BY <1>4 DEF FreshCopy
<1>8. TruncatedInside'
  BY DEF TruncatedInside, LockHeldInside, Inside, TypeOK
<1> QED BY <1>1, <1>2, <1>3, <1>5, <1>8

LEMMA TerminateInv == ASSUME Inv, NEW p \in Callers, Terminate(p) PROVE Inv'
<1> USE DEF Inv, Terminate
<1>1. TypeOK'
  BY ForgetTypes DEF TypeOK
<1>2. LockHeldInside'
  BY SentinelAssumption DEF LockHeldInside, Inside, TypeOK
<1>3. CallUnderWay'
  BY DEF CallUnderWay, TypeOK, Forget
<1>4. FreshCopy'
  BY DEF FreshCopy, TypeOK, Forget
<1>8. TruncatedInside'
  BY DEF TruncatedInside, TypeOK
<1> QED BY <1>1, <1>2, <1>3, <1>4, <1>8

LEMMA ForkInv == ASSUME Inv, NEW p \in Callers, Fork(p) PROVE Inv'
<1> USE DEF Inv, Fork, locals
<1>1. TypeOK'
  BY DEF TypeOK
<1>2. LockHeldInside'
  BY DEF LockHeldInside, Inside, TypeOK
<1>3. CallUnderWay'
  BY DEF CallUnderWay, TypeOK
<1>4. FreshCopy'
  BY DEF FreshCopy, TypeOK
<1>8. TruncatedInside'
  BY DEF TruncatedInside, TypeOK
<1> QED BY <1>1, <1>2, <1>3, <1>4, <1>8

LEMMA NextInv == Inv /\ [Next]_vars => Inv'
<1> SUFFICES ASSUME Inv, [Next]_vars PROVE Inv'
  OBVIOUS
<1>1. ASSUME NEW p \in Callers, Step(p) PROVE Inv'
  BY <1>1, OpenInv, LoadInv, TruncateInv, CloseInv, TerminateInv, ForkInv DEF Step
<1>2. CASE UNCHANGED vars
  BY <1>2 DEF vars, locals, Inv, TypeOK, LockHeldInside, Inside, CallUnderWay, FreshCopy,
               TruncatedInside
<1> QED BY <1>1, <1>2 DEF Next

LEMMA Invariance == Spec => []Inv
BY InitInv, NextInv, PTL DEF Spec

(* The variables of the file protocol keep their types.                     *)
THEOREM TypeCorrect == Spec => []TypeOK
BY Invariance, PTL DEF Inv

(* Whoever works on the file holds the lock, and nobody who does not, even  *)
(* when load_config kills the child inside _transact.                       *)
THEOREM LockDiscipline == Spec => []LockHeldInside
BY Invariance, PTL DEF Inv

(* Between its read and its write a caller's copy stays up to date.         *)
THEOREM NoLostUpdate == Spec => []FreshCopy
BY Invariance, PTL DEF Inv

----------------------------------------------------------------------------
(* The refinement.  At most one caller is between its truncate and its      *)
(* write, and the invariant says so before and after a step.                *)
LEMMA WriterUnique ==
  ASSUME LockHeldInside, NEW p \in Callers, pc[p] = "truncated"
  PROVE  Writing /\ Writer = p /\ \A q \in Callers : pc[q] = "truncated" => q = p
BY DEF Writing, Writer, LockHeldInside, Inside

LEMMA NextWriterUnique ==
  ASSUME LockHeldInside', NEW p \in Callers, pc'[p] = "truncated"
  PROVE  Writing' /\ Writer' = p /\ \A q \in Callers : pc'[q] = "truncated" => q = p
BY DEF Writing, Writer, LockHeldInside, Inside

(* A step that neither opens nor closes a write window, and leaves the file *)
(* and what callers were answered alone, is invisible.                      *)
LEMMA Invisible ==
  ASSUME Inv, Inv', file' = file, returned' = returned,
         \A q \in Callers : pc'[q] = "truncated" <=> pc[q] = "truncated",
         \A q \in Callers : pc[q] = "truncated" =>
                               data'[q] = data[q] /\ result'[q] = result[q]
  PROVE  LogicalStore' = LogicalStore /\ LogicalAnswer' = LogicalAnswer
<1>1. LogicalAnswer' = LogicalAnswer
  BY DEF LogicalAnswer
<1>2. CASE \E p \in Callers : pc[p] = "truncated"
  <2>1. PICK p \in Callers : pc[p] = "truncated"
    BY <1>2
  <2>2. Writing /\ Writer = p /\ Writing' /\ Writer' = p
    BY <2>1, WriterUnique, NextWriterUnique DEF Inv
  <2> QED BY <1>1, <2>1, <2>2 DEF LogicalStore
<1>3. CASE ~ \E p \in Callers : pc[p] = "truncated"
  BY <1>1, <1>3 DEF LogicalStore, Writing, Decode
<1> QED BY <1>2, <1>3

(* The abstract specification reads the calls as this module does.          *)
LEMMA SameCalls ==
  /\ Atomic!EmptyStore = EmptyStore /\ Atomic!Answers = Answers /\ Atomic!Calls = Calls
  /\ \A s, c : Atomic!AfterCall(s, c) = AfterCall(s, c)
  /\ \A s, c : Atomic!AnswerTo(s, c) = AnswerTo(s, c)
<1>1. Atomic!EmptyStore = EmptyStore /\ Atomic!Answers = Answers /\ Atomic!Calls = Calls
  BY DEF EmptyStore, Atomic!EmptyStore, Answers, Atomic!Answers, Calls, Atomic!Calls
<1>2. \A s, c : Atomic!AfterCall(s, c) = AfterCall(s, c)
  BY DEF AfterCall, Atomic!AfterCall
<1>3. \A s, c : Atomic!AnswerTo(s, c) = AnswerTo(s, c)
  BY DEF AnswerTo, Atomic!AnswerTo, OverrideActive, Atomic!OverrideActive,
         EffectiveState, Atomic!EffectiveState
<1> QED BY <1>1, <1>2, <1>3

(* The truncate is where the call happens.                                  *)
LEMMA TruncatePerforms ==
  ASSUME Inv, Inv', NEW p \in Callers, Truncate(p)
  PROVE  \E c \in Calls : Atomic!Perform(p, c)
<1>1. \A q \in Callers : pc[q] # "truncated"
  BY DEF Inv, LockHeldInside, Inside, Truncate
<1>2. LogicalStore = Decode(file) /\ LogicalAnswer = [q \in Callers |-> returned[q]]
  BY <1>1 DEF LogicalStore, LogicalAnswer, Writing
<1>3. pc'[p] = "truncated"
  BY DEF Truncate, Inv, TypeOK
<1>4. Writing' /\ Writer' = p /\ \A q \in Callers : pc'[q] = "truncated" => q = p
  BY <1>3, NextWriterUnique DEF Inv
<1>5. PICK c \in Calls : /\ data[p] = AfterCall(Decode(file), c)
                          /\ result[p] = AnswerTo(Decode(file), c)
  BY DEF Inv, FreshCopy, Truncate
<1>6. LogicalStore' = AfterCall(LogicalStore, c)
  BY <1>2, <1>4, <1>5 DEF LogicalStore, Truncate, locals
<1>7. LogicalAnswer' = [LogicalAnswer EXCEPT ![p] = AnswerTo(LogicalStore, c)]
  BY <1>2, <1>3, <1>4, <1>5 DEF LogicalAnswer, Truncate, locals
<1> QED BY <1>6, <1>7, SameCalls DEF Atomic!Perform

(* The write only makes the file agree with what was decided before.        *)
LEMMA CloseInvisible ==
  ASSUME Inv, Inv', NEW p \in Callers, Close(p)
  PROVE  LogicalStore' = LogicalStore /\ LogicalAnswer' = LogicalAnswer
<1>1. Writing /\ Writer = p /\ \A q \in Callers : pc[q] = "truncated" => q = p
  BY WriterUnique DEF Inv, Close
<1>2. \A q \in Callers : pc'[q] # "truncated"
  BY <1>1 DEF Close, Inv, TypeOK
<1>3. file' = data[p] /\ Decode(file') = data[p]
  BY SentinelAssumption DEF Close, Decode, Inv, TypeOK
<1>4. LogicalStore' = LogicalStore
  BY <1>1, <1>2, <1>3 DEF LogicalStore, Writing, Decode
<1>5. LogicalAnswer' = LogicalAnswer
  BY <1>1, <1>2 DEF LogicalAnswer, Close, Inv, TypeOK
<1> QED BY <1>4, <1>5

(* Killing the child inside the window loses the dict; anywhere else it is  *)
(* invisible.                                                               *)
LEMMA TerminateMaps ==
  ASSUME Inv, Inv', NEW p \in Callers, Terminate(p)
  PROVE  IF pc[p] = "truncated"
         THEN Atomic!Wipe(p)
         ELSE LogicalStore' = LogicalStore /\ LogicalAnswer' = LogicalAnswer
<1>1. CASE pc[p] = "truncated"
  <2>1. Writing /\ Writer = p /\ \A q \in Callers : pc[q] = "truncated" => q = p
    BY <1>1, WriterUnique DEF Inv
  <2>2. \A q \in Callers : pc'[q] # "truncated"
    BY <2>1 DEF Terminate, Inv, TypeOK
  <2>3. LogicalStore' = EmptyStore
    BY <1>1, <2>2 DEF LogicalStore, Writing, Decode, Terminate, Inv, TruncatedInside
  <2>4. LogicalAnswer' = [LogicalAnswer EXCEPT ![p] = returned[p]]
    BY <2>1, <2>2 DEF LogicalAnswer, Terminate
  <2>5. returned[p] \in Answers
    BY DEF Inv, TypeOK
  <2> QED BY <1>1, <2>3, <2>4, <2>5, SameCalls DEF Atomic!Wipe
<1>2. CASE pc[p] # "truncated"
  <2>1. \A q \in Callers : pc'[q] = "truncated" <=> pc[q] = "truncated"
    BY <1>2 DEF Terminate, Inv, TypeOK
  <2>2. \A q \in Callers : pc[q] = "truncated" =>
                               data'[q] = data[q] /\ result'[q] = result[q]
    BY <1>2 DEF Terminate, Forget, Inv, TypeOK
  <2> QED BY <1>2, <2>1, <2>2, Invisible DEF Terminate
<1> QED BY <1>1, <1>2

LEMMA StepMaps == Inv /\ Inv' /\ [Next]_vars => [Atomic!Next]_Atomic!vars
<1> SUFFICES ASSUME Inv, Inv', [Next]_vars PROVE [Atomic!Next]_Atomic!vars
  OBVIOUS
<1>1. ASSUME NEW p \in Callers, Step(p)
      PROVE  Atomic!Next \/ (LogicalStore' = LogicalStore /\ LogicalAnswer' = LogicalAnswer)
  <2>1. CASE Open(p)
    BY <2>1, Invisible DEF Open, Inv, TypeOK
  <2>2. CASE Load(p)
    <3>1. \A q \in Callers : pc[q] # "truncated" /\ pc'[q] # "truncated"
      BY <2>2 DEF Load, Read, Inv, LockHeldInside, Inside, TypeOK, SentinelAssumption
    <3> QED BY <2>2, <3>1, Invisible DEF Load, Read
  <2>3. CASE Truncate(p)
    BY <2>3, TruncatePerforms, SameCalls DEF Atomic!Next
  <2>4. CASE Close(p)
    BY <2>4, CloseInvisible
  <2>5. CASE Terminate(p)
    BY <2>5, TerminateMaps DEF Atomic!Next
  <2>6. CASE Fork(p)
    BY <2>6, Invisible DEF Fork, locals, Inv, TypeOK
  <2> QED BY <1>1, <2>1, <2>2, <2>3, <2>4, <2>5, <2>6 DEF Step
<1>2. CASE Next
  BY <1>1, <1>2 DEF Next, Atomic!vars
<1>3. CASE UNCHANGED vars
  <2>1. LogicalStore' = LogicalStore /\ LogicalAnswer' = LogicalAnswer
    BY <1>3, Invisible DEF vars, locals
  <2> QED BY <2>1 DEF Atomic!vars
<1> QED BY <1>2, <1>3

(* The file protocol implements the atomic store: the main process and the  *)
(* scheduler child see every call of the other as one step, or, after a     *)
(* kill inside the write window, an empty dict.                             *)
THEOREM Refinement == Spec => ImplementsAtomicStore
<1>1. Init => Atomic!Init
  BY SameCalls DEF Init, Atomic!Init, LogicalStore, LogicalAnswer, Writing, Decode
<1> QED BY <1>1, StepMaps, Invariance, PTL DEF Spec, Atomic!Spec, ImplementsAtomicStore

----------------------------------------------------------------------------
(* No call takes a base state away.                                         *)
LEMMA CallKeepsBase ==
  ASSUME NEW s \in Store, NEW c \in Calls, NEW t \in Topics, s[t].base # None
  PROVE  AfterCall(s, c)[t].base # None
<1>1. CASE c \in [kind : {"update_base", "set_override"}, topic : Topics, payload : Payloads]
  BY <1>1, NoneAssumption DEF AfterCall, Store, Entry
<1>2. CASE c \in [kind : {"clear_override", "get_state"}, topic : Topics]
  BY <1>2 DEF AfterCall, Store, Entry
<1> QED BY <1>1, <1>2 DEF Calls

(* A base state is lost only when load_config kills a child that has        *)
(* truncated the file and not yet written it.                               *)
THEOREM BaseLostOnlyByKill == Spec => LossOnlyByKill
<1> DEFINE Lost(t) == LogicalStore[t].base # None /\ LogicalStore'[t].base = None
           Killed == \E p \in Killable : pc[p] = "truncated" /\ pc'[p] = "dead"
<1>1. ASSUME Inv, Inv', [Next]_vars, NEW t \in Topics, Lost(t)
      PROVE  Killed
  <2>1. PICK p \in Callers : Step(p)
    <3>1. CASE UNCHANGED vars
      BY <1>1, <3>1, Invisible DEF vars, locals
    <3> QED BY <1>1, <3>1 DEF Next
  <2>2. CASE Truncate(p)
    <3>1. PICK c \in Calls : Atomic!Perform(p, c)
      BY <1>1, <2>2, TruncatePerforms
    <3>2. LogicalStore' = AfterCall(LogicalStore, c)
      BY <3>1, SameCalls DEF Atomic!Perform
    <3>3. LogicalStore \in Store
      <4>1. \A q \in Callers : pc[q] # "truncated"
        BY <1>1, <2>2 DEF Inv, LockHeldInside, Inside, Truncate
      <4> QED BY <1>1, <4>1, DecodeType DEF LogicalStore, Writing, Inv, TypeOK
    <3> QED BY <1>1, <3>2, <3>3, CallKeepsBase
  <2>3. CASE Terminate(p)
    <3>1. pc[p] = "truncated"
      BY <1>1, <2>3, TerminateMaps
    <3> QED BY <1>1, <2>3, <3>1 DEF Terminate, Inv, TypeOK
  <2>4. CASE Close(p)
    BY <1>1, <2>4, CloseInvisible
  <2>5. CASE Open(p)
    BY <1>1, <2>5, Invisible DEF Open, Inv, TypeOK
  <2>6. CASE Load(p)
    <3>1. \A q \in Callers : pc[q] # "truncated" /\ pc'[q] # "truncated"
      BY <1>1, <2>6 DEF Load, Read, Inv, LockHeldInside, Inside, TypeOK, SentinelAssumption
    <3> QED BY <1>1, <2>6, <3>1, Invisible DEF Load, Read
  <2>7. CASE Fork(p)
    BY <1>1, <2>7, Invisible DEF Fork, locals, Inv, TypeOK
  <2> QED BY <2>1, <2>2, <2>3, <2>4, <2>5, <2>6, <2>7 DEF Step
<1>2. Inv /\ Inv' /\ [Next]_vars => [\A t \in Topics : Lost(t) => Killed]_vars
  BY <1>1
<1> QED BY <1>2, Invariance, PTL DEF Spec, LossOnlyByKill
============================================================================

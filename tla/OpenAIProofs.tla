---------------------------- MODULE OpenAIProofs -----------------------------
(***************************************************************************)
(* Theorems about OpenAIWorker, for every set of request ids and every     *)
(* bound: its counters are right, a worker found idle owes nobody, and it  *)
(* implements the abstract worker protocol.                                *)
(*                                                                         *)
(* That the two reads of is_idle() suffice, although they are made at      *)
(* different moments, is not inductive by itself.  It takes that between   *)
(* them no thread is there that could still put an event, unless a request *)
(* was admitted meanwhile.                                                 *)
(*                                                                         *)
(* That the estimate of pending tokens covers every stream is about a sum  *)
(* over the requests: the sums are folds, and the lemmas about them are    *)
(* proved here by smallest counterexample.                                 *)
(***************************************************************************)
EXTENDS OpenAIWorker, FiniteSetTheorems, SequenceTheorems, TLAPS

NobodyActive ==
    /\ loop = "sawNoneInFlight" /\ ~raced => Active = {}
    /\ loop = "reclaimed" /\ ~raced => Active = {} /\ events = <<>>

IInv ==
    /\ TypeOK
    /\ InFlightExact
    /\ NobodyActive

-------------------------------------------------------------------------------
(* A thread that starts is one more, one that ends one less, and one that      *)
(* goes on leaves the count alone.                                             *)
LEMMA ActiveCounts ==
    ASSUME NEW id \in SeqIds, NEW s \in ThreadState,
           thread \in [SeqIds -> ThreadState],
           thread' = [thread EXCEPT ![id] = s]
    PROVE  /\ IsFiniteSet(Active) /\ Cardinality(Active) \in Nat
           /\ thread[id] = "none" /\ s # "none" =>
                Active' # {} /\ Cardinality(Active') = Cardinality(Active) + 1
           /\ thread[id] # "none" /\ s = "none" =>
                Active # {} /\ Cardinality(Active') = Cardinality(Active) - 1
           /\ thread[id] # "none" /\ s # "none" =>
                Active # {} /\ Cardinality(Active') = Cardinality(Active)
<1>1. IsFiniteSet(Active) /\ Cardinality(Active) \in Nat
  BY OpenAIAssumption, FS_Subset, FS_CardinalityType DEF Active
<1>2. CASE thread[id] = "none" /\ s # "none"
  <2>1. Active' = Active \cup {id} /\ id \notin Active
    BY <1>2 DEF Active
  <2> QED
    BY <1>1, <1>2, <2>1, FS_AddElement
<1>3. CASE thread[id] # "none" /\ s = "none"
  <2>1. Active' = Active \ {id} /\ id \in Active
    BY <1>3 DEF Active
  <2> QED
    BY <1>1, <1>3, <2>1, FS_RemoveElement
<1>4. CASE thread[id] # "none" /\ s # "none"
  <2>1. Active' = Active /\ id \in Active
    BY <1>4 DEF Active
  <2> QED
    BY <1>1, <1>4, <2>1
<1>5. CASE thread[id] = "none" /\ s = "none"
  BY <1>1, <1>5
<1> QED
  BY <1>2, <1>3, <1>4, <1>5

(* The events of one request in the queue can be counted.                      *)
LEMMA EventsCounted ==
    ASSUME events \in Seq(Event), NEW id
    PROVE  Cardinality(EventsOf(id)) \in Nat
<1>1. DOMAIN events = 1..Len(events) /\ Len(events) \in Nat
  OBVIOUS
<1>2. IsFiniteSet(1..Len(events))
  BY <1>1, FS_Interval
<1>3. EventsOf(id) \in SUBSET (1..Len(events))
  BY <1>1 DEF EventsOf
<1>4. IsFiniteSet(EventsOf(id))
  BY <1>2, <1>3, FS_Subset, Zenon
<1> QED
  BY <1>4, FS_CardinalityType

(* No thread runs at first.                                                    *)
LEMMA InitIInv == Init => IInv
<1> SUFFICES ASSUME Init PROVE IInv
  OBVIOUS
<1>1. TypeOK
  <2>1. events \in Seq(Event)
    BY EmptySeq DEF Init
  <2>2. thread \in [SeqIds -> ThreadState] /\ loop \in {"step", "scale", "sawNoneInFlight", "reclaimed"}
    BY DEF Init, ThreadState
  <2>3. /\ want \in [SeqIds -> 0..MaxTokens] /\ sent \in [SeqIds -> 0..MaxTokens]
        /\ delivered \in [SeqIds -> Nat] /\ inFlight \in Nat /\ pending \in 0..MaxPending
    BY OpenAIAssumption DEF Init
  <2>4. healthy \in BOOLEAN /\ raced \in BOOLEAN
    BY Zenon DEF Init
  <2> QED
    BY <2>1, <2>2, <2>3, <2>4 DEF TypeOK
<1>2. Active = {}
  BY DEF Init, Active
<1>3. InFlightExact
  BY <1>2, FS_EmptySet DEF Init, InFlightExact
<1> QED
  BY <1>1, <1>2, <1>3 DEF IInv, NobodyActive, Init

(* A request admitted between the reads of is_idle() is one that raced.        *)
LEMMA AdmitIInv ==
    ASSUME IInv, NEW id \in SeqIds, NEW m \in 1..MaxTokens, Admit(id, m)
    PROVE  IInv'
<1>1. TypeOK'
  BY OpenAIAssumption DEF IInv, TypeOK, Admit, ThreadState
<1>2. Cardinality(Active') = Cardinality(Active) + 1
  BY ActiveCounts DEF IInv, TypeOK, Admit, ThreadState
<1>3. InFlightExact'
  BY <1>2 DEF IInv, InFlightExact, Admit
<1>4. NobodyActive'
  BY DEF IInv, TypeOK, NobodyActive, Admit
<1> QED
  BY <1>1, <1>3, <1>4 DEF IInv

(* While a thread takes a step, nobody has seen the worker without threads.    *)
LEMMA ThreadIInv ==
    ASSUME IInv, NEW id \in SeqIds, ThreadStep(id)
    PROVE  IInv'
<1> USE DEF IInv
<1>1. thread \in [SeqIds -> ThreadState]
  BY DEF TypeOK
<1>2. ASSUME thread[id] # "none", NEW s \in ThreadState \ {"none"},
             thread' = [thread EXCEPT ![id] = s], UNCHANGED <<inFlight, loop, raced>>
      PROVE  InFlightExact' /\ NobodyActive'
  BY <1>1, <1>2, ActiveCounts DEF InFlightExact, NobodyActive
<1>3. CASE EmitDelta(id)
  <2>1. TypeOK'
    <3>1. sent[id] + 1 \in 0..MaxTokens
      BY <1>3, OpenAIAssumption DEF EmitDelta, TypeOK
    <3>2. [id |-> id, final |-> FALSE] \in Event
      BY DEF Event
    <3> QED
      BY <1>3, <3>1, <3>2 DEF EmitDelta, TypeOK, ThreadState
  <2> QED
    BY <1>2, <1>3, <2>1 DEF EmitDelta, ThreadState
<1>4. CASE CountDelta(id)
  <2>1. TypeOK'
    BY <1>4, OpenAIAssumption DEF CountDelta, TypeOK, ThreadState
  <2> QED
    BY <1>2, <1>4, <2>1 DEF CountDelta, ThreadState
<1>5. CASE Fail(id)
  <2>1. TypeOK'
    BY <1>5 DEF Fail, TypeOK, ThreadState
  <2> QED
    BY <1>2, <1>5, <2>1 DEF Fail, ThreadState
<1>6. CASE EmitFinal(id)
  <2>1. TypeOK'
    <3>1. [id |-> id, final |-> TRUE] \in Event
      BY DEF Event
    <3> QED
      BY <1>6, <3>1 DEF EmitFinal, TypeOK, ThreadState
  <2> QED
    BY <1>2, <1>6, <2>1 DEF EmitFinal, ThreadState
<1>7. CASE Leave(id)
  <2>1. /\ Cardinality(Active') = Cardinality(Active) - 1
        /\ Active # {} /\ IsFiniteSet(Active) /\ Cardinality(Active) \in Nat
    BY <1>1, <1>7, ActiveCounts DEF Leave, ThreadState
  <2>2. Cardinality(Active) # 0
    BY <2>1, FS_EmptySet
  <2>3. InFlightExact' /\ inFlight' \in Nat
    BY <1>7, <2>1, <2>2 DEF Leave, InFlightExact
  <2>4. TypeOK'
    BY <1>7, <2>3 DEF Leave, TypeOK, ThreadState
  <2>5. NobodyActive'
    BY <1>7, <2>1 DEF Leave, NobodyActive
  <2> QED
    BY <2>3, <2>4, <2>5
<1> QED
  BY <1>3, <1>4, <1>5, <1>6, <1>7 DEF ThreadStep

(* The run loop goes on to the second read only when it saw no thread, and     *)
(* takes the worker only when it then finds the queue empty.                   *)
LEMMA RunLoopIInv ==
    ASSUME IInv, RunLoop
    PROVE  IInv'
<1> USE DEF IInv
<1>1. UNCHANGED <<thread, inFlight>>
  BY DEF RunLoop, Step, NoScale, ProbeInFlight, ProbeEvents
<1>2. Active' = Active /\ InFlightExact'
  BY <1>1 DEF Active, InFlightExact
<1>3. CASE Step
  <2>1. delivered' \in [SeqIds -> Nat]
    BY <1>3, EventsCounted DEF Step, TypeOK
  <2>2. TypeOK'
    BY <1>3, <2>1 DEF Step, TypeOK
  <2> QED
    BY <1>2, <1>3, <2>2 DEF Step, NobodyActive
<1>4. CASE NoScale
  BY <1>2, <1>4 DEF NoScale, TypeOK, NobodyActive
<1>5. CASE ProbeInFlight
  <2>1. IsFiniteSet(Active)
    BY OpenAIAssumption, FS_Subset DEF Active
  <2>2. inFlight = 0 => Active = {}
    BY <2>1, FS_EmptySet DEF InFlightExact
  <2>3. TypeOK'
    BY <1>5 DEF ProbeInFlight, TypeOK
  <2> QED
    BY <1>2, <1>5, <2>2, <2>3 DEF ProbeInFlight, NobodyActive
<1>6. CASE ProbeEvents
  <2>1. TypeOK'
    BY <1>6 DEF ProbeEvents, TypeOK
  <2> QED
    BY <1>2, <1>6, <2>1 DEF ProbeEvents, NobodyActive
<1> QED
  BY <1>3, <1>4, <1>5, <1>6 DEF RunLoop

(* A step that changes nothing keeps the invariant.                            *)
LEMMA StutterIInv == ASSUME IInv, UNCHANGED vars PROVE IInv'
  BY DEF IInv, TypeOK, InFlightExact, NobodyActive, Active, vars

(* Counters, types and who may still be there, in every reachable state.       *)
THEOREM WorkerInvariant == Spec => []IInv
<1>1. ASSUME IInv, [Next]_vars PROVE IInv'
  BY <1>1, AdmitIInv, ThreadIInv, RunLoopIInv, StutterIInv DEF Next
<1> QED
  BY InitIInv, <1>1, PTL DEF Spec

(* The fields keep their types; the in-flight count is never negative.         *)
THEOREM TypeCorrect == Spec => []TypeOK
<1>1. IInv => TypeOK
  BY DEF IInv
<1> QED
  BY WorkerInvariant, <1>1, PTL

(* The count the pool routes and scales on is the number of live threads,      *)
(* however streams end.                                                        *)
THEOREM CountsThreads == Spec => []InFlightExact
<1>1. IInv => InFlightExact
  BY DEF IInv
<1> QED
  BY WorkerInvariant, <1>1, PTL

(* A worker taken out of the pool after is_idle() owes nobody a final event,   *)
(* unless a request was admitted between its two reads.                        *)
THEOREM ReclaimsSafely == Spec => []SafeToReclaim
<1>1. ASSUME IInv PROVE SafeToReclaim
  <2> SUFFICES ASSUME loop = "reclaimed", ~raced PROVE Resident = {}
    BY DEF SafeToReclaim
  <2>1. Active = {} /\ events = <<>>
    BY <1>1 DEF IInv, NobodyActive
  <2>2. Undrained = {}
    BY <2>1 DEF Undrained
  <2> QED
    BY <2>1, <2>2 DEF Active, Resident
<1> QED
  BY WorkerInvariant, <1>1, PTL

-------------------------------------------------------------------------------
(* The queue holds of a request no more than its deltas and its final event.    *)
QueueBounded ==
    \A id \in SeqIds :
        Cardinality(EventsOf(id)) <= sent[id] + IF thread[id] \in {"leaving", "none"} THEN 1 ELSE 0

(* An event put is one more of its request, and its request is not drained.     *)
LEMMA PutProperties ==
    ASSUME events \in Seq(Event), NEW e \in Event, events' = Append(events, e)
    PROVE  /\ Undrained' = Undrained \cup {e.id}
           /\ Cardinality(EventsOf(e.id)') = Cardinality(EventsOf(e.id)) + 1
           /\ \A id : id # e.id => EventsOf(id)' = EventsOf(id)
<1>1. /\ Len(events) \in Nat /\ DOMAIN events = 1..Len(events)
      /\ DOMAIN events' = 1..(Len(events) + 1)
      /\ \A i \in DOMAIN events : events'[i] = events[i]
      /\ events'[Len(events) + 1] = e
  BY AppendProperties, LenProperties
<1>2. DOMAIN events' = DOMAIN events \cup {Len(events) + 1} /\ Len(events) + 1 \notin DOMAIN events
  BY <1>1
<1>3. Undrained' = Undrained \cup {e.id}
  BY <1>1, <1>2 DEF Undrained
<1>4. EventsOf(e.id)' = EventsOf(e.id) \cup {Len(events) + 1} /\ Len(events) + 1 \notin EventsOf(e.id)
  BY <1>1, <1>2 DEF EventsOf
<1>5. \A id : id # e.id => EventsOf(id)' = EventsOf(id)
  BY <1>1, <1>2 DEF EventsOf
<1>6. IsFiniteSet(EventsOf(e.id))
  <2>1. IsFiniteSet(1..Len(events))
    BY <1>1, FS_Interval
  <2>2. EventsOf(e.id) \in SUBSET (1..Len(events))
    BY <1>1 DEF EventsOf
  <2> QED
    BY <2>1, <2>2, FS_Subset, Zenon
<1>7. Cardinality(EventsOf(e.id)') = Cardinality(EventsOf(e.id)) + 1
  BY <1>4, <1>6, FS_AddElement
<1> QED
  BY <1>3, <1>5, <1>7

(* Nobody has events in the queue who is drained.                              *)
LEMMA DrainedHasNone ==
    ASSUME NEW id, id \notin Undrained
    PROVE  EventsOf(id) = {} /\ Cardinality(EventsOf(id)) = 0
<1>1. EventsOf(id) = {}
  BY DEF EventsOf, Undrained
<1> QED
  BY <1>1, FS_EmptySet

(* The bound on the queue, from what each thread has put.                      *)
LEMMA QueueStaysBounded ==
    ASSUME IInv, QueueBounded, [Next]_vars
    PROVE  QueueBounded'
<1>1. /\ events \in Seq(Event) /\ thread \in [SeqIds -> ThreadState]
      /\ sent \in [SeqIds -> 0..MaxTokens] /\ MaxTokens \in Nat
      /\ \A id \in SeqIds : Cardinality(EventsOf(id)) \in Nat
  BY OpenAIAssumption, EventsCounted DEF IInv, TypeOK
<1>2. ASSUME NEW id \in SeqIds, NEW m \in 1..MaxTokens, Admit(id, m) PROVE QueueBounded'
  <2>1. Cardinality(EventsOf(id)) = 0
    BY <1>2, DrainedHasNone DEF Admit, Resident
  <2>2. \A d \in SeqIds : EventsOf(d)' = EventsOf(d)
    BY <1>2 DEF Admit, EventsOf
  <2>3. /\ sent'[id] = 0
        /\ \A d \in SeqIds : d # id => sent'[d] = sent[d] /\ thread'[d] = thread[d]
    BY <1>1, <1>2 DEF Admit
  <2> QED
    BY <1>1, <2>1, <2>2, <2>3 DEF QueueBounded
<1>3. ASSUME NEW id \in SeqIds, EmitDelta(id) PROVE QueueBounded'
  <2> DEFINE e == [id |-> id, final |-> FALSE]
  <2>1. e \in Event /\ e.id = id /\ events' = Append(events, e)
    BY <1>3 DEF Event, EmitDelta
  <2> HIDE DEF e
  <2>2. /\ Cardinality(EventsOf(id)') = Cardinality(EventsOf(id)) + 1
        /\ \A d \in SeqIds : d # id => EventsOf(d)' = EventsOf(d)
    BY <1>1, <2>1, PutProperties
  <2>3. /\ sent'[id] = sent[id] + 1 /\ thread[id] = "streaming" /\ thread'[id] = "counting"
        /\ \A d \in SeqIds : d # id => sent'[d] = sent[d] /\ thread'[d] = thread[d]
    BY <1>1, <1>3 DEF EmitDelta
  <2> QED
    BY <1>1, <2>2, <2>3 DEF QueueBounded
<1>4. ASSUME NEW id \in SeqIds, EmitFinal(id) PROVE QueueBounded'
  <2> DEFINE e == [id |-> id, final |-> TRUE]
  <2>1. e \in Event /\ e.id = id /\ events' = Append(events, e)
    BY <1>4 DEF Event, EmitFinal
  <2> HIDE DEF e
  <2>2. /\ Cardinality(EventsOf(id)') = Cardinality(EventsOf(id)) + 1
        /\ \A d \in SeqIds : d # id => EventsOf(d)' = EventsOf(d)
    BY <1>1, <2>1, PutProperties
  <2>3. /\ sent' = sent /\ thread[id] \in {"streaming", "failed"} /\ thread'[id] = "leaving"
        /\ \A d \in SeqIds : d # id => thread'[d] = thread[d]
    BY <1>1, <1>4 DEF EmitFinal
  <2> QED
    BY <1>1, <2>2, <2>3 DEF QueueBounded
<1>5. ASSUME NEW id \in SeqIds, CountDelta(id) \/ Fail(id) \/ Leave(id) PROVE QueueBounded'
  <2>1. /\ events' = events /\ sent' = sent
        /\ \A d \in SeqIds : thread[d] \in {"leaving", "none"} => thread'[d] \in {"leaving", "none"}
    BY <1>1, <1>5 DEF CountDelta, Fail, Leave
  <2> QED
    BY <1>1, <2>1 DEF QueueBounded, EventsOf
<1>6. CASE Step
  <2>1. \A id : id \notin Undrained'
    BY <1>6 DEF Step, Undrained
  <2>2. \A id \in SeqIds : Cardinality(EventsOf(id)') = 0
    <3>1. \A id \in SeqIds : EventsOf(id)' = {}
      BY <1>6 DEF Step, EventsOf
    <3> QED
      BY <3>1, FS_EmptySet
  <2>3. sent' = sent
    BY <1>6 DEF Step
  <2> QED
    BY <1>1, <2>2, <2>3 DEF QueueBounded
<1>7. CASE NoScale \/ ProbeInFlight \/ ProbeEvents \/ UNCHANGED vars
  BY <1>7 DEF NoScale, ProbeInFlight, ProbeEvents, vars, QueueBounded, EventsOf
<1> QED
  BY <1>2, <1>3, <1>4, <1>5, <1>6, <1>7 DEF Next, ThreadStep, RunLoop

(* "The backend-agnostic worker protocol": the streaming worker implements it.  *)
(* Starting a stream is an acceptance, a drain of the queue a delivery, and     *)
(* whatever the threads do in between is not seen: a final event that is put     *)
(* keeps its request resident until it is drained.                             *)
THEOREM ImplementsWorkerProtocol == Spec => KeepsWorkerProtocol
<1> USE DEF Worker!Init, Worker!Next, Worker!Accept, Worker!Deliver, Worker!vars
<1>1. Init => Worker!Init /\ QueueBounded
  <2> SUFFICES ASSUME Init PROVE Worker!Init /\ QueueBounded
    OBVIOUS
  <2>1. Undrained = {} /\ Resident = {}
    BY DEF Init, Undrained, Resident
  <2>2. \A id \in SeqIds : Cardinality(EventsOf(id)) = 0
    BY <2>1, DrainedHasNone
  <2> QED
    BY <2>1, <2>2 DEF Init, QueueBounded
<1>2. ASSUME IInv, NEW id \in SeqIds, NEW m \in 1..MaxTokens, Admit(id, m) PROVE Worker!Next
  <2>1. Resident' = Resident \cup {id}
    BY <1>2 DEF IInv, TypeOK, Admit, Resident, Undrained
  <2> QED
    BY <1>2, <2>1 DEF Admit
<1>3. ASSUME IInv, NEW id \in SeqIds, ThreadStep(id) PROVE UNCHANGED Worker!vars
  <2>1. thread \in [SeqIds -> ThreadState] /\ events \in Seq(Event)
    BY <1>3 DEF IInv, TypeOK
  <2>2. CASE EmitDelta(id)
    <3> DEFINE e == [id |-> id, final |-> FALSE]
    <3>1. e \in Event /\ e.id = id /\ events' = Append(events, e)
      BY <2>2 DEF Event, EmitDelta
    <3> HIDE DEF e
    <3>2. Undrained' = Undrained \cup {id}
      BY <2>1, <3>1, PutProperties
    <3> QED
      BY <2>1, <2>2, <3>2 DEF EmitDelta, Resident
  <2>3. CASE EmitFinal(id)
    <3> DEFINE e == [id |-> id, final |-> TRUE]
    <3>1. e \in Event /\ e.id = id /\ events' = Append(events, e)
      BY <2>3 DEF Event, EmitFinal
    <3> HIDE DEF e
    <3>2. Undrained' = Undrained \cup {id}
      BY <2>1, <3>1, PutProperties
    <3> QED
      BY <2>1, <2>3, <3>2 DEF EmitFinal, Resident
  <2>4. CASE CountDelta(id) \/ Fail(id) \/ Leave(id)
    BY <2>1, <2>4 DEF CountDelta, Fail, Leave, Resident, Undrained
  <2> QED
    BY <1>3, <2>2, <2>3, <2>4 DEF ThreadStep
<1>4. ASSUME IInv, QueueBounded, Step PROVE Worker!Next
  <2> DEFINE n == [id \in Resident |-> Cardinality(EventsOf(id))]
             finals == Resident \ Resident'
  <2>1. /\ events \in Seq(Event) /\ delivered \in [SeqIds -> Nat]
        /\ \A id \in SeqIds : sent[id] \in 0..MaxTokens
        /\ MaxTokens \in Nat
    BY <1>4, OpenAIAssumption DEF IInv, TypeOK
  <2>2. Undrained \subseteq SeqIds /\ Resident \subseteq SeqIds
    <3>1. \A i \in DOMAIN events : events[i].id \in SeqIds
      <4>1. \A i \in DOMAIN events : events[i] \in Event
        BY <2>1, ElementOfSeq, LenProperties
      <4> QED
        BY <4>1 DEF Event
    <3> QED
      BY <3>1 DEF Undrained, Resident
  <2>3. \A id \in SeqIds : Cardinality(EventsOf(id)) \in 0..(MaxTokens + 1)
    <3> SUFFICES ASSUME NEW id \in SeqIds PROVE Cardinality(EventsOf(id)) \in 0..(MaxTokens + 1)
      OBVIOUS
    <3>1. Cardinality(EventsOf(id)) \in Nat /\ sent[id] \in 0..MaxTokens
      BY <2>1, EventsCounted
    <3>2. Cardinality(EventsOf(id)) <= sent[id] + 1
      BY <1>4, <3>1 DEF QueueBounded
    <3> QED
      BY <2>1, <3>1, <3>2
  <2>4. n \in [Resident -> 0..(MaxTokens + 1)]
    BY <2>2, <2>3
  <2>5. Resident' \subseteq Resident /\ finals \subseteq Undrained
    BY <1>4 DEF Step, Resident, Undrained
  <2>6. \A id \in Undrained : Cardinality(EventsOf(id)) > 0
    <3> SUFFICES ASSUME NEW id \in Undrained PROVE Cardinality(EventsOf(id)) > 0
      OBVIOUS
    <3>1. EventsOf(id) # {}
      BY DEF EventsOf, Undrained
    <3>2. IsFiniteSet(EventsOf(id))
      <4>1. IsFiniteSet(1..Len(events)) /\ DOMAIN events = 1..Len(events)
        BY <2>1, LenProperties, FS_Interval
      <4> QED
        BY <4>1, FS_Subset DEF EventsOf
    <3> QED
      BY <3>1, <3>2, FS_EmptySet, FS_CardinalityType
  <2>7. finals \in SUBSET {id \in Resident : n[id] > 0}
    BY <2>5, <2>6
  <2>8. delivered' = [id \in SeqIds |-> IF id \in Resident THEN delivered[id] + n[id] ELSE delivered[id]]
    <3>1. \A id \in SeqIds \ Resident : delivered[id] + Cardinality(EventsOf(id)) = delivered[id]
      BY <2>1, DrainedHasNone DEF Resident
    <3> QED
      BY <1>4, <3>1 DEF Step
  <2>9. Resident' = Resident \ finals
    BY <2>5
  <2> HIDE DEF n, finals
  <2> QED
    BY <2>4, <2>7, <2>8, <2>9
<1>5. ASSUME NoScale \/ ProbeInFlight \/ ProbeEvents \/ UNCHANGED vars PROVE UNCHANGED Worker!vars
  BY <1>5 DEF NoScale, ProbeInFlight, ProbeEvents, vars, Resident, Undrained
<1>6. IInv /\ QueueBounded /\ [Next]_vars => [Worker!Next]_Worker!vars /\ QueueBounded'
  BY <1>2, <1>3, <1>4, <1>5, QueueStaysBounded DEF Next, RunLoop
<1> QED
  BY <1>1, <1>6, WorkerInvariant, PTL DEF Spec, KeepsWorkerProtocol, Worker!Spec

-------------------------------------------------------------------------------
(* Sums over finite sets.  A fold takes the elements in an order that CHOOSE   *)
(* picks; the sum is the same in every order.                                 *)
Pick(s) == CHOOSE x \in s : TRUE

(* The recursive function a fold of + over the subsets of S defines.          *)
Sums(g, F, S) ==
    g = [s \in SUBSET S |-> IF s = {} THEN 0 ELSE F[Pick(s)] + g[s \ {Pick(s)}]]

(* The element picked is one of the set. *)
LEMMA Picked == ASSUME NEW s, s # {} PROVE Pick(s) \in s
BY DEF Pick

(* What is wrong of some finite set is wrong of a smallest one.               *)
LEMMA SmallestSet ==
    ASSUME NEW S, IsFiniteSet(S), NEW Bad \in SUBSET (SUBSET S), Bad # {}
    PROVE  \E s \in Bad : \A t \in Bad : ~ (Cardinality(t) < Cardinality(s))
<1> DEFINE Sizes == {Cardinality(s) : s \in Bad}
<1>1. \A s \in Bad : Cardinality(s) \in Nat
  BY FS_Subset, FS_CardinalityType
<1>2. Sizes \subseteq Nat /\ Sizes # {}
  BY <1>1
<1> HIDE DEF Sizes
<1>3. \E m \in Sizes : \A n \in Sizes : ~ (<<n, m>> \in OpToRel(<, Nat))
  BY <1>2, NatLessThanWellFounded, WFMin, Zenon
<1>4. PICK m \in Sizes : \A n \in Sizes : ~ (n < m)
  BY <1>2, <1>3 DEF OpToRel
<1> QED
  BY <1>4 DEF Sizes

(* Without one element a finite set is smaller by one.                        *)
LEMMA OneLess ==
    ASSUME NEW S, IsFiniteSet(S), NEW s \in SUBSET S, NEW x \in s
    PROVE  /\ s \ {x} \in SUBSET S
           /\ Cardinality(s \ {x}) \in Nat /\ Cardinality(s) \in Nat
           /\ Cardinality(s \ {x}) = Cardinality(s) - 1
<1>1. IsFiniteSet(s)
  BY FS_Subset
<1>2. Cardinality(s \ {x}) = Cardinality(s) - 1
  BY <1>1, FS_RemoveElement
<1>3. IsFiniteSet(s \ {x}) /\ s \ {x} \in SUBSET S
  BY <1>1, FS_Subset
<1> QED
  BY <1>1, <1>2, <1>3, FS_CardinalityType

(* There is such a function.                                                  *)
LEMMA SumsExist ==
    ASSUME NEW S, IsFiniteSet(S), NEW F
    PROVE  \E g : Sums(g, F, S)
<1> DEFINE Body(g, s) == IF s = {} THEN 0 ELSE F[Pick(s)] + g[s \ {Pick(s)}]
           UpTo(g, n) == /\ g = [s \in SUBSET S |-> g[s]]
                         /\ \A s \in SUBSET S : Cardinality(s) <= n => g[s] = Body(g, s)
           Bad == {n \in Nat : ~ \E g : UpTo(g, n)}
<1>1. \A s \in SUBSET S : IsFiniteSet(s) /\ Cardinality(s) \in Nat
  BY FS_Subset, FS_CardinalityType
<1>2. 0 \notin Bad
  <2> DEFINE g0 == [s \in SUBSET S |-> 0]
  <2>1. \A s \in SUBSET S : Cardinality(s) <= 0 => s = {}
    BY <1>1, FS_EmptySet
  <2>2. UpTo(g0, 0)
    BY <2>1
  <2> QED
    BY <2>2
<1>3. ASSUME NEW n \in Nat, NEW g, UpTo(g, n)
      PROVE  n + 1 \notin Bad
  <2> DEFINE h == [s \in SUBSET S |-> IF Cardinality(s) = n + 1 THEN Body(g, s) ELSE g[s]]
  <2>1. ASSUME NEW s \in SUBSET S, Cardinality(s) <= n + 1
        PROVE  h[s] = Body(h, s)
    <3>1. s # {} => /\ Pick(s) \in s /\ s \ {Pick(s)} \in SUBSET S
                    /\ Cardinality(s \ {Pick(s)}) = Cardinality(s) - 1
      BY Picked, OneLess
    <3>2. Cardinality(s) \in Nat
      BY <1>1
    <3>3. Body(h, s) = Body(g, s)
      BY <2>1, <3>1, <3>2
    <3>4. Cardinality(s) <= n => g[s] = Body(g, s)
      BY <1>3
    <3>5. h[s] = IF Cardinality(s) = n + 1 THEN Body(g, s) ELSE g[s]
      OBVIOUS
    <3>6. Cardinality(s) = n + 1 \/ Cardinality(s) <= n
      BY <2>1, <3>2
    <3>7. h[s] = Body(g, s)
      BY ONLY <3>4, <3>5, <3>6, n \in Nat
    <3> QED
      BY <3>3, <3>7
  <2>2. h = [s \in SUBSET S |-> h[s]]
    OBVIOUS
  <2> HIDE DEF h
  <2>3. UpTo(h, n + 1)
    BY <2>1, <2>2
  <2> QED
    BY <2>3
<1> HIDE DEF UpTo
<1>4. Bad = {}
  <2> SUFFICES ASSUME Bad # {} PROVE FALSE
    OBVIOUS
  <2>1. Bad \subseteq Nat
    OBVIOUS
  <2> HIDE DEF Bad
  <2>2. \E m \in Bad : \A n \in Bad : ~ (<<n, m>> \in OpToRel(<, Nat))
    BY <2>1, NatLessThanWellFounded, WFMin, Zenon
  <2>3. PICK m \in Bad : \A n \in Bad : ~ (n < m)
    BY <2>1, <2>2 DEF OpToRel
  <2>4. m # 0 /\ m \in Nat
    BY <1>2, <2>1
  <2>5. m - 1 \in Nat /\ m - 1 \notin Bad /\ (m - 1) + 1 = m
    BY <2>3, <2>4
  <2>6. PICK g : UpTo(g, m - 1)
    BY <2>5 DEF Bad
  <2>7. m \notin Bad
    BY <1>3, <2>5, <2>6
  <2> QED
    BY <2>3, <2>7
<1>5. PICK g : UpTo(g, Cardinality(S))
  BY <1>1, <1>4
<1>6. \A s \in SUBSET S : Cardinality(s) <= Cardinality(S)
  BY FS_Subset
<1>7. /\ g = [s \in SUBSET S |-> g[s]]
      /\ \A s \in SUBSET S : g[s] = Body(g, s)
  BY <1>5, <1>6 DEF UpTo
<1>8. g = [s \in SUBSET S |-> Body(g, s)]
  BY <1>7
<1> QED
  BY <1>8 DEF Sums

(* It adds up whatever element is taken first.                                *)
LEMMA SumsSplit ==
    ASSUME NEW S, IsFiniteSet(S), NEW F, \A x \in S : F[x] \in Nat,
           NEW g, Sums(g, F, S)
    PROVE  /\ g[{}] = 0
           /\ \A s \in SUBSET S : g[s] \in Nat /\ \A x \in s : g[s] = F[x] + g[s \ {x}]
<1>1. \A s \in SUBSET S : g[s] = IF s = {} THEN 0 ELSE F[Pick(s)] + g[s \ {Pick(s)}]
  BY DEF Sums
<1>2. \A s \in SUBSET S : s # {} =>
        /\ Pick(s) \in s /\ Pick(s) \in S /\ s \ {Pick(s)} \in SUBSET S
        /\ g[s] = F[Pick(s)] + g[s \ {Pick(s)}]
        /\ Cardinality(s \ {Pick(s)}) < Cardinality(s)
  <2> SUFFICES ASSUME NEW s \in SUBSET S, s # {}
               PROVE  /\ Pick(s) \in s /\ Pick(s) \in S /\ s \ {Pick(s)} \in SUBSET S
                      /\ g[s] = F[Pick(s)] + g[s \ {Pick(s)}]
                      /\ Cardinality(s \ {Pick(s)}) < Cardinality(s)
    OBVIOUS
  <2>1. Pick(s) \in s
    BY Picked
  <2> QED
    BY <1>1, <2>1, OneLess
<1>3. \A s \in SUBSET S : g[s] \in Nat
  <2> DEFINE Bad == {s \in SUBSET S : g[s] \notin Nat}
  <2> SUFFICES ASSUME Bad # {} PROVE FALSE
    OBVIOUS
  <2>1. PICK s \in Bad : \A t \in Bad : ~ (Cardinality(t) < Cardinality(s))
    BY SmallestSet
  <2>2. s \in SUBSET S /\ g[s] \notin Nat
    BY <2>1
  <2>3. s # {}
    <3>1. s = {} => g[s] = 0
      BY ONLY <1>1, <2>2
    <3> QED
      BY ONLY <2>2, <3>1
  <2>4. s \ {Pick(s)} \notin Bad /\ s \ {Pick(s)} \in SUBSET S /\ Pick(s) \in S
    BY <1>2, <2>1, <2>2, <2>3
  <2>5. F[Pick(s)] \in Nat /\ g[s \ {Pick(s)}] \in Nat
    BY <2>4
  <2>6. g[s] = F[Pick(s)] + g[s \ {Pick(s)}]
    BY <1>2, <2>2, <2>3
  <2> QED
    BY ONLY <2>2, <2>5, <2>6
<1>4. \A s \in SUBSET S : \A x \in s : g[s] = F[x] + g[s \ {x}]
  <2> DEFINE Bad == {s \in SUBSET S : ~ \A x \in s : g[s] = F[x] + g[s \ {x}]}
  <2> SUFFICES ASSUME Bad # {} PROVE FALSE
    OBVIOUS
  <2>1. PICK s \in Bad : \A t \in Bad : ~ (Cardinality(t) < Cardinality(s))
    BY SmallestSet
  <2>2. PICK x \in s : g[s] # F[x] + g[s \ {x}]
    BY <2>1
  <2> DEFINE c == Pick(s)
  <2>3. /\ s \in SUBSET S /\ c \in s /\ s \ {c} \in SUBSET S
        /\ g[s] = F[c] + g[s \ {c}] /\ Cardinality(s \ {c}) < Cardinality(s)
    BY <1>2, <2>1, <2>2
  <2>4. x # c
    BY <2>2, <2>3
  <2>5. /\ s \ {x} \in SUBSET S /\ Cardinality(s \ {x}) < Cardinality(s)
    BY <2>1, <2>2, OneLess
  <2> HIDE DEF c
  <2>6. s \ {c} \notin Bad /\ s \ {x} \notin Bad
    BY <2>1, <2>3, <2>5
  <2>7. g[s \ {c}] = F[x] + g[(s \ {c}) \ {x}]
    BY <2>2, <2>3, <2>4, <2>6
  <2>8. g[s \ {x}] = F[c] + g[(s \ {x}) \ {c}]
    BY <2>3, <2>4, <2>5, <2>6
  <2>9. (s \ {c}) \ {x} = (s \ {x}) \ {c} /\ (s \ {x}) \ {c} \in SUBSET S
    BY <2>3
  <2>10. F[c] \in Nat /\ F[x] \in Nat /\ g[(s \ {x}) \ {c}] \in Nat
    BY <1>3, <2>2, <2>3, <2>9
  <2>11. g[s] = F[x] + g[s \ {x}]
    <3>1. g[(s \ {c}) \ {x}] = g[(s \ {x}) \ {c}]
      BY <2>9
    <3> QED
      BY ONLY <2>3, <2>7, <2>8, <2>10, <3>1
  <2> QED
    BY <2>2, <2>11
<1>5. g[{}] = 0
  BY <1>1
<1> QED
  BY <1>3, <1>4, <1>5

(* A sum of less is less, whatever larger set each function is defined on.    *)
LEMMA SumsAtMost ==
    ASSUME NEW S, IsFiniteSet(S), NEW F, \A x \in S : F[x] \in Nat, NEW g, Sums(g, F, S),
           NEW T, IsFiniteSet(T), NEW G, \A x \in T : G[x] \in Nat, NEW h, Sums(h, G, T),
           NEW r, r \in SUBSET S, r \in SUBSET T, \A x \in r : F[x] <= G[x]
    PROVE  g[r] <= h[r]
<1> DEFINE Bad == {s \in SUBSET r : ~ (g[s] <= h[s])}
<1>1. /\ g[{}] = 0 /\ \A s \in SUBSET S : g[s] \in Nat /\ \A x \in s : g[s] = F[x] + g[s \ {x}]
  BY SumsSplit
<1>2. /\ h[{}] = 0 /\ \A s \in SUBSET T : h[s] \in Nat /\ \A x \in s : h[s] = G[x] + h[s \ {x}]
  BY SumsSplit
<1>3. IsFiniteSet(r)
  BY FS_Subset
<1>4. ASSUME Bad # {} PROVE FALSE
  <2>1. PICK s \in Bad : \A t \in Bad : ~ (Cardinality(t) < Cardinality(s))
    BY <1>3, <1>4, SmallestSet
  <2>2. s # {}
    <3>1. ~ (g[s] <= h[s])
      BY <2>1
    <3>2. s = {} => g[s] = 0 /\ h[s] = 0
      BY ONLY <1>1, <1>2
    <3> QED
      BY ONLY <3>1, <3>2
  <2>3. PICK x \in s : TRUE
    BY <2>2
  <2>4. s \in SUBSET S /\ s \in SUBSET T /\ s \in SUBSET r /\ x \in r /\ x \in S /\ x \in T
    BY <2>1
  <2>5. s \ {x} \in SUBSET r /\ s \ {x} \in SUBSET S /\ s \ {x} \in SUBSET T
        /\ Cardinality(s \ {x}) < Cardinality(s)
    BY <1>3, <2>4, OneLess
  <2>6. g[s \ {x}] <= h[s \ {x}]
    BY <2>1, <2>5
  <2>7. g[s] = F[x] + g[s \ {x}] /\ g[s \ {x}] \in Nat /\ h[s] = G[x] + h[s \ {x}] /\ h[s \ {x}] \in Nat
    BY <1>1, <1>2, <2>4, <2>5
  <2>8. F[x] \in Nat /\ G[x] \in Nat /\ F[x] <= G[x]
    BY <2>4
  <2>9. g[s] <= h[s]
    BY ONLY <2>6, <2>7, <2>8
  <2> QED
    BY <2>1, <2>9
<1> QED
  BY <1>4

(* The sum of F over S.                                                       *)
Total(F, S) == (CHOOSE g : Sums(g, F, S))[S]

(* Total is the value of such a function. *)
LEMMA TotalIs ==
    ASSUME NEW S, IsFiniteSet(S), NEW F
    PROVE  \E g : Sums(g, F, S) /\ Total(F, S) = g[S]
BY SumsExist DEF Total

(* A sum is a natural number and can be split at any element. *)
LEMMA TotalSplits ==
    ASSUME NEW S, IsFiniteSet(S), NEW F, \A x \in S : F[x] \in Nat
    PROVE  /\ Total(F, S) \in Nat
           /\ S = {} => Total(F, S) = 0
           /\ \A x \in S : Total(F, S) = F[x] + Total(F, S \ {x})
<1>1. PICK g : Sums(g, F, S) /\ Total(F, S) = g[S]
  BY TotalIs
<1>2. /\ g[{}] = 0 /\ \A s \in SUBSET S : g[s] \in Nat /\ \A x \in s : g[s] = F[x] + g[s \ {x}]
  BY <1>1, SumsSplit
<1>3. ASSUME NEW x \in S PROVE g[S \ {x}] = Total(F, S \ {x})
  <2> DEFINE T == S \ {x}
  <2>1. IsFiniteSet(T) /\ T \in SUBSET S
    BY FS_Subset
  <2> HIDE DEF T
  <2>2. PICK h : Sums(h, F, T) /\ Total(F, T) = h[T]
    BY <2>1, TotalIs
  <2>3. \A y \in T : F[y] \in Nat /\ F[y] <= F[y]
    BY <2>1
  <2>4. g[T] <= h[T]
    BY <1>1, <2>1, <2>2, <2>3, SumsAtMost
  <2>5. h[T] <= g[T]
    BY <1>1, <2>1, <2>2, <2>3, SumsAtMost
  <2>6. h[T] \in Nat /\ g[T] \in Nat
    BY <1>2, <2>1, <2>2, <2>3, SumsSplit
  <2>7. g[T] = Total(F, T)
    BY <2>2, <2>4, <2>5, <2>6
  <2> QED
    BY <2>7 DEF T
<1> QED
  BY <1>1, <1>2, <1>3

(* A sum of less is less. *)
LEMMA TotalAtMost ==
    ASSUME NEW S, IsFiniteSet(S), NEW F, \A x \in S : F[x] \in Nat,
           NEW G, \A x \in S : G[x] \in Nat, \A x \in S : F[x] <= G[x]
    PROVE  Total(F, S) <= Total(G, S)
<1>1. PICK g : Sums(g, F, S) /\ Total(F, S) = g[S]
  BY TotalIs
<1>2. PICK h : Sums(h, G, S) /\ Total(G, S) = h[S]
  BY TotalIs
<1> QED
  BY <1>1, <1>2, SumsAtMost

(* A part of a set adds up to no more than the whole.                         *)
LEMMA TotalWithin ==
    ASSUME NEW S, IsFiniteSet(S), NEW F, \A x \in S : F[x] \in Nat, NEW T \in SUBSET S
    PROVE  Total(F, T) <= Total(F, S)
<1> DEFINE Bad == {s \in SUBSET S : T \subseteq s /\ ~ (Total(F, T) <= Total(F, s))}
<1>1. \A s \in SUBSET S : IsFiniteSet(s) /\ Total(F, s) \in Nat
  <2> SUFFICES ASSUME NEW s \in SUBSET S PROVE IsFiniteSet(s) /\ Total(F, s) \in Nat
    OBVIOUS
  <2>1. IsFiniteSet(s)
    BY FS_Subset
  <2> QED
    BY <2>1, TotalSplits
<1>2. ASSUME Bad # {} PROVE FALSE
  <2>0. Bad \in SUBSET (SUBSET S)
    OBVIOUS
  <2> HIDE DEF Bad
  <2>1. PICK s \in Bad : \A t \in Bad : ~ (Cardinality(t) < Cardinality(s))
    BY <1>2, <2>0, SmallestSet
  <2> USE DEF Bad
  <2>2. s \in SUBSET S /\ T \subseteq s /\ ~ (Total(F, T) <= Total(F, s))
    BY <2>1
  <2>3. PICK x \in s : x \notin T
    BY <1>1, <2>2
  <2>4. s \ {x} \in SUBSET S /\ Cardinality(s \ {x}) < Cardinality(s) /\ T \subseteq s \ {x}
    BY <2>2, <2>3, OneLess
  <2>5. Total(F, T) <= Total(F, s \ {x})
    BY <2>1, <2>4
  <2>6. Total(F, s) = F[x] + Total(F, s \ {x}) /\ F[x] \in Nat
    BY <1>1, <2>2, TotalSplits
  <2>7. Total(F, s \ {x}) \in Nat /\ Total(F, T) \in Nat /\ Total(F, s) \in Nat
    BY <1>1, <2>2, <2>4
  <2> QED
    BY ONLY <2>2, <2>5, <2>6, <2>7
<1>3. S \notin Bad
  BY <1>2
<1> QED
  BY <1>3

(* A sum in which one term has changed.                                       *)
LEMMA TotalChanges ==
    ASSUME NEW S, IsFiniteSet(S), NEW F, \A x \in S : F[x] \in Nat,
           NEW G, \A x \in S : G[x] \in Nat,
           NEW c \in S, \A x \in S \ {c} : G[x] = F[x]
    PROVE  /\ Total(F, S) \in Nat /\ Total(G, S) \in Nat
           /\ Total(G, S) + F[c] = Total(F, S) + G[c]
           /\ F[c] <= Total(F, S)
<1> DEFINE T == S \ {c}
<1>1. IsFiniteSet(T) /\ \A x \in T : x \in S
  BY FS_Subset
<1>2. /\ Total(F, S) \in Nat /\ Total(G, S) \in Nat
      /\ Total(F, S) = F[c] + Total(F, T) /\ Total(G, S) = G[c] + Total(G, T)
  BY TotalSplits
<1>3. \A x \in T : F[x] \in Nat /\ G[x] \in Nat /\ F[x] <= G[x] /\ G[x] <= F[x]
  <2> SUFFICES ASSUME NEW x \in T PROVE F[x] \in Nat /\ G[x] \in Nat /\ F[x] <= G[x] /\ G[x] <= F[x]
    OBVIOUS
  <2>1. F[x] \in Nat /\ G[x] = F[x]
    BY <1>1
  <2> QED
    BY ONLY <2>1
<1> HIDE DEF T
<1>4. Total(F, T) \in Nat /\ Total(G, T) \in Nat
  BY <1>1, <1>3, TotalSplits
<1>5. Total(F, T) <= Total(G, T) /\ Total(G, T) <= Total(F, T)
  BY <1>1, <1>3, TotalAtMost
<1>6. F[c] \in Nat /\ G[c] \in Nat
  OBVIOUS
<1> QED
  BY ONLY <1>2, <1>4, <1>5, <1>6

-------------------------------------------------------------------------------
(* What the estimate has to cover for each request: the deltas to come, and    *)
(* one that was put but is not yet taken off the estimate.                     *)
Left == [id \in SeqIds |-> CASE thread[id] = "streaming" -> Owed(id)
                             [] thread[id] = "counting" -> Owed(id) + 1
                             [] OTHER -> 0]

Covered ==
    /\ \A id \in SeqIds : sent[id] <= want[id]
    /\ Total(Left, SeqIds) <= pending

(* What a stream still owes is covered by its term. *)
LEMMA LeftOf ==
    ASSUME TypeOK, Covered
    PROVE  /\ \A id \in SeqIds : Left[id] \in Nat
           /\ \A id \in SeqIds : thread[id] \in {"streaming", "counting"} => Owed(id) \in Nat /\ Owed(id) <= Left[id]
BY OpenAIAssumption DEF TypeOK, Covered, Left, Owed

(* The fold of the property is a sum in the sense above.                      *)
LEMMA OwedTotal ==
    ASSUME NEW T \in SUBSET SeqIds, \A id \in T : Owed(id) \in Nat
    PROVE  MapThenSumSet(Owed, T) = Total([id \in SeqIds |-> Owed(id)], T)
<1> DEFINE F == [id \in SeqIds |-> Owed(id)]
           Body(g) == [s \in SUBSET T |-> IF s = {} THEN 0
                         ELSE Owed(CHOOSE x \in s : TRUE) + g[s \ {CHOOSE x \in s : TRUE}]]
           fold == CHOOSE g : g = Body(g)
<1>1. MapThenSumSet(Owed, T) = fold[T]
  BY DEF MapThenSumSet, MapThenFoldSet
<1>2. IsFiniteSet(T)
  BY OpenAIAssumption, FS_Subset
<1>3. ASSUME NEW g PROVE Sums(g, F, T) <=> g = Body(g)
  <2>1. ASSUME NEW s \in SUBSET T, s # {}
        PROVE  F[Pick(s)] + g[s \ {Pick(s)}] = Owed(CHOOSE x \in s : TRUE) + g[s \ {CHOOSE x \in s : TRUE}]
    <3>1. Pick(s) \in SeqIds /\ Pick(s) = CHOOSE x \in s : TRUE
      BY <2>1, Picked DEF Pick
    <3>2. F[Pick(s)] = Owed(Pick(s))
      BY <3>1
    <3> QED
      BY <3>1, <3>2
  <2>2. [s \in SUBSET T |-> IF s = {} THEN 0 ELSE F[Pick(s)] + g[s \ {Pick(s)}]] = Body(g)
    BY <2>1
  <2> QED
    BY <2>2 DEF Sums
<1>4. PICK h : Sums(h, F, T) /\ Total(F, T) = h[T]
  BY <1>2, TotalIs
<1>5. Sums(fold, F, T)
  <2>1. h = Body(h)
    BY <1>3, <1>4
  <2>2. fold = Body(fold)
    <3> HIDE DEF Body
    <3> QED
      BY <2>1
  <2> HIDE DEF fold
  <2> QED
    BY <1>3, <2>2
<1>6. \A x \in T : F[x] \in Nat /\ F[x] <= F[x]
  OBVIOUS
<1> HIDE DEF fold, F
<1>7. fold[T] <= h[T] /\ h[T] <= fold[T]
  BY <1>2, <1>4, <1>5, <1>6, SumsAtMost
<1>8. fold[T] \in Nat /\ h[T] \in Nat
  BY <1>2, <1>4, <1>5, <1>6, SumsSplit
<1>9. MapThenSumSet(Owed, T) = Total(F, T)
  BY ONLY <1>1, <1>4, <1>7, <1>8
<1> QED
  BY <1>9 DEF F

(* A step of one request that takes no more off the estimate than off its term. *)
LEMMA CoveredChange ==
    ASSUME TypeOK, TypeOK', Covered, NEW id \in SeqIds,
           \A r \in SeqIds \ {id} : thread'[r] = thread[r] /\ want'[r] = want[r] /\ sent'[r] = sent[r],
           sent'[id] <= want'[id],
           pending' + Left[id] >= pending + Left'[id]
    PROVE  Covered'
<1>1. \A r \in SeqIds : sent'[r] <= want'[r]
  BY DEF Covered
<1>2. \A r \in SeqIds : Left[r] \in Nat /\ Left'[r] \in Nat
  <2> SUFFICES ASSUME NEW r \in SeqIds PROVE Left[r] \in Nat /\ Left'[r] \in Nat
    OBVIOUS
  <2>1. want'[r] \in Nat /\ sent'[r] \in Nat /\ sent'[r] <= want'[r]
    BY <1>1, OpenAIAssumption DEF TypeOK
  <2>2. Left'[r] \in Nat
    BY <2>1 DEF Left, Owed
  <2> QED
    BY <2>2, LeftOf
<1>3. \A r \in SeqIds \ {id} : Left'[r] = Left[r]
  BY DEF Left, Owed
<1>4. /\ Total(Left, SeqIds) \in Nat /\ Total(Left', SeqIds) \in Nat
      /\ Total(Left', SeqIds) + Left[id] = Total(Left, SeqIds) + Left'[id]
  BY <1>2, <1>3, OpenAIAssumption, TotalChanges
<1>5. pending \in Nat /\ pending' \in Nat /\ Left[id] \in Nat /\ Left'[id] \in Nat
      /\ Total(Left, SeqIds) <= pending
  BY <1>2, OpenAIAssumption DEF TypeOK, Covered
<1>6. Total(Left', SeqIds) <= pending'
  BY ONLY <1>4, <1>5, pending' + Left[id] >= pending + Left'[id]
<1> QED
  BY <1>1, <1>6 DEF Covered, Total

(* No thread, nothing to cover. *)
LEMMA InitCovered == Init => Covered
<1> SUFFICES ASSUME Init PROVE Covered
  OBVIOUS
<1>1. \A id \in SeqIds : Left[id] = 0
  BY DEF Init, Left
<1>2. Total(Left, SeqIds) = 0
  <2> DEFINE Bad == {s \in SUBSET SeqIds : Total(Left, s) # 0}
  <2>1. ASSUME Bad # {} PROVE FALSE
    <3>0. Bad \in SUBSET (SUBSET SeqIds)
      OBVIOUS
    <3> HIDE DEF Bad
    <3>1. PICK s \in Bad : \A t \in Bad : ~ (Cardinality(t) < Cardinality(s))
      BY <2>1, <3>0, OpenAIAssumption, SmallestSet
    <3> USE DEF Bad
    <3>2. s \in SUBSET SeqIds /\ Total(Left, s) # 0 /\ IsFiniteSet(s)
      BY <3>1, OpenAIAssumption, FS_Subset
    <3>3. /\ s = {} => Total(Left, s) = 0
          /\ \A x \in s : Total(Left, s) = Left[x] + Total(Left, s \ {x})
      BY <1>1, <3>2, TotalSplits
    <3>4. PICK x \in s : TRUE
      BY <3>2, <3>3
    <3>5. Total(Left, s \ {x}) = 0
      BY <3>1, <3>2, <3>4, OpenAIAssumption, OneLess
    <3>6. Total(Left, s) = 0 + 0
      BY <1>1, <3>2, <3>3, <3>5
    <3> QED
      BY <3>2, <3>6
  <2> QED
    BY <2>1
<1> QED
  BY <1>2 DEF Init, Covered

(* Admission adds max_tokens to both sides; a delta is taken off the estimate
   after it is off what is owed; a stream that ends leaves the estimate too high. *)
LEMMA NextCovered == TypeOK /\ TypeOK' /\ Covered /\ [Next]_vars => Covered'
<1> SUFFICES ASSUME TypeOK, TypeOK', Covered, [Next]_vars PROVE Covered'
  OBVIOUS
<1>1. ASSUME UNCHANGED <<thread, want, sent, pending>> PROVE Covered'
  BY <1>1 DEF Covered, Left, Owed, Total
<1>2. \A id \in SeqIds : /\ sent[id] \in Nat /\ want[id] \in Nat /\ sent[id] <= want[id]
                         /\ pending \in Nat /\ Left[id] \in Nat /\ Left[id] <= pending
  <2> SUFFICES ASSUME NEW id \in SeqIds
               PROVE  /\ sent[id] \in Nat /\ want[id] \in Nat /\ sent[id] <= want[id]
                      /\ pending \in Nat /\ Left[id] \in Nat /\ Left[id] <= pending
    OBVIOUS
  <2>1. sent[id] \in Nat /\ want[id] \in Nat /\ sent[id] <= want[id] /\ pending \in Nat
    BY OpenAIAssumption DEF TypeOK, Covered
  <2>2. \A r \in SeqIds : Left[r] \in Nat
    BY LeftOf
  <2>3. Left[id] <= Total(Left, SeqIds) /\ Total(Left, SeqIds) \in Nat
    BY <2>2, OpenAIAssumption, TotalChanges
  <2> QED
    BY <2>1, <2>2, <2>3 DEF Covered
<1>3. ASSUME NEW id \in SeqIds, NEW m \in 1..MaxTokens, Admit(id, m) PROVE Covered'
  <2>1. /\ thread[id] = "none" /\ thread' = [thread EXCEPT ![id] = "streaming"]
        /\ want' = [want EXCEPT ![id] = m] /\ sent' = [sent EXCEPT ![id] = 0]
        /\ pending' = pending + m
    BY <1>3 DEF Admit
  <2>2. /\ thread'[id] = "streaming" /\ want'[id] = m /\ sent'[id] = 0
        /\ \A r \in SeqIds \ {id} : thread'[r] = thread[r] /\ want'[r] = want[r] /\ sent'[r] = sent[r]
    BY <2>1 DEF TypeOK
  <2>3. Left[id] = 0 /\ Left'[id] = m
    BY <2>1, <2>2 DEF Left, Owed
  <2>4. sent'[id] <= want'[id] /\ pending' + Left[id] >= pending + Left'[id]
    BY <1>2, <2>1, <2>2, <2>3
  <2> QED
    BY <2>2, <2>4, CoveredChange
<1>4. ASSUME NEW id \in SeqIds, EmitDelta(id) PROVE Covered'
  <2>1. /\ thread[id] = "streaming" /\ sent[id] < want[id]
        /\ thread' = [thread EXCEPT ![id] = "counting"] /\ sent' = [sent EXCEPT ![id] = @ + 1]
        /\ UNCHANGED <<want, pending>>
    BY <1>4 DEF EmitDelta
  <2>2. /\ thread'[id] = "counting" /\ want'[id] = want[id] /\ sent'[id] = sent[id] + 1
        /\ \A r \in SeqIds \ {id} : thread'[r] = thread[r] /\ want'[r] = want[r] /\ sent'[r] = sent[r]
    BY <2>1 DEF TypeOK
  <2>3. Left[id] = want[id] - sent[id] /\ Left'[id] = want[id] - (sent[id] + 1) + 1
    BY <2>1, <2>2 DEF Left, Owed
  <2>4. sent'[id] <= want'[id] /\ pending' + Left[id] >= pending + Left'[id]
    BY <1>2, <2>1, <2>2, <2>3
  <2> QED
    BY <2>2, <2>4, CoveredChange
<1>5. ASSUME NEW id \in SeqIds, CountDelta(id) PROVE Covered'
  <2>1. /\ thread[id] = "counting" /\ pending' = IF pending > 0 THEN pending - 1 ELSE 0
        /\ thread' = [thread EXCEPT ![id] = "streaming"] /\ UNCHANGED <<want, sent>>
    BY <1>5 DEF CountDelta
  <2>2. /\ thread'[id] = "streaming" /\ want'[id] = want[id] /\ sent'[id] = sent[id]
        /\ \A r \in SeqIds \ {id} : thread'[r] = thread[r] /\ want'[r] = want[r] /\ sent'[r] = sent[r]
    BY <2>1 DEF TypeOK
  <2>3. Left[id] = want[id] - sent[id] + 1 /\ Left'[id] = want[id] - sent[id]
    BY <2>1, <2>2 DEF Left, Owed
  <2>4. sent'[id] <= want'[id] /\ pending' + Left[id] >= pending + Left'[id]
    BY <1>2, <2>1, <2>2, <2>3
  <2> QED
    BY <2>2, <2>4, CoveredChange
<1>6. ASSUME NEW id \in SeqIds, NEW s \in {"failed", "leaving", "none"}, thread' = [thread EXCEPT ![id] = s],
             UNCHANGED <<want, sent, pending>>
      PROVE  Covered'
  <2>1. /\ thread'[id] = s /\ want'[id] = want[id] /\ sent'[id] = sent[id]
        /\ \A r \in SeqIds \ {id} : thread'[r] = thread[r] /\ want'[r] = want[r] /\ sent'[r] = sent[r]
    BY <1>6 DEF TypeOK
  <2>2. Left'[id] = 0
    BY <2>1 DEF Left
  <2>3. sent'[id] <= want'[id] /\ pending' + Left[id] >= pending + Left'[id]
    BY <1>2, <1>6, <2>1, <2>2
  <2> QED
    BY <2>1, <2>3, CoveredChange
<1>7. ASSUME NEW id \in SeqIds, Fail(id) \/ EmitFinal(id) \/ Leave(id) PROVE Covered'
  BY <1>6, <1>7 DEF Fail, EmitFinal, Leave
<1>8. ASSUME RunLoop \/ UNCHANGED vars PROVE Covered'
  BY <1>1, <1>8 DEF RunLoop, Step, NoScale, ProbeInFlight, ProbeEvents, vars
<1> QED
  BY <1>3, <1>4, <1>5, <1>7, <1>8 DEF Next, ThreadStep

(* The estimate covers the terms of the streams still running. *)
LEMMA CoveredSuffices == TypeOK /\ Covered => PendingCoversStreams
<1> SUFFICES ASSUME TypeOK, Covered PROVE PendingCoversStreams
  OBVIOUS
<1> DEFINE T == {id \in SeqIds : thread[id] \in {"streaming", "counting"}}
           F == [id \in SeqIds |-> Owed(id)]
<1>1. \A id \in T : Owed(id) \in Nat /\ Owed(id) <= Left[id]
  BY LeftOf
<1>2. T \in SUBSET SeqIds /\ IsFiniteSet(T) /\ IsFiniteSet(SeqIds)
  BY OpenAIAssumption, FS_Subset
<1>3. \A id \in SeqIds : Left[id] \in Nat
  BY LeftOf
<1>4. \A id \in T : F[id] \in Nat /\ Left[id] \in Nat /\ F[id] <= Left[id]
  BY <1>1, <1>3
<1> HIDE DEF T, F
<1>5. MapThenSumSet(Owed, T) = Total(F, T)
  BY <1>1, <1>2, OwedTotal DEF F
<1>6. Total(F, T) <= Total(Left, T)
  BY <1>2, <1>4, TotalAtMost
<1>7. Total(Left, T) <= Total(Left, SeqIds)
  BY <1>2, <1>3, TotalWithin
<1>8. Total(F, T) \in Nat /\ Total(Left, T) \in Nat /\ Total(Left, SeqIds) \in Nat
  BY <1>2, <1>3, <1>4, TotalSplits
<1>9. Total(Left, SeqIds) <= pending /\ pending \in Nat
  BY OpenAIAssumption DEF Covered, TypeOK
<1>10. MapThenSumSet(Owed, T) <= pending
  BY ONLY <1>5, <1>6, <1>7, <1>8, <1>9
<1>11. MapThenSumSet(Owed, T) \in Nat
  BY ONLY <1>5, <1>8
<1> QED
  BY <1>9, <1>10, <1>11 DEF PendingCoversStreams, T

(* The estimate of pending tokens behind least-pending-tokens and the load of  *)
(* the autoscaler is never below what the running streams have left, although  *)
(* each thread lowers it after its delta is out and the floor at zero is there.*)
THEOREM EstimateCovers == Spec => []PendingCoversStreams
<1>1. IInv /\ [Next]_vars /\ IInv' /\ Covered => Covered'
  BY NextCovered DEF IInv
<1>2. IInv /\ Covered => PendingCoversStreams
  BY CoveredSuffices DEF IInv
<1> QED
  BY WorkerInvariant, InitCovered, <1>1, <1>2, PTL DEF Spec
===============================================================================

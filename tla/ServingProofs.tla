---------------------------- MODULE ServingProofs ----------------------------
(***************************************************************************)
(* Theorems about Serving, for any requests, workers, kills and resets.    *)
(*                                                                         *)
(* The run loop submits and steps by turns, and that is what the           *)
(* invariants of its own requests rest on: while it records, scales or     *)
(* waits for a worker to be built, none of its requests is on its way in.  *)
(* A request moves through call, worker and record in one direction only,  *)
(* and names are handed out once in each epoch, whatever a late factory    *)
(* puts back from an epoch before.                                         *)
(***************************************************************************)
EXTENDS Serving, FiniteSetTheorems, TLAPS

Owed(id) == left[id] + ready[id]

(* The run loop submits one of its arrivals at a time, and nothing else        *)
(* meanwhile.                                                                *)
Submitting ==
    /\ loop.at # "submit" => loop.due = {}
    /\ \A r \in LoopReqs : InProgress(r) => r \in loop.due
    /\ \A r, s \in LoopReqs : InProgress(r) /\ InProgress(s) => r = s
    /\ \A r \in loop.due : call[r] = "new" \/ InProgress(r)

(* Where a request stands: outside, at a worker, on record, completed.         *)
Underway(id) ==
    /\ left[id] + ready[id] + batch[id] <= Want
    /\ left[id] > 0 => loc[id] \in Names \X Epochs
    /\ call[id] \in {"new", "routed", "failed"}
         => loc[id] = NoWorker /\ left[id] + ready[id] + batch[id] = 0 /\ id \notin lost
    /\ call[id] \in {"new", "routed", "failed", "admitted"}
         => rec[id] = "none"
    /\ rec[id] = "none" => tokens[id] = 0
    /\ rec[id] = "completed" => left[id] + ready[id] + batch[id] = 0
    /\ id \in lost => left[id] + ready[id] + batch[id] = 0 /\ rec[id] # "completed"

(* A request of the load generator, as long as the pool was not reset and no   *)
(* prefill lost it.                                                           *)
OnRecord(id) ==
    epoch = 0 =>
        /\ call[id] \in {"recorded", "done"} => rec[id] # "none"
        /\ sick = {} /\ id \notin lost /\ call[id] \in {"admitted", "recorded", "done"}
             => tokens[id] + batch[id] + ready[id] + left[id] = Want

(* Names are given out in order, in each epoch anew; the pool may still hold   *)
(* objects of epochs before.                                                 *)
Naming ==
    /\ epoch <= plan.resets
    /\ epoch = 0 => resetting = Idle
    /\ nextId + (IF resetting = Idle THEN 0 ELSE resetting) <= plan.names + 1
    /\ \A n \in DOMAIN pool : pool[n] <= epoch
    /\ \A n \in DOMAIN pool : pool[n] = epoch => n < nextId
    /\ \A id \in Reqs : loc[id][2] <= epoch

(* A worker that is being built replaces none that a generated request is at.  *)
Adding ==
    loop.at = "add" =>
        /\ loop.pos \in Names /\ loop.of <= epoch
        /\ loop.of = epoch =>
             /\ loop.pos < nextId
             /\ loop.pos \in DOMAIN pool => pool[loop.pos] # epoch
        /\ loop.of < epoch =>
             \A r \in LoopReqs : Owed(r) > 0 => loc[r][2] # epoch

(* A worker found idle is still idle for all the run loop has to do with it.   *)
Removing ==
    loop.at = "remove" =>
        \A r \in LoopReqs :
            loc[r][2] = epoch /\ loc[r][1] = loop.pos /\ Owed(r) > 0 => loc[r] \in killed

(* Nothing that was collected is left over when the recording is done.        *)
Quiet == loop.at # "record" => \A id \in Reqs : batch[id] = 0

IInv ==
    /\ TypeOK
    /\ Submitting
    /\ \A id \in Reqs : Underway(id)
    /\ Quiet
    /\ \A id \in LoopReqs : OnRecord(id)
    /\ LoopEventsRecorded
    /\ Naming
    /\ Adding
    /\ Removing
    /\ LoopNotStranded

-------------------------------------------------------------------------------
(* What a step leaves alone keeps what is said of it.                         *)
LEMMA RequestsKept ==
    ASSUME \A id \in Reqs : Underway(id),
           UNCHANGED <<call, loc, left, ready, lost, batch, rec, tokens>>
    PROVE  \A id \in Reqs : Underway(id)'
BY DEF Underway

LEMMA RecordsKept ==
    ASSUME \A id \in LoopReqs : OnRecord(id),
           UNCHANGED <<call, left, ready, lost, batch, rec, tokens, epoch, sick>>
    PROVE  \A id \in LoopReqs : OnRecord(id)'
BY DEF OnRecord

LEMMA NamingKept ==
    ASSUME Naming, UNCHANGED <<plan, epoch, resetting, nextId, pool, loc>>
    PROVE  Naming'
BY DEF Naming, Idle

LEMMA StrandedKept ==
    ASSUME LoopNotStranded, UNCHANGED <<epoch, pool, loc, left, ready, killed>>
    PROVE  LoopNotStranded'
BY DEF LoopNotStranded, Objects

LEMMA LoopKept ==
    ASSUME Adding, Removing, UNCHANGED <<loop, epoch, nextId, pool, loc, left, ready, killed>>
    PROVE  Adding' /\ Removing'
BY DEF Adding, Removing, Owed

(* What the plan of a behaviour allows.                                       *)
LEMMA PlanBounds ==
    ASSUME TypeOK
    PROVE  /\ plan.names \in 0..MaxName /\ plan.workers \in 0..(plan.names + 1)
           /\ plan.resets \in 0..MaxResets /\ plan.workers \in Nat /\ plan.names \in Nat
           /\ MaxName \in Nat /\ MaxResets \in Nat /\ Want \in Nat \ {0}
BY ServingAssumption DEF TypeOK

-------------------------------------------------------------------------------
(* The pool starts with fresh workers and no requests.                        *)
LEMMA InitIInv == Init => IInv
<1> SUFFICES ASSUME Init PROVE IInv
  OBVIOUS
<1>1. plan \in Plans
  BY DEF Init
<1>2. /\ plan.names \in 0..MaxName /\ plan.workers \in 0..(plan.names + 1)
      /\ plan.resets \in 0..MaxResets /\ MaxName \in Nat /\ MaxResets \in Nat /\ Want \in Nat \ {0}
  BY <1>1, ServingAssumption
<1>3. DOMAIN pool \subseteq Names /\ \A n \in DOMAIN pool : pool[n] = 0 /\ n < plan.workers
  BY <1>2 DEF Init, FreshWorkers, Names
<1>4. Asleep \in [at : {"sleep", "submit", "visit", "record", "scale", "add", "find", "remove"},
                  due : SUBSET LoopReqs, size : 0..(MaxName + 1),
                  pos : 0..(MaxName + 1), of : Epochs]
  BY <1>2 DEF Asleep, Epochs
<1>5. NoWorker[2] = 0 /\ NoWorker \in (Names \X Epochs) \cup {NoWorker}
  BY DEF NoWorker
<1>6. TypeOK
  <2>1. /\ call \in [Reqs -> {"new", "routed", "admitted", "recorded", "done", "failed"}]
        /\ target \in [Reqs -> Names \cup {MaxName + 1}]
        /\ loc \in [Reqs -> (Names \X Epochs) \cup {NoWorker}]
        /\ rec \in [Reqs -> {"none", "open", "completed"}]
    BY DEF Init
  <2>2. /\ left \in [Reqs -> 0..Want] /\ ready \in [Reqs -> 0..Want] /\ batch \in [Reqs -> 0..Want]
        /\ tokens \in [Reqs -> Nat] /\ lost \subseteq Reqs
    BY <1>2 DEF Init
  <2>3. /\ \A n \in DOMAIN pool : pool[n] \in Epochs
        /\ nextId \in 0..(MaxName + 1) /\ epoch \in Epochs /\ resetting \in 0..Idle
    BY <1>2, <1>3 DEF Init, Epochs, Idle
  <2>4. sick \subseteq Names \X Epochs /\ killed \subseteq Names \X Epochs /\ unrecorded \in SUBSET Reqs
    BY DEF Init
  <2>5. loop = Asleep
    BY DEF Init
  <2> QED
    BY <1>1, <1>3, <1>4, <2>1, <2>2, <2>3, <2>4, <2>5 DEF TypeOK
<1>7. loop.at = "sleep" /\ loop.due = {}
  BY DEF Init, Asleep
<1>8. LoopReqs \subseteq Reqs
  BY DEF Reqs
<1>9. Submitting
  BY <1>7, <1>8 DEF Init, Submitting, InProgress
<1>10. \A id \in Reqs : Underway(id)
  BY <1>2 DEF Init, Underway
<1>11. \A id \in LoopReqs : OnRecord(id)
  BY <1>8 DEF Init, OnRecord
<1>12. Naming
  BY <1>2, <1>3, <1>5 DEF Init, Naming, Idle
<1>13. Quiet /\ LoopEventsRecorded /\ LoopNotStranded
  BY <1>8 DEF Init, Quiet, LoopEventsRecorded, LoopNotStranded
<1> QED
  BY <1>6, <1>7, <1>9, <1>10, <1>11, <1>12, <1>13 DEF IInv, Adding, Removing

-------------------------------------------------------------------------------
(* A submit that raises before its request is admitted.                       *)
LEMMA RaiseIInv ==
    ASSUME IInv, NEW id \in Reqs, Raise(id), call[id] \in {"new", "routed"},
           \/ id \in ThreadReqs
           \/ id \in loop.due /\ \A r \in LoopReqs : InProgress(r) => call[r] = "routed",
           target' = target,
           UNCHANGED <<plan, workerVars, poolVars, sick, batch, metricsVars, operatorVars>>
    PROVE  IInv'
<1> USE DEF workerVars, poolVars, metricsVars, operatorVars
<1>1. LoopReqs \subseteq Reqs /\ LoopReqs \cap ThreadReqs = {}
  BY ServingAssumption DEF Reqs
<1>2. TypeOK /\ Submitting
  BY DEF IInv
<1>3. /\ \A r \in Reqs : call'[r] = call[r] \/ (call'[r] = "failed" /\ call[r] \in {"new", "routed"})
      /\ call' \in [Reqs -> {"new", "routed", "admitted", "recorded", "done", "failed"}]
      /\ \/ loop' = loop /\ \A r \in LoopReqs : call'[r] = call[r]
         \/ loop' = Asleep /\ loop.at # "record" /\ \A r \in LoopReqs : ~InProgress(r)'
  <2>1. CASE id \in ThreadReqs
    BY <1>1, <1>2, <2>1 DEF Raise, TypeOK
  <2>2. CASE id \notin ThreadReqs
    <3>1. /\ call' = [r \in Reqs |-> IF r \in loop.due THEN "failed" ELSE call[r]]
          /\ loop' = Asleep
      BY <2>2 DEF Raise
    <3>2. loop.at = "submit" /\ id \in loop.due
      BY <1>2, <2>2 DEF Submitting
    <3>3. loop.due \subseteq LoopReqs
      BY <1>2 DEF TypeOK
    <3>4. \A r \in loop.due : call[r] \in {"new", "routed"}
      BY <1>2, <2>2, <3>3 DEF Submitting
    <3>5. \A r \in LoopReqs : ~InProgress(r)'
      BY <1>1, <1>2, <3>1 DEF Submitting, InProgress
    <3> QED
      BY <1>2, <3>1, <3>2, <3>4, <3>5 DEF TypeOK
  <2> QED
    BY <2>1, <2>2
<1>4. TypeOK'
  <2>1. loop' \in [at : {"sleep", "submit", "visit", "record", "scale", "add", "find", "remove"},
                   due : SUBSET LoopReqs, size : 0..(MaxName + 1),
                   pos : 0..(MaxName + 1), of : Epochs]
    BY <1>2, <1>3, ServingAssumption DEF TypeOK, Asleep, Epochs
  <2> QED
    BY <1>2, <1>3, <2>1 DEF TypeOK, Idle
<1>5. Submitting'
  <2>1. CASE loop' = loop /\ \A r \in LoopReqs : call'[r] = call[r]
    BY <1>2, <2>1 DEF Submitting, InProgress, TypeOK
  <2>2. CASE loop' = Asleep /\ \A r \in LoopReqs : ~InProgress(r)'
    BY <2>2 DEF Submitting, Asleep
  <2> QED
    BY <1>3, <2>1, <2>2
<1>6. \A r \in Reqs : Underway(r)'
  <2> SUFFICES ASSUME NEW r \in Reqs PROVE Underway(r)'
    OBVIOUS
  <2>1. Underway(r)
    BY DEF IInv
  <2> QED
    BY <1>3, <2>1 DEF Underway
<1>7. \A r \in LoopReqs : OnRecord(r)'
  <2> SUFFICES ASSUME NEW r \in LoopReqs PROVE OnRecord(r)'
    OBVIOUS
  <2>1. OnRecord(r) /\ r \in Reqs
    BY <1>1 DEF IInv
  <2> QED
    BY <1>3, <2>1 DEF OnRecord
<1>8. Naming' /\ LoopNotStranded' /\ LoopEventsRecorded'
  BY NamingKept, StrandedKept DEF IInv, LoopEventsRecorded
<1>9. Quiet'
  BY <1>3 DEF IInv, Quiet
<1>10. Adding' /\ Removing'
  <2>1. CASE loop' = loop
    BY <2>1, LoopKept DEF IInv
  <2>2. CASE loop' = Asleep
    BY <2>2 DEF Asleep, Adding, Removing
  <2> QED
    BY <1>3, <2>1, <2>2
<1> QED
  BY <1>4, <1>5, <1>6, <1>7, <1>8, <1>9, <1>10 DEF IInv

(* worker_states() and route().                                              *)
LEMMA RouteIInv ==
    ASSUME IInv, NEW id \in Reqs, Route(id)
    PROVE  IInv'
<1> USE DEF workerVars, poolVars, metricsVars, operatorVars
<1>1. LoopReqs \subseteq Reqs /\ LoopReqs \cap ThreadReqs = {}
  BY ServingAssumption DEF Reqs
<1>2. TypeOK /\ Submitting /\ MayStart(id)
  BY DEF IInv, Route
<1>3. CASE Raise(id) /\ target' = target
  BY <1>2, <1>3, RaiseIInv DEF Route, MayStart
<1>4. ASSUME NEW n \in DOMAIN pool, call' = [call EXCEPT ![id] = "routed"],
             target' = [target EXCEPT ![id] = n], loop' = loop
      PROVE  IInv'
  <2>1. UNCHANGED <<plan, workerVars, poolVars, sick, batch, metricsVars, operatorVars>>
    BY DEF Route
  <2>2. /\ call'[id] = "routed" /\ call[id] = "new"
        /\ \A r \in Reqs \ {id} : call'[r] = call[r]
    BY <1>2, <1>4 DEF TypeOK, MayStart
  <2>3. TypeOK'
    BY <1>2, <1>4, <2>1 DEF TypeOK, Idle
  <2>4. Submitting'
    <3>1. CASE id \in ThreadReqs
      BY <1>1, <1>2, <1>4, <2>2, <3>1 DEF Submitting, InProgress, TypeOK
    <3>2. CASE id \notin ThreadReqs
      <4>1. id \in loop.due /\ loop.at = "submit" /\ \A r \in LoopReqs : ~InProgress(r)
        BY <1>2, <3>2 DEF MayStart
      <4>2. \A r \in LoopReqs : InProgress(r)' => r = id
        BY <1>1, <2>2, <4>1 DEF InProgress
      <4>3. \A r \in loop.due : call'[r] = "new" \/ InProgress(r)'
        BY <1>1, <1>2, <2>2 DEF Submitting, InProgress, TypeOK
      <4> QED
        BY <1>4, <4>1, <4>2, <4>3 DEF Submitting
    <3> QED
      BY <3>1, <3>2
  <2>5. \A r \in Reqs : Underway(r)'
    <3> SUFFICES ASSUME NEW r \in Reqs PROVE Underway(r)'
      OBVIOUS
    <3>1. Underway(r)
      BY DEF IInv
    <3> QED
      BY <2>1, <2>2, <3>1 DEF Underway
  <2>6. \A r \in LoopReqs : OnRecord(r)'
    <3> SUFFICES ASSUME NEW r \in LoopReqs PROVE OnRecord(r)'
      OBVIOUS
    <3>1. OnRecord(r) /\ r \in Reqs
      BY <1>1 DEF IInv
    <3> QED
      BY <2>1, <2>2, <3>1 DEF OnRecord
  <2>7. /\ Naming' /\ LoopNotStranded' /\ LoopEventsRecorded' /\ Quiet'
        /\ Adding' /\ Removing'
    BY <1>4, <2>1, NamingKept, StrandedKept, LoopKept DEF IInv, LoopEventsRecorded, Quiet
  <2> QED
    BY <2>3, <2>4, <2>5, <2>6, <2>7 DEF IInv
<1> QED
  BY <1>3, <1>4 DEF Route

(* The worker takes the request, or its name is gone.                         *)
LEMMA AdmitIInv ==
    ASSUME IInv, NEW id \in Reqs, Admit(id)
    PROVE  IInv'
<1> USE DEF workerVars, poolVars, metricsVars, operatorVars
<1>1. LoopReqs \subseteq Reqs /\ LoopReqs \cap ThreadReqs = {} /\ Reqs = LoopReqs \cup ThreadReqs
  BY ServingAssumption DEF Reqs
<1>2. TypeOK /\ Submitting /\ Naming /\ call[id] = "routed"
  BY DEF IInv, Admit
<1>3. id \in LoopReqs =>
        id \in loop.due /\ loop.at = "submit" /\ \A r \in LoopReqs : InProgress(r) => r = id
  BY <1>2 DEF Submitting, InProgress
<1>4. CASE target[id] \notin DOMAIN pool
  <2>1. Raise(id) /\ UNCHANGED <<plan, target, workerVars, poolVars, sick, batch, metricsVars, operatorVars>>
    BY <1>4 DEF Admit
  <2>2. \/ id \in ThreadReqs
        \/ id \in loop.due /\ \A r \in LoopReqs : InProgress(r) => call[r] = "routed"
    BY <1>1, <1>2, <1>3
  <2> QED
    BY <1>2, <2>1, <2>2, RaiseIInv
<1>5. CASE target[id] \in DOMAIN pool
  <2>1. /\ call' = [call EXCEPT ![id] = "admitted"]
        /\ loc' = [loc EXCEPT ![id] = Object(target[id])]
        /\ left' = [left EXCEPT ![id] = Want]
        /\ UNCHANGED <<plan, target, ready, lost, loop, poolVars, sick, batch, metricsVars, operatorVars>>
    BY <1>5 DEF Admit
  <2>2. /\ call'[id] = "admitted" /\ loc'[id] = Object(target[id]) /\ left'[id] = Want
        /\ \A r \in Reqs \ {id} : call'[r] = call[r] /\ loc'[r] = loc[r] /\ left'[r] = left[r]
    BY <1>2, <2>1 DEF TypeOK
  <2>3. Object(target[id]) \in Names \X Epochs /\ Object(target[id])[2] <= epoch
        /\ Object(target[id]) \in Objects
    BY <1>2, <1>5 DEF TypeOK, Object, Objects, Naming
  <2>4. TypeOK'
    <3>1. Want \in 0..Want
      BY ServingAssumption
    <3> QED
      BY <1>2, <2>1, <2>3, <3>1 DEF TypeOK, Idle
  <2>5. Submitting'
    BY <1>1, <1>2, <1>3, <2>1, <2>2 DEF Submitting, InProgress, TypeOK
  <2>6. Underway(id)
    BY DEF IInv
  <2>7. left[id] = 0 /\ ready[id] = 0 /\ batch[id] = 0 /\ tokens[id] = 0 /\ rec[id] = "none"
    BY <1>2, <2>6 DEF Underway, TypeOK
  <2>8. \A r \in Reqs : Underway(r)'
    <3> SUFFICES ASSUME NEW r \in Reqs PROVE Underway(r)'
      OBVIOUS
    <3>1. Underway(r)
      BY DEF IInv
    <3>2. CASE r = id
      BY <1>2, <2>1, <2>2, <2>3, <2>6, <2>7, <3>2, ServingAssumption DEF Underway, TypeOK
    <3>3. CASE r # id
      BY <2>1, <2>2, <3>1, <3>3 DEF Underway
    <3> QED
      BY <3>2, <3>3
  <2>9. \A r \in LoopReqs : OnRecord(r)'
    <3> SUFFICES ASSUME NEW r \in LoopReqs PROVE OnRecord(r)'
      OBVIOUS
    <3>1. OnRecord(r) /\ r \in Reqs
      BY <1>1 DEF IInv
    <3>2. CASE r = id
      BY <2>1, <2>2, <2>7, <3>2, ServingAssumption DEF OnRecord
    <3>3. CASE r # id
      BY <2>1, <2>2, <3>1, <3>3 DEF OnRecord
    <3> QED
      BY <3>2, <3>3
  <2>10. Naming'
    BY <1>2, <2>1, <2>2, <2>3 DEF Naming, Idle
  <2>11. LoopNotStranded'
    <3> SUFFICES ASSUME NEW r \in LoopReqs, loc'[r][2] = epoch', left'[r] + ready'[r] > 0
                 PROVE  loc'[r] \in Objects' \cup killed'
      BY DEF LoopNotStranded
    <3>1. Objects' = Objects /\ killed' = killed
      BY <2>1 DEF Objects
    <3>2. CASE r = id
      BY <2>2, <2>3, <3>1, <3>2
    <3>3. CASE r # id
      BY <1>1, <2>1, <2>2, <3>1, <3>3 DEF IInv, LoopNotStranded
    <3> QED
      BY <3>2, <3>3
  <2>12. Adding' /\ Removing'
    <3>1. CASE id \in LoopReqs
      BY <1>3, <2>1, <3>1 DEF Adding, Removing
    <3>2. CASE id \notin LoopReqs
      <4>1. \A r \in LoopReqs : loc'[r] = loc[r] /\ Owed(r)' = Owed(r)
        BY <1>1, <2>1, <2>2, <3>2 DEF Owed
      <4>2. UNCHANGED <<loop, epoch, nextId, pool, killed>>
        BY <2>1
      <4> QED
        BY <4>1, <4>2 DEF IInv, Adding, Removing
    <3> QED
      BY <3>1, <3>2
  <2>13. LoopEventsRecorded' /\ Quiet'
    BY <2>1 DEF IInv, LoopEventsRecorded, Quiet
  <2> QED
    BY <2>4, <2>5, <2>8, <2>9, <2>10, <2>11, <2>12, <2>13 DEF IInv
<1> QED
  BY <1>4, <1>5

(* The record is opened, and then submit() returns.                           *)
LEMMA OnSubmitIInv ==
    ASSUME IInv, NEW id \in Reqs, OnSubmit(id)
    PROVE  IInv'
<1> USE DEF workerVars, poolVars, operatorVars
<1>1. LoopReqs \subseteq Reqs
  BY DEF Reqs
<1>2. TypeOK /\ Submitting /\ Underway(id) /\ call[id] = "admitted"
  BY DEF IInv, OnSubmit
<1>3. /\ call' = [call EXCEPT ![id] = "recorded"] /\ rec' = [rec EXCEPT ![id] = "open"]
      /\ tokens' = [tokens EXCEPT ![id] = 0]
      /\ UNCHANGED <<plan, target, loc, left, ready, lost, pool, nextId, epoch, sick, loop, batch,
                     unrecorded, killed, resetting>>
  BY DEF OnSubmit
<1>4. /\ call'[id] = "recorded" /\ rec'[id] = "open" /\ tokens'[id] = 0
      /\ \A r \in Reqs \ {id} : call'[r] = call[r] /\ rec'[r] = rec[r] /\ tokens'[r] = tokens[r]
  BY <1>2, <1>3 DEF TypeOK
<1>5. rec[id] = "none" /\ tokens[id] = 0
  BY <1>2 DEF Underway
<1>6. TypeOK'
  BY <1>2, <1>3 DEF TypeOK, Idle
<1>7. Submitting'
  BY <1>1, <1>2, <1>3, <1>4 DEF Submitting, InProgress, TypeOK
<1>8. \A r \in Reqs : Underway(r)'
  <2> SUFFICES ASSUME NEW r \in Reqs PROVE Underway(r)'
    OBVIOUS
  <2>1. Underway(r)
    BY DEF IInv
  <2> QED
    BY <1>2, <1>3, <1>4, <1>5, <2>1 DEF Underway
<1>9. \A r \in LoopReqs : OnRecord(r)'
  <2> SUFFICES ASSUME NEW r \in LoopReqs PROVE OnRecord(r)'
    OBVIOUS
  <2>1. OnRecord(r) /\ r \in Reqs
    BY <1>1 DEF IInv
  <2> QED
    BY <1>2, <1>3, <1>4, <1>5, <2>1 DEF OnRecord
<1>10. /\ Naming' /\ LoopNotStranded' /\ LoopEventsRecorded' /\ Quiet'
       /\ Adding' /\ Removing'
  BY <1>3, NamingKept, StrandedKept, LoopKept DEF IInv, LoopEventsRecorded, Quiet
<1> QED
  BY <1>6, <1>7, <1>8, <1>9, <1>10 DEF IInv

LEMMA OnRouteIInv ==
    ASSUME IInv, NEW id \in Reqs, OnRoute(id)
    PROVE  IInv'
<1> USE DEF workerVars, poolVars, metricsVars, operatorVars
<1>1. LoopReqs \subseteq Reqs /\ LoopReqs \cap ThreadReqs = {} /\ Reqs = LoopReqs \cup ThreadReqs
  BY ServingAssumption DEF Reqs
<1>2. TypeOK /\ Submitting /\ call[id] = "recorded"
  BY DEF IInv, OnRoute
<1>3. /\ call' = [call EXCEPT ![id] = "done"]
      /\ loop' = IF id \in ThreadReqs THEN loop ELSE [loop EXCEPT !.due = @ \ {id}]
      /\ UNCHANGED <<plan, target, loc, left, ready, lost, pool, nextId, epoch, sick, batch,
                     rec, tokens, unrecorded, killed, resetting>>
  BY DEF OnRoute
<1>4. call'[id] = "done" /\ \A r \in Reqs \ {id} : call'[r] = call[r]
  BY <1>2, <1>3 DEF TypeOK
<1>5. /\ loop'.at = loop.at /\ loop'.pos = loop.pos /\ loop'.of = loop.of
      /\ loop'.due = IF id \in ThreadReqs THEN loop.due ELSE loop.due \ {id}
      /\ loop' \in [at : {"sleep", "submit", "visit", "record", "scale", "add", "find", "remove"},
                    due : SUBSET LoopReqs, size : 0..(MaxName + 1),
                    pos : 0..(MaxName + 1), of : Epochs]
  BY <1>2, <1>3 DEF TypeOK
<1>6. TypeOK'
  BY <1>2, <1>3, <1>5 DEF TypeOK, Idle
<1>7. Submitting'
  BY <1>1, <1>2, <1>4, <1>5 DEF Submitting, InProgress, TypeOK
<1>8. \A r \in Reqs : Underway(r)'
  <2> SUFFICES ASSUME NEW r \in Reqs PROVE Underway(r)'
    OBVIOUS
  <2>1. Underway(r)
    BY DEF IInv
  <2> QED
    BY <1>2, <1>3, <1>4, <2>1 DEF Underway
<1>9. \A r \in LoopReqs : OnRecord(r)'
  <2> SUFFICES ASSUME NEW r \in LoopReqs PROVE OnRecord(r)'
    OBVIOUS
  <2>1. OnRecord(r) /\ r \in Reqs
    BY <1>1 DEF IInv
  <2> QED
    BY <1>2, <1>3, <1>4, <2>1 DEF OnRecord
<1>10. Naming' /\ LoopNotStranded'
  BY <1>3, NamingKept, StrandedKept DEF IInv
<1>11. LoopEventsRecorded' /\ Quiet' /\ Adding' /\ Removing'
  BY <1>3, <1>5 DEF IInv, LoopEventsRecorded, Quiet, Adding, Removing, Owed
<1> QED
  BY <1>6, <1>7, <1>8, <1>9, <1>10, <1>11 DEF IInv

-------------------------------------------------------------------------------
(* A worker makes one event of those it owes, or its stream fails and the last *)
(* one is made at once.                                                      *)
LEMMA MakeIInv ==
    ASSUME IInv, NEW id \in Reqs, Produce(id) \/ FailStream(id)
    PROVE  IInv'
<1>1. LoopReqs \subseteq Reqs
  BY DEF Reqs
<1>2. TypeOK /\ Underway(id) /\ left[id] > 0
  BY DEF IInv, Produce, FailStream
<1>3. UNCHANGED <<plan, call, target, loc, lost, pool, nextId, epoch, loop, batch, rec, tokens,
                  unrecorded, killed, resetting>>
  BY DEF Produce, FailStream, submitVars, poolVars, metricsVars, operatorVars
<1>4. /\ left[id] \in 0..Want /\ ready[id] \in 0..Want /\ batch[id] \in 0..Want
      /\ left[id] + ready[id] + batch[id] <= Want /\ Want \in Nat
  BY <1>2, ServingAssumption DEF Underway, TypeOK
<1>5. PICK k \in 0..Want :
        /\ k < left[id]
        /\ left' = [left EXCEPT ![id] = k] /\ ready' = [ready EXCEPT ![id] = ready[id] + 1]
        /\ (sick' = sick /\ k = left[id] - 1) \/ sick' = sick \cup {loc[id]}
  <2>1. CASE Produce(id)
    <3>1. left[id] - 1 \in 0..Want /\ left[id] - 1 < left[id]
      BY <1>2, <1>4
    <3>2. /\ left' = [left EXCEPT ![id] = left[id] - 1] /\ ready' = [ready EXCEPT ![id] = ready[id] + 1]
          /\ sick' = sick
      BY <2>1 DEF Produce
    <3> QED
      BY <3>1, <3>2
  <2>2. CASE FailStream(id)
    <3>1. 0 \in 0..Want /\ 0 < left[id]
      BY <1>2, <1>4
    <3>2. /\ left' = [left EXCEPT ![id] = 0] /\ ready' = [ready EXCEPT ![id] = ready[id] + 1]
          /\ sick' = sick \cup {loc[id]}
      BY <2>2 DEF FailStream
    <3> QED
      BY <3>1, <3>2
  <2> QED
    BY <2>1, <2>2
<1>6. /\ left'[id] = k /\ ready'[id] = ready[id] + 1
      /\ \A r \in Reqs \ {id} : left'[r] = left[r] /\ ready'[r] = ready[r]
  BY <1>2, <1>5 DEF TypeOK
<1>7. k + (ready[id] + 1) + batch[id] <= Want /\ ready[id] + 1 \in 0..Want
  BY <1>4, <1>5
<1>8. loc[id] \in Names \X Epochs
  BY <1>2 DEF Underway
<1>9. TypeOK'
  <2>1. left' \in [Reqs -> 0..Want] /\ ready' \in [Reqs -> 0..Want] /\ sick' \subseteq Names \X Epochs
    BY <1>2, <1>5, <1>7, <1>8 DEF TypeOK
  <2> QED
    BY <1>2, <1>3, <2>1 DEF TypeOK, Idle
<1>10. Submitting'
  BY <1>3 DEF IInv, Submitting, InProgress
<1>11. \A r \in Reqs : Underway(r)'
  <2> SUFFICES ASSUME NEW r \in Reqs PROVE Underway(r)'
    OBVIOUS
  <2>1. Underway(r)
    BY DEF IInv
  <2>2. CASE r = id
    BY <1>2, <1>3, <1>4, <1>6, <1>7, <2>2 DEF Underway
  <2>3. CASE r # id
    BY <1>3, <1>6, <2>1, <2>3 DEF Underway
  <2> QED
    BY <2>2, <2>3
<1>12. \A r \in LoopReqs : OnRecord(r)'
  <2> SUFFICES ASSUME NEW r \in LoopReqs PROVE OnRecord(r)'
    OBVIOUS
  <2>1. OnRecord(r) /\ r \in Reqs
    BY <1>1 DEF IInv
  <2>2. CASE r = id
    <3>1. sick' = {} => sick = {} /\ k = left[id] - 1
      BY <1>5
    <3>2. tokens[id] \in Nat
      BY <1>2 DEF TypeOK
    <3> QED
      BY <1>3, <1>4, <1>5, <1>6, <2>1, <2>2, <3>1, <3>2 DEF OnRecord
  <2>3. CASE r # id
    <3>1. sick' = {} => sick = {}
      BY <1>5
    <3> QED
      BY <1>3, <1>6, <2>1, <2>3, <3>1 DEF OnRecord
  <2> QED
    BY <2>2, <2>3
<1>13. Naming' /\ LoopEventsRecorded' /\ Quiet'
  BY <1>3, NamingKept DEF IInv, LoopEventsRecorded, Quiet
<1>14. \A r \in Reqs : left'[r] + ready'[r] > 0 => left[r] + ready[r] > 0
  BY <1>2, <1>4, <1>6
<1>15. LoopNotStranded'
  <2>1. Objects' = Objects
    BY <1>3 DEF Objects
  <2> QED
    BY <1>1, <1>3, <1>14, <2>1 DEF IInv, LoopNotStranded
<1>16. Adding' /\ Removing'
  BY <1>1, <1>3, <1>14 DEF IInv, Adding, Removing, Owed
<1> QED
  BY <1>9, <1>10, <1>11, <1>12, <1>13, <1>15, <1>16 DEF IInv

-------------------------------------------------------------------------------
(* The first of some workers, and how many there can be.                      *)
LEMMA First ==
    ASSUME NEW S \in SUBSET Names, S # {}
    PROVE  Min(S) \in S
<1>1. S \subseteq Nat
  BY ServingAssumption DEF Names
<1>2. PICK m \in S : \A x \in S : ~ (x < m)
  <2>1. \E m \in S : \A x \in S : ~ (<<x, m>> \in OpToRel(<, Nat))
    BY <1>1, NatLessThanWellFounded, WFMin, Zenon
  <2> QED
    BY <1>1, <2>1 DEF OpToRel
<1>3. \A x \in S : m <= x
  BY <1>1, <1>2
<1> QED
  BY <1>3 DEF Min

LEMMA PoolSize ==
    ASSUME TypeOK
    PROVE  Cardinality(DOMAIN pool) \in 0..(MaxName + 1)
<1>1. IsFiniteSet(0..MaxName) /\ Cardinality(0..MaxName) = MaxName + 1
  BY FS_Interval, ServingAssumption
<1>2. DOMAIN pool \subseteq 0..MaxName
  BY DEF TypeOK, Names
<1> QED
  BY <1>1, <1>2, FS_Subset, FS_CardinalityType, ServingAssumption

LoopState == [at : {"sleep", "submit", "visit", "record", "scale", "add", "find", "remove"},
              due : SUBSET LoopReqs, size : 0..(MaxName + 1),
              pos : 0..(MaxName + 1), of : Epochs]

LEMMA LoopStates ==
    ASSUME TypeOK
    PROVE  /\ loop \in LoopState /\ Asleep \in LoopState /\ Asleep.at = "sleep" /\ Asleep.due = {}
           /\ \A due \in SUBSET LoopReqs :
                 /\ [Asleep EXCEPT !.at = "submit", !.due = due] \in LoopState
                 /\ [Asleep EXCEPT !.at = "submit", !.due = due].at = "submit"
                 /\ [Asleep EXCEPT !.at = "submit", !.due = due].due = due
           /\ [Asleep EXCEPT !.at = "submit"] \in LoopState
           /\ [Asleep EXCEPT !.at = "submit"].at = "submit" /\ [Asleep EXCEPT !.at = "submit"].due = {}
<1>1. loop \in LoopState
  BY DEF TypeOK, LoopState
<1>2. Asleep = [at |-> "sleep", due |-> {}, size |-> 0, pos |-> 0, of |-> 0]
      /\ 0 \in 0..(MaxName + 1) /\ 0 \in Epochs
  BY ServingAssumption DEF Asleep, Epochs
<1>3. Asleep \in LoopState /\ Asleep.at = "sleep" /\ Asleep.due = {}
  BY <1>2 DEF LoopState
<1>4. ASSUME NEW due \in SUBSET LoopReqs
      PROVE  /\ [Asleep EXCEPT !.at = "submit", !.due = due] \in LoopState
             /\ [Asleep EXCEPT !.at = "submit", !.due = due].at = "submit"
             /\ [Asleep EXCEPT !.at = "submit", !.due = due].due = due
  BY <1>3 DEF LoopState
<1>5. /\ [Asleep EXCEPT !.at = "submit"] \in LoopState
      /\ [Asleep EXCEPT !.at = "submit"].at = "submit" /\ [Asleep EXCEPT !.at = "submit"].due = {}
  BY <1>3 DEF LoopState
<1> QED
  BY <1>1, <1>3, <1>4, <1>5

(* The run loop goes on to something else when it has nothing to submit.       *)
LEMMA LoopMoves ==
    ASSUME IInv, loop' \in LoopState, loop.due = {}, loop'.due = {},
           UNCHANGED <<submitVars, workerVars, poolVars, sick, batch, metricsVars, operatorVars>>
    PROVE  /\ TypeOK' /\ Submitting' /\ (\A r \in Reqs : Underway(r)') /\ (\A r \in LoopReqs : OnRecord(r)')
           /\ LoopEventsRecorded' /\ Naming' /\ LoopNotStranded'
<1> USE DEF submitVars, workerVars, poolVars, metricsVars, operatorVars
<1>1. TypeOK'
  BY DEF IInv, TypeOK, Idle, LoopState
<1>2. Submitting'
  BY DEF IInv, Submitting, InProgress
<1> QED
  BY <1>1, <1>2, RequestsKept, RecordsKept, NamingKept, StrandedKept DEF IInv, LoopEventsRecorded

(* A tick samples its arrivals.                                               *)
LEMMA SampleIInv ==
    ASSUME IInv, Sample
    PROVE  IInv'
<1> USE DEF workerVars, poolVars, metricsVars, operatorVars
<1>1. LoopReqs \subseteq Reqs
  BY DEF Reqs
<1>2. TypeOK /\ Submitting /\ Quiet /\ loop.at = "sleep"
  BY DEF IInv, Sample
<1>3. UNCHANGED <<plan, target, loc, left, ready, lost, pool, nextId, epoch, sick, batch,
                  rec, tokens, unrecorded, killed, resetting>>
  BY DEF Sample
<1>4. PICK due \in SUBSET {id \in LoopReqs \cap plan.come : call[id] = "new"} :
        IF DOMAIN pool = {}
        THEN /\ call' = [id \in Reqs |-> IF id \in due THEN "failed" ELSE call[id]]
             /\ loop' = [Asleep EXCEPT !.at = "submit"]
        ELSE /\ loop' = [Asleep EXCEPT !.at = "submit", !.due = due]
             /\ UNCHANGED call
  BY DEF Sample
<1>5. /\ call' \in [Reqs -> {"new", "routed", "admitted", "recorded", "done", "failed"}]
      /\ \A r \in Reqs : call'[r] = call[r] \/ (call'[r] = "failed" /\ call[r] = "new")
      /\ \A r \in loop'.due : r \in Reqs /\ call'[r] = "new"
      /\ loop'.at = "submit" /\ loop' \in LoopState
  <2>1. due \in SUBSET LoopReqs /\ \A r \in due : r \in Reqs /\ call[r] = "new"
    BY <1>1
  <2>2. CASE DOMAIN pool = {}
    <3>1. /\ call' = [id \in Reqs |-> IF id \in due THEN "failed" ELSE call[id]]
          /\ loop' = [Asleep EXCEPT !.at = "submit"]
      BY <1>4, <2>2
    <3>2. loop' \in LoopState /\ loop'.at = "submit" /\ loop'.due = {}
      BY <1>2, <3>1, LoopStates
    <3> QED
      BY <1>2, <2>1, <3>1, <3>2 DEF TypeOK
  <2>3. CASE DOMAIN pool # {}
    <3>1. call' = call /\ loop' = [Asleep EXCEPT !.at = "submit", !.due = due]
      BY <1>4, <2>3
    <3>2. loop' \in LoopState /\ loop'.at = "submit" /\ loop'.due = due
      BY <1>2, <2>1, <3>1, LoopStates
    <3> QED
      BY <1>2, <2>1, <3>1, <3>2 DEF TypeOK
  <2> QED
    BY <2>2, <2>3
<1>6. TypeOK'
  BY <1>2, <1>3, <1>5 DEF TypeOK, Idle, LoopState
<1>7. \A r \in LoopReqs : ~InProgress(r) /\ ~InProgress(r)'
  BY <1>1, <1>2, <1>5 DEF Submitting, InProgress
<1>8. Submitting'
  BY <1>5, <1>7 DEF Submitting
<1>9. \A r \in Reqs : Underway(r)'
  <2> SUFFICES ASSUME NEW r \in Reqs PROVE Underway(r)'
    OBVIOUS
  <2>1. Underway(r)
    BY DEF IInv
  <2> QED
    BY <1>3, <1>5, <2>1 DEF Underway
<1>10. \A r \in LoopReqs : OnRecord(r)'
  <2> SUFFICES ASSUME NEW r \in LoopReqs PROVE OnRecord(r)'
    OBVIOUS
  <2>1. OnRecord(r) /\ r \in Reqs
    BY <1>1 DEF IInv
  <2> QED
    BY <1>3, <1>5, <2>1 DEF OnRecord
<1>11. Naming' /\ LoopNotStranded' /\ LoopEventsRecorded' /\ Quiet' /\ Adding' /\ Removing'
  BY <1>2, <1>3, <1>5, NamingKept, StrandedKept
     DEF IInv, LoopEventsRecorded, Quiet, Adding, Removing
<1> QED
  BY <1>6, <1>8, <1>9, <1>10, <1>11 DEF IInv

(* The steps that only move the run loop on.                                  *)
LEMMA TurnIInv ==
    ASSUME IInv, RefusedArrival \/ BeginStep \/ Recorded \/ Hold \/ ScaleDown
    PROVE  IInv'
<1>1. TypeOK /\ Submitting /\ Quiet
  BY DEF IInv
<1>2. loop.due = {} /\ \A id \in Reqs : batch[id] = 0
  BY <1>1 DEF Submitting, Quiet, RefusedArrival, BeginStep, Recorded, Hold, ScaleDown, InBatch, TypeOK
<1>3. loop' \in LoopState /\ loop'.due = {} /\ loop'.at \in {"visit", "sleep", "find"}
  <2>1. CASE BeginStep
    <3>1. loop' = [loop EXCEPT !.at = "visit", !.size = Cardinality(DOMAIN pool), !.pos = 0]
          /\ Cardinality(DOMAIN pool) \in 0..(MaxName + 1) /\ 0 \in 0..(MaxName + 1)
      BY <1>1, <2>1, PoolSize, ServingAssumption DEF BeginStep
    <3> QED
      BY <1>1, <1>2, <3>1, LoopStates DEF LoopState
  <2>2. CASE Recorded
    <3>1. loop' = [loop EXCEPT !.at = "visit"]
      BY <2>2 DEF Recorded
    <3> QED
      BY <1>1, <1>2, <3>1, LoopStates DEF LoopState
  <2>3. CASE Hold \/ RefusedArrival
    BY <1>1, <2>3, LoopStates DEF Hold, RefusedArrival
  <2>4. CASE ScaleDown
    <3>1. loop' = [loop EXCEPT !.at = "find"]
      BY <2>4 DEF ScaleDown
    <3> QED
      BY <1>1, <1>2, <3>1, LoopStates DEF LoopState
  <2> QED
    BY <2>1, <2>2, <2>3, <2>4
<1>4. UNCHANGED <<submitVars, workerVars, poolVars, sick, batch, metricsVars, operatorVars>>
  BY DEF RefusedArrival, BeginStep, Recorded, Hold, ScaleDown
<1>5. Quiet' /\ Adding' /\ Removing'
  BY <1>2, <1>3, <1>4 DEF Quiet, Adding, Removing
<1> QED
  BY <1>2, <1>3, <1>4, <1>5, LoopMoves DEF IInv

(* A worker is visited and what it has made is collected.                     *)
LEMMA VisitIInv ==
    ASSUME IInv, Visit
    PROVE  IInv'
<1> USE DEF submitVars, poolVars, metricsVars, operatorVars
<1>1. LoopReqs \subseteq Reqs
  BY DEF Reqs
<1>2. /\ TypeOK /\ Submitting /\ Quiet /\ loop.at = "visit" /\ loop.due = {}
      /\ \A id \in Reqs : batch[id] = 0
  BY DEF IInv, Visit, Submitting, Quiet
<1>3. UNCHANGED <<plan, call, target, loc, left, lost, pool, nextId, epoch, sick, rec, tokens,
                  unrecorded, killed, resetting>>
  BY DEF Visit
<1>4. CASE ready' = ready /\ batch' = batch
  <2>1. loop' \in LoopState /\ loop'.due = {} /\ loop'.at \notin {"add", "remove"}
    <3>1. loop' = Asleep \/ loop' = [loop EXCEPT !.at = "scale"] \/
            \E n : n \in DOMAIN pool /\ loop' = [loop EXCEPT !.at = "record", !.pos = n + 1]
      <4>1. Unvisited # {} => Min(Unvisited) \in DOMAIN pool
        BY <1>2, First DEF TypeOK, Unvisited
      <4> QED
        BY <4>1 DEF Visit
    <3>2. \A n \in DOMAIN pool : n + 1 \in 0..(MaxName + 1)
      BY <1>2, ServingAssumption DEF TypeOK, Names
    <3>3. CASE loop' = Asleep
      BY <1>2, <3>3, LoopStates
    <3>4. CASE loop' = [loop EXCEPT !.at = "scale"]
      BY <1>2, <3>4, LoopStates DEF LoopState
    <3>5. CASE \E n : n \in DOMAIN pool /\ loop' = [loop EXCEPT !.at = "record", !.pos = n + 1]
      <4>1. PICK n \in DOMAIN pool : loop' = [loop EXCEPT !.at = "record", !.pos = n + 1]
        BY <3>5
      <4>2. PICK p \in 0..(MaxName + 1) : loop' = [loop EXCEPT !.at = "record", !.pos = p]
        BY <3>2, <4>1
      <4>3. loop \in LoopState
        BY <1>2, LoopStates
      <4> QED
        BY <1>2, <4>2, <4>3 DEF LoopState
    <3> QED
      BY <3>1, <3>3, <3>4, <3>5
  <2>2. UNCHANGED <<submitVars, workerVars, poolVars, sick, batch, metricsVars, operatorVars>>
    BY <1>3, <1>4 DEF workerVars
  <2>3. Quiet' /\ Adding' /\ Removing'
    BY <1>2, <1>4, <2>1 DEF Quiet, Adding, Removing
  <2> QED
    BY <1>2, <2>1, <2>2, <2>3, LoopMoves DEF IInv
<1>5. ASSUME NEW w, Collect(w), NEW n \in DOMAIN pool,
             loop' = [loop EXCEPT !.at = "record", !.pos = n + 1]
      PROVE  IInv'
  <2>1. /\ batch' = [id \in Reqs |-> IF id \in Held(w) THEN ready[id] ELSE 0]
        /\ ready' = [id \in Reqs |-> IF id \in Held(w) THEN 0 ELSE ready[id]]
    BY <1>5 DEF Collect
  <2>2. \A id \in Reqs : /\ batch'[id] \in 0..Want /\ ready'[id] \in 0..Want
                         /\ ready[id] \in 0..Want /\ ready'[id] <= ready[id]
                         /\ batch'[id] + ready'[id] = batch[id] + ready[id]
    BY <1>2, <2>1, ServingAssumption DEF TypeOK
  <2>3. /\ loop' \in LoopState /\ loop'.due = {} /\ loop'.at = "record"
    <3>1. n + 1 \in 0..(MaxName + 1)
      BY <1>2, ServingAssumption DEF TypeOK, Names
    <3> QED
      BY <1>2, <1>5, <3>1 DEF TypeOK, LoopState
  <2>4. TypeOK'
    <3>1. batch' \in [Reqs -> 0..Want] /\ ready' \in [Reqs -> 0..Want]
      BY <2>1, <2>2
    <3> QED
      BY <1>2, <1>3, <2>3, <3>1 DEF TypeOK, Idle, LoopState
  <2>5. Submitting'
    BY <1>2, <1>3, <2>3 DEF Submitting, InProgress
  <2>6. \A id \in Reqs : left[id] \in Nat /\ tokens[id] \in Nat /\ batch[id] \in Nat /\ ready[id] \in Nat
                        /\ ready'[id] \in Nat /\ batch'[id] \in Nat
    BY <1>2, <2>2, ServingAssumption DEF TypeOK
  <2>7. \A r \in Reqs : Underway(r)'
    <3> SUFFICES ASSUME NEW r \in Reqs PROVE Underway(r)'
      OBVIOUS
    <3>1. Underway(r)
      BY DEF IInv
    <3>2. left'[r] + ready'[r] + batch'[r] = left[r] + ready[r] + batch[r]
      BY <1>3, <2>2, <2>6
    <3> QED
      BY <1>3, <3>1, <3>2 DEF Underway
  <2>8. \A r \in LoopReqs : OnRecord(r)'
    <3> SUFFICES ASSUME NEW r \in LoopReqs PROVE OnRecord(r)'
      OBVIOUS
    <3>1. OnRecord(r) /\ r \in Reqs
      BY <1>1 DEF IInv
    <3>2. tokens'[r] + batch'[r] + ready'[r] + left'[r] = tokens[r] + batch[r] + ready[r] + left[r]
      BY <1>3, <2>2, <2>6, <3>1
    <3> QED
      BY <1>3, <3>1, <3>2 DEF OnRecord
  <2>9. \A r \in Reqs : left'[r] + ready'[r] > 0 => left[r] + ready[r] > 0
    BY <1>3, <2>2, <2>6
  <2>10. LoopNotStranded'
    <3>1. Objects' = Objects
      BY <1>3 DEF Objects
    <3> QED
      BY <1>1, <1>3, <2>9, <3>1 DEF IInv, LoopNotStranded
  <2>11. Naming' /\ LoopEventsRecorded' /\ Quiet' /\ Adding' /\ Removing'
    BY <1>3, <2>3, NamingKept DEF IInv, LoopEventsRecorded, Quiet, Adding, Removing
  <2> QED
    BY <2>4, <2>5, <2>7, <2>8, <2>10, <2>11 DEF IInv
<1>6. CASE Cardinality(DOMAIN pool) # loop.size \/ Unvisited = {}
  BY <1>4, <1>6 DEF Visit
<1>7. CASE Cardinality(DOMAIN pool) = loop.size /\ Unvisited # {}
  <2>1. Min(Unvisited) \in DOMAIN pool
    BY <1>2, <1>7, First DEF TypeOK, Unvisited
  <2>2. Collect(Object(Min(Unvisited))) /\ loop' = [loop EXCEPT !.at = "record", !.pos = Min(Unvisited) + 1]
    BY <1>7 DEF Visit
  <2> QED
    BY <1>5, <2>1, <2>2
<1> QED
  BY <1>6, <1>7

(* A step that raises loses what its prefill had taken, and nothing else.      *)
LEMMA StepRaisesIInv ==
    ASSUME IInv, StepRaises
    PROVE  IInv'
<1> USE DEF submitVars, poolVars, metricsVars, operatorVars
<1>1. LoopReqs \subseteq Reqs
  BY DEF Reqs
<1>2. /\ TypeOK /\ Submitting /\ Quiet /\ loop.at = "visit" /\ loop.due = {}
      /\ \A id \in Reqs : batch[id] = 0
  BY DEF IInv, StepRaises, Submitting, Quiet
<1>3. PICK gone \in SUBSET {id \in Held(Object(Min(Unvisited))) : left[id] = Want} :
        /\ left' = [id \in Reqs |-> IF id \in gone THEN 0 ELSE left[id]]
        /\ lost' = lost \cup gone
  BY DEF StepRaises
<1>4. /\ loop' = Asleep
      /\ UNCHANGED <<plan, call, target, loc, ready, pool, nextId, epoch, sick, batch,
                     rec, tokens, unrecorded, killed, resetting>>
  BY DEF StepRaises
<1>5. loop' \in LoopState /\ loop'.due = {} /\ loop'.at = "sleep"
  BY <1>2, <1>4, LoopStates
<1>6. gone \subseteq Reqs /\ \A id \in gone : left[id] = Want
  BY DEF Held
<1>7. \A id \in Reqs : /\ left[id] \in 0..Want /\ ready[id] \in 0..Want /\ batch[id] \in 0..Want
                       /\ left'[id] = (IF id \in gone THEN 0 ELSE left[id])
                       /\ Want \in Nat \ {0}
  BY <1>2, <1>3, ServingAssumption DEF TypeOK
<1>8. TypeOK'
  <2>1. left' \in [Reqs -> 0..Want] /\ lost' \subseteq Reqs
    BY <1>2, <1>3, <1>6, ServingAssumption DEF TypeOK
  <2> QED
    BY <1>2, <1>4, <1>5, <2>1 DEF TypeOK, Idle, LoopState
<1>9. Submitting'
  BY <1>2, <1>4, <1>5 DEF Submitting, InProgress
<1>10. \A id \in gone : ready[id] = 0 /\ batch[id] = 0 /\ rec[id] # "completed"
                        /\ call[id] \notin {"new", "routed", "failed"}
  <2> SUFFICES ASSUME NEW id \in gone
               PROVE  ready[id] = 0 /\ batch[id] = 0 /\ rec[id] # "completed"
                      /\ call[id] \notin {"new", "routed", "failed"}
    OBVIOUS
  <2>1. Underway(id) /\ id \in Reqs /\ left[id] = Want
    BY <1>6 DEF IInv
  <2> QED
    BY <1>7, <2>1 DEF Underway
<1>11. \A r \in Reqs : Underway(r)'
  <2> SUFFICES ASSUME NEW r \in Reqs PROVE Underway(r)'
    OBVIOUS
  <2>1. Underway(r)
    BY DEF IInv
  <2>2. CASE r \in gone
    <3>1. left'[r] = 0 /\ ready'[r] = 0 /\ batch'[r] = 0 /\ call[r] \notin {"new", "routed", "failed"}
          /\ rec[r] # "completed"
      BY <1>4, <1>7, <1>10, <2>2
    <3> QED
      BY <1>4, <1>7, <2>1, <3>1 DEF Underway
  <2>3. CASE r \notin gone
    <3>1. left'[r] = left[r] /\ (r \in lost' <=> r \in lost)
      BY <1>3, <1>7, <2>3
    <3> QED
      BY <1>4, <2>1, <3>1 DEF Underway
  <2> QED
    BY <2>2, <2>3
<1>12. \A r \in LoopReqs : OnRecord(r)'
  <2> SUFFICES ASSUME NEW r \in LoopReqs PROVE OnRecord(r)'
    OBVIOUS
  <2>1. OnRecord(r) /\ r \in Reqs
    BY <1>1 DEF IInv
  <2>2. r \notin lost' => r \notin lost /\ left'[r] = left[r]
    BY <1>3, <1>7, <2>1
  <2> QED
    BY <1>4, <2>1, <2>2 DEF OnRecord
<1>13. \A r \in Reqs : left'[r] + ready'[r] > 0 => left[r] + ready[r] > 0
  BY <1>4, <1>7
<1>14. LoopNotStranded'
  <2>1. Objects' = Objects
    BY <1>4 DEF Objects
  <2> QED
    BY <1>1, <1>4, <1>13, <2>1 DEF IInv, LoopNotStranded
<1>15. Naming' /\ LoopEventsRecorded' /\ Quiet' /\ Adding' /\ Removing'
  BY <1>2, <1>4, <1>5, NamingKept DEF IInv, LoopEventsRecorded, Quiet, Adding, Removing
<1> QED
  BY <1>8, <1>9, <1>11, <1>12, <1>14, <1>15 DEF IInv

(* A collected event is put on record.                                        *)
LEMMA OnTokenIInv ==
    ASSUME IInv, NEW id \in Reqs, OnToken(id)
    PROVE  IInv'
<1> USE DEF submitVars, workerVars, poolVars, operatorVars
<1>1. LoopReqs \subseteq Reqs
  BY DEF Reqs
<1>2. TypeOK /\ Submitting /\ Underway(id) /\ loop.at = "record" /\ batch[id] > 0
  BY DEF IInv, OnToken
<1>3. /\ batch' = [batch EXCEPT ![id] = @ - 1]
      /\ UNCHANGED <<plan, call, target, loc, left, ready, lost, pool, nextId, epoch, sick, loop,
                     killed, resetting>>
  BY DEF OnToken
<1>4. /\ left[id] \in 0..Want /\ ready[id] \in 0..Want /\ batch[id] \in 0..Want /\ Want \in Nat
      /\ tokens[id] \in Nat /\ batch[id] - 1 \in 0..Want
  BY <1>2, ServingAssumption DEF TypeOK
<1>5. batch'[id] = batch[id] - 1 /\ \A r \in Reqs \ {id} : batch'[r] = batch[r]
  BY <1>2, <1>3 DEF TypeOK
<1>6. batch' \in [Reqs -> 0..Want]
  BY <1>2, <1>3, <1>4 DEF TypeOK
<1>7. Submitting' /\ Naming' /\ LoopNotStranded' /\ Quiet' /\ Adding' /\ Removing'
  BY <1>2, <1>3, NamingKept, StrandedKept, LoopKept DEF IInv, Submitting, InProgress, Quiet
<1>8. CASE rec[id] # "open"
  <2>1. unrecorded' = unrecorded \cup {id} /\ UNCHANGED <<rec, tokens>>
    BY <1>8 DEF OnToken
  <2>2. TypeOK'
    BY <1>2, <1>3, <1>6, <2>1 DEF TypeOK, Idle
  <2>3. rec[id] = "none"
    BY <1>2, <1>4, <1>8 DEF Underway, TypeOK
  <2>4. \A r \in Reqs : Underway(r)'
    <3> SUFFICES ASSUME NEW r \in Reqs PROVE Underway(r)'
      OBVIOUS
    <3>1. Underway(r)
      BY DEF IInv
    <3>2. CASE r = id
      BY <1>2, <1>3, <1>4, <1>5, <2>1, <2>3, <3>2 DEF Underway
    <3>3. CASE r # id
      BY <1>3, <1>5, <2>1, <3>1, <3>3 DEF Underway
    <3> QED
      BY <3>2, <3>3
  <2>5. epoch = 0 => id \notin LoopReqs
    <3> SUFFICES ASSUME epoch = 0, id \in LoopReqs PROVE FALSE
      OBVIOUS
    <3>1. OnRecord(id) /\ ~InProgress(id)
      BY <1>2 DEF IInv, Submitting
    <3>2. call[id] = "done"
      BY <1>2, <1>4, <3>1 DEF Underway, InProgress, TypeOK
    <3> QED
      BY <2>3, <3>1, <3>2 DEF OnRecord
  <2>6. \A r \in LoopReqs : OnRecord(r)'
    <3> SUFFICES ASSUME NEW r \in LoopReqs PROVE OnRecord(r)'
      OBVIOUS
    <3>1. OnRecord(r) /\ r \in Reqs
      BY <1>1 DEF IInv
    <3>2. epoch = 0 => r # id
      BY <2>5
    <3> QED
      BY <1>3, <1>5, <2>1, <3>1, <3>2 DEF OnRecord
  <2>7. LoopEventsRecorded'
    BY <1>3, <2>1, <2>5 DEF IInv, LoopEventsRecorded
  <2> QED
    BY <1>7, <2>2, <2>4, <2>6, <2>7 DEF IInv
<1>9. CASE rec[id] = "open"
  <2>1. /\ tokens' = [tokens EXCEPT ![id] = @ + 1]
        /\ rec' = [rec EXCEPT ![id] = IF IsFinal(id) THEN "completed" ELSE @]
        /\ unrecorded' = unrecorded
    BY <1>9 DEF OnToken
  <2>2. TypeOK'
    BY <1>2, <1>3, <1>6, <2>1 DEF TypeOK, Idle
  <2>3. /\ tokens'[id] = tokens[id] + 1
        /\ rec'[id] = IF IsFinal(id) THEN "completed" ELSE "open"
        /\ \A r \in Reqs \ {id} : tokens'[r] = tokens[r] /\ rec'[r] = rec[r]
    BY <1>2, <1>9, <2>1 DEF TypeOK, Underway
  <2>4. call[id] \in {"recorded", "done"}
    BY <1>2, <1>9 DEF TypeOK, Underway
  <2>5. \A r \in Reqs : Underway(r)'
    <3> SUFFICES ASSUME NEW r \in Reqs PROVE Underway(r)'
      OBVIOUS
    <3>1. Underway(r)
      BY DEF IInv
    <3>2. CASE r = id
      <4>1. id \notin lost
        BY <1>2, <1>4 DEF Underway
      <4>2. left[id] + ready[id] + (batch[id] - 1) <= Want
        BY <1>2, <1>4 DEF Underway
      <4>3. IsFinal(id) => left[id] + ready[id] + (batch[id] - 1) = 0
        BY <1>4 DEF IsFinal
      <4> QED
        BY <1>2, <1>3, <1>4, <1>5, <2>3, <2>4, <3>2, <4>1, <4>2, <4>3 DEF Underway
    <3>3. CASE r # id
      BY <1>3, <1>5, <2>3, <3>1, <3>3 DEF Underway
    <3> QED
      BY <3>2, <3>3
  <2>6. \A r \in LoopReqs : OnRecord(r)'
    <3> SUFFICES ASSUME NEW r \in LoopReqs PROVE OnRecord(r)'
      OBVIOUS
    <3>1. OnRecord(r) /\ r \in Reqs
      BY <1>1 DEF IInv
    <3>2. CASE r = id
      BY <1>3, <1>4, <1>5, <2>3, <3>1, <3>2 DEF OnRecord
    <3>3. CASE r # id
      BY <1>3, <1>5, <2>3, <3>1, <3>3 DEF OnRecord
    <3> QED
      BY <3>2, <3>3
  <2>7. LoopEventsRecorded'
    BY <1>3, <2>1 DEF IInv, LoopEventsRecorded
  <2> QED
    BY <1>7, <2>2, <2>5, <2>6, <2>7 DEF IInv
<1> QED
  BY <1>8, <1>9

(* Nothing that happens to the pool alone touches a request or its record.    *)
LEMMA PoolMoves ==
    ASSUME IInv, loop'.due = loop.due, loop'.at = loop.at \/ loop.due = {},
           epoch' = epoch \/ epoch' = epoch + 1,
           UNCHANGED <<submitVars, workerVars, sick, batch, metricsVars>>
    PROVE  /\ Submitting' /\ (\A r \in Reqs : Underway(r)') /\ (\A r \in LoopReqs : OnRecord(r)')
           /\ LoopEventsRecorded'
<1> USE DEF submitVars, workerVars, metricsVars
<1>1. LoopReqs \subseteq Reqs /\ epoch \in Nat
  BY DEF Reqs, IInv, TypeOK, Epochs
<1>2. epoch' = 0 => epoch = 0
  BY <1>1
<1>3. \A r \in LoopReqs : OnRecord(r)'
  <2> SUFFICES ASSUME NEW r \in LoopReqs PROVE OnRecord(r)'
    OBVIOUS
  <2>1. OnRecord(r)
    BY DEF IInv
  <2> QED
    BY <1>2, <2>1 DEF OnRecord
<1> QED
  BY <1>2, <1>3, RequestsKept DEF IInv, Submitting, InProgress, LoopEventsRecorded

(* A name is taken for a worker that is to be built.                          *)
LEMMA ScaleUpIInv ==
    ASSUME IInv, ScaleUp
    PROVE  IInv'
<1>1. /\ TypeOK /\ Submitting /\ Naming /\ Quiet /\ loop.at = "scale" /\ loop.due = {}
      /\ nextId \in Nat /\ epoch \in Nat /\ nextId \in 0..(MaxName + 1)
  BY DEF IInv, ScaleUp, Submitting, TypeOK, Epochs
<1>2. /\ nextId' = nextId + 1
      /\ loop' = [loop EXCEPT !.at = "add", !.pos = nextId, !.of = epoch]
      /\ UNCHANGED <<submitVars, workerVars, pool, epoch, sick, batch, metricsVars, operatorVars>>
      /\ nextId + (IF resetting = Idle THEN 0 ELSE resetting) <= plan.names
  BY DEF ScaleUp
<1>3. loop' \in LoopState /\ loop'.due = {} /\ loop'.at = "add" /\ loop'.pos = nextId /\ loop'.of = epoch
  BY <1>1, <1>2 DEF TypeOK, LoopState
<1>4. resetting \in Nat
  BY <1>1, PlanBounds DEF TypeOK, Idle
<1>5. nextId <= plan.names /\ nextId \in Names /\ nextId + 1 \in 0..(MaxName + 1)
  BY <1>1, <1>2, <1>4, PlanBounds DEF Names
<1>6. TypeOK'
  BY <1>1, <1>2, <1>3, <1>5 DEF TypeOK, LoopState, Idle, submitVars, workerVars, metricsVars, operatorVars
<1>7. /\ Submitting' /\ (\A r \in Reqs : Underway(r)') /\ (\A r \in LoopReqs : OnRecord(r)')
      /\ LoopEventsRecorded'
  BY <1>1, <1>2, <1>3, PoolMoves
<1>8. \A n \in DOMAIN pool : n \in Nat /\ (pool[n] = epoch => n < nextId)
  BY <1>1, ServingAssumption DEF TypeOK, Names, Naming
<1>9. Naming'
  <2>1. /\ nextId' + (IF resetting = Idle THEN 0 ELSE resetting) <= plan.names + 1
        /\ \A n \in DOMAIN pool : pool[n] = epoch => n < nextId'
    BY <1>1, <1>2, <1>4, <1>5, <1>8, PlanBounds
  <2> QED
    BY <1>1, <1>2, <2>1 DEF Naming, Idle, submitVars, workerVars, operatorVars
<1>10. Adding'
  <2>1. nextId \in DOMAIN pool => pool[nextId] # epoch
    BY <1>1, <1>8
  <2> QED
    BY <1>1, <1>2, <1>3, <1>5, <2>1 DEF Adding
<1>11. Removing' /\ Quiet' /\ LoopNotStranded'
  BY <1>1, <1>2, <1>3, StrandedKept DEF IInv, Removing, Quiet, workerVars, operatorVars
<1> QED
  BY <1>6, <1>7, <1>9, <1>10, <1>11 DEF IInv

(* The worker that was being built takes its name, and the place of whatever   *)
(* had it before.                                                            *)
LEMMA AddedIInv ==
    ASSUME IInv, Added
    PROVE  IInv'
<1>1. /\ TypeOK /\ Submitting /\ Naming /\ Adding /\ Quiet /\ LoopNotStranded
      /\ loop.at = "add" /\ loop.due = {}
  BY DEF IInv, Added, Submitting
<1>2. /\ pool' = [n \in DOMAIN pool \cup {loop.pos} |-> IF n = loop.pos THEN loop.of ELSE pool[n]]
      /\ loop' = Asleep
      /\ UNCHANGED <<submitVars, workerVars, nextId, epoch, sick, batch, metricsVars, operatorVars>>
  BY DEF Added
<1>3. loop' \in LoopState /\ loop'.due = {} /\ loop'.at = "sleep"
  BY <1>1, <1>2, LoopStates
<1>4. /\ loop.pos \in Names /\ loop.of \in Epochs /\ loop.of <= epoch
      /\ loop.of = epoch => loop.pos < nextId /\ (loop.pos \in DOMAIN pool => pool[loop.pos] # epoch)
      /\ loop.of < epoch => \A r \in LoopReqs : Owed(r) > 0 => loc[r][2] # epoch
      /\ loop.of \in Nat /\ epoch \in Nat
  BY <1>1 DEF Adding, TypeOK, Epochs
<1>5. /\ DOMAIN pool' = DOMAIN pool \cup {loop.pos}
      /\ \A n \in DOMAIN pool' : pool'[n] = IF n = loop.pos THEN loop.of ELSE pool[n]
  BY <1>2
<1>6. TypeOK'
  <2>1. DOMAIN pool' \subseteq Names /\ \A n \in DOMAIN pool' : pool'[n] \in Epochs
    BY <1>1, <1>4, <1>5 DEF TypeOK
  <2> QED
    BY <1>1, <1>2, <1>3, <2>1 DEF TypeOK, LoopState, Idle, submitVars, workerVars, metricsVars, operatorVars
<1>7. /\ Submitting' /\ (\A r \in Reqs : Underway(r)') /\ (\A r \in LoopReqs : OnRecord(r)')
      /\ LoopEventsRecorded'
  BY <1>1, <1>2, <1>3, PoolMoves
<1>8. Naming'
  <2>1. \A n \in DOMAIN pool' : pool'[n] <= epoch /\ (pool'[n] = epoch => n < nextId)
    BY <1>1, <1>4, <1>5 DEF Naming
  <2> QED
    BY <1>1, <1>2, <2>1 DEF Naming, Idle, submitVars, workerVars, operatorVars
<1>9. LoopNotStranded'
  <2> SUFFICES ASSUME NEW r \in LoopReqs, loc[r][2] = epoch, Owed(r) > 0
               PROVE  loc[r] \in Objects' \cup killed
    BY <1>2 DEF LoopNotStranded, Owed, workerVars, operatorVars
  <2>1. loop.of = epoch /\ (loop.pos \in DOMAIN pool => pool[loop.pos] # epoch)
    BY <1>4
  <2>2. loc[r] \in Objects \/ loc[r] \in killed
    BY <1>1 DEF LoopNotStranded, Owed
  <2>3. CASE loc[r] \in Objects
    <3>1. PICK n \in DOMAIN pool : loc[r] = <<n, pool[n]>>
      BY <2>3 DEF Objects
    <3>2. n # loop.pos /\ n \in DOMAIN pool' /\ pool'[n] = pool[n]
      BY <1>5, <2>1, <3>1
    <3> QED
      BY <3>1, <3>2 DEF Objects
  <2> QED
    BY <2>2, <2>3
<1>10. Adding' /\ Removing' /\ Quiet'
  BY <1>1, <1>2, <1>3 DEF Adding, Removing, Quiet
<1> QED
  BY <1>6, <1>7, <1>8, <1>9, <1>10 DEF IInv

(* A worker is taken for removal that owes nothing, and neither does any other *)
(* object of its name in this epoch, except one that was killed.              *)
LEMMA FindIdleIInv ==
    ASSUME IInv, FindIdle
    PROVE  IInv'
<1>1. /\ TypeOK /\ Submitting /\ Naming /\ Quiet /\ LoopNotStranded
      /\ loop.at = "find" /\ loop.due = {} /\ LoopReqs \subseteq Reqs
  BY DEF IInv, FindIdle, Submitting, Reqs
<1>2. \/ \E n \in DOMAIN pool : IsIdle(n) /\ loop' = [loop EXCEPT !.at = "remove", !.pos = n]
      \/ loop' = Asleep
  BY DEF FindIdle
<1>3. \A n \in DOMAIN pool : n \in 0..(MaxName + 1)
  BY <1>1, ServingAssumption DEF TypeOK, Names
<1>4. /\ loop' \in LoopState /\ loop'.due = {} /\ loop'.at \in {"sleep", "remove"}
      /\ loop'.at = "remove" => loop'.pos \in DOMAIN pool /\ IsIdle(loop'.pos)
  <2>1. CASE loop' = Asleep
    BY <1>1, <2>1, LoopStates
  <2>2. ASSUME NEW n \in DOMAIN pool, IsIdle(n), loop' = [loop EXCEPT !.at = "remove", !.pos = n]
        PROVE  /\ loop' \in LoopState /\ loop'.due = {} /\ loop'.at = "remove" /\ loop'.pos = n
    BY <1>1, <1>3, <2>2 DEF TypeOK, LoopState
  <2> QED
    BY <1>2, <2>1, <2>2
<1>5. UNCHANGED <<submitVars, workerVars, poolVars, sick, batch, metricsVars, operatorVars>>
  BY DEF FindIdle
<1>6. Removing'
  <2> DEFINE n == loop'.pos
  <2> SUFFICES ASSUME loop'.at = "remove",
                      NEW r \in LoopReqs, loc[r][2] = epoch, loc[r][1] = n, Owed(r) > 0
               PROVE  loc[r] \in killed
    BY <1>5 DEF Removing, Owed, workerVars, poolVars, operatorVars
  <2>1. loc[r] \in Objects \/ loc[r] \in killed
    BY <1>1 DEF LoopNotStranded, Owed
  <2>2. ASSUME loc[r] \in Objects PROVE FALSE
    <3>1. loc[r] = Object(n)
      BY <2>2 DEF Objects, Object
    <3> HIDE DEF n
    <3>2. IsIdle(n)
      BY <1>4 DEF n
    <3> QED
      BY <1>1, <3>1, <3>2 DEF IsIdle, Held, Owed
  <2> QED
    BY <2>1, <2>2
<1>7. Quiet' /\ Adding'
  BY <1>1, <1>4, <1>5 DEF Quiet, Adding
<1> QED
  BY <1>1, <1>4, <1>5, <1>6, <1>7, LoopMoves DEF IInv

(* The idle worker is removed: none of the requests of the loop is at it.      *)
LEMMA RemoveIdleIInv ==
    ASSUME IInv, RemoveIdle
    PROVE  IInv'
<1>1. /\ TypeOK /\ Submitting /\ Naming /\ Removing /\ Quiet /\ LoopNotStranded
      /\ loop.at = "remove" /\ loop.due = {}
  BY DEF IInv, RemoveIdle, Submitting
<1>2. /\ pool' = [n \in DOMAIN pool \ {loop.pos} |-> pool[n]]
      /\ loop' = Asleep
      /\ UNCHANGED <<submitVars, workerVars, nextId, epoch, sick, batch, metricsVars, operatorVars>>
  BY DEF RemoveIdle
<1>3. loop' \in LoopState /\ loop'.due = {} /\ loop'.at = "sleep"
  BY <1>1, <1>2, LoopStates
<1>4. DOMAIN pool' = DOMAIN pool \ {loop.pos} /\ \A n \in DOMAIN pool' : pool'[n] = pool[n]
  BY <1>2
<1>5. TypeOK'
  <2>1. DOMAIN pool' \subseteq Names /\ \A n \in DOMAIN pool' : pool'[n] \in Epochs
    BY <1>1, <1>4 DEF TypeOK
  <2> QED
    BY <1>1, <1>2, <1>3, <2>1 DEF TypeOK, LoopState, Idle, submitVars, workerVars, metricsVars, operatorVars
<1>6. /\ Submitting' /\ (\A r \in Reqs : Underway(r)') /\ (\A r \in LoopReqs : OnRecord(r)')
      /\ LoopEventsRecorded'
  BY <1>1, <1>2, <1>3, PoolMoves
<1>7. Naming'
  <2>1. \A n \in DOMAIN pool' : pool'[n] <= epoch /\ (pool'[n] = epoch => n < nextId)
    BY <1>1, <1>4 DEF Naming
  <2> QED
    BY <1>1, <1>2, <2>1 DEF Naming, Idle, submitVars, workerVars, operatorVars
<1>8. LoopNotStranded'
  <2> SUFFICES ASSUME NEW r \in LoopReqs, loc[r][2] = epoch, Owed(r) > 0
               PROVE  loc[r] \in Objects' \cup killed
    BY <1>2 DEF LoopNotStranded, Owed, workerVars, operatorVars
  <2>1. loc[r] \in Objects \/ loc[r] \in killed
    BY <1>1 DEF LoopNotStranded, Owed
  <2>2. CASE loc[r] \in Objects /\ loc[r] \notin killed
    <3>1. PICK n \in DOMAIN pool : loc[r] = <<n, pool[n]>>
      BY <2>2 DEF Objects
    <3>2. n # loop.pos
      BY <1>1, <2>2, <3>1 DEF Removing
    <3> QED
      BY <1>4, <3>1, <3>2 DEF Objects
  <2> QED
    BY <2>1, <2>2
<1>9. Adding' /\ Removing' /\ Quiet'
  BY <1>1, <1>2, <1>3 DEF Adding, Removing, Quiet
<1> QED
  BY <1>5, <1>6, <1>7, <1>8, <1>9 DEF IInv

(* A kill takes a worker out of the pool and is remembered.                   *)
LEMMA KillIInv ==
    ASSUME IInv, Kill
    PROVE  IInv'
<1>1. TypeOK /\ Submitting /\ Naming /\ Adding /\ Removing /\ Quiet /\ LoopNotStranded
  BY DEF IInv
<1>2. PICK n \in DOMAIN pool : /\ pool' = [m \in DOMAIN pool \ {n} |-> pool[m]]
                               /\ killed' = killed \cup {Object(n)}
  BY DEF Kill
<1>3. UNCHANGED <<submitVars, workerVars, nextId, epoch, sick, loop, batch, metricsVars, resetting>>
  BY DEF Kill
<1>4. DOMAIN pool' = DOMAIN pool \ {n} /\ \A m \in DOMAIN pool' : pool'[m] = pool[m]
  BY <1>2
<1>5. TypeOK'
  <2>1. /\ DOMAIN pool' \subseteq Names /\ \A m \in DOMAIN pool' : pool'[m] \in Epochs
        /\ Object(n) \in Names \X Epochs
    BY <1>1, <1>4 DEF TypeOK, Object
  <2> QED
    BY <1>1, <1>2, <1>3, <2>1 DEF TypeOK, Idle, submitVars, workerVars, metricsVars
<1>6. /\ Submitting' /\ (\A r \in Reqs : Underway(r)') /\ (\A r \in LoopReqs : OnRecord(r)')
      /\ LoopEventsRecorded'
  BY <1>3, PoolMoves
<1>7. Naming'
  <2>1. \A m \in DOMAIN pool' : pool'[m] <= epoch /\ (pool'[m] = epoch => m < nextId)
    BY <1>1, <1>4 DEF Naming
  <2> QED
    BY <1>1, <1>3, <2>1 DEF Naming, Idle, submitVars, workerVars
<1>8. LoopNotStranded'
  <2> SUFFICES ASSUME NEW r \in LoopReqs, loc[r][2] = epoch, Owed(r) > 0
               PROVE  loc[r] \in Objects' \cup killed'
    BY <1>3 DEF LoopNotStranded, Owed, workerVars
  <2>1. loc[r] \in Objects \/ loc[r] \in killed
    BY <1>1 DEF LoopNotStranded, Owed
  <2>2. CASE loc[r] \in Objects
    <3>1. PICK m \in DOMAIN pool : loc[r] = <<m, pool[m]>>
      BY <2>2 DEF Objects
    <3>2. CASE m = n
      BY <1>2, <3>1, <3>2 DEF Object
    <3>3. CASE m # n
      BY <1>4, <3>1, <3>3 DEF Objects
    <3> QED
      BY <3>2, <3>3
  <2> QED
    BY <1>2, <2>1, <2>2
<1>9. Adding'
  BY <1>1, <1>3, <1>4 DEF Adding, Owed, workerVars
<1>10. Removing' /\ Quiet'
  BY <1>1, <1>2, <1>3 DEF Removing, Owed, Quiet, workerVars, submitVars
<1> QED
  BY <1>5, <1>6, <1>7, <1>8, <1>9, <1>10 DEF IInv

(* A reset starts an epoch that no request, no worker and no factory is of.    *)
LEMMA BeginResetIInv ==
    ASSUME IInv, BeginReset
    PROVE  IInv'
<1>1. TypeOK /\ Submitting /\ Naming /\ Adding /\ Quiet /\ LoopReqs \subseteq Reqs
  BY DEF IInv, Reqs
<1>2. /\ epoch < plan.resets /\ epoch' = epoch + 1 /\ pool' = [n \in {} |-> 0]
      /\ nextId' = 0 /\ resetting' = plan.workers
      /\ UNCHANGED <<submitVars, workerVars, sick, loop, batch, metricsVars, killed>>
  BY DEF BeginReset
<1>3. epoch \in Nat /\ epoch + 1 \in Epochs /\ epoch + 1 <= plan.resets
  <2>1. epoch \in 0..MaxResets
    BY <1>1 DEF TypeOK, Epochs
  <2>2. plan.resets \in 0..MaxResets /\ MaxResets \in Nat
    BY <1>1, PlanBounds
  <2>3. epoch < plan.resets
    BY <1>2
  <2> QED
    BY ONLY <2>1, <2>2, <2>3 DEF Epochs
<1>4. DOMAIN pool' = {}
  BY <1>2
<1>5. TypeOK'
  <2>1. nextId' \in 0..(MaxName + 1) /\ resetting' \in 0..(plan.workers + 1)
    BY <1>1, <1>2, PlanBounds
  <2> QED
    BY <1>1, <1>2, <1>3, <1>4, <2>1 DEF TypeOK, Idle, submitVars, workerVars, metricsVars
<1>6. /\ Submitting' /\ (\A r \in Reqs : Underway(r)') /\ (\A r \in LoopReqs : OnRecord(r)')
      /\ LoopEventsRecorded'
  BY <1>2, PoolMoves
<1>7. \A r \in Reqs : loc[r][2] <= epoch /\ loc[r][2] \in Nat
  BY <1>1 DEF TypeOK, Naming, Epochs, NoWorker
<1>8. \A r \in Reqs : loc'[r][2] <= epoch' /\ loc'[r][2] # epoch'
  <2> SUFFICES ASSUME NEW r \in Reqs PROVE loc'[r][2] <= epoch' /\ loc'[r][2] # epoch'
    OBVIOUS
  <2>1. loc[r][2] <= epoch /\ loc[r][2] \in Nat /\ loc' = loc
    BY <1>2, <1>7 DEF workerVars
  <2> QED
    BY <1>2, <1>3, <2>1
<1>9. Naming'
  <2>1. /\ epoch' <= plan.resets /\ epoch' # 0
        /\ nextId' + (IF resetting' = plan.workers + 1 THEN 0 ELSE resetting') <= plan.names + 1
    BY <1>1, <1>2, <1>3, PlanBounds
  <2> QED
    BY <1>2, <1>4, <1>8, <2>1 DEF Naming, Idle, submitVars
<1>10. LoopNotStranded' /\ Removing' /\ Quiet'
  BY <1>1, <1>2, <1>8 DEF LoopNotStranded, Removing, Quiet, submitVars
<1>11. Adding'
  <2> SUFFICES ASSUME loop.at = "add" PROVE Adding'
    BY <1>2 DEF Adding
  <2>1. loop.pos \in Names /\ loop.of <= epoch /\ loop.of \in Nat
    BY <1>1 DEF Adding, TypeOK, Epochs
  <2>2. loop.of <= epoch' /\ loop.of # epoch'
    BY <1>2, <1>3, <2>1
  <2> QED
    BY <1>1, <1>2, <1>8, <2>1, <2>2 DEF Adding
<1> QED
  BY <1>5, <1>6, <1>9, <1>10, <1>11 DEF IInv

(* A starting worker is added under a name that its epoch has not given out.  *)
LEMMA ResetAddIInv ==
    ASSUME IInv, ResetAdd
    PROVE  IInv'
<1>1. TypeOK /\ Submitting /\ Naming /\ Adding /\ Removing /\ Quiet /\ LoopNotStranded
  BY DEF IInv
<1>2. /\ resetting \in 1..plan.workers /\ resetting' = resetting - 1 /\ nextId' = nextId + 1
      /\ pool' = [n \in DOMAIN pool \cup {nextId} |-> IF n = nextId THEN epoch ELSE pool[n]]
      /\ UNCHANGED <<submitVars, workerVars, epoch, sick, loop, batch, metricsVars, killed>>
  BY DEF ResetAdd
<1>3. /\ plan.workers \in Nat /\ plan.names \in Nat /\ plan.names <= MaxName /\ MaxName \in Nat
      /\ nextId \in Nat /\ resetting \in Nat /\ resetting >= 1 /\ resetting <= plan.workers
  BY <1>1, <1>2, PlanBounds DEF TypeOK
<1>4. nextId + resetting <= plan.names + 1 /\ epoch # 0
  <2>1. resetting # Idle
    BY <1>3 DEF Idle
  <2> QED
    BY <1>1, <2>1 DEF Naming
<1>5. nextId \in Names /\ nextId + 1 \in 0..(MaxName + 1) /\ resetting' \in 0..(plan.workers + 1)
  BY <1>2, <1>3, <1>4 DEF Names
<1>6. /\ DOMAIN pool' = DOMAIN pool \cup {nextId}
      /\ \A n \in DOMAIN pool' : pool'[n] = IF n = nextId THEN epoch ELSE pool[n]
  BY <1>2
<1>7. TypeOK'
  <2>1. DOMAIN pool' \subseteq Names /\ \A n \in DOMAIN pool' : pool'[n] \in Epochs
    BY <1>1, <1>5, <1>6 DEF TypeOK
  <2> QED
    BY <1>1, <1>2, <1>5, <2>1 DEF TypeOK, Idle, submitVars, workerVars, metricsVars
<1>8. /\ Submitting' /\ (\A r \in Reqs : Underway(r)') /\ (\A r \in LoopReqs : OnRecord(r)')
      /\ LoopEventsRecorded'
  BY <1>2, PoolMoves
<1>9. \A n \in DOMAIN pool : n \in Nat /\ pool[n] <= epoch /\ (pool[n] = epoch => n < nextId) /\ epoch \in Nat
  BY <1>1, ServingAssumption DEF TypeOK, Naming, Names, Epochs
<1>10. Naming'
  <2>1. \A n \in DOMAIN pool' : pool'[n] <= epoch /\ (pool'[n] = epoch => n < nextId + 1)
    <3> SUFFICES ASSUME NEW n \in DOMAIN pool'
                 PROVE  pool'[n] <= epoch /\ (pool'[n] = epoch => n < nextId + 1)
      OBVIOUS
    <3>1. CASE n = nextId
      BY <1>1, <1>3, <1>6, <3>1 DEF TypeOK, Epochs
    <3>2. CASE n # nextId
      BY <1>3, <1>6, <1>9, <3>2
    <3> QED
      BY <3>1, <3>2
  <2>2. nextId' + (IF resetting' = plan.workers + 1 THEN 0 ELSE resetting') <= plan.names + 1
    BY <1>2, <1>3, <1>4
  <2> QED
    BY <1>1, <1>2, <1>4, <2>1, <2>2 DEF Naming, Idle, submitVars, workerVars
<1>11. nextId \in DOMAIN pool => pool[nextId] # epoch
  BY <1>3, <1>9
<1>12. LoopNotStranded'
  <2> SUFFICES ASSUME NEW r \in LoopReqs, loc[r][2] = epoch, Owed(r) > 0
               PROVE  loc[r] \in Objects' \cup killed
    BY <1>2 DEF LoopNotStranded, Owed, workerVars
  <2>1. loc[r] \in Objects \/ loc[r] \in killed
    BY <1>1 DEF LoopNotStranded, Owed
  <2>2. CASE loc[r] \in Objects
    <3>1. PICK m \in DOMAIN pool : loc[r] = <<m, pool[m]>>
      BY <2>2 DEF Objects
    <3>2. m # nextId
      BY <1>11, <3>1
    <3> QED
      BY <1>6, <3>1, <3>2 DEF Objects
  <2> QED
    BY <2>1, <2>2
<1>13. Adding'
  <2> SUFFICES ASSUME loop.at = "add" PROVE Adding'
    BY <1>2 DEF Adding
  <2>1. /\ loop.pos \in Names /\ loop.of <= epoch /\ loop.pos \in Nat
        /\ loop.of = epoch => loop.pos < nextId /\ (loop.pos \in DOMAIN pool => pool[loop.pos] # epoch)
        /\ loop.of < epoch => \A r \in LoopReqs : Owed(r) > 0 => loc[r][2] # epoch
    BY <1>1, ServingAssumption DEF Adding, Names
  <2>2. loop.of = epoch => loop.pos < nextId' /\ (loop.pos \in DOMAIN pool' => pool'[loop.pos] # epoch)
    BY <1>2, <1>3, <1>6, <2>1
  <2> QED
    BY <1>2, <2>1, <2>2 DEF Adding, Owed, workerVars
<1>14. Removing' /\ Quiet'
  BY <1>1, <1>2 DEF Removing, Owed, Quiet, workerVars, submitVars
<1> QED
  BY <1>7, <1>8, <1>10, <1>12, <1>13, <1>14 DEF IInv

(* Last, the records are thrown away.                                         *)
LEMMA ResetMetricsIInv ==
    ASSUME IInv, ResetMetrics
    PROVE  IInv'
<1> USE DEF submitVars, workerVars, poolVars
<1>1. TypeOK /\ Submitting /\ Naming /\ Adding /\ Removing /\ Quiet
  BY DEF IInv
<1>2. /\ resetting = 0 /\ resetting' = Idle
      /\ rec' = [id \in Reqs |-> "none"] /\ tokens' = [id \in Reqs |-> 0]
      /\ UNCHANGED <<submitVars, workerVars, poolVars, sick, loop, batch, unrecorded, killed>>
  BY DEF ResetMetrics
<1>3. plan.workers \in Nat /\ plan.names \in Nat /\ 0 # Idle /\ nextId \in Nat
  BY <1>1, PlanBounds DEF Idle, TypeOK
<1>4. epoch # 0 /\ nextId <= plan.names + 1
  BY <1>1, <1>2, <1>3 DEF Naming
<1>5. TypeOK'
  BY <1>1, <1>2, <1>3 DEF TypeOK, Idle
<1>6. \A r \in Reqs : Underway(r)'
  <2> SUFFICES ASSUME NEW r \in Reqs PROVE Underway(r)'
    OBVIOUS
  <2>1. Underway(r)
    BY DEF IInv
  <2>2. rec'[r] = "none" /\ tokens'[r] = 0
    BY <1>2
  <2> QED
    BY <1>2, <2>1, <2>2 DEF Underway
<1>7. (\A r \in LoopReqs : OnRecord(r)') /\ LoopEventsRecorded'
  BY <1>2, <1>4 DEF OnRecord, LoopEventsRecorded
<1>8. Naming'
  <2>1. nextId + (IF resetting' = plan.workers + 1 THEN 0 ELSE resetting') <= plan.names + 1
    BY <1>2, <1>3, <1>4 DEF Idle
  <2> QED
    BY <1>1, <1>2, <1>4, <2>1 DEF Naming, Idle
<1>9. Submitting' /\ Quiet' /\ LoopNotStranded' /\ Adding' /\ Removing'
  BY <1>1, <1>2, StrandedKept, LoopKept DEF IInv, Submitting, InProgress, Quiet
<1> QED
  BY <1>5, <1>6, <1>7, <1>8, <1>9 DEF IInv

-------------------------------------------------------------------------------
LEMMA StutterIInv ==
    ASSUME IInv, UNCHANGED vars
    PROVE  IInv'
<1> USE DEF vars
<1>1. TypeOK'
  BY DEF IInv, TypeOK, Idle
<1>2. Submitting' /\ Quiet' /\ LoopEventsRecorded'
  BY DEF IInv, Submitting, InProgress, Quiet, LoopEventsRecorded
<1> QED
  BY <1>1, <1>2, RequestsKept, RecordsKept, NamingKept, StrandedKept, LoopKept DEF IInv

LEMMA NextIInv == IInv /\ [Next]_vars => IInv'
<1> SUFFICES ASSUME IInv, [Next]_vars PROVE IInv'
  OBVIOUS
<1>1. ASSUME NEW id \in Reqs, SubmitStep(id) PROVE IInv'
  BY <1>1, RouteIInv, AdmitIInv, OnSubmitIInv, OnRouteIInv DEF SubmitStep
<1>2. ASSUME NEW id \in Reqs, Produce(id) \/ FailStream(id) PROVE IInv'
  BY <1>2, MakeIInv
<1>3. ASSUME RunLoop PROVE IInv'
  BY <1>3, SampleIInv, TurnIInv, VisitIInv, StepRaisesIInv, OnTokenIInv, ScaleUpIInv,
     AddedIInv, FindIdleIInv, RemoveIdleIInv DEF RunLoop
<1> QED
  BY <1>1, <1>2, <1>3, KillIInv, BeginResetIInv, ResetAddIInv, ResetMetricsIInv, StutterIInv DEF Next

(* The inductive invariant holds in every behaviour.                          *)
THEOREM InductiveInvariant == Spec => []IInv
<1>1. Init => IInv
  BY InitIInv
<1>2. IInv /\ [Next]_vars => IInv'
  BY NextIInv
<1> QED
  BY <1>1, <1>2, PTL DEF Spec

(* PoolManager.submit opens the record after the worker has the request, but   *)
(* the run loop, which submits and steps by turns, never steps a worker in     *)
(* between: the events of its own requests find their record.                 *)
THEOREM LoopEventsFindTheirRecord == Spec => []LoopEventsRecorded
<1>1. IInv => LoopEventsRecorded
  BY DEF IInv
<1> QED
  BY <1>1, InductiveInvariant, PTL

(* The autoscaler removes, and a late factory replaces, no worker that still   *)
(* owes events to a request of the run loop, unless the operator killed it.   *)
THEOREM LoopStrandsNobody == Spec => []LoopNotStranded
<1>1. IInv => LoopNotStranded
  BY DEF IInv
<1> QED
  BY <1>1, InductiveInvariant, PTL

(* While no stream fails and nothing is reset, the tokens on record, those     *)
(* collected and those still owed make up all that was asked for, unless a     *)
(* prefill lost the request; a completed request has them all on record.      *)
THEOREM AccountsComplete == Spec => []AccountComplete
<1>1. IInv => AccountComplete
  <2>1. IInv => TypeOK
    BY DEF IInv
  <2> SUFFICES ASSUME IInv, sick = {}, epoch = 0, NEW id \in LoopReqs, rec[id] # "none"
               PROVE  /\ id \notin lost => tokens[id] + batch[id] + ready[id] + left[id] = Want
                      /\ rec[id] = "completed" => tokens[id] = Want
    BY <2>1 DEF AccountComplete
  <2>2. id \in Reqs /\ Underway(id) /\ OnRecord(id) /\ TypeOK
    BY DEF IInv, Reqs
  <2>3. call[id] \in {"recorded", "done"}
    BY <2>2 DEF Underway, TypeOK
  <2>4. id \notin lost => tokens[id] + batch[id] + ready[id] + left[id] = Want
    BY <2>2, <2>3 DEF OnRecord
  <2>5. rec[id] = "completed" => left[id] + ready[id] + batch[id] = 0 /\ id \notin lost
    BY <2>2 DEF Underway
  <2>6. left[id] \in Nat /\ ready[id] \in Nat /\ batch[id] \in Nat /\ tokens[id] \in Nat
    BY <2>2, ServingAssumption DEF TypeOK
  <2> QED
    BY <2>4, <2>5, <2>6
<1> QED
  BY <1>1, InductiveInvariant, PTL
===============================================================================

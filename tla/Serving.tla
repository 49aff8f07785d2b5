------------------------------- MODULE Serving -------------------------------
(***************************************************************************)
(* A request's way through the running gateway: the run loop of app.py,    *)
(* PoolManager.submit and step, Metrics, and the worker it lands on, with  *)
(* the threads that share them.  The run loop is one thread; every         *)
(* /api/submit, kill and reset runs in a thread of its own, and nothing is *)
(* locked, so a call is cut wherever another thread may run between two of *)
(* its reads and writes of shared state.                                   *)
(*                                                                         *)
(* Workers are objects <<name, epoch>>: a reset starts the names again at  *)
(* 0, so a name can come to stand for another object.  Of what a worker    *)
(* does only the Worker protocol is kept: it owes a request `want' events, *)
(* the last of them the final one, makes them at any time, and step()      *)
(* collects what is there: a streaming worker makes them in threads of its *)
(* own, a simulated one at the moment it is stepped, which is one of the   *)
(* moments allowed here.  A stream of a streaming worker may fail, and a   *)
(* step() of a real-model worker raise.  Routing is any healthy worker,    *)
(* and scaling goes up or down at will, but never below one worker: down   *)
(* is never decided at min_workers.                                        *)
(***************************************************************************)
EXTENDS Naturals, FiniteSets, FiniteSetsExt

CONSTANTS
    LoopReqs,     \* requests the load generator will draw
    ThreadReqs,   \* requests posted to /api/submit
    Want,         \* events each request gets
    MaxName,      \* bound on worker names
    MaxResets,    \* bound on resets
    Plans         \* a behaviour keeps to one of these: the backend, the requests that
                  \* come, the initial workers, and bounds on names, kills and resets

ASSUME ServingAssumption ==
    /\ LoopReqs \cap ThreadReqs = {}
    /\ Want \in Nat \ {0}
    /\ MaxName \in Nat
    /\ MaxResets \in Nat
    /\ \A p \in Plans :
         /\ p.backend \in {"openai", "realmodel"}
         /\ p.come \subseteq LoopReqs \cup ThreadReqs
         /\ p.names \in 0..MaxName /\ p.workers \in 0..(p.names + 1)
         /\ p.kills \in Nat /\ p.resets \in 0..MaxResets

Reqs == LoopReqs \cup ThreadReqs
Names == 0..MaxName
Epochs == 0..MaxResets
NoWorker == <<MaxName + 1, 0>>

VARIABLES
    plan,       \* the one of Plans that this behaviour keeps to
    call,       \* where the submit() of each request stands
    target,     \* the name route() returned
    loc,        \* the object that admitted the request
    left,       \* events its worker has yet to make
    ready,      \* events made and not yet collected
    lost,       \* requests a prefill that raised took from the queue (history)
    pool,       \* the dict: names to epochs
    nextId, epoch,
    sick,       \* objects that report themselves unhealthy
    loop,       \* the run loop: where it stands and what it works on
    batch,      \* events collected from a worker, not yet recorded
    rec, tokens,          \* Metrics: records, and the tokens of each
    unrecorded,           \* events Metrics did not know (history)
    killed,               \* objects the operator has killed (history)
    resetting             \* workers a reset has yet to add, or Idle

vars == <<plan, call, target, loc, left, ready, lost, pool, nextId, epoch, sick, loop, batch,
          rec, tokens, unrecorded, killed, resetting>>

submitVars  == <<plan, call, target>>
workerVars  == <<loc, left, ready, lost>>
poolVars    == <<pool, nextId, epoch>>
metricsVars == <<rec, tokens, unrecorded>>
operatorVars == <<killed, resetting>>

Idle == plan.workers + 1
Objects == {<<n, pool[n]>> : n \in DOMAIN pool}
Object(n) == <<n, pool[n]>>
(* The requests a worker still has events for.                                *)
Held(w) == {id \in Reqs : loc[id] = w /\ left[id] + ready[id] > 0}
InBatch == {id \in Reqs : batch[id] > 0}

(* The fields of PoolManager and Metrics; no worker makes more events for a    *)
(* request than it owes it.                                                   *)
TypeOK ==
    /\ plan \in Plans
    /\ call \in [Reqs -> {"new", "routed", "admitted", "recorded", "done", "failed"}]
    /\ target \in [Reqs -> Names \cup {MaxName + 1}]
    /\ loc \in [Reqs -> (Names \X Epochs) \cup {NoWorker}]
    /\ left \in [Reqs -> 0..Want]
    /\ ready \in [Reqs -> 0..Want]
    /\ lost \subseteq Reqs
    /\ batch \in [Reqs -> 0..Want]
    /\ DOMAIN pool \subseteq Names
    /\ \A n \in DOMAIN pool : pool[n] \in Epochs
    /\ nextId \in 0..(MaxName + 1)
    /\ epoch \in Epochs
    /\ sick \subseteq Names \X Epochs
    /\ killed \subseteq Names \X Epochs
    /\ resetting \in 0..Idle
    /\ loop \in [at : {"sleep", "submit", "visit", "record", "scale", "add", "find", "remove"},
                 due : SUBSET LoopReqs, size : 0..(MaxName + 1),
                 pos : 0..(MaxName + 1), of : Epochs]
    /\ rec \in [Reqs -> {"none", "open", "completed"}]
    /\ tokens \in [Reqs -> Nat]
    /\ unrecorded \in SUBSET Reqs

FreshWorkers(e) == [n \in 0..(plan.workers - 1) |-> e]

Asleep == [at |-> "sleep", due |-> {}, size |-> 0, pos |-> 0, of |-> 0]

Init ==
    /\ plan \in Plans
    /\ call = [id \in Reqs |-> "new"]
    /\ target = [id \in Reqs |-> MaxName + 1]
    /\ loc = [id \in Reqs |-> NoWorker]
    /\ left = [id \in Reqs |-> 0]
    /\ ready = [id \in Reqs |-> 0]
    /\ lost = {}
    /\ batch = [id \in Reqs |-> 0]
    /\ pool = FreshWorkers(0)
    /\ nextId = plan.workers
    /\ epoch = 0
    /\ sick = {}
    /\ loop = Asleep
    /\ rec = [id \in Reqs |-> "none"]
    /\ tokens = [id \in Reqs |-> 0]
    /\ unrecorded = {}
    /\ killed = {}
    /\ resetting = Idle

-------------------------------------------------------------------------------
(* PoolManager.submit, called by a request thread or by the run loop.  The    *)
(* loop submits one arrival at a time; an exception ends its tick.            *)

InProgress(id) == call[id] \in {"routed", "admitted", "recorded"}

MayStart(id) ==
    /\ call[id] = "new"
    /\ id \in plan.come
    /\ \/ id \in ThreadReqs
       \/ id \in loop.due /\ loop.at = "submit" /\ ~ \E r \in LoopReqs : InProgress(r)

(* An exception in the caller: a 500 for a thread; in the loop the tick is    *)
(* abandoned, and with it the arrivals not yet submitted.                     *)
Raise(id) ==
    IF id \in ThreadReqs
    THEN call' = [call EXCEPT ![id] = "failed"] /\ UNCHANGED loop
    ELSE /\ call' = [r \in Reqs |-> IF r \in loop.due THEN "failed" ELSE call[r]]
         /\ loop' = Asleep

(* worker_states() and route().                                               *)
Route(id) ==
    /\ MayStart(id)
    /\ \/ \E n \in DOMAIN pool :
            /\ Object(n) \notin sick
            /\ call' = [call EXCEPT ![id] = "routed"]
            /\ target' = [target EXCEPT ![id] = n]
            /\ UNCHANGED loop
       \/ /\ Objects \subseteq sick        \* NoHealthyWorkersError
          /\ Raise(id)
          /\ UNCHANGED target
    /\ UNCHANGED <<plan, workerVars, poolVars, sick, batch, metricsVars, operatorVars>>

(* self._workers[wid].admit(req): KeyError if the name is gone by now.        *)
Admit(id) ==
    /\ call[id] = "routed"
    /\ \/ /\ target[id] \in DOMAIN pool
          /\ call' = [call EXCEPT ![id] = "admitted"]
          /\ loc' = [loc EXCEPT ![id] = Object(target[id])]
          /\ left' = [left EXCEPT ![id] = Want]
          /\ UNCHANGED <<ready, lost, loop>>
       \/ /\ target[id] \notin DOMAIN pool
          /\ Raise(id)
          /\ UNCHANGED workerVars
    /\ UNCHANGED <<plan, target, poolVars, sick, batch, metricsVars, operatorVars>>

(* metrics.on_submit: the record is opened.                                   *)
OnSubmit(id) ==
    /\ call[id] = "admitted"
    /\ call' = [call EXCEPT ![id] = "recorded"]
    /\ rec' = [rec EXCEPT ![id] = "open"]
    /\ tokens' = [tokens EXCEPT ![id] = 0]
    /\ UNCHANGED <<plan, target, workerVars, poolVars, sick, loop, batch, unrecorded,
                   operatorVars>>

(* metrics.on_route, and submit() returns.                                    *)
OnRoute(id) ==
    /\ call[id] = "recorded"
    /\ call' = [call EXCEPT ![id] = "done"]
    /\ loop' = IF id \in ThreadReqs THEN loop ELSE [loop EXCEPT !.due = @ \ {id}]
    /\ UNCHANGED <<plan, target, workerVars, poolVars, sick, batch, metricsVars, operatorVars>>

-------------------------------------------------------------------------------
(* The workers' own threads.                                                  *)

(* An event is made and put in the worker's queue.                            *)
Produce(id) ==
    /\ left[id] > 0
    /\ left' = [left EXCEPT ![id] = @ - 1]
    /\ ready' = [ready EXCEPT ![id] = @ + 1]
    /\ UNCHANGED <<submitVars, loc, lost, poolVars, sick, loop, batch, metricsVars, operatorVars>>

(* The stream fails: the worker turns unhealthy, and the final event is made  *)
(* at once.                                                                   *)
FailStream(id) ==
    /\ plan.backend = "openai"
    /\ left[id] > 0
    /\ sick' = sick \cup {loc[id]}
    /\ left' = [left EXCEPT ![id] = 0]
    /\ ready' = [ready EXCEPT ![id] = @ + 1]
    /\ UNCHANGED <<submitVars, loc, lost, poolVars, loop, batch, metricsVars, operatorVars>>

-------------------------------------------------------------------------------
(* _run_loop: sample, submit, PoolManager.step(), sleep.                      *)

(* A tick starts with what arrived; with no worker the arrivals are let go.   *)
Sample ==
    /\ loop.at = "sleep"
    /\ \E due \in SUBSET {id \in LoopReqs \cap plan.come : call[id] = "new"} :
         IF DOMAIN pool = {}
         THEN /\ call' = [id \in Reqs |-> IF id \in due THEN "failed" ELSE call[id]]
              /\ loop' = [Asleep EXCEPT !.at = "submit"]
         ELSE /\ loop' = [Asleep EXCEPT !.at = "submit", !.due = due]
              /\ UNCHANGED call
    /\ UNCHANGED <<plan, target, workerVars, poolVars, sick, batch, metricsVars, operatorVars>>

(* An arrival beyond the ones modelled that finds no healthy worker ends the   *)
(* tick before step() is called.                                              *)
RefusedArrival ==
    /\ loop.at = "submit"
    /\ loop.due = {}
    /\ Objects # {} /\ Objects \subseteq sick
    /\ loop' = Asleep
    /\ UNCHANGED <<submitVars, workerVars, poolVars, sick, batch, metricsVars, operatorVars>>

FaultyBeginStep ==              \* steps without waiting for the submits
    /\ loop.at = "submit"
    /\ loop' = [loop EXCEPT !.at = "visit", !.size = Cardinality(DOMAIN pool), !.pos = 0]
    /\ UNCHANGED <<submitVars, workerVars, poolVars, sick, batch, metricsVars, operatorVars>>

(* step(): the clock advances and the iteration over the workers starts.      *)
BeginStep ==
    /\ loop.at = "submit"
    /\ loop.due = {}
    /\ loop' = [loop EXCEPT !.at = "visit", !.size = Cardinality(DOMAIN pool), !.pos = 0]
    /\ UNCHANGED <<submitVars, workerVars, poolVars, sick, batch, metricsVars, operatorVars>>

FaultyUnvisited == {n \in DOMAIN pool : n > loop.pos}

Unvisited == {n \in DOMAIN pool : n >= loop.pos}

(* w.step(): what the worker has made is collected.                           *)
Collect(w) ==
    /\ batch' = [id \in Reqs |-> IF id \in Held(w) THEN ready[id] ELSE 0]
    /\ ready' = [id \in Reqs |-> IF id \in Held(w) THEN 0 ELSE ready[id]]

(* The next worker of the iteration, in the order of the dict.  A dict whose  *)
(* size has changed meanwhile raises RuntimeError, which ends the tick.       *)
Visit ==
    /\ loop.at = "visit"
    /\ \/ /\ Cardinality(DOMAIN pool) # loop.size
          /\ loop' = Asleep
          /\ UNCHANGED <<ready, batch>>
       \/ /\ Cardinality(DOMAIN pool) = loop.size
          /\ Unvisited = {}
          /\ loop' = [loop EXCEPT !.at = "scale"]
          /\ UNCHANGED <<ready, batch>>
       \/ /\ Cardinality(DOMAIN pool) = loop.size
          /\ Unvisited # {}
          /\ Collect(Object(Min(Unvisited)))
          /\ loop' = [loop EXCEPT !.at = "record", !.pos = Min(Unvisited) + 1]
    /\ UNCHANGED <<submitVars, loc, left, lost, poolVars, sick, metricsVars, operatorVars>>

(* w.step() raises, which ends the tick: the workers after it are not stepped. *)
(* If it was a prefill, the requests it had taken from the queue are lost; a   *)
(* worker whose batch is torn raises on every step.                           *)
StepRaises ==
    /\ loop.at = "visit"
    /\ plan.backend = "realmodel"
    /\ Cardinality(DOMAIN pool) = loop.size
    /\ Unvisited # {}
    /\ LET here == Held(Object(Min(Unvisited)))
       IN  /\ here # {}
           /\ \E gone \in SUBSET {id \in here : left[id] = Want} :
                /\ left' = [id \in Reqs |-> IF id \in gone THEN 0 ELSE left[id]]
                /\ lost' = lost \cup gone
    /\ loop' = Asleep
    /\ UNCHANGED <<submitVars, loc, ready, poolVars, sick, batch, metricsVars, operatorVars>>

FaultyIsFinal(id) == left[id] = 0 /\ ready[id] = 0

(* The event that ends a request is the last one made for it.                 *)
IsFinal(id) == left[id] = 0 /\ ready[id] = 0 /\ batch[id] = 1

(* metrics.on_token of one collected event: nothing if the id is not open.    *)
OnToken(id) ==
    /\ loop.at = "record"
    /\ batch[id] > 0
    /\ batch' = [batch EXCEPT ![id] = @ - 1]
    /\ IF rec[id] # "open"
       THEN /\ unrecorded' = unrecorded \cup {id}
            /\ UNCHANGED <<rec, tokens>>
       ELSE /\ tokens' = [tokens EXCEPT ![id] = @ + 1]
            /\ rec' = [rec EXCEPT ![id] = IF IsFinal(id) THEN "completed" ELSE @]
            /\ UNCHANGED unrecorded
    /\ UNCHANGED <<submitVars, workerVars, poolVars, sick, loop, operatorVars>>

Recorded ==
    /\ loop.at = "record"
    /\ InBatch = {}
    /\ loop' = [loop EXCEPT !.at = "visit"]
    /\ UNCHANGED <<submitVars, workerVars, poolVars, sick, batch, metricsVars, operatorVars>>

(* The gauges are set and the autoscaler holds, or is not due.                *)
Hold ==
    /\ loop.at = "scale"
    /\ loop' = Asleep
    /\ UNCHANGED <<submitVars, workerVars, poolVars, sick, batch, metricsVars, operatorVars>>

(* _add_worker: the name is taken and the factory called ...                  *)
ScaleUp ==
    /\ loop.at = "scale"
    /\ nextId + (IF resetting = Idle THEN 0 ELSE resetting) <= plan.names
    /\ nextId' = nextId + 1
    /\ loop' = [loop EXCEPT !.at = "add", !.pos = nextId, !.of = epoch]
    /\ UNCHANGED <<submitVars, workerVars, pool, epoch, sick, batch, metricsVars,
                   operatorVars>>

(* ... and the worker put in the pool when the factory is through, which takes *)
(* as long as loading a model does; a worker of that name is replaced.         *)
Added ==
    /\ loop.at = "add"
    /\ pool' = [n \in DOMAIN pool \cup {loop.pos} |->
                   IF n = loop.pos THEN loop.of ELSE pool[n]]
    /\ loop' = Asleep
    /\ UNCHANGED <<submitVars, workerVars, nextId, epoch, sick, batch, metricsVars,
                   operatorVars>>

IsIdle(n) == Held(Object(n)) = {}

(* decide() never answers DOWN at min_workers or below, and that is 1 or more. *)
ScaleDown ==
    /\ loop.at = "scale"
    /\ Cardinality(DOMAIN pool) > 1
    /\ loop' = [loop EXCEPT !.at = "find"]
    /\ UNCHANGED <<submitVars, workerVars, poolVars, sick, batch, metricsVars, operatorVars>>

FaultyFindIdle ==               \* takes the newest worker, idle or not
    /\ loop.at = "find"
    /\ loop' = IF DOMAIN pool = {} THEN Asleep
               ELSE [loop EXCEPT !.at = "remove", !.pos = Max(DOMAIN pool)]
    /\ UNCHANGED <<submitVars, workerVars, poolVars, sick, batch, metricsVars, operatorVars>>

(* _remove_idle_worker: the first worker whose is_idle() is true, if any ...  *)
FindIdle ==
    /\ loop.at = "find"
    /\ \/ \E n \in DOMAIN pool :
            /\ IsIdle(n)
            /\ \A m \in DOMAIN pool : m < n => ~IsIdle(m)
            /\ loop' = [loop EXCEPT !.at = "remove", !.pos = n]
       \/ /\ \A n \in DOMAIN pool : ~IsIdle(n)
          /\ loop' = Asleep
    /\ UNCHANGED <<submitVars, workerVars, poolVars, sick, batch, metricsVars, operatorVars>>

(* ... and its removal.  KeyError if it was killed meanwhile.                 *)
RemoveIdle ==
    /\ loop.at = "remove"
    /\ pool' = [n \in DOMAIN pool \ {loop.pos} |-> pool[n]]
    /\ loop' = Asleep
    /\ UNCHANGED <<submitVars, workerVars, nextId, epoch, sick, batch, metricsVars,
                   operatorVars>>

-------------------------------------------------------------------------------
(* The operator.                                                              *)

(* kill_worker: any worker, named or the busiest.                             *)
Kill ==
    /\ Cardinality(killed) < plan.kills
    /\ \E n \in DOMAIN pool :
         /\ pool' = [m \in DOMAIN pool \ {n} |-> pool[m]]
         /\ killed' = killed \cup {Object(n)}
    /\ UNCHANGED <<submitVars, workerVars, nextId, epoch, sick, loop, batch, metricsVars,
                   resetting>>

(* reset(): the counters and the dict are cleared ...                         *)
BeginReset ==
    /\ epoch < plan.resets
    /\ resetting = Idle
    /\ epoch' = epoch + 1
    /\ pool' = [n \in {} |-> 0]
    /\ nextId' = 0
    /\ resetting' = plan.workers
    /\ UNCHANGED <<submitVars, workerVars, sick, loop, batch, metricsVars, killed>>

(* ... the starting workers are added one by one ...                          *)
ResetAdd ==
    /\ resetting \in 1..plan.workers
    /\ resetting' = resetting - 1
    /\ nextId' = nextId + 1
    /\ pool' = [n \in DOMAIN pool \cup {nextId} |-> IF n = nextId THEN epoch ELSE pool[n]]
    /\ UNCHANGED <<submitVars, workerVars, epoch, sick, loop, batch, metricsVars, killed>>

(* ... and last, metrics.reset().                                             *)
ResetMetrics ==
    /\ resetting = 0
    /\ resetting' = Idle
    /\ rec' = [id \in Reqs |-> "none"]
    /\ tokens' = [id \in Reqs |-> 0]
    /\ UNCHANGED <<submitVars, workerVars, poolVars, sick, loop, batch, unrecorded,
                   killed>>

-------------------------------------------------------------------------------
SubmitStep(id) == Route(id) \/ Admit(id) \/ OnSubmit(id) \/ OnRoute(id)

RunLoop ==
    \/ Sample \/ RefusedArrival \/ BeginStep \/ Visit \/ StepRaises \/ Recorded
    \/ (\E id \in Reqs : OnToken(id))
    \/ Hold \/ ScaleUp \/ Added \/ ScaleDown \/ FindIdle \/ RemoveIdle

Next ==
    \/ \E id \in Reqs : SubmitStep(id) \/ Produce(id) \/ FailStream(id)
    \/ RunLoop
    \/ Kill \/ BeginReset \/ ResetAdd \/ ResetMetrics

Spec == Init /\ [][Next]_vars

(* The run loop never dies, and the threads and the streams go on.            *)
FairSpec ==
    /\ Spec
    /\ WF_vars(RunLoop)
    /\ \A id \in Reqs :
         WF_vars(SubmitStep(id)) /\ WF_vars(Produce(id) \/ FailStream(id))

-------------------------------------------------------------------------------
(* "Records each request's lifecycle (submit -> route -> first token -> final *)
(* token)": every event a worker hands out finds the record of its request.   *)
(* One that does not is a token lost from the statistics, or, if it is the    *)
(* final one, a request that stays open for ever.                             *)
EveryEventRecorded == unrecorded = {}

(* The run loop submits and steps by turns, so that holds of its own requests  *)
(* whatever the endpoints do meanwhile, but for a reset and for /api/step,     *)
(* which steps the pool in a thread of its own and is not modelled.           *)
LoopEventsRecorded == epoch = 0 => unrecorded \cap LoopReqs = {}

(* The autoscaler strands nobody: a worker that still owes events to somebody *)
(* is in the pool, where it is stepped, unless the operator killed it.        *)
NobodyStranded ==
    \A id \in Reqs :
        left[id] + ready[id] > 0 => loc[id] \in Objects \cup killed

(* The run loop submits and scales by turns, so that holds of its own requests *)
(* unless a reset rebuilds the pool under them, or /api/step scales it.        *)
LoopNotStranded ==
    \A id \in {r \in LoopReqs : loc[r][2] = epoch} :
        left[id] + ready[id] > 0 => loc[id] \in Objects \cup killed

(* No event of a request on record goes missing between its worker and its    *)
(* record while streams do not fail, whatever ticks are aborted, unless a      *)
(* prefill lost the request; a completed request shows all of them.           *)
AccountComplete ==
    /\ TypeOK
    /\ sick = {} /\ epoch = 0 =>
        \A id \in LoopReqs :
            /\ rec[id] # "none" /\ id \notin lost =>
                 tokens[id] + batch[id] + ready[id] + left[id] = Want
            /\ rec[id] = "completed" => tokens[id] = Want

(* A request whose submit() succeeded is completed unless its worker is killed,*)
(* the pool reset, or the request lost by a prefill: no worker is passed over, *)
(* and no aborted tick loses its events -- provided that step() keeps getting  *)
(* through all the workers.  The loop does not ensure that: while each arrival *)
(* finds no healthy worker step() is not called, and behind a worker that      *)
(* raises on every step no other is.  That a worker makes its events is taken  *)
(* for granted here; the modules of the workers are about that.               *)
SubmittedCompletes ==
    \A id \in LoopReqs :
        []<>(loop.at = "scale") =>
            ((call[id] = "done")
                ~> (rec[id] = "completed" \/ loc[id] \in killed \/ epoch > 0 \/ id \in lost))
===============================================================================

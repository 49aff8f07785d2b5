# TLA+ specifications of the LLM control plane

These modules specify the Python control plane in `src/src/inference_demo/`
(paths below are relative to that directory unless they start with `src/`): a
gateway that routes inference requests over a pool of workers, batches them,
scales the pool and records what happened. TLC checks small instances; TLAPS
proves the safety properties of the scheduler, the router, the pool's scaling, the streaming and the
real-model worker, the run loop, request ids and both benchmarks for every instance.

    tlc -workers 2 -config Scheduler_continuous.cfg MCScheduler
    tlapm SchedulerProofs.tla      (also RoutingProofs, PoolProofs, OpenAIProofs, RealModelProofs,
                                    ServingProofs, RequestIdsProofs, BenchProofs)

`PROJECT.json` lists the runs, which definition stands for which lines, for each
property a change of the model that breaks it, the hazards and the findings.

## 1. Inventory of the system

| Component | State | Operations | What makes it correct |
|---|---|---|---|
| **Scheduler** `scheduler.py` | queue of waiting sequences, dict of running ones | `enqueue`, `step` = advance, evict, admit; two policies | batch bound; each sequence emits exactly its budget; FIFO; no free slot while somebody waits (continuous); batches do not overlap (static); no starvation |
| **Worker protocol** `workers/base.py`, `types.py` | resident requests | `admit`, `step`, `in_flight`, `is_idle` | events only for residents, the final one last and once |
| **SimWorker** `sim/worker.py` | a scheduler, a clock, a prefix cache | `admit`, `step` | that of the scheduler |
| **OpenAIWorker** `workers/openai_worker.py` | event queue, in-flight count, pending estimate, health; one daemon thread per request | `admit`, `step`, `is_idle`, `_stream` | reclaimed only when it owes nobody; counts exact; a failing stream loses no request |
| **RealModelWorker** `workers/real_model_worker.py` | waiting queue, running list, KV cache, attention mask | `admit`, `step` (evict, then prefill or decode), `set_continuous`, `reset` | cache rows, mask rows and running list stay aligned; token budget; mode switches drain first; requests are lost only to a failing model |
| **Autoscaler** `autoscaler.py` | none (pure) | `decide` | bounds before cooldown before hysteresis; no flapping |
| **PoolManager** `pool.py` | dict of workers, clock, step counter, settings, backend | `submit`, `step`, `_maybe_scale`, `kill_worker`, `reset`, `set_*` | strands no request; bounds and cooldown kept; floor restored |
| **Metrics** `metrics.py` | open and completed records, totals, moving averages | `on_submit`, `on_route`, `on_token`, `reset` | every event finds its record, and a completed record shows them all |
| **Gateway and run loop** `gateway/app.py` | request counter, active load generator | endpoints (threads), `_run_loop` (one task) | accepted requests complete; settings are coherent; ids are fresh |
| **Load generator** `loadgen.py` | clock, counter, preset | `sample`, `rate_at` | fresh ids; the shape of the load |
| **Router and strategies** `routing/` | the strategy, round-robin's cursor; reads loads and prefix caches | `route`, `set_strategy` | healthy workers only; a prefix stays with its holder; rotation is fair; idle workers are kept for interactive requests |
| **Simulated benchmark** `bench/static_vs_continuous.py` | workload, step index | `run_workload` | the comparison is fair and terminates |
| **Real-model benchmark** `bench/real_static_vs_continuous.py` | workload, results by policy | `run_policy`, `main` | both policies answer alike; it ends |
| Console, deployment | | | no control-plane state of their own |

**How they interact.** The run loop calls `loadgen.sample`, `pool.submit` for each
arrival, `pool.step`, and sleeps; this is one asyncio task. `pool.step` steps every
worker, hands each event to `Metrics.on_token`, and every tenth step asks the
autoscaler. FastAPI runs each plain `def` endpoint in a thread of its own pool, so
`/api/submit`, `/api/workers/kill`, `/api/reset` and the settings endpoints call the same
`PoolManager` at the same time as the loop; the only lock in the system is the one
inside `OpenAIWorker`. `OpenAIWorker` adds one thread per request. Nothing is
persisted, so there is no recovery after a crash of the process.

**What is hard.** Calls of two threads cut at each read and write of the pool
(`Serving`, `OpenAIWorker`, `Routing`, the settings calls of `PoolControl`); exceptions swallowed by the run loop in the middle of a tick
(`Serving`); state of three parallel structures cut and spliced, and a model call that
raises between two of them (`RealModelWorker`);
counts at the exact step (`Scheduler`); settings that outlive the thing they were meant
for (`PoolControl`); liveness under endless arrivals. The list, with lines and the
properties aimed at each, is `hazards` in `PROJECT.json`.

## 2. Modules

    WorkerProtocol          what a backend promises (abstract);
                            Scheduler, OpenAIWorker and RealModelWorker implement it
    Scheduler               one worker's batching engine, both policies
      SchedulerProofs         theorems
      StaticVsContinuous      INSTANCEs it twice: both policies on one workload
        BenchProofs             theorems; INSTANCEs SchedulerProofs twice
      RequestIds              EXTENDS it: ids from the gateway's two counters
        RequestIdsProofs        theorems; EXTENDS SchedulerProofs and LoadGen too
    LoadGen                 the rates of the load presets
    OpenAIWorker            stream threads against the run loop
      OpenAIProofs            theorems
    RealModelWorker         cache, mask and running list of the real-model batch
      RealBench               EXTENDS it: the benchmark of both modes
        RealModelProofs         theorems about both
    Autoscaler              the policy
      PoolControl             EXTENDS it: pool size, clock, operator
        PoolProofs              theorems
    Routing                 submit's decision: router, strategies, prefix caches
      RoutingProofs           theorems
    Serving                 run loop, submit, Metrics and their threads
      ServingProofs           theorems
    MC<module>                        constants for TLC

### WorkerProtocol
The abstract specification: a set of resident requests and the events delivered for
each. `Accept` is `Worker.admit`, `Deliver` is `Worker.step`: some residents emit up to
`Burst` events and some of those leave. The three backends are shown to implement it
(`KeepsWorkerProtocol`) with `resident` mapped to whoever still waits for a final event.

### Scheduler
`waiting` is the deque, `running` the dict keyed by id, each slot holding what is left to
prefill and decode. `Step` is `step()`, atomic because its only caller is
`SimWorker.step`: `Advance`, `Evict` and `Fill` in that order. `AdmitCounts` is the only
difference between the policies. `FillCounts` and `Fill` follow the dict: a popped id that is
already a key takes no new slot and replaces the entry, which matters in `RequestIds`
only. The order of the dict is left out, since it decides only the order of tokens in one
`StepResult`. `owed` and `emitted` are history. `Spec` assumes that ids are not
reused while resident (`FreshEnqueue`); `RequestIds` is where this is put in question.

### LoadGen, RequestIds
`RateAt` is `rate_at`, in twentieths of the base rate, a function of the time since the generator was
started. `RequestIds` replaces `FreshEnqueue` by the sources ids come from: `next_req_id()`, whose read
and write are separate steps of a thread (`ReadSeq`, `WriteSeq`, `Post`), and the counter of each
`LoadGenerator`, which starts at 0 whenever one is started (`StartLoadgen`). The run loop takes hold of
the active generator (`GetLoadgen`), samples it (`Sample`), submits what is due (`SubmitDue`) and steps the
pool (`StepPool`); endpoints act in between, so that it may sample a generator that has been replaced.
Endpoint calls have no guard the code does not have: a generator is started at any time. How many
requests a tick draws is open, since every rate is above zero. `overlapped` and `mixed` are history: whether two
threads were ever in `next_req_id()` at once, and whether a generator was ever started before the requests of
another were through. The pool has one simulated worker that is never removed, and no tick of it is cut short.

### StaticVsContinuous
The driving loop of the benchmark: `BeginStep` increments `step_index`, `Admit` hands one
due arrival to both schedulers, `StepWorkers` steps both. The code runs the policies one
after the other; they do not see each other, so lock step compares them at equal step
indices.

### OpenAIWorker
One `thread` state per request follows `_stream`; the actions are cut at the lock and at the
queue: `EmitDelta` (put) and `CountDelta` (the estimate, under the lock) are two steps,
and so are `EmitFinal` (put) and `Leave` (the count, under the lock). `Fail` may happen at any
read of the response. The run loop drains (`Step`), and when the autoscaler wants a worker
less reads `in_flight` and then the queue (`ProbeInFlight`, `ProbeEvents`). The drain is
one action because only `step()` takes from the queue. The server is external.

### RealModelWorker
A tensor is kept as its shape and as whose data its rows are: the cache is a sequence of rows
(`id`, number of tokens held) with one width, the mask the number of ones per row with one
width; padding is always on the left. `PrefillStep` and `DecodeStep` are the two
branches of `step()`, each beginning with `EvictFinished`; the guard `MayPrefill` decides
between them. `Merge` is the splice with its padding. Which token the model samples is open, so any
row may finish at any step. `PrefillRaises` and `DecodeRaises` are the same branches with a model
call that raises (out of memory, say) at the point where the code makes it: what was
assigned before stays, and the cache is as it was. A call that runs out of memory half way through the
layers would leave them of different widths (`real_model_worker.py:175-181` updates the cache layer by layer);
this is not modelled. `slip` counts the decodes that raised since the batch was last empty: the
columns by which the mask is ahead of the cache. For a newcomer to such a batch
the splice extends the mask and then raises on the cache, whose width does not fit; from then on the mask has
rows too many (`Wedged`) and each decode raises.

### RealBench
`main()` of the benchmark around the worker, which it EXTENDS: warm-up, then the burst under
each policy (`Start`, `SetMode`, `BenchAdmit`, `BenchStep`, `Finish`). Decoding is greedy, so the length of
an answer belongs to the request (`workload`); `BenchStep` picks those steps of the worker that
agree with it. Time is counted in decodes. The burst has `Requests` requests, and `Numbered` says that the worker's ids are
their numbers, as `make_workload` gives them; `MCRealBench` has TLC check it of the instance.

### Autoscaler, PoolControl
`Decide` is `decide()`; loads and thresholds are compared exactly, in units of
`1/Unit`. `PoolControl` keeps the workers as the sequence of their loads, oldest first,
which is the order of the dict and thus the order `_remove_idle_worker` looks in. `Step` is
`PoolManager.step` with `_maybe_scale`; `Tick` is a tick whose `step()` comes through, and
`BrokenTick` one whose `step()` ends early, when a worker's `step()` raises (`pool.py:182`), the dict changes under the iteration or a
factory fails; a tick that an arrival ends before `step()` changes nothing here; `Kill`, `Reset`, `SetBackend`, `SetAutoscaler` are the
control endpoints, `ClampedConfig` the arithmetic of `/api/autoscaler`. Calls are
atomic here but for that one: `ComputeSettings` reads configuration and backend,
`SetAutoscaler` installs the result, and other calls may come in between (`drafts`).

### Routing
A submit is two steps of its thread or four: `Route` (the states are read and the strategy picks), under
round-robin `ReadCursor` and `WriteCursor` (`self._i += 1` takes no lock), and `Admit`. `Picks` has a branch
for each of the eight strategies; a strategy yields the set of workers it may choose, which has more than one member
only where the code draws at random. Round-robin's `cursor` belongs to the strategy object: `SetStrategy` puts it back
to 0, and a call still in `choose()` moves that of the old object. Ties are broken by name, and names are strings:
`NameRank` is their order. A worker is its `WorkerState`; what it does with its requests is `Serve`, exact
for simulated workers and loose for streaming ones. `round` and `scattered` are history.

### Serving
The concurrent view. `submit()` is cut into `Route`, `Admit`, `OnSubmit`, `OnRoute`; the
tick into `Sample`, `BeginStep`, one `Visit` per worker, one `OnToken` per event,
`Recorded`, and the scaling outcome (`Hold`, `ScaleUp`, or `ScaleDown`, `FindIdle` and `RemoveIdle`); a
reset into `BeginReset`, `ResetAdd`, `ResetMetrics`. An exception ends a thread's call, or
the loop's tick with all arrivals not yet submitted (`Raise`); a dict whose size changed
under the iteration ends the tick too (`Visit`), as does an arrival beyond those modelled that finds nobody healthy
(`RefusedArrival`, `app.py:320`) and a real-model worker whose step raises (`StepRaises`, `pool.py:182`), where a
prefill may lose requests (`lost`). A worker is an object
`<<name, epoch>>`, since a reset hands the old names to new objects. A scale-up is two steps
(`ScaleUp`, `Added`), since its factory may load a model for seconds. Of a worker only the
protocol is kept: it owes `Want` events and makes them at any time (`Produce`), or fails
(`FailStream`). Routing is any healthy worker and scaling any decision, but never down from one worker, since
`decide()` never goes below `min_workers`, which is 1 or more. `Plans` keeps a
behaviour to one of a few combinations of backend, requests, workers, kills and resets, chosen at
the start, so that one run covers each without the product of all.

## 3. Runs

| Run | Instance | Shows |
|---|---|---|
| `scheduler_continuous` | 4 ids for ever reused, batch 2, prefill 0..1, decode 1..2 (38 883 states) | `BatchBounded`, `BudgetExact`, `NoOvertaking`, `NoIdleSlotAfterStep`, `NoStarvation`, and the Worker protocol |
| `bench_compare` | all workloads of 4 arrivals at steps 0..2, both policies | `ContinuousDominates`: every sequence is ahead under continuous batching at every step; `SameWork`; `StaticBatchesDoNotOverlap` |
| `real_bench` | every burst of 4 requests with answers of up to 3 tokens, batch 2 | `SameOutputs`: both modes answer alike though ids repeat; `CompletesNoLater`; `BenchmarkEnds` |
| `openai_worker` | 2 requests of up to 2 tokens, failures, submits at any time | `SafeToReclaim`, `InFlightExact`, `PendingCoversStreams`, `EveryRequestEnds`, protocol |
| `realmodel_batch` | 3 requests, batch 2, prompts and answers to 2, mode switched at any time, 2 model calls that raise | `RowsAligned` (rows, mask and positions, also after failures), `LostOnlyByFailure`, `WedgedForEver`, `TokensWithinBudget`, `StaticDrainsFirst`, `StarvesOnlyUnderPrefill`, protocol |
| `pool_control` | pools to 3, two control calls that may overlap, scaling on every other step, ticks that may be cut short | `ConfigCoherent` (settings in force and being computed), `CoolsDown`, `StaysInBounds`, `NoFlapping`, `RealModelCapped`, `FloorRestored` |
| `serving_mixed` | six plans, of streaming workers: 2 generated requests, 2 workers and a kill; a generated and a posted one and a kill; a reset over a scale-up; a reset over two requests; and of real-model workers: 2 generated requests on 2 workers; a generated and a posted one and a kill | `LoopEventsRecorded`, `LoopNotStranded`, `AccountComplete`, `SubmittedCompletes` |
| `ids_gateway` | 2 posting threads, 2 generators, 2 ids of each kind, batch 2, 1 or 2 tokens | `OnlyReuseLoses`: accounts stay apart but for reused ids |
| `routing_pool` | 2 submits at a time, pools to 3, one prefix, five strategies swapped at any time, both kinds of backend | `OnePrefixHolder`, `ReservesIdle`, `FairRotation` |
| `serving_submit_race` | one posted request, no kill or reset | **violated**: `EveryEventRecorded` |
| `serving_strand_race` | one posted request, two workers and scaling | **violated**: `NobodyStranded` |
| `ids_loadgen_restart` | generators started at any time, no posts | **violated**: `NothingLost` |

Type invariants are checked as part of an invariant of the run (`RowsAligned`, `SameWork`, `SameOutputs`,
`AccountComplete`, `OnlyReuseLoses`), or proved (section 4).

**Why the bounds suffice.** The scheduler's cases are: full and partly free batch,
several sequences leaving in one step, several admitted in one step, somebody left
behind; a batch of 2 with 4 ids has all of them, and prefill 0/1 with decode 1/2 has
each boundary of `_advance`. Three real-model requests in a batch of 2 give a splice into a
longer batch, a splice of a wider chunk into a narrower batch, eviction of the first and of
the second row, and a queue; two failures give a torn batch and a failure after the next one starts. Two requests on two workers let a kill fall before, between and
after the visits of a tick. Two callers suffice for two prefix misses at a time, three workers for a
rotation whose length changes in both directions; `Period` is a multiple of all pool sizes, so that the
cursor can be kept modulo it. Of the eight strategies the run has the five from whose rules the others are made: least-queue-depth and
hardware-aware are the rule that power-of-two-choices and prefix-affinity fall back on, least-pending-tokens that of
interactive requests; the proofs have all eight. `FewTokens` bounds pending tokens by backend, and with three names the order of the strings is that of
the numbers (`ByNumber`). Two ids of each kind and two threads let one id be read twice, and let a generator be started
while another's requests wait, run, are due, or are about to be sampled. Ids that come back make the runs unbounded in length although the
state space is finite. `MaxWidth`, `MaxPending`, `MaxJobs`, `MaxName`, `MaxNumber`, `MaxOwed`, `MaxFailures`,
`MaxResets`, `MaxOps`, `MaxLoad` and the numbers in `Plans` bound what the code does not; each is a guard on an
arrival, on a failure or on an operator's call, and never on a step of the program, but for `MaxName`: beyond it the
pool does not grow, which is a decision the autoscaler may take anyway.

**Deadlock** is checked except in `openai_worker`, where a reclaimed worker is done, and
`bench_compare` and `real_bench`, where the program ends.

**Fairness.** Only weak fairness, and only on what the code drives by itself: the run loop
(`while True` around a `try`), stream threads, and the threads of calls
already made; and on the whole program of the benchmark (`RealBench`), a single thread. No arrival, kill, reset or setting is ever assumed to happen.
`Step` of the scheduler is fair because the run loop calls it on every tick, and simulated workers do not raise and are always healthy.
Where a tick may end early, fairness of what comes after is not assumed but stated as a premise of the property, since the
code does not ensure it: a worker whose `step()` raises ends the tick before the workers after it are stepped and before
`_maybe_scale` (`pool.py:181-189`), on every tick if its batch is torn (`WedgedForEver`); and with every worker unhealthy a tick with an
arrival ends before `pool.step()` (`app.py:320`). `FloorRestored` says that the floor comes back if ticks on which a scaling is due
keep coming through; `SubmittedCompletes` that submitted requests complete if `step()` keeps getting through all workers;
`StarvesOnlyUnderPrefill` that the real-model worker starves nobody if decode steps keep happening, or if it is stepped again
and again (`KeepsBeingStepped`), decodes do not raise for ever (`DecodesRecover`) and the mode stays static, and the batch is not torn. In continuous mode without
that condition a stream of one-token requests does starve the others. `EveryRequestEnds` has weak fairness of `OpenAIWorker`'s `Step`, which
`app.py:320` grants with probability one only: when all workers are unhealthy it takes a tick without an arrival.

**What holds only under a condition, said in the property.** `SafeToReclaim` excludes a
request admitted between the two reads of `is_idle()` (`raced`), since `serving_strand_race`
shows that window. `SubmittedCompletes` excludes requests of killed workers, which the scenario
button is meant to lose; it, `LoopEventsRecorded` and `LoopNotStranded` speak of the run loop's own requests,
since the two serving races show what can happen to posted ones, and the last two hold unless `/api/step` (`app.py:181`) steps the
pool in a thread of its own, which is not modelled. `AccountComplete` and `SubmittedCompletes` except requests that a prefill which raised has lost, and
`AccountComplete` speaks while no stream has failed. `OnlyReuseLoses` says for each kind of id up to which reuse nothing is lost;
the code avoids neither (see below). `SameWork` speaks
of arrivals after step 0 (see below). `OnePrefixHolder` excludes prefixes that were routed by another
strategy or twice at a time; `FairRotation` speaks of choices that do not overlap, since two that do may read the same cursor; `ReservesIdle` speaks of simulated workers, whose pending tokens are
exact. `RealModelCapped` speaks of settings computed for the real model: `build_pool`'s are not
capped by a switch (see below). `CompletesNoLater` counts decodes, not model calls: with answers of 2, 3, 2 and
3 tokens continuous batching makes seven calls where static makes six, since it
prefills more often.

## 4. Proofs

Every theorem is for all values of the constants, under the named assumption of its module only.
Each safety theorem follows from an inductive invariant `IInv` (`Init => IInv`, every action
keeps it, it implies the property).

**`SchedulerProofs`** (from `SchedulerAssumption`: positive batch size and decode bound, a known
policy): `TypeCorrect`, `NeverOverAdmits` (`BatchBounded`), `AccountingNeverMixes` (`BudgetExact`),
`FirstComeFirstServed` (`NoOvertaking`), `ContinuousFillsTheBatch` (`NoIdleSlotAfterStep`),
`StaticKeepsBatchesApart` (`BatchesDoNotOverlap`), and `ImplementsWorkerProtocol`
(`KeepsWorkerProtocol`: the initial state maps to one of `WorkerProtocol`, an enqueue to `Accept`, a
step to `Deliver`). `BudgetExact` is not inductive: a sequence queued twice, or queued while it runs, would
be merged by the dict and lose tokens. `IInv` adds `OnePlace` (an id has one place in the queue or
the batch), which `FreshEnqueue` keeps, that the batch is finite, which cardinalities
need, and `Unfinished` (who is in the batch still has tokens to emit), without which a sequence
could leave in a step that hands back no event of it. `StepAdmits` says once what a step does
to queue and batch (`Admits(n)`); it rests on what each phase does to any batch: `AdvanceSlotCounts`,
`LeftProperties` (advance and evict), `FillStopsInTime` (the loop of `_fill_free_slots`
stops at the bound) and `FillProperties` (what the batch holds after it). The step lemma and the
action properties follow from it; `Positions` ranks everybody for `FirstComeFirstServed`. `StepEffect`
says the same from outside, as `BenchProofs` needs it: who stays, and how many of the queue enter.

**`BenchProofs`** (from `BenchAssumption`): `NeverBehind` (`ContinuousDominates`), `BothDoTheSame`
(`SameWork`), `StaticWaits` (`StaticBatchesDoNotOverlap`), for every workload. The benchmark is shown to
drive each scheduler as `Scheduler`'s `Spec` allows (`DrivesSchedulers`), so `SchedulerProofs` applies to both. That
continuous batching is never behind is not inductive. `IInv` adds that both queues are in order of
arrival (`Ordered`) and that whoever is in the continuous queue is in the static one (`Ahead`). The step in question
is a static batch that admits somebody continuous batching leaves waiting. The static policy admits
only into an empty batch, so everybody who runs under continuous batching and has tokens left
is admitted by it too, being older; a continuous batch that is full would then make the static one too large.
`LastIsLast` shows that once the loop is past the last arrival nobody is still to come, which `SameWork` rests on.

**`RoutingProofs`** (from `RoutingAssumption`; `MaxName` is any number and `NameRank` any order of the names): `TypeCorrect`,
`SingleHolder` (`OnePrefixHolder`), `NobodyChosenTwice` (`FairRotation`), and `SomebodyIsPicked`: whenever somebody is healthy
each of the eight strategies has a worker to pick, and a healthy one. One
holder per prefix is not inductive, since the second may be made by a call on its way;
`Together(p)` adds that at most one call with the prefix is on its way and that it goes
to the holder if there is one, which is what affinity does (`AffinityFindsHolder`). `SomebodyFirst` and `SomebodyBusiest` show that
the minimum and the maximum a strategy takes exist, `SomebodyInOrder` that the cursor points at somebody.
`NobodyChosenTwice` needs where in its round the cursor stands: `Place` counts the workers
before one, and `Rotation` says that the workers chosen in this round are the
last ones by the distance of their next turn, seen from where the cursor will stand when the increment in progress is through (`NextCursor`). The code's cursor only grows and is used modulo the number of healthy workers; the
model's is kept modulo `Period`, and `NextTurn` shows that this gives the same turns.

**`RequestIdsProofs`** (from the assumptions of `LoadGen`, `RequestIds` and `Scheduler`): `RateWithinPeak` (so thinning is a
probability), and `ReuseAloneLoses` (`OnlyReuseLoses`), for any number of threads, generators and ids. What `SchedulerProofs` rests on,
no id twice, does not hold here: some ids are repeated, and what has to be shown is that the others do not suffer. So the accounts are taken
one id at a time: `Kept(id)` says that the id is at one place (`Sole`) and its account exact (`Exact`), and `StepKeeps` and `EnqueueKeeps` that
a step of the scheduler, whatever repetitions there are beside it, and an enqueue under another id, or under this one when it
is free, keep it. `StepPops` says what a step does to a queue with repetitions; the slot a repeated id gets is that of
its last entry (`LastExists`, `StepLast`). `PostsFresh` and `GeneratedFresh` say of each counter that it is above
every resident id made from it, and of an id on its way that it is still free and nobody else's, as long as `overlapped` or `mixed` is false.

**`PoolProofs`** (from `PoolAssumption`, `UnitAssumption`): `TypeCorrect`, `SettingsStayCoherent`
(`ConfigCoherent`), `DoesNotFlap` (`NoFlapping`), `CooldownRespected` (`CoolsDown`),
`BoundsRespected` (`StaysInBounds`), `RealModelStaysCapped` (`RealModelCapped`). The invariant speaks of
settings in force and of those still being computed by a call (`drafts`). Coherence needs that the scale-down threshold never
changes from the one unit `build_pool` sets, since the clamp to the maximum may otherwise push
the target below it. The cooldown needs `ClockBehindQuiet`: the time the code
measures, which a reset also restarts, is never more than the time since the pool was last scaled.
No flapping is arithmetic: a load above `target >= 1` per worker on `n` workers is at least
`n + 1` requests, which on `n + 1` workers is not below one each.

**`OpenAIProofs`** (from `OpenAIAssumption`: finitely many ids): `TypeCorrect`, `CountsThreads`
(`InFlightExact`), `ReclaimsSafely` (`SafeToReclaim`), `ImplementsWorkerProtocol`
(`KeepsWorkerProtocol`: starting a stream is an `Accept`, draining the queue a `Deliver`, whatever the threads do in
between stutters). The two reads of `is_idle()` see different
moments; `NobodyActive` says that between them no thread is left that could still put an event, unless a
request was admitted meanwhile. It rests on the order of `_stream`'s `finally`: final event
first, count second. The refinement adds `QueueBounded`: the queue holds of a request no more than the
deltas its thread has put and one final event, which is the protocol's bound on a delivery.

`EstimateCovers` (`PendingCoversStreams`) is about a sum over the requests. Between `put` and the count under the
lock the estimate is too high by one, so `Covered` gives each thread what it has still to emit and that one; the
property follows. A sum is a fold of the community modules. What it does for every finite set is an
induction over data, which the prover cannot take from the library; it is done here by
least counterexample, from the well-foundedness of `<` on the naturals (`SumsExist`, `SumsSplit`, `SumsAtMost`).

**`RealModelProofs`**, of the worker (from `RealModelAssumption`): `RowsStayAligned` (`RowsAligned`), `LossNeedsFailure`
(`LostOnlyByFailure`), `WithinBudget` (`TokensWithinBudget`), `WedgedStays` (`WedgedForEver`),
`StaticDrains` (`StaticDrainsFirst`), and `RealModelImplementsWorkerProtocol` (`KeepsWorkerProtocol`), for every
batch, prompt and answer, however many calls raise. `Sound` is alignment with three additions: no id
twice in a batch, an empty batch starts without slip, and nobody in a wedged batch is
finished. Without the last, a sequence could leave a wedged batch, and cutting the mask down with it
would drop the surplus rows: the batch would pass for whole with a mask too wide for its cache. `Untouched` and `Apart`
keep an id at one place. `Listing` and `SelectProperties` say what indexing a tensor with a list of rows keeps,
`ChunkProperties` what a prefill takes from the queue; `EvictSound`, `PrefillJoins`, `PrefillWedges` and `DecodedSound`
are what each part of `step()` does to any sound batch.

**`RealModelProofs`**, of the benchmark (from `RealBenchAssumption` too, under `Numbered`): `BothRunsAnswerAlike`
(`SameOutputs`), `NobodyCompletesLater` (`CompletesNoLater`), for every burst, batch size and workload, and `WorkerStaysSound`: alignment,
budgets and batch bound hold through `reset()` too, which is no step of the worker's own specification. The benchmark's
invariant `BenchIInv` contains the worker's; `PrefillServes` and `DecodeServes` say what a step of the worker is from outside.
`Running` ties the queue, batch and answers to the workload: the queue is the rest of the burst in order, the
unfinished rows are the started requests whose answer is not complete (`Live`), and an answer is as long as what its row
generated; from it `SameOutputs` follows. The two runs never overlap, so the comparison has to go through what the first one leaves in
`stats`, its completion times `c` (`StaticTimes`, from `StaticRun`): a request needs a decode for each token but its first, and of two
requests `max_batch_size` or more apart in the burst the older is complete when the younger starts,
since static mode admits only when all before are done. `ContinuousRun` is the claim that holds all along the second run: whoever
still runs or waits is in time if it went on without a break. What could break it is a decode while
somebody waits. Then the batch is full (`DecodeServes`), so it holds one who is a batch or more ahead of the waiting one (`FullBatch`, by
counting), who is still in time, and whose static completion is no later than the waiting one's static start.

**`ServingProofs`** (from `ServingAssumption`): `LoopEventsFindTheirRecord` (`LoopEventsRecorded`),
`LoopStrandsNobody` (`LoopNotStranded`), `AccountsComplete` (`AccountComplete`), for any number of requests,
workers, threads, kills and resets. The run loop's own requests are safe because it submits and
steps by turns: `Quiet` says that while it records events, scales or waits for a factory, none of them is on
its way in, so no event can precede its record and no removal can overtake an admission. A request is
at one stage of call, worker and record (`Underway`), and a record counts exactly the events that were
delivered (`OnRecord`). Worker names have to be unique among the objects of an epoch although a factory may
return after a reset and put its worker back under an old name: `Naming` and `Adding` say
how. `Removing` says that a worker found idle is still idle when it is removed, but for posted requests.

**Only model-checked**: liveness (`NoStarvation`, `EveryRequestEnds`, `StarvesOnlyUnderPrefill`, `FloorRestored`,
`SubmittedCompletes`, `BenchmarkEnds`), since fairness is beyond the prover, and `ReservesIdle`. Every other property of a passing run
is stated by a theorem.

## 5. Findings

The three violation runs, with the lines they contradict, are `findings` in `PROJECT.json`.

1. `submit()` admits a request before it opens its record (`pool.py:172`); events in between
   are ignored, and a lost final event leaves the record open for ever.
2. The autoscaler removes a worker found idle a moment before (`pool.py:87`), with a request
   admitted meanwhile on board.
3. Every `LoadGenerator` counts from `g0` (`gateway/app.py:257`); one started under load, or between the
   moments the loop gets hold of the last one and samples it, repeats
   its ids, and the scheduler's dict replaces one sequence by the other. `OnlyReuseLoses` shows that nothing but this and
   two posts that get one id (`gateway/app.py:157`, unlocked) does so.

Shown by a property that holds:

- `WedgedForEver`, `RowsAligned`: `real_model_worker.py:174` widens the mask before a model call
  that may raise. In continuous mode one such failure and a newcomer after it stop the worker for
  good; each later `step()` raises, so `pool.step()` ends there on every tick, and the workers
  after it are not stepped either, though the run loop's comment says it must never die.
- `LostOnlyByFailure`: a prefill that raises has taken its requests from the queue
  (`real_model_worker.py:154`); they get no final event and their records stay open.
- `OnePrefixHolder`, by what it leaves out: two submits at a time warm two workers with one prefix.

Evaluated by TLC as an assumption of `MCRequestIds` (`RatesOfTwoCycles`), with no run of its own, as it is one function's
value and no behaviour:

- `loadgen.py:94-95` says "`cycle_s` is the period used by BURST/SPIKE since a live stream has no fixed duration". `loadgen.py:43`
  compares the time since the start with the cycle, so under SPIKE a live generator surges in its first cycle and never again; BURST does repeat.

Met while reading, and not backed by a run:

- A backend switch keeps the autoscaler's settings (`pool.py:142`), so the real-model cap that
  `src/README.md:253` speaks of is not applied before the next call of `/api/autoscaler`.
- `gateway/app.py:183`: `/api/step` steps the pool in its own thread beside the run loop. One thread may evict a
  sequence before the other has built its events, so that none is marked final. The models have one
  thread that steps.
- `gateway/app.py:311` promises the pool back "on the next tick"; the autoscaler runs on every
  tenth step, and on none that ends early. (`FloorRestored` shows that it comes back if ticks come through.)
- `openai_worker.py:123`: a stream that ends early leaves its rest in `pending_tokens` for good.
- `gateway/app.py:320`: with every worker unhealthy each tick with an arrival ends before
  `pool.step()`. Nothing makes a streaming worker healthy again.
- `bench/static_vs_continuous.py:88`: the index is incremented before arrivals are looked up,
  so those of step 0 are never admitted, yet counted in throughput.
- `routing/strategies.py:56-57`: two submits at the same moment can read one cursor and take the same worker, and one of
  the increments can be lost.

## 6. Not modelled, and the plan

Left out for good: formatting and snapshots, the Prometheus text, percentiles and moving averages
(`stats.py`; with them the race of `metrics.tick()` with `on_submit`), authentication and the caps on
rates and tokens, SSE parsing, tokenizers and tensors' contents, the console, deployment files, and
wall-clock time. A model call that fails half way through its layers is not modelled, as said under `RealModelWorker`. Five hazards have no property: that race;
the SPIKE period (section 5); `/api/step` as a second stepping thread; the width of the
real-model cache, which has no bound while the batch never empties, and the source claims none; and the records of
killed requests, which stay open, and nothing says what should become of them.

What a next step could add: `/api/step` as a second stepping thread, and `set_backend` in the middle of a tick, both in
`Serving`.

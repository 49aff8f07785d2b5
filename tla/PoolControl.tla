----------------------------- MODULE PoolControl -----------------------------
(***************************************************************************)
(* The pool as an operator and the autoscaler see it: PoolManager's worker *)
(* set, its clock, and the control endpoints of the gateway that act on    *)
(* them.  What a worker does with its requests is reduced to how many it   *)
(* holds; how one pool call interleaves with another is left to Serving,   *)
(* but for /api/autoscaler, which computes new settings from the old ones  *)
(* and installs them in two steps of its thread.                           *)
(*                                                                         *)
(* The workers are a sequence of loads in the order of the dict, which is  *)
(* the order in which they were added: their names w0, w1, ... are never   *)
(* reused before a reset, and nothing else depends on them.  The clock is  *)
(* kept only as the time since the last scaling, and the step counter only *)
(* modulo autoscale_every_steps, because that is all they are read for.    *)
(***************************************************************************)
EXTENDS Autoscaler, Naturals, Sequences, FiniteSets, SequencesExt

CONSTANTS
    Backends,        \* backends this deployment can switch to
    StartBackend,    \* the one it starts on
    InitialWorkers,  \* n_workers
    DefaultMax,      \* max_workers the pool is built with
    MaxWorkersCap,   \* GatewayConfig.max_workers_cap
    RealModelMax,    \* GatewayConfig.realmodel_max_workers
    Every,           \* autoscale_every_steps
    Cooldown,        \* cooldown_s, in clock units
    Dts,             \* the clock advances one step can make, in the same unit
    Targets,         \* target_queue_depth values enumerated, in units
    MaxLoad,         \* bound on the requests one worker holds
    MaxOps           \* bound on the operator's control calls

ASSUME PoolAssumption ==
    /\ StartBackend \in Backends
    /\ InitialWorkers \in Nat
    /\ DefaultMax \in 1..MaxWorkersCap
    /\ MaxWorkersCap \in Nat \ {0}
    /\ RealModelMax \in Nat \ {0}
    /\ Every \in Nat \ {0}
    /\ Cooldown \in Nat
    /\ Dts \subseteq Nat \ {0}
    /\ Targets \subseteq Nat \ {0}
    /\ MaxLoad \in Nat
    /\ MaxOps \in Nat

VARIABLES
    workers,    \* load of each worker, oldest first
    config,     \* AutoscalerConfig
    enabled,    \* autoscale_enabled
    backend,
    drafts,     \* settings computed by calls that have yet to install them
    madeFor,    \* the backend that the settings were computed for, or Nobody (history)
    since,      \* clock - last_scale_clock, up to Cooldown
    phase,      \* steps modulo Every
    scaled,     \* what the last step's autoscaling did (history)
    quiet,      \* time from the scaling before to the last step (history)
    ops         \* control calls made (bound)

vars == <<workers, config, enabled, backend, drafts, madeFor, since, phase, scaled, quiet, ops>>

settingVars == <<config, enabled, drafts, madeFor>>

Nobody == "nobody"

AtMost(x, y) == IF x < y THEN x ELSE y
AtLeast(x, y) == IF x > y THEN x ELSE y

Total(ws) == FoldLeft(LAMBDA sum, load : sum + load, 0, ws)

Configs ==
    [min : 1..MaxWorkersCap, max : 1..MaxWorkersCap,
     target : 1..(Unit * MaxWorkersCap), scaleDown : {Unit}]

(* The fields of PoolManager, with a configuration within the hard cap of the *)
(* gateway, on every path that builds one.                                    *)
TypeOK ==
    /\ workers \in Seq(0..MaxLoad)
    /\ config \in Configs
    /\ enabled \in BOOLEAN
    /\ backend \in Backends
    /\ drafts \subseteq [config : Configs, from : Backends, call : 0..MaxOps]
    /\ madeFor \in Backends \cup {Nobody}
    /\ since \in 0..Cooldown
    /\ phase \in 0..(Every - 1)
    /\ scaled \in {"up", "down", "none"}
    /\ quiet \in 0..Cooldown
    /\ ops \in 0..MaxOps

FreshPool == [i \in 1..InitialWorkers |-> 0]

(* build_pool: target clamped to max_workers, scale_down 1.0.                *)
DefaultConfig ==
    [min |-> 1, max |-> DefaultMax,
     target |-> AtMost(4 * Unit, DefaultMax * Unit), scaleDown |-> Unit]

Init ==
    /\ workers = FreshPool
    /\ config = DefaultConfig
    /\ enabled = TRUE
    /\ backend = StartBackend
    /\ drafts = {}
    /\ madeFor = Nobody
    /\ since = 0
    /\ phase = 0
    /\ scaled = "none"
    /\ quiet = Cooldown
    /\ ops = 0

-------------------------------------------------------------------------------
FirstIdle(ws) == CHOOSE i \in DOMAIN ws : ws[i] = 0 /\ \A j \in 1..(i - 1) : ws[j] # 0

(* _remove_idle_worker: the oldest idle worker; busy ones are left alone.     *)
RemoveIdle(ws) ==
    IF \E i \in DOMAIN ws : ws[i] = 0 THEN RemoveAt(ws, FirstIdle(ws)) ELSE ws

(* A completed _maybe_scale restarts the cooldown only if it changed the pool.*)
FaultyScaling(ws, action) ==    \* the removal does not restart the cooldown
    IF action = "up"
    THEN [pool |-> Append(ws, 0), did |-> "up", restart |-> TRUE]
    ELSE IF action = "down" /\ RemoveIdle(ws) # ws
    THEN [pool |-> RemoveIdle(ws), did |-> "down", restart |-> FALSE]
    ELSE [pool |-> ws, did |-> "none", restart |-> FALSE]

Scaling(ws, action) ==
    IF action = "up"
    THEN [pool |-> Append(ws, 0), did |-> "up", restart |-> TRUE]
    ELSE IF action = "down" /\ RemoveIdle(ws) # ws
    THEN [pool |-> RemoveIdle(ws), did |-> "down", restart |-> TRUE]
    ELSE [pool |-> ws, did |-> "none", restart |-> FALSE]

(* step(): autoscaling is due on every Every-th step.                        *)
Due(p) == p = 0

(* step(): the clock advances by dt, the workers serve -- `served' is what    *)
(* is left on each -- and, when due, the autoscaler looks at the result.  A    *)
(* tick that an arrival ends before it gets here changes nothing.             *)
Step(dt, served) ==
    LET elapsed == AtMost(since + dt, Cooldown)
        p       == (phase + 1) % Every
        action  == IF enabled /\ Due(p)
                   THEN Decide(config, Len(served), Total(served), elapsed, Cooldown)
                   ELSE "hold"
        result  == Scaling(served, action)
    IN  /\ workers' = result.pool
        /\ since' = IF result.restart THEN 0 ELSE elapsed
        /\ phase' = p
        /\ scaled' = result.did
        /\ quiet' = AtMost(IF scaled = "none" THEN quiet + dt ELSE dt, Cooldown)
        /\ UNCHANGED <<settingVars, backend, ops>>

Tick ==
    \E dt \in Dts :
        \E served \in [DOMAIN workers -> 0..MaxLoad] :
            /\ \A i \in DOMAIN workers : served[i] <= workers[i]
            /\ Step(dt, served)

(* A step() that ends in an exception, which the run loop logs and forgets: a  *)
(* worker's step() raises or the dict changes while it is iterated over, or the *)
(* factory of a new worker fails.  The clock and the step counter have advanced *)
(* and some workers have served; nobody scales.                               *)
BrokenTick ==
    \E dt \in Dts :
        \E served \in [DOMAIN workers -> 0..MaxLoad] :
            /\ \A i \in DOMAIN workers : served[i] <= workers[i]
            /\ phase' = (phase + 1) % Every
            /\ workers # <<>> \/ Due(phase')
            /\ workers' = served
            /\ since' = AtMost(since + dt, Cooldown)
            /\ scaled' = "none"
            /\ quiet' = AtMost(IF scaled = "none" THEN quiet + dt ELSE dt, Cooldown)
            /\ UNCHANGED <<settingVars, backend, ops>>

(* submit(req): the request goes to some worker; which one is routing's.      *)
Submit ==
    \E i \in DOMAIN workers :
        /\ workers[i] < MaxLoad
        /\ workers' = [workers EXCEPT ![i] = @ + 1]
        /\ UNCHANGED <<settingVars, backend, since, phase, scaled, quiet, ops>>

Control == ops < MaxOps /\ ops' = ops + 1

(* kill_worker(worker_id): any worker the operator names, or the busiest; the  *)
(* cooldown is not restarted.                                                 *)
Kill ==
    /\ Control
    /\ \E i \in DOMAIN workers : workers' = RemoveAt(workers, i)
    /\ UNCHANGED <<settingVars, backend, since, phase, scaled, quiet>>

(* PoolManager.reset: the autoscaler's settings survive it.                   *)
ResetPool ==
    /\ workers' = FreshPool
    /\ since' = 0
    /\ phase' = 0
    /\ scaled' = "none"
    /\ quiet' = Cooldown

Reset ==
    /\ Control
    /\ ResetPool
    /\ UNCHANGED <<settingVars, backend>>

(* set_backend: switch and rebuild; the autoscaler's settings survive it too. *)
SetBackend ==
    /\ Control
    /\ backend' \in Backends
    /\ ResetPool
    /\ UNCHANGED settingVars

FaultyClampedConfig(mn, mx, target) ==  \* min_workers not clamped to the new maximum
    LET capped == AtMost(mx, MaxWorkersCap)
        most   == IF backend = "realmodel" THEN AtMost(capped, RealModelMax) ELSE capped
    IN  [min |-> mn, max |-> most,
         target |-> AtMost(AtLeast(target, config.scaleDown), Unit * most),
         scaleDown |-> config.scaleDown]

UncappedConfig(mn, mx, target) ==       \* the hard cap forgotten
    LET most == IF backend = "realmodel" THEN AtMost(mx, RealModelMax) ELSE mx
    IN  [min |-> AtMost(mn, most), max |-> most,
         target |-> AtMost(AtLeast(target, config.scaleDown), Unit * most),
         scaleDown |-> config.scaleDown]

HardCappedConfig(mn, mx, target) ==     \* the cap of the real model forgotten
    LET most == AtMost(mx, MaxWorkersCap)
    IN  [min |-> AtMost(mn, most), max |-> most,
         target |-> AtMost(AtLeast(target, config.scaleDown), Unit * most),
         scaleDown |-> config.scaleDown]

(* The gateway's /api/autoscaler: caps, then coherence of min and target.     *)
ClampedConfig(mn, mx, target) ==
    LET capped == AtMost(mx, MaxWorkersCap)
        most   == IF backend = "realmodel" THEN AtMost(capped, RealModelMax) ELSE capped
    IN  [min |-> AtMost(mn, most), max |-> most,
         target |-> AtMost(AtLeast(target, config.scaleDown), Unit * most),
         scaleDown |-> config.scaleDown]

(* /api/autoscaler, up to the new configuration.  A field the body leaves out  *)
(* keeps its current value ...                                                *)
ComputeSettings ==
    /\ Control
    /\ \E mn \in 1..MaxWorkersCap \cup {config.min},
          mx \in 1..(MaxWorkersCap + 1) \cup {config.max},
          target \in Targets \cup {config.target} :
            drafts' = drafts \cup
                {[config |-> ClampedConfig(mn, mx, target), from |-> backend, call |-> ops]}
    /\ UNCHANGED <<workers, config, enabled, backend, madeFor, since, phase, scaled, quiet>>

(* ... and pool.set_autoscaler, whatever was set or switched in between.       *)
SetAutoscaler ==
    /\ \E d \in drafts :
         /\ config' = d.config
         /\ madeFor' = d.from
         /\ drafts' = drafts \ {d}
    /\ enabled' \in BOOLEAN
    /\ UNCHANGED <<workers, backend, since, phase, scaled, quiet, ops>>

Next ==
    \/ Tick \/ BrokenTick \/ Submit
    \/ Kill \/ Reset \/ SetBackend \/ ComputeSettings \/ SetAutoscaler

Spec == Init /\ [][Next]_vars

-------------------------------------------------------------------------------
Coherent(c) ==
    /\ ValidConfig(c)
    /\ c.max <= MaxWorkersCap
    /\ c.target <= Unit * c.max

(* "Keep the target coherent": whatever operators send, in whatever order and  *)
(* however their calls overlap, the configuration the gateway builds passes    *)
(* AutoscalerConfig's own checks -- otherwise the constructor raises and the   *)
(* call fails -- and its target stays within the worker cap.                   *)
ConfigCoherent == Coherent(config) /\ \A d \in drafts : Coherent(d.config)

InRange == Len(workers) \in config.min..config.max

(* "After any scale action, hold for cooldown_s before acting again (in either *)
(* direction)": a pool within its bounds is scaled only when the cooldown has  *)
(* run out since the last worker was added or removed, by load or to restore   *)
(* the bounds.                                                                 *)
CoolsDown == [][Tick => (InRange /\ scaled' # "none" => quiet' = Cooldown)]_vars

(* The autoscaler never takes the pool out of its bounds, nor further out.     *)
StaysInBounds ==
    [][Tick => /\ Len(workers') <= AtLeast(Len(workers), config.max)
               /\ Len(workers') >= AtMost(Len(workers), config.min)]_vars

(* The autoscaler does not flap: the load that made it add a worker is not one *)
(* on which, the cooldown over, it would take it away again.                   *)
NoFlapping ==
    \A n \in config.min..config.max, load \in 0..(MaxLoad * MaxWorkersCap) :
        Decide(config, n, load, Cooldown, Cooldown) = "up" =>
            Decide(config, n + 1, load, Cooldown, Cooldown) # "down"

(* "The autoscaler's min-workers floor brings the pool back": however workers  *)
(* are killed, settings changed and ticks cut short, once the operator stops   *)
(* the pool gets back to its floor, and stays there, if autoscaling is on --   *)
(* provided that ticks on which a scaling is due keep coming through.  The     *)
(* loop does not ensure that: behind a worker that raises on every step, or    *)
(* while each arrival finds no healthy worker, no tick comes through.          *)
FloorRestored ==
    []<><<Tick /\ Due(phase')>>_vars => <>[](enabled => Len(workers) >= config.min)

(* "Each real-model worker loads its own copy of the model, so the             *)
(* autoscaler's max is capped": the pool of a real-model backend does not grow *)
(* past that cap -- from the first call of /api/autoscaler on that saw this    *)
(* backend, for a switch to it keeps the settings of the last one, and a call  *)
(* that the switch overtakes installs settings made for the last one.          *)
RealModelCapped ==
    [][Tick /\ backend = "realmodel" /\ madeFor = "realmodel" /\ Len(workers') > Len(workers)
           => Len(workers') <= RealModelMax]_vars
===============================================================================

-------------------------- MODULE StaticVsContinuous --------------------------
(***************************************************************************)
(* The benchmark of bench/static_vs_continuous.py: one workload driven     *)
(* through a simulated worker under each of the two policies.  The code    *)
(* runs them one after the other; here they run in lock step, which is the *)
(* same because neither sees the other.  The loop of the policy that gets  *)
(* idle first just steps an idle scheduler until the other is done.        *)
(***************************************************************************)
EXTENDS Naturals, Sequences, FiniteSets, FiniteSetsExt

CONSTANTS
    Arrivals,                        \* number of arrivals
    LastStep,                        \* bound on arrival_step
    MaxBatch, MaxPrefill, MaxDecode  \* as in Scheduler

ASSUME BenchAssumption ==
    /\ Arrivals \in Nat \ {0}
    /\ LastStep \in Nat
    /\ MaxBatch \in Nat \ {0}
    /\ MaxPrefill \in Nat
    /\ MaxDecode \in Nat \ {0}

Ids == 1..Arrivals

VARIABLES
    arrivals,                    \* the workload, in order of arrival
    at, stepIndex, admitted,     \* the driving loop: where it stands, step_index,
                                 \* and who was admitted in this step
    cWaiting, cRunning, cOwed, cEmitted,
    sWaiting, sRunning, sOwed, sEmitted

loopVars == <<at, stepIndex, admitted>>
cVars == <<cWaiting, cRunning, cOwed, cEmitted>>
sVars == <<sWaiting, sRunning, sOwed, sEmitted>>
vars == <<arrivals, loopVars, cVars, sVars>>

Continuous == INSTANCE Scheduler
    WITH SeqIds <- Ids, Policy <- "continuous", waiting <- cWaiting, running <- cRunning,
         owed <- cOwed, emitted <- cEmitted

Static == INSTANCE Scheduler
    WITH SeqIds <- Ids, Policy <- "static", waiting <- sWaiting, running <- sRunning,
         owed <- sOwed, emitted <- sEmitted

(* gen_workload: arrival steps do not decrease and may start at 0.            *)
Workloads ==
    {w \in [Ids -> [step : 0..LastStep, prefill : 0..MaxPrefill, decode : 1..MaxDecode]] :
        \A i, j \in Ids : i < j => w[i].step <= w[j].step}

(* The fields of run_workload and of the two schedulers it drives.             *)
TypeOK ==
    /\ arrivals \in Workloads
    /\ at \in {"loop", "step"}
    /\ stepIndex \in Nat
    /\ admitted \in SUBSET Ids
    /\ Continuous!TypeOK
    /\ Static!TypeOK

Init ==
    /\ arrivals \in Workloads
    /\ at = "loop"
    /\ stepIndex = 0
    /\ admitted = {}
    /\ Continuous!Init
    /\ Static!Init

LastArrival == Max({arrivals[i].step : i \in Ids})

Busy == Continuous!Resident # {} \/ Static!Resident # {}

FaultyLoops ==                  \* stops when the work runs out for a moment
    stepIndex = 0 \/ Busy

(* while step_index <= last_arrival or not worker.is_idle()                   *)
Loops == stepIndex <= LastArrival \/ Busy

BeginStep ==
    /\ at = "loop"
    /\ Loops
    /\ stepIndex' = stepIndex + 1
    /\ at' = "step"
    /\ admitted' = {}
    /\ UNCHANGED <<arrivals, cVars, sVars>>

(* by_step.get(step_index)                                                    *)
Due == {i \in Ids : arrivals[i].step = stepIndex} \ admitted

Work(i) == [id |-> i, prefill |-> arrivals[i].prefill, decode |-> arrivals[i].decode]

Admit ==
    /\ at = "step"
    /\ Due # {}
    /\ Continuous!Enqueue(Work(Min(Due)))
    /\ Static!Enqueue(Work(Min(Due)))
    /\ admitted' = admitted \cup {Min(Due)}
    /\ UNCHANGED <<arrivals, at, stepIndex>>

StepWorkers ==
    /\ at = "step"
    /\ Due = {}
    /\ Continuous!Step
    /\ Static!Step
    /\ at' = "loop"
    /\ UNCHANGED <<arrivals, stepIndex, admitted>>

Next == BeginStep \/ Admit \/ StepWorkers

Spec == Init /\ [][Next]_vars

Over == at = "loop" /\ ~Loops

-------------------------------------------------------------------------------
(* "Continuous batching beats static batching", sequence by sequence: at every *)
(* moment every sequence has emitted at least as much under continuous as     *)
(* under static batching, so none is served or finished later.                *)
ContinuousDominates == \A i \in Ids : cEmitted[i] >= sEmitted[i]

(* "Same work, fair comparison": when the loop is over both policies have      *)
(* emitted the same tokens, namely all that was asked for by every arrival    *)
(* the loop admits.                                                           *)
SameWork ==
    /\ TypeOK
    /\ Over => \A i \in Ids : /\ cEmitted[i] = sEmitted[i]
                              /\ arrivals[i].step > 0 => cEmitted[i] = arrivals[i].decode

(* "Admit a full batch, then wait for it to drain": a static batch takes nobody *)
(* in before everybody in it has left.                                        *)
StaticBatchesDoNotOverlap == Static!BatchesDoNotOverlap
===============================================================================

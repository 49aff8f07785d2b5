------------------------------ MODULE RealBench -------------------------------
(***************************************************************************)
(* The benchmark of bench/real_static_vs_continuous.py: a warm-up, then    *)
(* one burst of requests through one RealModelWorker under static and once *)
(* more under continuous batching.                                         *)
(*                                                                         *)
(* Decoding is greedy, so how long an answer gets is a matter of the       *)
(* request; the worker leaves it open and the workload settles it.  Wall   *)
(* clock time is counted in decodes.  A call of the model that raises ends *)
(* the benchmark, so none does here.                                       *)
(***************************************************************************)
EXTENDS RealModelWorker

CONSTANT Requests    \* number of requests in the burst

ASSUME RealBenchAssumption == Requests \in Nat \ {0}

(* make_workload numbers the requests, from the first id on.                  *)
Numbered == SeqIds = 1..Requests

Policies == {"static", "continuous"}

VARIABLES
    tokens,      \* the lengths of the worker's _generated
    workload,    \* prompt, max_tokens and length of the answer of each request
    phase, at,   \* what main() is doing, and where in it
    decodes,     \* decode steps since the run began
    completion,  \* the value of decodes when each request completed in this run
    stats        \* what run_policy returned, by policy

benchVars == <<vars, tokens, workload, phase, at, decodes, completion, stats>>

Job == {j \in [prompt : 1..MaxPrompt, max : 1..MaxNew, length : 1..MaxNew] : j.length <= j.max}

Zero == [i \in SeqIds |-> 0]

(* The fields of the benchmark and of the worker it drives.                  *)
BenchTypeOK ==
    /\ TypeOK
    /\ tokens \in [SeqIds -> Nat]
    /\ workload \in [SeqIds -> Job]
    /\ phase \in Policies \cup {"warmup", "done"}
    /\ at \in {"reset", "mode", "admit", "loop"}
    /\ decodes \in Nat
    /\ completion \in [SeqIds -> Nat]
    /\ stats \in [Policies -> [completion : [SeqIds -> Nat], tokens : [SeqIds -> Nat]]]

(* make_workload, and a worker just loaded.                                  *)
BenchInit ==
    /\ Init /\ continuous = TRUE
    /\ tokens = Zero
    /\ workload \in [SeqIds -> Job]
    /\ phase = "warmup"
    /\ at = "reset"
    /\ decodes = 0
    /\ completion = Zero
    /\ stats = [policy \in Policies |-> [completion |-> Zero, tokens |-> Zero]]

FaultyBenchReset ==             \* the answers of the last run stay
    Reset /\ UNCHANGED tokens

(* worker.reset(): the answers go, too.                                      *)
BenchReset == Reset /\ tokens' = Zero

Start ==
    /\ phase # "done" /\ at = "reset"
    /\ BenchReset
    /\ at' = "mode"
    /\ decodes' = 0
    /\ completion' = Zero
    /\ UNCHANGED <<workload, phase, stats>>

FaultySetMode ==                \* the modes change places
    /\ at = "mode"
    /\ at' = "admit"
    /\ continuous' = IF phase = "warmup" THEN continuous ELSE phase = "static"
    /\ UNCHANGED <<waiting, batch, delivered, lost, failures, slip,
                   tokens, workload, phase, decodes, completion, stats>>

(* worker.continuous = continuous; the warm-up leaves it as it is.            *)
SetMode ==
    /\ at = "mode"
    /\ at' = "admit"
    /\ continuous' = IF phase = "warmup" THEN continuous ELSE phase = "continuous"
    /\ UNCHANGED <<waiting, batch, delivered, lost, failures, slip,
                   tokens, workload, phase, decodes, completion, stats>>

(* The requests to admit: the warm-up has one, of its own, under the first id. *)
Burst == IF phase = "warmup" THEN 1 ELSE Requests

(* for r in reqs: worker.admit(r)                                             *)
BenchAdmit ==
    LET i == Len(waiting) + 1
    IN  /\ at = "admit"
        /\ \E job \in IF phase = "warmup" THEN Job ELSE {workload[i]} :
               Admit(i, job.prompt, job.max)
        /\ at' = IF i < Burst THEN "admit" ELSE "loop"
        /\ UNCHANGED <<tokens, workload, phase, decodes, completion, stats>>

IsIdle == waiting = <<>> /\ batch.seqs = <<>>

(* One turn of the loop.  A run's answers have the lengths of the workload; a  *)
(* step that only evicts takes no time.                                      *)
BenchStep ==
    /\ at = "loop" /\ ~IsIdle
    /\ \/ PrefillStep /\ UNCHANGED decodes
       \/ /\ DecodeStep
          /\ decodes' = IF delivered' = delivered THEN decodes ELSE decodes + 1
    /\ phase # "warmup" => \A i \in DOMAIN batch'.seqs :
           LET s == batch'.seqs[i] IN s.finished <=> s.generated >= workload[s.id].length
    /\ tokens' = [i \in SeqIds |-> tokens[i] + (delivered'[i] - delivered[i])]
    /\ completion' = [i \in SeqIds |->
           IF i \in Resident /\ i \notin Resident' THEN decodes' ELSE completion[i]]
    /\ UNCHANGED <<workload, phase, at, stats>>

(* The loop is over: on to the next part of main().                           *)
Finish ==
    /\ at = "loop" /\ IsIdle
    /\ at' = "reset"
    /\ phase' = CASE phase = "warmup"     -> "static"
                  [] phase = "static"     -> "continuous"
                  [] phase = "continuous" -> "done"
    /\ stats' = IF phase \in Policies
                THEN [stats EXCEPT ![phase] = [completion |-> completion, tokens |-> tokens]]
                ELSE stats
    /\ UNCHANGED <<vars, tokens, workload, decodes, completion>>

BenchNext == Start \/ SetMode \/ BenchAdmit \/ BenchStep \/ Finish

BenchSpec == BenchInit /\ [][BenchNext]_benchVars

(* A single thread that goes on.                                              *)
BenchFairSpec == BenchSpec /\ WF_benchVars(BenchNext)

-------------------------------------------------------------------------------
(* "Static batching changes timing, not greedy outputs": both runs count the   *)
(* same tokens for each request, those of its own answer, though the worker   *)
(* keeps its answers by id and all runs, the warm-up too, use the same ids.    *)
SameOutputs ==
    /\ BenchTypeOK
    /\ phase = "done" => \A policy \in Policies, i \in SeqIds :
        stats[policy].tokens[i] = workload[i].length

(* "The sim's structural story holds on a real model": no request completes    *)
(* after more decodes under continuous than under static batching.            *)
CompletesNoLater ==
    phase = "done" => \A i \in SeqIds :
        stats["continuous"].completion[i] <= stats["static"].completion[i]

(* The loops end: is_idle() comes true though finished sequences stay in the   *)
(* batch until the step after.                                               *)
BenchmarkEnds == <>(phase = "done")
===============================================================================

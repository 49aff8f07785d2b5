------------------------------ MODULE Scheduler ------------------------------
(***************************************************************************)
(* The batching engine of scheduler.py: ContinuousScheduler and            *)
(* StaticScheduler, which share advance and evict and differ in admission. *)
(* One step() is atomic here, as it is for its only caller,                *)
(* SimWorker.step; enqueue() may come between any two steps.               *)
(*                                                                         *)
(* `waiting' is the deque, `running' the dict keyed by sequence id.  The   *)
(* order of the dict decides only the order in which one step lists its    *)
(* tokens, and no property tells those apart, so it is left out.  `owed'   *)
(* and `emitted' are history: what was asked for under an id and what has  *)
(* come out, since the id last became resident.                            *)
(***************************************************************************)
EXTENDS Naturals, Sequences, FiniteSets

CONSTANTS
    SeqIds,       \* sequence ids
    MaxBatch,     \* max_batch_size
    MaxPrefill,   \* bound on prefill_steps of the work enumerated
    MaxDecode,    \* bound on decode_steps of the work enumerated
    Policy        \* "continuous" or "static"

ASSUME SchedulerAssumption ==
    /\ MaxBatch \in Nat \ {0}
    /\ MaxPrefill \in Nat
    /\ MaxDecode \in Nat \ {0}
    /\ Policy \in {"continuous", "static"}

VARIABLES waiting, running, owed, emitted

vars == <<waiting, running, owed, emitted>>

(* SeqWork with the checks of its __post_init__.                            *)
SeqWork == [id : SeqIds, prefill : 0..MaxPrefill, decode : 1..MaxDecode]

(* _Running: what is left of a sequence in the batch.                       *)
Slot == [prefill : 0..MaxPrefill, decode : 0..MaxDecode]

Batches == UNION {[S -> Slot] : S \in SUBSET SeqIds}

(* The queue and the batch hold work as it was enqueued, with no count above  *)
(* its start: what _fill_free_slots and _advance leave behind.              *)
TypeOK ==
    /\ waiting \in Seq(SeqWork)
    /\ running \in Batches
    /\ owed \in [SeqIds -> Nat]
    /\ emitted \in [SeqIds -> Nat]

Queued == {waiting[i].id : i \in DOMAIN waiting}
Resident == Queued \cup DOMAIN running

Init ==
    /\ waiting = <<>>
    /\ running = [id \in {} |-> 0]
    /\ owed = [id \in SeqIds |-> 0]
    /\ emitted = [id \in SeqIds |-> 0]

-------------------------------------------------------------------------------
(* The phases of step().  Each name without a comment is its code's; a      *)
(* definition called Faulty... is a plausible bug, used only to show that   *)
(* the properties below notice it.                                          *)

FaultyAdvanceSlot(s) ==         \* counts the last prefill step as a token too
    IF s.prefill > 1 THEN [s EXCEPT !.prefill = @ - 1]
    ELSE IF s.decode > 0 THEN [prefill |-> 0, decode |-> s.decode - 1]
    ELSE s

AdvanceSlot(s) ==
    IF s.prefill > 0 THEN [s EXCEPT !.prefill = @ - 1]
    ELSE IF s.decode > 0 THEN [s EXCEPT !.decode = @ - 1]
    ELSE s

Advance(r) == [id \in DOMAIN r |-> AdvanceSlot(r[id])]

(* The sequences _advance returns: those that emitted a token.              *)
Tokens(r) == {id \in DOMAIN r : r[id].prefill = 0 /\ r[id].decode > 0}

FaultyFinished(r) == {id \in DOMAIN r : r[id].prefill = 0 /\ r[id].decode <= 1}

Finished(r) == {id \in DOMAIN r : r[id].prefill = 0 /\ r[id].decode = 0}

Evict(r) == [id \in DOMAIN r \ Finished(r) |-> r[id]]

(* The keys of the dict after n waiting sequences were popped into it: an   *)
(* id popped twice, or popped while running, takes one entry.               *)
Taken(r, q, n) == DOMAIN r \cup {q[i].id : i \in 1..n}

(* How many the loop of _fill_free_slots pops: it goes on while a slot is   *)
(* free and something waits.                                                *)
FaultyFillCounts(r, q) ==       \* <= for <: one sequence too many
    {n \in 0..Len(q) :
        /\ \A m \in 0..(n - 1) : Cardinality(Taken(r, q, m)) <= MaxBatch
        /\ n = Len(q) \/ Cardinality(Taken(r, q, n)) > MaxBatch}

FillCounts(r, q) ==
    {n \in 0..Len(q) :
        /\ \A m \in 0..(n - 1) : Cardinality(Taken(r, q, m)) < MaxBatch
        /\ n = Len(q) \/ Cardinality(Taken(r, q, n)) >= MaxBatch}

FaultyFill(r, q, n) ==          \* _Running built with its two counts swapped
    [id \in Taken(r, q, n) |->
        IF \E i \in 1..n : q[i].id = id
        THEN LET i == CHOOSE k \in 1..n : q[k].id = id
             IN  [prefill |-> q[i].decode, decode |-> q[i].prefill]
        ELSE r[id]]

(* The batch after n pops: the last entry popped under an id is the one     *)
(* that stays.                                                              *)
Fill(r, q, n) ==
    [id \in Taken(r, q, n) |->
        IF \E i \in 1..n : q[i].id = id
        THEN LET i == CHOOSE k \in 1..n :
                          q[k].id = id /\ \A j \in (k + 1)..n : q[j].id # id
             IN  [prefill |-> q[i].prefill, decode |-> q[i].decode]
        ELSE r[id]]

FaultyAdmitCounts(r, q) ==      \* one sequence a step, whatever is free
    {IF Len(q) > 0 /\ Cardinality(DOMAIN r) < MaxBatch THEN 1 ELSE 0}

EagerAdmitCounts(r, q) == FillCounts(r, q)    \* static that refills

SwappedAdmitCounts(r, q) ==     \* the two policies the wrong way round
    IF Policy = "continuous" /\ DOMAIN r # {} THEN {0} ELSE FillCounts(r, q)

(* _admit of the two policies.                                              *)
AdmitCounts(r, q) ==
    IF Policy = "static" /\ DOMAIN r # {} THEN {0} ELSE FillCounts(r, q)

-------------------------------------------------------------------------------
FaultyEnqueue(w) ==             \* appendleft for append
    /\ waiting' = <<w>> \o waiting
    /\ owed' = [owed EXCEPT ![w.id] = (IF w.id \in Resident THEN @ ELSE 0) + w.decode]
    /\ emitted' = [emitted EXCEPT ![w.id] = IF w.id \in Resident THEN @ ELSE 0]
    /\ UNCHANGED running

(* enqueue(seq)                                                             *)
Enqueue(w) ==
    /\ waiting' = Append(waiting, w)
    /\ owed' = [owed EXCEPT ![w.id] = (IF w.id \in Resident THEN @ ELSE 0) + w.decode]
    /\ emitted' = [emitted EXCEPT ![w.id] = IF w.id \in Resident THEN @ ELSE 0]
    /\ UNCHANGED running

(* step(): advance, evict, admit, in this order and in one call.            *)
Step ==
    LET left == Evict(Advance(running))
    IN  /\ \E n \in AdmitCounts(left, waiting) :
             /\ running' = Fill(left, waiting, n)
             /\ waiting' = SubSeq(waiting, n + 1, Len(waiting))
        /\ emitted' = [id \in SeqIds |->
               IF id \in Tokens(running) THEN emitted[id] + 1 ELSE emitted[id]]
        /\ UNCHANGED owed

(* A caller that, like the gateway's u0, u1, ..., never reuses an id whose  *)
(* request is still resident.                                               *)
FreshEnqueue == \E w \in SeqWork : w.id \notin Resident /\ Enqueue(w)

Next == FreshEnqueue \/ Step

Spec == Init /\ [][Next]_vars

(* The run loop calls step() for ever, whatever arrives in between.         *)
FairSpec == Spec /\ WF_vars(Step)

-------------------------------------------------------------------------------
(* "Never over-admits": the batch never holds more than max_batch_size      *)
(* sequences, whatever finishes and is admitted in the same step.           *)
BatchBounded == Cardinality(DOMAIN running) <= MaxBatch

(* "Accounting never mixes sequences": at every moment the tokens a         *)
(* sequence has emitted and those its place in the queue or the batch still *)
(* stands for add up to the decode_steps it was enqueued with, so that once *)
(* gone it has emitted exactly its budget.  A token too many or too few,    *)
(* a lost sequence, one counted twice, or one sequence's token credited to  *)
(* another breaks it.                                                       *)
BudgetExact ==
    /\ \A i \in DOMAIN waiting :
         /\ emitted[waiting[i].id] = 0
         /\ owed[waiting[i].id] = waiting[i].decode
    /\ \A id \in DOMAIN running : emitted[id] + running[id].decode = owed[id]
    /\ \A id \in SeqIds \ Resident : emitted[id] = owed[id]

(* Where a sequence stands: 0 in the batch, its place in the queue, or       *)
(* behind the queue when it is not resident.                                *)
Position(id) ==
    IF id \in DOMAIN running THEN 0
    ELSE IF id \in Queued THEN CHOOSE i \in DOMAIN waiting : waiting[i].id = id
    ELSE Len(waiting) + 1

(* First come, first served: whatever step is taken, nobody who stood       *)
(* behind a queued sequence, or was not there yet, gets ahead of it.        *)
NoOvertaking ==
    [][\A x \in Queued, y \in SeqIds :
         Position(y) > Position(x) => Position(y)' >= Position(x)']_vars

(* Continuous batching wastes no slot: after a step, a sequence still waits *)
(* only if the batch is full.                                               *)
NoIdleSlotAfterStep ==
    [][Step => waiting' = <<>> \/ Cardinality(DOMAIN running') = MaxBatch]_vars

(* Static batching keeps one batch together: a sequence enters only when    *)
(* every sequence of the batch before it has left.                          *)
BatchesDoNotOverlap ==
    [][DOMAIN running' \ DOMAIN running # {} => DOMAIN running' \cap DOMAIN running = {}]_vars

(* "No starvation": whatever keeps arriving, a sequence that was enqueued   *)
(* finishes and leaves.                                                     *)
NoStarvation == \A id \in SeqIds : (id \in Resident) ~> (id \notin Resident)

(* The scheduler keeps the Worker protocol: one event per sequence and step *)
(* and only for residents, the last one being the final one.                *)
Worker == INSTANCE WorkerProtocol
              WITH resident <- Resident, delivered <- emitted, Burst <- 1

KeepsWorkerProtocol == Worker!Spec
===============================================================================

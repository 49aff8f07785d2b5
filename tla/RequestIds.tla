------------------------------ MODULE RequestIds ------------------------------
(***************************************************************************)
(* Where request ids come from, and what the scheduler does with them: the *)
(* counter behind /api/submit (u0, u1, ...), the counter of each load      *)
(* generator (g0, g1, ...), and the scheduler of a pool of one simulated   *)
(* worker.  Scheduler alone takes it that an id is never used while its    *)
(* sequence is resident; here the ids are those the gateway hands out.     *)
(*                                                                         *)
(* The endpoints run in threads and next_req_id() is not locked, so its    *)
(* read and its write of the counter are steps of their own.  The run loop *)
(* takes hold of the active generator and samples it later, so that an     *)
(* endpoint may have started another one in between.                       *)
(***************************************************************************)
EXTENDS Scheduler, FiniteSetsExt

CONSTANTS
    Threads,      \* threads that serve /api/submit
    Generators,   \* LoadGenerator objects; the loop and the state refer to two at most
    NoGenerator,  \* None
    MaxNumber,    \* bound on the numbers in ids
    MaxOwed       \* bound on what is asked for under an id that stays resident

ASSUME RequestIdsAssumption ==
    /\ NoGenerator \notin Generators
    /\ MaxNumber \in Nat /\ MaxOwed \in Nat
    /\ SeqIds = {"u", "g"} \X (0..MaxNumber)

VARIABLES
    reqSeq,     \* _State.req_seq
    posting,    \* the number each thread has read, and how far it is
    active,     \* _State.loadgen
    count,      \* _n of each generator
    held,       \* the generator the loop has got hold of in this tick
    at,         \* where the loop stands in its tick
    due,        \* numbers of the arrivals sampled and not yet submitted
    overlapped, \* whether two threads were ever in next_req_id() at once (history)
    mixed       \* whether a generator was ever started before the requests of
                \* another were through (history)

idVars == <<reqSeq, posting, active, count, held, at, due, overlapped, mixed>>
allVars == <<vars, idVars>>

PostId(n) == <<"u", n>>
GenId(n) == <<"g", n>>

(* The fields of _State, of the generators and of the scheduler; every number  *)
(* a thread has read or a generator counts up to is one that was handed out.  *)
IdsTypeOK ==
    /\ TypeOK
    /\ reqSeq \in 0..(MaxNumber + 1)
    /\ posting \in [Threads -> [at : {"idle", "read", "named"}, n : 0..MaxNumber]]
    /\ active \in Generators \cup {NoGenerator}
    /\ count \in [Generators -> 0..(MaxNumber + 1)]
    /\ held \in Generators \cup {NoGenerator}
    /\ at \in {"sleep", "got", "submit"}
    /\ due \subseteq 0..MaxNumber
    /\ overlapped \in BOOLEAN /\ mixed \in BOOLEAN

InitAll ==
    /\ Init
    /\ reqSeq = 0
    /\ posting = [t \in Threads |-> [at |-> "idle", n |-> 0]]
    /\ active = NoGenerator
    /\ count = [g \in Generators |-> 0]
    /\ held = NoGenerator
    /\ at = "sleep"
    /\ due = {}
    /\ overlapped = FALSE
    /\ mixed = FALSE

-------------------------------------------------------------------------------
loopVars == <<active, count, held, at, due, mixed>>
postVars == <<reqSeq, posting, overlapped>>

(* next_req_id(): n = state.req_seq ...                                       *)
ReadSeq(t) ==
    /\ posting[t].at = "idle"
    /\ reqSeq <= MaxNumber
    /\ posting' = [posting EXCEPT ![t] = [at |-> "read", n |-> reqSeq]]
    /\ overlapped' = (overlapped \/ \E u \in Threads : posting[u].at = "read")
    /\ UNCHANGED <<vars, reqSeq, loopVars>>

(* ... state.req_seq = n + 1.                                                 *)
WriteSeq(t) ==
    /\ posting[t].at = "read"
    /\ reqSeq' = posting[t].n + 1
    /\ posting' = [posting EXCEPT ![t].at = "named"]
    /\ UNCHANGED <<vars, overlapped, loopVars>>

(* pool.submit(): the worker enqueues a request under the id.                 *)
Submit(id) ==
    \E w \in SeqWork :
        /\ w.id = id
        /\ (IF id \in Resident THEN owed[id] ELSE 0) + w.decode <= MaxOwed
        /\ Enqueue(w)

(* The request is admitted by the worker under the id made of n.              *)
Post(t) ==
    /\ posting[t].at = "named"
    /\ Submit(PostId(posting[t].n))
    /\ posting' = [posting EXCEPT ![t].at = "idle"]
    /\ UNCHANGED <<reqSeq, overlapped, loopVars>>

(* Requests of a generator are still to be sampled, submitted or served.      *)
GeneratedAbout == held # NoGenerator \/ \E n \in 0..MaxNumber : GenId(n) \in Resident

(* start_loadgen: a new LoadGenerator, which counts from 0, whatever the loop  *)
(* is about to do with the last one.                                          *)
StartLoadgen ==
    /\ \E g \in Generators \ {held} :
         /\ active' = g
         /\ count' = [count EXCEPT ![g] = 0]
    /\ mixed' = (mixed \/ GeneratedAbout)
    /\ UNCHANGED <<vars, postVars, held, at, due>>

StopLoadgen ==
    /\ active' = NoGenerator
    /\ UNCHANGED <<vars, postVars, count, held, at, due, mixed>>

(* A tick: lg = get_loadgen() ...                                             *)
GetLoadgen ==
    /\ at = "sleep"
    /\ held' = active
    /\ at' = IF active = NoGenerator THEN "submit" ELSE "got"
    /\ UNCHANGED <<vars, postVars, active, count, due, mixed>>

FaultySample ==                 \* the generator's counter is not advanced
    /\ at = "got"
    /\ \E next \in count[held]..(MaxNumber + 1) : due' = count[held]..(next - 1)
    /\ at' = "submit"
    /\ UNCHANGED <<vars, postVars, active, count, held, mixed>>

(* ... lg.sample(tick_s): any number of arrivals, for every rate is above 0 ... *)
Sample ==
    /\ at = "got"
    /\ \E next \in count[held]..(MaxNumber + 1) :
           /\ due' = count[held]..(next - 1)
           /\ count' = [count EXCEPT ![held] = next]
    /\ at' = "submit"
    /\ UNCHANGED <<vars, postVars, active, held, mixed>>

(* ... for req in arrivals: pool.submit(req) ...                              *)
SubmitDue ==
    /\ at = "submit"
    /\ due # {}
    /\ Submit(GenId(Min(due)))
    /\ due' = due \ {Min(due)}
    /\ UNCHANGED <<postVars, active, count, held, at, mixed>>

(* ... pool.step().                                                           *)
StepPool ==
    /\ at = "submit"
    /\ due = {}
    /\ Step
    /\ at' = "sleep"
    /\ held' = NoGenerator
    /\ UNCHANGED <<postVars, active, count, due, mixed>>

NextAll ==
    \/ \E t \in Threads : ReadSeq(t) \/ WriteSeq(t) \/ Post(t)
    \/ StartLoadgen \/ StopLoadgen
    \/ GetLoadgen \/ Sample \/ SubmitDue \/ StepPool

IdsSpec == InitAll /\ [][NextAll]_allVars

-------------------------------------------------------------------------------
DecodeAt(i) == waiting[i].decode

(* The tokens the queue and the batch still stand for under an id.            *)
Remaining(id) ==
    MapThenSumSet(DecodeAt, {i \in DOMAIN waiting : waiting[i].id = id})
        + (IF id \in DOMAIN running THEN running[id].decode ELSE 0)

(* Whatever was asked for under an id, by one request or several, has been    *)
(* emitted or is still to come.                                               *)
Accounted(id) == emitted[id] + Remaining(id) = owed[id]

(* "Per-sequence accounting never mixes": no id loses a token.  A sequence     *)
(* that takes the place of another in the batch breaks it.                    *)
NothingLost == \A id \in SeqIds : Accounted(id)

(* Nothing else does: the posted requests keep their accounts as long as no    *)
(* two threads were in next_req_id() at once, whatever becomes of the          *)
(* generated ones; and the generated ones as long as each generator was        *)
(* started after the requests of the last were through -- served, and none in  *)
(* the hands of the loop -- whatever becomes of the posted ones.              *)
OnlyReuseLoses ==
    /\ IdsTypeOK
    /\ ~overlapped => \A n \in 0..MaxNumber : Accounted(PostId(n))
    /\ ~mixed => \A n \in 0..MaxNumber : Accounted(GenId(n))
===============================================================================

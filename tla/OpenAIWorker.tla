---------------------------- MODULE OpenAIWorker -----------------------------
(***************************************************************************)
(* The backend of openai_worker.py: one daemon thread per request streams  *)
(* completions from a server and puts token events in a queue that step()  *)
(* drains.  Threads, the caller of admit() and the caller of step() and    *)
(* is_idle() interleave at every lock and every queue operation, which is  *)
(* where the actions below are cut.                                        *)
(*                                                                         *)
(* The drain of step() is one action: events are only ever appended, so    *)
(* the loop returns exactly what the queue holds when it is found empty.   *)
(* step() and is_idle() have one caller, the run loop, which drains the    *)
(* worker every tick and then, when the autoscaler wants a worker less,    *)
(* asks is_idle() and takes an idle worker out of the pool.  Here that is  *)
(* one step with the second read of is_idle(); a submit that falls between *)
(* the two is the subject of Serving.                                      *)
(*                                                                         *)
(* The server is external: it streams at most max_tokens deltas, and may   *)
(* stop early (end of sequence) or fail.  A request id is used again once  *)
(* nothing is left of its previous use.                                    *)
(***************************************************************************)
EXTENDS Naturals, Sequences, FiniteSets, FiniteSetsExt

CONSTANTS
    SeqIds,       \* request ids
    MaxTokens,    \* bound on max_tokens of the requests enumerated
    MaxPending    \* bound on the estimate of pending tokens

ASSUME OpenAIAssumption ==
    /\ IsFiniteSet(SeqIds)
    /\ MaxTokens \in Nat \ {0}
    /\ MaxPending \in Nat

VARIABLES
    thread,     \* where the stream thread of each id stands
    want,       \* max_tokens of its request
    sent,       \* deltas it has put so far (history)
    events,     \* the queue
    inFlight, pending, healthy,
    loop,       \* where the run loop stands with this worker
    raced,      \* whether a request came between the last is_idle()'s reads (history)
    delivered   \* events step() has returned for the current use (history)

vars == <<thread, want, sent, events, inFlight, pending, healthy, loop, raced, delivered>>

Event == [id : SeqIds, final : BOOLEAN]

(* "none": no thread.  "streaming": in the loop over the response.           *)
(* "counting": has put a delta, not yet lowered the estimate.  "failed": out *)
(* of the except clause.  "leaving": final event put, still counted as in    *)
(* flight.                                                                   *)
ThreadState == {"none", "streaming", "counting", "failed", "leaving"}

(* The fields as __init__ declares them; in_flight never drops below zero,   *)
(* though two threads lower it.                                             *)
TypeOK ==
    /\ thread \in [SeqIds -> ThreadState]
    /\ want \in [SeqIds -> 0..MaxTokens]
    /\ sent \in [SeqIds -> 0..MaxTokens]
    /\ events \in Seq(Event)
    /\ inFlight \in Nat
    /\ pending \in 0..MaxPending
    /\ healthy \in BOOLEAN
    /\ loop \in {"step", "scale", "sawNoneInFlight", "reclaimed"}
    /\ raced \in BOOLEAN
    /\ delivered \in [SeqIds -> Nat]

Active == {id \in SeqIds : thread[id] # "none"}
Undrained == {events[i].id : i \in DOMAIN events}

(* The requests whose final event step() has yet to return.                  *)
Resident == {id \in SeqIds : thread[id] \in {"streaming", "counting", "failed"}} \cup Undrained

Init ==
    /\ thread = [id \in SeqIds |-> "none"]
    /\ want = [id \in SeqIds |-> 0]
    /\ sent = [id \in SeqIds |-> 0]
    /\ events = <<>>
    /\ inFlight = 0
    /\ pending = 0
    /\ healthy = TRUE
    /\ loop = "step"
    /\ raced = FALSE
    /\ delivered = [id \in SeqIds |-> 0]

-------------------------------------------------------------------------------
(* admit(req): the counters under the lock, then the thread is started.  It   *)
(* is called by the run loop between two ticks and by /api/submit at any      *)
(* moment, as long as the worker is in the pool.                             *)
Admit(id, m) ==
    /\ loop # "reclaimed"
    /\ raced' = (raced \/ loop = "sawNoneInFlight")
    /\ thread[id] = "none" /\ id \notin Resident
    /\ pending + m <= MaxPending
    /\ thread' = [thread EXCEPT ![id] = "streaming"]
    /\ want' = [want EXCEPT ![id] = m]
    /\ sent' = [sent EXCEPT ![id] = 0]
    /\ inFlight' = inFlight + 1
    /\ pending' = pending + m
    /\ delivered' = [delivered EXCEPT ![id] = 0]
    /\ UNCHANGED <<events, healthy, loop>>

(* A delta arrives: the first half of _emit(is_final=False).                 *)
EmitDelta(id) ==
    /\ thread[id] = "streaming"
    /\ sent[id] < want[id]
    /\ events' = Append(events, [id |-> id, final |-> FALSE])
    /\ sent' = [sent EXCEPT ![id] = @ + 1]
    /\ thread' = [thread EXCEPT ![id] = "counting"]
    /\ UNCHANGED <<want, inFlight, pending, healthy, loop, delivered, raced>>

FaultyCountDelta(id) ==         \* the whole request paid off at its first token
    /\ thread[id] = "counting"
    /\ pending' = IF pending > want[id] THEN pending - want[id] ELSE 0
    /\ thread' = [thread EXCEPT ![id] = "streaming"]
    /\ UNCHANGED <<want, sent, events, inFlight, healthy, loop, delivered, raced>>

(* Its second half, under the lock.                                          *)
CountDelta(id) ==
    /\ thread[id] = "counting"
    /\ pending' = IF pending > 0 THEN pending - 1 ELSE 0
    /\ thread' = [thread EXCEPT ![id] = "streaming"]
    /\ UNCHANGED <<want, sent, events, inFlight, healthy, loop, delivered, raced>>

FaultyFail(id) ==               \* the thread dies with its exception: no finally
    /\ thread[id] = "streaming"
    /\ healthy' = FALSE
    /\ thread' = [thread EXCEPT ![id] = "none"]
    /\ UNCHANGED <<want, sent, events, inFlight, pending, loop, delivered, raced>>

(* The request or the response failed: the except clause.                    *)
Fail(id) ==
    /\ thread[id] = "streaming"
    /\ healthy' = FALSE
    /\ thread' = [thread EXCEPT ![id] = "failed"]
    /\ UNCHANGED <<want, sent, events, inFlight, pending, loop, delivered, raced>>

FaultyEmitFinal(id) ==          \* a second in_flight -= 1 beside the final event
    /\ thread[id] \in {"streaming", "failed"}
    /\ inFlight' = inFlight - 1
    /\ events' = Append(events, [id |-> id, final |-> TRUE])
    /\ thread' = [thread EXCEPT ![id] = "leaving"]
    /\ UNCHANGED <<want, sent, pending, healthy, loop, delivered, raced>>

(* The stream is over, normally or not: finally, _emit(is_final=True).       *)
EmitFinal(id) ==
    /\ thread[id] \in {"streaming", "failed"}
    /\ events' = Append(events, [id |-> id, final |-> TRUE])
    /\ thread' = [thread EXCEPT ![id] = "leaving"]
    /\ UNCHANGED <<want, sent, inFlight, pending, healthy, loop, delivered, raced>>

FaultyLeave(id) ==              \* the final event put a second time
    /\ thread[id] = "leaving"
    /\ inFlight' = inFlight - 1
    /\ events' = Append(events, [id |-> id, final |-> TRUE])
    /\ thread' = [thread EXCEPT ![id] = "none"]
    /\ UNCHANGED <<want, sent, pending, healthy, loop, delivered, raced>>

(* ... and the thread ends.                                                  *)
Leave(id) ==
    /\ thread[id] = "leaving"
    /\ inFlight' = inFlight - 1
    /\ thread' = [thread EXCEPT ![id] = "none"]
    /\ UNCHANGED <<want, sent, events, pending, healthy, loop, delivered, raced>>

EventsOf(id) == {i \in DOMAIN events : events[i].id = id}

FaultyStep ==                   \* nothing is returned once a request has failed
    /\ loop = "step"
    /\ events' = IF healthy THEN <<>> ELSE events
    /\ delivered' = [id \in SeqIds |->
           IF healthy THEN delivered[id] + Cardinality(EventsOf(id)) ELSE delivered[id]]
    /\ loop' = "scale"
    /\ UNCHANGED <<thread, want, sent, inFlight, pending, healthy, raced>>

(* step(): everything in the queue is returned.                              *)
Step ==
    /\ loop = "step"
    /\ events' = <<>>
    /\ delivered' = [id \in SeqIds |-> delivered[id] + Cardinality(EventsOf(id))]
    /\ loop' = "scale"
    /\ UNCHANGED <<thread, want, sent, inFlight, pending, healthy, raced>>

(* The rest of the tick, when the autoscaler holds or is not due.            *)
NoScale ==
    /\ loop = "scale"
    /\ loop' = "step"
    /\ UNCHANGED <<thread, want, sent, events, inFlight, pending, healthy, delivered, raced>>

(* is_idle(): first in_flight(), under the lock ...                          *)
ProbeInFlight ==
    /\ loop = "scale"
    /\ loop' = IF inFlight = 0 THEN "sawNoneInFlight" ELSE "step"
    /\ raced' = FALSE
    /\ UNCHANGED <<thread, want, sent, events, inFlight, pending, healthy, delivered>>

FaultyProbeEvents ==            \* in_flight() == 0 alone taken for idle
    /\ loop = "sawNoneInFlight"
    /\ loop' = "reclaimed"
    /\ UNCHANGED <<thread, want, sent, events, inFlight, pending, healthy, delivered, raced>>

(* ... then the queue.  A worker found idle is removed from the pool.        *)
ProbeEvents ==
    /\ loop = "sawNoneInFlight"
    /\ loop' = IF events = <<>> THEN "reclaimed" ELSE "step"
    /\ UNCHANGED <<thread, want, sent, events, inFlight, pending, healthy, delivered, raced>>

RunLoop == Step \/ NoScale \/ ProbeInFlight \/ ProbeEvents

ThreadStep(id) ==
    EmitDelta(id) \/ CountDelta(id) \/ Fail(id) \/ EmitFinal(id) \/ Leave(id)

Next ==
    \/ \E id \in SeqIds :
         (\E m \in 1..MaxTokens : Admit(id, m)) \/ ThreadStep(id)
    \/ RunLoop

Spec == Init /\ [][Next]_vars

(* The threads are scheduled and the run loop keeps ticking.  Nothing says   *)
(* that a request is ever submitted.                                         *)
FairSpec ==
    /\ Spec
    /\ \A id \in SeqIds : WF_vars(ThreadStep(id))
    /\ WF_vars(RunLoop)

-------------------------------------------------------------------------------
(* "True when nothing is queued or running (safe to reclaim)": a worker the  *)
(* autoscaler takes away owes nobody a final event, be it in a thread or     *)
(* still in the queue.  The two reads of is_idle() are enough for that,       *)
(* unless a request is admitted between them.                                *)
SafeToReclaim == loop = "reclaimed" /\ ~raced => Resident = {}

(* The count the pool routes and scales on is the number of live threads,    *)
(* however they end.                                                         *)
InFlightExact == inFlight = Cardinality(Active)

Owed(id) == want[id] - sent[id]

(* The estimate behind least-pending-tokens may be too high, never too low:  *)
(* it covers what every stream still running has left.                       *)
PendingCoversStreams ==
    pending >= MapThenSumSet(Owed, {id \in SeqIds : thread[id] \in {"streaming", "counting"}})

(* A backend error must not lose a request: every admitted request gets its  *)
(* final event returned, unless the worker is taken away under it.           *)
EveryRequestEnds ==
    \A id \in SeqIds : (id \in Resident) ~> (id \notin Resident \/ loop = "reclaimed")

(* The Worker protocol: events only for residents, the final one last and    *)
(* once; a request can have all its events in one drain.                     *)
Worker == INSTANCE WorkerProtocol
              WITH resident <- Resident, Burst <- MaxTokens + 1

KeepsWorkerProtocol == Worker!Spec
===============================================================================

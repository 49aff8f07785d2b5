------------------------------- MODULE Routing --------------------------------
(***************************************************************************)
(* Routing: Router.route over the eight strategies of routing/, called by  *)
(* PoolManager.submit, and what submit() changes of what they look at: the *)
(* outstanding requests, pending tokens and cached prefixes of the workers.*)
(*                                                                         *)
(* A submit() decides on the states it read and admits later, since the    *)
(* endpoints' threads and the run loop submit at the same time; round-robin *)
(* moves its cursor in between, and takes no lock.  Workers come and go    *)
(* meanwhile, and the operator swaps the strategy.  A worker is what its   *)
(* state() shows; how it serves is reduced to the tokens and requests it   *)
(* gets rid of.                                                            *)
(*                                                                         *)
(* A worker's name is its number; the dict keeps the workers in the order  *)
(* of their numbers, and ties are broken by the order of the strings "w0", *)
(* "w1", ..., where "w10" comes before "w2".  Every worker the program     *)
(* builds has speed_profile 1.0.                                           *)
(***************************************************************************)
EXTENDS Naturals, FiniteSets, FiniteSetsExt

CONSTANTS
    Prefixes,     \* prefix keys
    Callers,      \* threads that call submit()
    Strategies,   \* strategies the operator picks from, of STRATEGY_NAMES
    Backends,     \* "sim" or "openai"
    Initial,      \* initial workers
    MaxName,      \* bound on worker names
    MaxJobs,      \* bound on the requests of a worker
    MaxPending,   \* bound on the pending tokens of a worker of each backend
    NameRank,     \* the place of each name in the order of the strings
    Period        \* the cursor is kept modulo this multiple of all pool sizes

Names == 0..MaxName
None == "none"          \* prefix_key = None
Priorities == {"interactive", "batch"}
StrategyNames == {"random", "round-robin", "least-queue-depth", "least-pending-tokens",
                  "power-of-two-choices", "prefix-affinity", "priority", "hardware-aware"}

ASSUME RoutingAssumption ==
    /\ None \notin Prefixes
    /\ MaxName \in Nat
    /\ NameRank \in [Names -> Nat]
    /\ \A m, n \in Names : NameRank[m] = NameRank[n] => m = n
    /\ Initial \in 0..(MaxName + 1)
    /\ MaxJobs \in Nat
    /\ MaxPending \in [Backends -> Nat]
    /\ Period \in Nat \ {0}
    /\ \A n \in 1..(MaxName + 1) : Period % n = 0
    /\ Backends \subseteq {"sim", "openai"}
    /\ Strategies \subseteq StrategyNames

VARIABLES
    backend,
    workers,     \* the pool: names to states
    nextId,
    strategy, cursor,    \* the router's strategy, and RoundRobin's _i
    calls,       \* the submit() each caller is in
    round,       \* while choices came one at a time, out of the same healthy workers:
                 \* who they are, and whom the current round has chosen (history)
    scattered    \* prefixes routed without affinity, or twice at a time (history)

vars == <<backend, workers, nextId, strategy, cursor, calls, round, scattered>>

State == [jobs : Nat, pending : Nat, healthy : BOOLEAN, prefixes : SUBSET Prefixes]

Fresh == [jobs |-> 0, pending |-> 0, healthy |-> TRUE, prefixes |-> {}]

(* A submit() that has its target: round-robin's `self._i += 1' is ahead of it, *)
(* or has read the cursor, or is through and the call is on its way to admit().  *)
Call == [at : {"increment", "store", "admit"}, target : Names,
         prefix : Prefixes \cup {None}, i : 0..(Period - 1)]

NoCall == [at |-> "idle"]

Busy == {c \in Callers : calls[c] # NoCall}
Coming(n) == {c \in Busy : calls[c].target = n}
Choosing == {c \in Busy : calls[c].at # "admit"}

(* The fields of the pool and of the router; each call in progress knows where *)
(* it is going.                                                               *)
TypeOK ==
    /\ backend \in Backends
    /\ DOMAIN workers \subseteq 0..(nextId - 1)
    /\ \A n \in DOMAIN workers : workers[n] \in State
    /\ nextId \in 0..(MaxName + 1)
    /\ strategy \in Strategies
    /\ cursor \in 0..(Period - 1)
    /\ \A c \in Busy : calls[c] \in Call
    /\ scattered \subseteq Prefixes

Init ==
    /\ backend \in Backends
    /\ workers = [n \in 0..(Initial - 1) |-> Fresh]
    /\ nextId = Initial
    /\ strategy \in Strategies
    /\ cursor = 0
    /\ calls = [c \in Callers |-> NoCall]
    /\ round = [of |-> {}, chosen |-> {}]
    /\ scattered = {}

-------------------------------------------------------------------------------
(* The strategies: sets of the workers each may choose out of S, by what it   *)
(* sees of them.  Only random and power-of-two-choices leave a choice.        *)

(* The router filters out the unhealthy workers.                              *)
Healthy == {n \in DOMAIN workers : workers[n].healthy}

Jobs(n) == workers[n].jobs
Pending(n) == workers[n].pending

(* min(states, key = ...), with the name as the second part of the key.       *)
FirstBy(S, key) ==
    {n \in S : \A m \in S : \/ key[n] < key[m]
                            \/ key[n] = key[m] /\ NameRank[n] <= NameRank[m]}

LeastLoaded(S) == FirstBy(S, [n \in S |-> Jobs(n)])
LeastPending(S) == FirstBy(S, [n \in S |-> Pending(n)])

FaultyInOrder(S, i) ==          \* the cursor is clamped, not wrapped
    {n \in S : Cardinality({m \in S : m < n}) = Min({i, Cardinality(S) - 1})}

(* states[i % len(states)]; the dict keeps the workers in the order of names. *)
InOrder(S, i) == {n \in S : Cardinality({m \in S : m < n}) = i % Cardinality(S)}

PowerOfTwo(S) ==
    IF Cardinality(S) <= 1 THEN S
    ELSE UNION {LeastLoaded(T) : T \in kSubset(2, S)}

Holders(S, prefix) == {n \in S : prefix \in workers[n].prefixes}

FaultyPrefixAffinity(S, prefix) == LeastLoaded(S)    \* the cache is not looked at

PrefixAffinity(S, prefix) ==
    IF prefix # None /\ Holders(S, prefix) # {}
    THEN LeastLoaded(Holders(S, prefix))
    ELSE LeastLoaded(S)

FaultyPriority(S, priority) ==  \* batch goes to the least busy of the busy, or idle
    IF priority = "interactive" THEN LeastPending(S)
    ELSE LeastPending({n \in S : Pending(n) + 1 >= Max({Pending(m) : m \in S})})

Priority(S, priority) ==
    IF priority = "interactive" THEN LeastPending(S)
    ELSE LET busiest == Max({Pending(m) : m \in S})
         IN  FirstBy({n \in S : Pending(n) = busiest}, [n \in S |-> busiest])

HardwareAware(S) == LeastLoaded(S)      \* all of one speed

Picks(S, priority, prefix) ==
    CASE strategy = "random"               -> S
      [] strategy = "round-robin"          -> InOrder(S, cursor)
      [] strategy = "least-queue-depth"    -> LeastLoaded(S)
      [] strategy = "least-pending-tokens" -> LeastPending(S)
      [] strategy = "power-of-two-choices" -> PowerOfTwo(S)
      [] strategy = "prefix-affinity"      -> PrefixAffinity(S, prefix)
      [] strategy = "priority"             -> Priority(S, priority)
      [] strategy = "hardware-aware"       -> HardwareAware(S)

-------------------------------------------------------------------------------
NewRound == [of |-> {}, chosen |-> {}]

(* The round goes on if nobody else is choosing and the same workers are       *)
(* healthy; a choice made while another is going on breaks it off.             *)
RoundAfter(n) ==
    LET before == IF round.of = Healthy THEN round.chosen ELSE {}
    IN  IF strategy # "round-robin" \/ Choosing # {} THEN NewRound
        ELSE [of |-> Healthy,
              chosen |-> IF before \cup {n} = Healthy THEN {} ELSE before \cup {n}]

(* submit(), first part: worker_states() and route(), up to the worker chosen. *)
(* NoHealthyWorkersError changes nothing here.  Streaming workers cache        *)
(* nothing: with them a prefix key makes no difference.                        *)
Route(c, priority, prefix) ==
    /\ calls[c] = NoCall
    /\ backend = "sim" \/ prefix = None
    /\ Healthy # {}
    /\ \E n \in Picks(Healthy, priority, prefix) :
         /\ Jobs(n) + Cardinality(Coming(n)) < MaxJobs
         /\ calls' = [calls EXCEPT ![c] =
                [at |-> IF strategy = "round-robin" THEN "increment" ELSE "admit",
                 target |-> n, prefix |-> prefix, i |-> 0]]
         /\ round' = RoundAfter(n)
    /\ scattered' =
         IF prefix # None /\ (\/ strategy # "prefix-affinity"
                              \/ \E d \in Busy : calls[d].prefix = prefix)
         THEN scattered \cup {prefix} ELSE scattered
    /\ UNCHANGED <<backend, workers, nextId, strategy, cursor>>

(* self._i += 1 reads the cursor once more ...                                 *)
ReadCursor(c) ==
    /\ calls[c].at = "increment"
    /\ calls' = [calls EXCEPT ![c].at = "store", ![c].i = cursor]
    /\ UNCHANGED <<backend, workers, nextId, strategy, cursor, round, scattered>>

(* ... and writes it; an increment that came in between is lost.               *)
WriteCursor(c) ==
    /\ calls[c].at = "store"
    /\ cursor' = (calls[c].i + 1) % Period
    /\ calls' = [calls EXCEPT ![c].at = "admit", ![c].i = 0]
    /\ UNCHANGED <<backend, workers, nextId, strategy, round, scattered>>

(* The rest of it: admit().  A simulated worker takes the prefix as cached     *)
(* from here on.  KeyError if the worker is gone.                              *)
Admit(c, want) ==
    LET n == calls[c].target
    IN  /\ calls[c].at = "admit"
        /\ n \in DOMAIN workers => Pending(n) + want <= MaxPending[backend]
        /\ calls' = [calls EXCEPT ![c] = NoCall]
        /\ workers' =
             IF n \notin DOMAIN workers THEN workers
             ELSE [workers EXCEPT ![n].jobs = @ + 1, ![n].pending = @ + want,
                                  ![n].prefixes = @ \cup ({calls[c].prefix} \ {None})]
        /\ UNCHANGED <<backend, nextId, strategy, cursor, round, scattered>>

(* Tokens are produced and requests leave.  A simulated worker owes every      *)
(* request it has a token or more, each step yields at most one of each, and   *)
(* the last one takes it out; of a streaming one the estimate may be used up   *)
(* before the stream ends, or never be.                                        *)
Serve(n) ==
    /\ \E jobs \in 0..Jobs(n), tokens \in 0..Jobs(n) :
         /\ tokens <= Pending(n)
         /\ backend = "sim" => /\ tokens >= Jobs(n) - jobs
                               /\ Pending(n) - tokens >= jobs
                               /\ jobs = 0 => tokens = Pending(n)
         /\ workers' = [workers EXCEPT ![n].jobs = jobs, ![n].pending = @ - tokens]
    /\ UNCHANGED <<backend, nextId, strategy, cursor, calls, round, scattered>>

(* A stream of this worker failed; nothing ever makes it healthy again.        *)
Sicken(n) ==
    /\ backend = "openai" /\ Jobs(n) > 0
    /\ workers' = [workers EXCEPT ![n].healthy = FALSE]
    /\ UNCHANGED <<backend, nextId, strategy, cursor, calls, round, scattered>>

(* set_strategy: a new object, with a new cursor.  Whoever is in choose() moves *)
(* the cursor of the old one, which nobody looks at any more.                   *)
SetStrategy ==
    /\ strategy' \in Strategies
    /\ cursor' = 0
    /\ round' = NewRound
    /\ calls' = [c \in Callers |-> IF c \in Choosing
                                   THEN [calls[c] EXCEPT !.at = "admit", !.i = 0]
                                   ELSE calls[c]]
    /\ UNCHANGED <<backend, workers, nextId, scattered>>

AddWorker ==
    /\ nextId <= MaxName
    /\ workers' = [n \in DOMAIN workers \cup {nextId} |->
                       IF n = nextId THEN Fresh ELSE workers[n]]
    /\ nextId' = nextId + 1
    /\ UNCHANGED <<backend, strategy, cursor, calls, round, scattered>>

(* kill_worker, or the autoscaler; any worker may go.                          *)
Remove(n) ==
    /\ workers' = [m \in DOMAIN workers \ {n} |-> workers[m]]
    /\ UNCHANGED <<backend, nextId, strategy, cursor, calls, round, scattered>>

Submit(c) ==
    \/ \E priority \in Priorities, prefix \in Prefixes \cup {None} :
           Route(c, priority, prefix)
    \/ ReadCursor(c) \/ WriteCursor(c)
    \/ \E want \in 1..MaxPending[backend] : Admit(c, want)

Next ==
    \/ \E c \in Callers : Submit(c)
    \/ \E n \in DOMAIN workers : Serve(n) \/ Sicken(n) \/ Remove(n)
    \/ SetStrategy \/ AddWorker

Spec == Init /\ [][Next]_vars

-------------------------------------------------------------------------------
(* "Route requests sharing a prompt prefix to the worker holding its cached    *)
(* KV": as long as a prefix is routed by affinity, one submit at a time, there *)
(* is one worker that holds it, however loads change and workers come and go;  *)
(* two at a time may each miss and pick different workers.                     *)
OnePrefixHolder ==
    \A p \in Prefixes \ scattered : Cardinality(Holders(DOMAIN workers, p)) <= 1

(* "Cycle through workers in order, ignoring load": as long as the same        *)
(* workers are healthy and no two calls are in choose() at once, nobody is     *)
(* chosen twice before everybody was chosen once, at whatever place of the     *)
(* cycle their number last changed or calls last got in each other's way.      *)
FairRotation ==
    [][\A c \in Callers :
         /\ strategy = "round-robin" /\ round.of = Healthy
         /\ calls[c] = NoCall /\ calls'[c] # NoCall
         /\ Choosing = {}
         => calls'[c].target \notin round.chosen]_vars

(* "Batch backfills the busiest worker, reserving idle capacity for            *)
(* interactive": a batch request goes to an idle simulated worker only if all  *)
(* of them are idle.                                                           *)
ReservesIdle ==
    backend = "sim" /\ (\E n \in Healthy : Jobs(n) > 0)
        => \A n \in Priority(Healthy, "batch") : Jobs(n) > 0
===============================================================================

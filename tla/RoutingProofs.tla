---------------------------- MODULE RoutingProofs -----------------------------
(***************************************************************************)
(* Theorems about Routing, for every pool, every number of callers and     *)
(* prefixes, and every way the strategy is swapped.                        *)
(*                                                                         *)
(* One holder per prefix is not inductive: the holder may be made while    *)
(* another call is on its way.  What is: at most one call with that prefix *)
(* is under way, and it goes to the holder if there is one.  That the      *)
(* rotation is fair needs where the cursor stands, or will stand when the  *)
(* one call in choose() is through: those chosen in the round are those    *)
(* whose next turn is the farthest away.                                   *)
(***************************************************************************)
EXTENDS Routing, FiniteSetTheorems, WellFoundedInduction, TLAPS

Holds(n, p) == n \in DOMAIN workers /\ p \in workers[n].prefixes

Carries(c, p) == c \in Busy /\ calls[c].prefix = p

(* What is true of a prefix that was always routed by affinity, one submit at  *)
(* a time.                                                                     *)
Together(p) ==
    /\ \A m, n : Holds(m, p) /\ Holds(n, p) => m = n
    /\ \A c, d : Carries(c, p) /\ Carries(d, p) => c = d
    /\ \A c, n : Carries(c, p) /\ Holds(n, p) => calls[c].target = n

AffinePrefixes == Prefixes \ scattered

(* A simulated worker is always healthy.                                      *)
SimHealthy == backend = "sim" => \A n \in DOMAIN workers : workers[n].healthy

(* A call in progress, wherever it goes.                                      *)
Record(at, target, prefix, i) == [at |-> at, target |-> target, prefix |-> prefix, i |-> i]

IsCall(call) ==
    /\ call = Record(call.at, call.target, call.prefix, call.i)
    /\ call.at \in {"increment", "store", "admit"}
    /\ call.prefix \in Prefixes \cup {None}
    /\ call.i \in 0..(Period - 1)

Shape ==
    /\ workers \in [DOMAIN workers -> State]
    /\ DOMAIN workers \subseteq Nat /\ nextId \in Nat
    /\ calls = [c \in Callers |-> calls[c]]
    /\ \A c \in Busy : IsCall(calls[c])

IInv ==
    /\ Shape
    /\ SimHealthy
    /\ \A p \in AffinePrefixes : Together(p)

-------------------------------------------------------------------------------
(* Affinity finds the holder if there is one.                                 *)
LEMMA AffinityFindsHolder ==
    ASSUME NEW S, NEW p, p # None, Holders(S, p) # {}, NEW n \in PrefixAffinity(S, p)
    PROVE  n \in S /\ p \in workers[n].prefixes
  BY DEF PrefixAffinity, Holders, LeastLoaded, FirstBy

(* An empty pool of callers and caches.                                       *)
LEMMA InitIInv == Init => IInv
<1> SUFFICES ASSUME Init PROVE IInv
  OBVIOUS
<1>1. /\ workers = [n \in 0..(Initial - 1) |-> Fresh] /\ nextId = Initial
      /\ calls = [c \in Callers |-> NoCall]
      /\ Initial \in Nat
  BY RoutingAssumption DEF Init
<1>2. Shape
  BY <1>1 DEF Shape, Fresh, State, Busy
<1>3. SimHealthy
  BY <1>1 DEF SimHealthy, Fresh
<1>4. ASSUME NEW p PROVE Together(p)
  BY <1>1 DEF Together, Holds, Carries, Busy, Fresh
<1> QED
  BY <1>2, <1>3, <1>4 DEF IInv

(* A call that sets out keeps the invariant: with affinity and alone, it goes  *)
(* to the holder; otherwise its prefix is counted as scattered.                *)
LEMMA RouteIInv ==
    ASSUME IInv, NEW c \in Callers, NEW priority \in Priorities,
           NEW prefix \in Prefixes \cup {None}, Route(c, priority, prefix)
    PROVE  IInv'
<1> DEFINE at == IF strategy = "round-robin" THEN "increment" ELSE "admit"
<1>1. PICK n \in Picks(Healthy, priority, prefix) :
         calls' = [calls EXCEPT ![c] = Record(at, n, prefix, 0)]
  BY DEF Route, Record
<1>2. /\ calls[c] = NoCall
      /\ UNCHANGED <<backend, workers, nextId, strategy>>
      /\ backend = "sim" \/ prefix = None
      /\ scattered' = IF prefix # None /\ (\/ strategy # "prefix-affinity"
                                           \/ \E d \in Busy : calls[d].prefix = prefix)
                      THEN scattered \cup {prefix} ELSE scattered
  BY DEF Route
<1> DEFINE new == Record(at, n, prefix, 0)
<1>3. new # NoCall /\ 0 \in 0..(Period - 1) /\ at \in {"increment", "store", "admit"}
  BY RoutingAssumption DEF NoCall, Record
<1>4. /\ calls' = [d \in Callers |-> IF d = c THEN new ELSE calls[d]]
      /\ Busy' = Busy \cup {c} /\ c \notin Busy
      /\ \A d \in Busy : calls'[d] = calls[d]
      /\ calls'[c].prefix = prefix /\ calls'[c].target = n
  BY <1>1, <1>2, <1>3 DEF IInv, Shape, Busy, Record
<1>5. Shape'
  <2> HIDE DEF at
  <2>1. IsCall(new)
    BY <1>3 DEF IsCall, Record
  <2> HIDE DEF new
  <2>2. \A d \in Busy' : IsCall(calls'[d])
    BY <1>4, <2>1 DEF IInv, Shape
  <2> QED
    BY <1>2, <1>4, <2>2 DEF IInv, Shape
<1> HIDE DEF new, at
<1>6. SimHealthy'
  BY <1>2 DEF IInv, SimHealthy
<1>7. ASSUME NEW p \in AffinePrefixes' PROVE Together(p)'
  <2>1. p \in AffinePrefixes /\ p # None
    BY <1>2, <1>7, RoutingAssumption DEF AffinePrefixes
  <2>2. Together(p)
    BY <2>1 DEF IInv
  <2>3. \A m : Holds(m, p)' <=> Holds(m, p)
    BY <1>2 DEF Holds
  <2>4. CASE p # prefix
    <3>1. \A d : Carries(d, p)' <=> Carries(d, p)
      BY <1>4, <2>4 DEF Carries
    <3>2. \A d : Carries(d, p) => calls'[d] = calls[d]
      BY <1>4 DEF Carries
    <3> QED
      BY <2>2, <2>3, <3>1, <3>2 DEF Together
  <2>5. CASE p = prefix
    <3>1. strategy = "prefix-affinity" /\ ~ \E d : Carries(d, p)
      BY <1>2, <1>7, <2>1, <2>5 DEF AffinePrefixes, Carries
    <3>2. \A d : Carries(d, p)' => d = c
      BY <1>4, <3>1 DEF Carries
    <3>3. n \in PrefixAffinity(Healthy, p)
      BY <1>1, <2>5, <3>1 DEF Picks
    <3>4. \A m : Holds(m, p) => m \in Holders(Healthy, p)
      BY <1>2, <2>1, <2>5 DEF IInv, SimHealthy, Holds, Holders, Healthy
    <3>5. \A m : Holds(m, p) => Holds(n, p)
      <4> SUFFICES ASSUME NEW m, Holds(m, p) PROVE Holds(n, p)
        OBVIOUS
      <4>1. Holders(Healthy, p) # {}
        BY <3>4
      <4>2. n \in Healthy /\ p \in workers[n].prefixes
        BY <2>1, <3>3, <4>1, AffinityFindsHolder
      <4> QED
        BY <4>2 DEF Holds, Healthy
    <3>6. \A m : Holds(m, p) => calls'[c].target = m
      BY <1>4, <2>2, <3>5 DEF Together
    <3> QED
      BY <2>2, <2>3, <3>2, <3>6 DEF Together
  <2> QED
    BY <2>4, <2>5
<1> QED
  BY <1>5, <1>6, <1>7 DEF IInv

(* An admission makes a holder only of the worker the one call was going to.   *)
LEMMA AdmitIInv ==
    ASSUME IInv, NEW c \in Callers, NEW want \in 1..MaxPending[backend], Admit(c, want)
    PROVE  IInv'
<1> DEFINE n == calls[c].target
           q == calls[c].prefix
<1>1. /\ calls[c].at = "admit"
      /\ calls' = [calls EXCEPT ![c] = NoCall]
      /\ UNCHANGED <<backend, nextId, scattered>>
  BY DEF Admit
<1>2. workers' = IF n \notin DOMAIN workers THEN workers
                 ELSE [workers EXCEPT ![n].jobs = @ + 1, ![n].pending = @ + want,
                                      ![n].prefixes = @ \cup ({q} \ {None})]
  BY DEF Admit
<1>3. c \in Busy /\ q \in Prefixes \cup {None}
  BY <1>1 DEF IInv, Shape, Busy, NoCall, IsCall
<1>4. /\ Busy' = Busy \ {c}
      /\ \A d \in Busy \ {c} : calls'[d] = calls[d]
      /\ calls' = [d \in Callers |-> calls'[d]]
  BY <1>1 DEF IInv, Shape, Busy
<1> HIDE DEF n, q
<1>5. /\ DOMAIN workers' = DOMAIN workers
      /\ \A m \in DOMAIN workers : m # n => workers'[m] = workers[m]
      /\ workers' = [m \in DOMAIN workers |-> workers'[m]]
  BY <1>2 DEF IInv, Shape
<1>6. ASSUME n \in DOMAIN workers
      PROVE  /\ workers[n] \in State
             /\ workers'[n] \in State
             /\ workers'[n].healthy = workers[n].healthy
             /\ workers'[n].jobs = workers[n].jobs + 1
             /\ workers'[n].pending = workers[n].pending + want
             /\ workers'[n].prefixes = workers[n].prefixes \cup ({q} \ {None})
  <2>1. workers[n] \in State
    BY <1>6 DEF IInv, Shape
  <2>2. workers[n].jobs \in Nat /\ workers[n].pending \in Nat
        /\ workers[n].healthy \in BOOLEAN /\ workers[n].prefixes \subseteq Prefixes
    BY <2>1 DEF State
  <2>3. workers'[n] = [jobs |-> workers[n].jobs + 1, pending |-> workers[n].pending + want,
                       healthy |-> workers[n].healthy,
                       prefixes |-> workers[n].prefixes \cup ({q} \ {None})]
    BY <1>2, <1>6, <2>1 DEF State
  <2>4. workers[n].pending + want \in Nat
    BY <2>2
  <2>5. workers[n].prefixes \cup ({q} \ {None}) \in SUBSET Prefixes
    BY <1>3, <2>2
  <2> HIDE DEF n, q
  <2> QED
    BY <2>1, <2>2, <2>3, <2>4, <2>5 DEF State
<1> HIDE DEF n, q
<1>7. Shape'
  <2>1. workers' \in [DOMAIN workers' -> State]
    <3>1. \A m \in DOMAIN workers : workers'[m] \in State
      BY <1>5, <1>6 DEF IInv, Shape
    <3>2. workers' = [m \in DOMAIN workers |-> workers'[m]]
      BY <1>2 DEF IInv, Shape
    <3> QED
      BY <1>5, <3>1, <3>2
  <2>2. \A d \in Busy' : IsCall(calls'[d])
    BY <1>4 DEF IInv, Shape
  <2> QED
    BY <1>1, <1>4, <1>5, <2>1, <2>2 DEF IInv, Shape
<1>8. SimHealthy'
  BY <1>1, <1>5, <1>6 DEF IInv, SimHealthy
<1>9. ASSUME NEW p \in AffinePrefixes' PROVE Together(p)'
  <2>1. p \in AffinePrefixes /\ Together(p)
    BY <1>1, <1>9 DEF IInv, AffinePrefixes
  <2>2. \A d : Carries(d, p)' => Carries(d, p) /\ d # c /\ calls'[d] = calls[d]
    BY <1>4 DEF Carries
  <2>3. CASE p # q
    <3>1. \A m : Holds(m, p)' => Holds(m, p)
      BY <1>5, <1>6, <2>3 DEF Holds
    <3> QED
      BY <2>1, <2>2, <3>1 DEF Together
  <2>4. CASE p = q
    <3>1. Carries(c, p)
      BY <1>3, <2>4 DEF Carries, q
    <3>2. ~ \E d : Carries(d, p)'
      BY <2>1, <2>2, <3>1 DEF Together
    <3>3. \A m : Holds(m, p)' => m = n
      <4>1. \A m : Holds(m, p) => m = n
        BY <2>1, <3>1 DEF Together, n
      <4> QED
        BY <1>5, <4>1 DEF Holds
    <3> QED
      BY <3>2, <3>3 DEF Together
  <2> QED
    BY <2>3, <2>4
<1> QED
  BY <1>7, <1>8, <1>9 DEF IInv

(* A step that admits nobody and fills no cache scatters nothing.              *)
LEMMA NoNewHolder ==
    ASSUME IInv, UNCHANGED <<calls, scattered>>, \A m, p : Holds(m, p)' => Holds(m, p)
    PROVE  \A p \in AffinePrefixes' : Together(p)'
<1>1. AffinePrefixes' = AffinePrefixes
  BY DEF AffinePrefixes
<1>2. \A c, p : Carries(c, p)' <=> Carries(c, p)
  BY DEF Carries, Busy
<1> SUFFICES ASSUME NEW p \in AffinePrefixes PROVE Together(p)'
  BY <1>1
<1>3. Together(p)
  BY DEF IInv
<1> QED
  BY <1>2, <1>3 DEF Together

(* Serving takes requests and tokens, and leaves caches alone.                 *)
LEMMA ServeIInv ==
    ASSUME IInv, NEW n \in DOMAIN workers, Serve(n)
    PROVE  IInv'
<1>1. UNCHANGED <<backend, nextId, calls, scattered>>
  BY DEF Serve
<1>2. PICK jobs \in 0..Jobs(n), tokens \in 0..Jobs(n) :
        /\ tokens <= Pending(n)
        /\ backend = "sim" => /\ tokens >= Jobs(n) - jobs
                              /\ Pending(n) - tokens >= jobs
                              /\ jobs = 0 => tokens = Pending(n)
        /\ workers' = [workers EXCEPT ![n].jobs = jobs, ![n].pending = @ - tokens]
  BY DEF Serve
<1>3. /\ workers[n] \in State /\ Jobs(n) \in Nat
      /\ Pending(n) \in Nat
  BY DEF IInv, Shape, State, Jobs, Pending
<1>4. workers'[n] = [jobs |-> jobs, pending |-> Pending(n) - tokens,
                     healthy |-> workers[n].healthy, prefixes |-> workers[n].prefixes]
  BY <1>2, <1>3 DEF State, Pending
<1>5. /\ DOMAIN workers' = DOMAIN workers
      /\ \A m \in DOMAIN workers : m # n => workers'[m] = workers[m]
      /\ workers' = [m \in DOMAIN workers' |-> workers'[m]]
  BY <1>2 DEF IInv, Shape
<1>6. jobs \in Nat /\ Pending(n) - tokens \in Nat
  BY <1>2, <1>3
<1>7. workers'[n] \in State
  BY <1>3, <1>4, <1>6 DEF State
<1>8. Shape'
  <2>1. workers' \in [DOMAIN workers' -> State]
    BY <1>5, <1>7 DEF IInv, Shape
  <2> QED
    BY <1>1, <1>5, <2>1 DEF IInv, Shape, Busy
<1>9. SimHealthy'
  BY <1>1, <1>4, <1>5 DEF IInv, SimHealthy
<1>10. \A m, p : Holds(m, p)' => Holds(m, p)
  BY <1>4, <1>5 DEF Holds
<1> QED
  BY <1>1, <1>8, <1>9, <1>10, NoNewHolder DEF IInv

(* Only a streaming worker sickens, and none at all loses its cache.           *)
LEMMA SickenIInv ==
    ASSUME IInv, NEW n \in DOMAIN workers, Sicken(n)
    PROVE  IInv'
<1>1. /\ UNCHANGED <<backend, nextId, calls, scattered>> /\ backend # "sim"
      /\ workers' = [workers EXCEPT ![n].healthy = FALSE]
  BY DEF Sicken
<1>2. /\ DOMAIN workers' = DOMAIN workers
      /\ \A m \in DOMAIN workers : m # n => workers'[m] = workers[m]
      /\ workers'[n] = [workers[n] EXCEPT !.healthy = FALSE]
      /\ workers' = [m \in DOMAIN workers' |-> workers'[m]]
      /\ workers[n] \in State
  BY <1>1 DEF IInv, Shape
<1>3. workers'[n] \in State /\ workers'[n].prefixes = workers[n].prefixes
  BY <1>2 DEF State
<1>4. Shape'
  <2>1. workers' \in [DOMAIN workers' -> State]
    BY <1>2, <1>3 DEF IInv, Shape
  <2> QED
    BY <1>1, <1>2, <2>1 DEF IInv, Shape, Busy
<1>5. SimHealthy'
  BY <1>1 DEF SimHealthy
<1>6. \A m, p : Holds(m, p)' => Holds(m, p)
  BY <1>2, <1>3 DEF Holds
<1> QED
  BY <1>1, <1>4, <1>5, <1>6, NoNewHolder DEF IInv

(* A new worker is idle and has an empty cache.                                *)
LEMMA AddWorkerIInv ==
    ASSUME IInv, AddWorker
    PROVE  IInv'
<1>1. /\ UNCHANGED <<backend, calls, scattered>> /\ nextId' = nextId + 1
      /\ workers' = [n \in DOMAIN workers \cup {nextId} |->
                        IF n = nextId THEN Fresh ELSE workers[n]]
  BY DEF AddWorker
<1>2. Fresh \in State /\ Fresh.healthy /\ Fresh.jobs = 0 /\ Fresh.pending = 0
      /\ Fresh.prefixes = {}
  BY RoutingAssumption DEF Fresh, State
<1>3. /\ DOMAIN workers' = DOMAIN workers \cup {nextId}
      /\ \A m \in DOMAIN workers' :
           workers'[m] = Fresh \/ (m \in DOMAIN workers /\ workers'[m] = workers[m])
      /\ workers' = [m \in DOMAIN workers' |-> workers'[m]]
  BY <1>1
<1>4. Shape'
  <2>1. workers' \in [DOMAIN workers' -> State]
    BY <1>2, <1>3 DEF IInv, Shape
  <2> QED
    BY <1>1, <1>3, <2>1 DEF IInv, Shape, Busy
<1>5. SimHealthy'
  BY <1>1, <1>2, <1>3 DEF IInv, SimHealthy
<1>6. \A m, p : Holds(m, p)' => Holds(m, p)
  BY <1>2, <1>3 DEF Holds
<1> QED
  BY <1>1, <1>4, <1>5, <1>6, NoNewHolder DEF IInv

(* A worker that goes takes its cache with it.                                 *)
LEMMA RemoveIInv ==
    ASSUME IInv, NEW n \in DOMAIN workers, Remove(n)
    PROVE  IInv'
<1>1. /\ UNCHANGED <<backend, nextId, calls, scattered>>
      /\ workers' = [m \in DOMAIN workers \ {n} |-> workers[m]]
  BY DEF Remove
<1>2. Shape'
  BY <1>1 DEF IInv, Shape, Busy
<1>3. SimHealthy'
  BY <1>1 DEF IInv, SimHealthy
<1>4. \A m, p : Holds(m, p)' => Holds(m, p)
  BY <1>1 DEF Holds
<1> QED
  BY <1>1, <1>2, <1>3, <1>4, NoNewHolder DEF IInv

(* A call that moves on within choose(), or is taken out of it, goes where it   *)
(* went.                                                                       *)
LEMMA ChoosingIInv ==
    ASSUME IInv, UNCHANGED <<backend, workers, nextId, scattered>>,
           calls' = [c \in Callers |-> calls'[c]], Busy' = Busy,
           \A c \in Busy : /\ IsCall(calls'[c])
                           /\ calls'[c].target = calls[c].target
                           /\ calls'[c].prefix = calls[c].prefix
    PROVE  IInv'
<1>1. Shape' /\ SimHealthy'
  BY DEF IInv, Shape, SimHealthy
<1>2. ASSUME NEW p \in AffinePrefixes' PROVE Together(p)'
  <2>1. Together(p)
    BY <1>2 DEF IInv, AffinePrefixes
  <2>2. \A m : Holds(m, p)' <=> Holds(m, p)
    BY DEF Holds
  <2>3. \A c : Carries(c, p)' <=> Carries(c, p)
    BY DEF Carries
  <2>4. \A c : Carries(c, p) => calls'[c].target = calls[c].target
    BY DEF Carries
  <2> QED
    BY <2>1, <2>2, <2>3, <2>4 DEF Together
<1> QED
  BY <1>1, <1>2 DEF IInv

Moved(call, at, i) == [call EXCEPT !.at = at, !.i = i]

(* The two halves of the increment, and what swapping the strategy does to      *)
(* those in the midst of it.                                                   *)
LEMMA CallsMoveOn ==
    ASSUME Shape, cursor \in 0..(Period - 1),
           (\E c \in Callers : ReadCursor(c) \/ WriteCursor(c)) \/ SetStrategy
    PROVE  /\ UNCHANGED <<backend, workers, nextId, scattered>>
           /\ calls' = [c \in Callers |-> calls'[c]]
           /\ Busy' = Busy
           /\ \A c \in Busy : /\ IsCall(calls'[c])
                              /\ calls'[c].target = calls[c].target
                              /\ calls'[c].prefix = calls[c].prefix
<1>0. 0 \in 0..(Period - 1)
  BY RoutingAssumption
<1>1. UNCHANGED <<backend, workers, nextId, scattered>>
  BY DEF ReadCursor, WriteCursor, SetStrategy
<1>2. ASSUME NEW c \in Callers, NEW at \in {"store", "admit"}, NEW i \in 0..(Period - 1),
             calls[c].at \in {"increment", "store"}
      PROVE  /\ c \in Busy
             /\ IsCall(Moved(calls[c], at, i))
             /\ Moved(calls[c], at, i) # NoCall
             /\ Moved(calls[c], at, i).target = calls[c].target
             /\ Moved(calls[c], at, i).prefix = calls[c].prefix
  <2>1. c \in Busy /\ IsCall(calls[c])
    BY <1>2 DEF Shape, Busy, NoCall
  <2>2. PICK call : call = calls[c] /\ IsCall(call)
    BY <2>1
  <2> DEFINE moved == Moved(call, at, i)
  <2>3. moved = Record(at, call.target, call.prefix, i)
    <3> DEFINE half == [call EXCEPT !.at = at]
    <3>1. call = [at |-> call.at, target |-> call.target, prefix |-> call.prefix, i |-> call.i]
      BY ONLY <2>2 DEF IsCall, Record
    <3>2. half = [at |-> at, target |-> call.target, prefix |-> call.prefix, i |-> call.i]
      BY ONLY <3>1
    <3>3. moved = [half EXCEPT !.i = i]
      BY Zenon DEF Moved
    <3> HIDE DEF half
    <3>4. [half EXCEPT !.i = i] = [at |-> at, target |-> call.target, prefix |-> call.prefix, i |-> i]
      BY ONLY <3>2
    <3> QED
      BY ONLY <3>3, <3>4 DEF Record
  <2>4. at \in {"increment", "store", "admit"} /\ at # "idle" /\ call.prefix \in Prefixes \cup {None}
    BY <2>2 DEF IsCall
  <2> HIDE DEF moved
  <2>5. /\ moved.at = at /\ moved.i = i
        /\ moved.target = call.target /\ moved.prefix = call.prefix
    BY ONLY <2>3 DEF Record
  <2>6. IsCall(moved)
    BY ONLY <1>2, <2>3, <2>4, <2>5 DEF IsCall
  <2>7. moved # NoCall
    BY ONLY <2>4, <2>5 DEF NoCall
  <2> QED
    BY <2>1, <2>2, <2>5, <2>6, <2>7 DEF moved
<1>3. \A c \in Callers : \/ calls'[c] = calls[c]
                         \/ /\ calls[c].at \in {"increment", "store"}
                            /\ \E at \in {"store", "admit"}, i \in 0..(Period - 1) :
                                  calls'[c] = Moved(calls[c], at, i)
  <2>1. CASE \E c \in Callers : ReadCursor(c) \/ WriteCursor(c)
    <3>1. PICK c \in Callers : ReadCursor(c) \/ WriteCursor(c)
      BY <2>1
    <3>2. calls = [d \in Callers |-> calls[d]]
      BY DEF Shape
    <3>3. \E at \in {"store", "admit"}, i \in 0..(Period - 1) :
            /\ calls[c].at \in {"increment", "store"}
            /\ calls' = [calls EXCEPT ![c].at = at, ![c].i = i]
      <4>1. CASE ReadCursor(c)
        BY <4>1 DEF ReadCursor
      <4>2. CASE WriteCursor(c)
        BY <1>0, <4>2 DEF WriteCursor
      <4> QED
        BY <3>1, <4>1, <4>2
    <3>4. PICK at \in {"store", "admit"}, i \in 0..(Period - 1) :
            /\ calls[c].at \in {"increment", "store"}
            /\ calls' = [calls EXCEPT ![c].at = at, ![c].i = i]
      BY <3>3
    <3>5. calls'[c] = Moved(calls[c], at, i)
      BY <3>2, <3>4 DEF Moved
    <3>6. \A d \in Callers : d # c => calls'[d] = calls[d]
      BY <3>2, <3>4
    <3> SUFFICES ASSUME NEW d \in Callers
                 PROVE  \/ calls'[d] = calls[d]
                        \/ /\ calls[d].at \in {"increment", "store"}
                           /\ \E a \in {"store", "admit"}, j \in 0..(Period - 1) :
                                 calls'[d] = Moved(calls[d], a, j)
      OBVIOUS
    <3> QED
      BY <3>4, <3>5, <3>6
  <2>2. CASE SetStrategy
    <3>1. calls' = [c \in Callers |-> IF c \in Choosing
                                     THEN [calls[c] EXCEPT !.at = "admit", !.i = 0]
                                     ELSE calls[c]]
      BY <2>2 DEF SetStrategy
    <3>2. \A c \in Choosing : calls[c].at \in {"increment", "store"}
      BY DEF Shape, Choosing, IsCall
    <3> SUFFICES ASSUME NEW c \in Callers
                 PROVE  \/ calls'[c] = calls[c]
                        \/ /\ calls[c].at \in {"increment", "store"}
                           /\ \E at \in {"store", "admit"}, i \in 0..(Period - 1) :
                                 calls'[c] = Moved(calls[c], at, i)
      OBVIOUS
    <3>3. CASE c \in Choosing
      <4>1. calls'[c] = Moved(calls[c], "admit", 0)
        BY <3>1, <3>3 DEF Moved
      <4> QED
        BY <1>0, <3>2, <3>3, <4>1
    <3>4. CASE c \notin Choosing
      BY <3>1, <3>4
    <3> QED
      BY <3>3, <3>4
  <2> QED
    BY <2>1, <2>2
<1>4. calls' = [c \in Callers |-> calls'[c]]
  <2>1. CASE SetStrategy
    BY <2>1 DEF SetStrategy
  <2>2. ASSUME NEW c \in Callers, ReadCursor(c) \/ WriteCursor(c)
        PROVE  calls' = [d \in Callers |-> calls'[d]]
    <3>1. calls = [d \in Callers |-> calls[d]]
      BY DEF Shape
    <3>2. CASE ReadCursor(c)
      BY <3>1, <3>2 DEF ReadCursor
    <3>3. CASE WriteCursor(c)
      BY <3>1, <3>3 DEF WriteCursor
    <3> QED
      BY <2>2, <3>2, <3>3
  <2> QED
    BY <2>1, <2>2
<1>5. \A c \in Busy : calls[c] # NoCall /\ IsCall(calls[c])
  BY DEF Shape, Busy
<1>6. Busy' = Busy
  <2> SUFFICES ASSUME NEW c \in Callers PROVE c \in Busy' <=> c \in Busy
    BY DEF Busy
  <2>1. CASE calls'[c] = calls[c]
    BY <2>1 DEF Busy
  <2>2. CASE calls'[c] # calls[c]
    <3>1. PICK at \in {"store", "admit"}, i \in 0..(Period - 1) :
             /\ calls[c].at \in {"increment", "store"}
             /\ calls'[c] = Moved(calls[c], at, i)
      BY <1>3, <2>2
    <3>2. c \in Busy /\ calls'[c] # NoCall
      BY <1>2, <3>1
    <3> QED
      BY <3>2 DEF Busy
  <2> QED
    BY <2>1, <2>2
<1>7. ASSUME NEW c \in Busy
      PROVE  /\ IsCall(calls'[c])
             /\ calls'[c].target = calls[c].target
             /\ calls'[c].prefix = calls[c].prefix
  <2>1. c \in Callers
    BY DEF Busy
  <2>2. CASE calls'[c] = calls[c]
    BY <1>5, <2>2
  <2>3. CASE calls'[c] # calls[c]
    <3>1. PICK at \in {"store", "admit"}, i \in 0..(Period - 1) :
             /\ calls[c].at \in {"increment", "store"}
             /\ calls'[c] = Moved(calls[c], at, i)
      BY <1>3, <2>1, <2>3
    <3> QED
      BY <1>2, <2>1, <3>1
  <2> QED
    BY <2>2, <2>3
<1> QED
  BY <1>1, <1>4, <1>6, <1>7

(* Nothing happens.                                                           *)
LEMMA StutterIInv ==
    ASSUME IInv, UNCHANGED vars
    PROVE  IInv'
<1>1. calls' = [c \in Callers |-> calls'[c]] /\ Busy' = Busy /\ \A c \in Busy : IsCall(calls'[c])
  BY DEF vars, IInv, Shape, Busy
<1> QED
  BY <1>1, ChoosingIInv DEF vars

(* The strengthened invariant is kept by every step of a well-typed state.     *)
LEMMA NextIInv ==
    ASSUME IInv, TypeOK, [Next]_vars
    PROVE  IInv'
<1>1. ASSUME NEW c \in Callers, Submit(c) PROVE IInv'
  <2>1. CASE \E priority \in Priorities, prefix \in Prefixes \cup {None} :
               Route(c, priority, prefix)
    BY <2>1, RouteIInv
  <2>2. CASE \E want \in 1..MaxPending[backend] : Admit(c, want)
    BY <2>2, AdmitIInv
  <2>3. CASE ReadCursor(c) \/ WriteCursor(c)
    BY <2>3, CallsMoveOn, ChoosingIInv DEF IInv, TypeOK
  <2> QED
    BY <1>1, <2>1, <2>2, <2>3 DEF Submit
<1>2. ASSUME NEW n \in DOMAIN workers, Serve(n) \/ Sicken(n) \/ Remove(n) PROVE IInv'
  BY <1>2, ServeIInv, SickenIInv, RemoveIInv
<1>3. CASE SetStrategy
  BY <1>3, CallsMoveOn, ChoosingIInv DEF IInv, TypeOK
<1> QED
  BY <1>1, <1>2, <1>3, AddWorkerIInv, StutterIInv DEF Next

-------------------------------------------------------------------------------
(* "Filter to healthy workers, delegate to the strategy": whatever the          *)
(* strategy, the cursor and the loads, a worker it picks is a healthy one.     *)
LEMMA PicksTheHealthy ==
    ASSUME strategy \in StrategyNames,
           NEW priority \in Priorities, NEW prefix,
           NEW n \in Picks(Healthy, priority, prefix)
    PROVE  n \in Healthy
<1>1. LeastLoaded(Healthy) \subseteq Healthy /\ LeastPending(Healthy) \subseteq Healthy
  BY DEF LeastLoaded, LeastPending, FirstBy
<1>2. InOrder(Healthy, cursor) \subseteq Healthy
  BY DEF InOrder
<1>3. PrefixAffinity(Healthy, prefix) \subseteq Healthy
  BY <1>1 DEF PrefixAffinity, Holders, LeastLoaded, FirstBy
<1>4. PowerOfTwo(Healthy) \subseteq Healthy
  <2>1. \A T \in kSubset(2, Healthy) : LeastLoaded(T) \subseteq Healthy
    BY DEF kSubset, LeastLoaded, FirstBy
  <2> QED
    BY <2>1 DEF PowerOfTwo
<1>5. Priority(Healthy, priority) \subseteq Healthy
  BY <1>1 DEF Priority, FirstBy
<1> QED
  BY <1>1, <1>2, <1>3, <1>4, <1>5 DEF Picks, StrategyNames, HardwareAware

(* The type invariant, from the shape of the pool.                             *)
LEMMA TypeStep ==
    ASSUME IInv, IInv', TypeOK, [Next]_vars
    PROVE  TypeOK'
<1> USE RoutingAssumption
<1>1. \A n \in DOMAIN workers' : workers'[n] \in State
  BY DEF IInv, Shape
<1>2. ASSUME NEW c \in Callers, NEW priority \in Priorities,
             NEW prefix \in Prefixes \cup {None}, Route(c, priority, prefix)
      PROVE  TypeOK'
  <2>1. PICK n \in Picks(Healthy, priority, prefix) :
           calls' = [calls EXCEPT ![c] =
               [at |-> IF strategy = "round-robin" THEN "increment" ELSE "admit",
                target |-> n, prefix |-> prefix, i |-> 0]]
    BY <1>2 DEF Route
  <2>2. n \in Names
    <3>1. n \in Healthy
      BY <1>2, PicksTheHealthy DEF Route, TypeOK
    <3> QED
      BY <3>1 DEF TypeOK, Healthy, Names
  <2>3. [at |-> IF strategy = "round-robin" THEN "increment" ELSE "admit",
         target |-> n, prefix |-> prefix, i |-> 0] \in Call
    BY <2>2 DEF Call
  <2>4. \A d \in Busy' : calls'[d] \in Call
    BY <2>1, <2>3 DEF IInv, Shape, TypeOK, Busy
  <2>5. cursor' \in 0..(Period - 1)
    BY <1>2 DEF Route, TypeOK
  <2>6. UNCHANGED <<backend, workers, nextId, strategy>> /\ scattered' \subseteq Prefixes
    BY <1>2 DEF Route, TypeOK
  <2> QED
    BY <1>1, <2>4, <2>5, <2>6 DEF TypeOK
<1>3. ASSUME NEW c \in Callers, NEW want \in 1..MaxPending[backend], Admit(c, want)
      PROVE  TypeOK'
  <2>1. DOMAIN workers' = DOMAIN workers
    BY <1>3 DEF Admit, IInv, Shape
  <2>2. \A d \in Busy' : calls'[d] \in Call
    BY <1>3 DEF Admit, IInv, Shape, TypeOK, Busy
  <2>3. UNCHANGED <<backend, nextId, strategy, cursor, scattered>>
    BY <1>3 DEF Admit
  <2> QED
    BY <1>1, <2>1, <2>2, <2>3 DEF TypeOK
<1>4. ASSUME NEW n \in DOMAIN workers, Serve(n) \/ Sicken(n) \/ Remove(n)
      PROVE  TypeOK'
  <2>1. DOMAIN workers' \subseteq DOMAIN workers
    BY <1>4 DEF Serve, Sicken, Remove, IInv, Shape
  <2>2. UNCHANGED <<backend, nextId, strategy, cursor, calls, scattered>>
    BY <1>4 DEF Serve, Sicken, Remove
  <2> QED
    BY <1>1, <2>1, <2>2 DEF TypeOK, Busy
<1>5. CASE AddWorker
  <2>1. /\ DOMAIN workers' = DOMAIN workers \cup {nextId}
        /\ nextId' = nextId + 1 /\ nextId <= MaxName
        /\ UNCHANGED <<backend, strategy, cursor, calls, scattered>>
    BY <1>5 DEF AddWorker
  <2>2. /\ nextId \in Nat /\ nextId' \in 0..(MaxName + 1)
        /\ DOMAIN workers' \subseteq 0..(nextId' - 1)
    BY <2>1 DEF TypeOK
  <2> QED
    BY <1>1, <2>1, <2>2 DEF TypeOK, Busy
<1>6. CASE (\E c \in Callers : ReadCursor(c) \/ WriteCursor(c)) \/ SetStrategy
  <2>1. /\ UNCHANGED <<backend, workers, nextId, scattered>> /\ Busy' = Busy
        /\ \A c \in Busy : IsCall(calls'[c]) /\ calls'[c].target = calls[c].target
    BY <1>6, CallsMoveOn DEF IInv, TypeOK
  <2>2. \A c \in Busy' : calls'[c] \in Call
    <3> SUFFICES ASSUME NEW c \in Busy PROVE calls'[c] \in Call
      BY <2>1
    <3>1. calls'[c].target \in Names
      BY <2>1 DEF TypeOK, Call
    <3>2. PICK call : call = calls'[c] /\ IsCall(call) /\ call.target \in Names
      BY <2>1, <3>1
    <3>3. call = [at |-> call.at, target |-> call.target, prefix |-> call.prefix, i |-> call.i]
      BY <3>2 DEF IsCall, Record
    <3>4. call \in Call
      BY ONLY <3>2, <3>3 DEF IsCall, Call
    <3> QED
      BY <3>2, <3>4
  <2>3. cursor' \in 0..(Period - 1) /\ strategy' \in Strategies
    <3>1. CASE SetStrategy
      <4>1. cursor' = 0 /\ strategy' \in Strategies
        BY <3>1 DEF SetStrategy
      <4> QED
        BY <4>1
    <3>2. CASE \E c \in Callers : ReadCursor(c)
      BY <3>2 DEF ReadCursor, TypeOK
    <3>3. ASSUME NEW c \in Callers, WriteCursor(c)
          PROVE  cursor' \in 0..(Period - 1) /\ strategy' = strategy
      <4>1. calls[c].i \in Nat
        BY <3>3 DEF WriteCursor, IInv, Shape, Busy, NoCall, IsCall
      <4> QED
        BY <3>3, <4>1 DEF WriteCursor
    <3> QED
      BY <1>6, <3>1, <3>2, <3>3 DEF TypeOK
  <2> QED
    BY <1>1, <2>1, <2>2, <2>3 DEF TypeOK
<1>7. CASE UNCHANGED vars
  BY <1>1, <1>7 DEF vars, TypeOK, Busy
<1> QED
  BY <1>2, <1>3, <1>4, <1>5, <1>6, <1>7 DEF Next, Submit

(* A new pool is well-typed.                                                  *)
LEMMA InitTypeOK == Init => TypeOK
<1> SUFFICES ASSUME Init PROVE TypeOK
  OBVIOUS
<1> USE RoutingAssumption
<1>1. /\ Initial \in Nat /\ DOMAIN workers = 0..(Initial - 1)
      /\ \A n \in DOMAIN workers : workers[n] \in State
  BY DEF Init, Fresh, State
<1> QED
  BY <1>1 DEF Init, TypeOK, Busy

(* The type invariant and the strengthened one hold in every reachable state.  *)
LEMMA Invariance == Spec => [](TypeOK /\ IInv)
<1>1. Init => TypeOK /\ IInv
  BY InitIInv, InitTypeOK
<1>2. TypeOK /\ IInv /\ [Next]_vars => TypeOK' /\ IInv'
  BY NextIInv, TypeStep
<1> QED
  BY <1>1, <1>2, PTL DEF Spec

(* Every field of the pool and the router stays in its type, and every call     *)
(* in progress goes to a name that was given out.                              *)
THEOREM TypeCorrect == Spec => []TypeOK
  BY Invariance, PTL

-------------------------------------------------------------------------------
(* "Route requests sharing a prompt prefix to the worker holding its cached    *)
(* KV": a prefix that affinity routed, one submit at a time, has at most one    *)
(* worker holding it, however many workers and prefixes there are.             *)
THEOREM SingleHolder == Spec => []OnePrefixHolder
<1>1. IInv => OnePrefixHolder
  <2> SUFFICES ASSUME IInv, NEW p \in Prefixes \ scattered
               PROVE  Cardinality(Holders(DOMAIN workers, p)) <= 1
    BY DEF OnePrefixHolder
  <2> DEFINE H == Holders(DOMAIN workers, p)
  <2>1. \A m, n \in H : m = n
    BY DEF IInv, Together, AffinePrefixes, Holds, Holders
  <2>2. H = {} \/ \E n : H = {n}
    BY <2>1
  <2> HIDE DEF H
  <2>3. Cardinality(H) <= 1
    BY <2>2, FS_EmptySet, FS_Singleton
  <2> QED
    BY <2>3 DEF H
<1> QED
  BY <1>1, Invariance, PTL

-------------------------------------------------------------------------------
(* The rotation.  Round-robin keeps no record of whom it chose: all there is  *)
(* is the cursor and the order of the names.  So that nobody is chosen twice  *)
(* in a round says something about a remainder: those chosen in this round    *)
(* are exactly those whose next turn is the farthest away.                    *)
LEMMA Remainder ==
    ASSUME NEW a \in Nat, NEW m \in Nat \ {0}
    PROVE  a \div m \in Nat /\ a % m \in 0..(m - 1) /\ a = m * (a \div m) + (a % m)
  OBVIOUS

(* It is the only one there is.                                               *)
LEMMA RemainderIsUnique ==
    ASSUME NEW m \in Nat \ {0}, NEW q \in Nat, NEW r \in 0..(m - 1)
    PROVE  (m * q + r) % m = r
  OBVIOUS

(* The cursor may be kept modulo a multiple p of the pool's size m.            *)
LEMMA NextTurn ==
    ASSUME NEW p \in Nat \ {0}, NEW m \in Nat \ {0}, p % m = 0, NEW c \in 0..(p - 1)
    PROVE  ((c + 1) % p) % m = IF (c % m) + 1 = m THEN 0 ELSE (c % m) + 1
<1> DEFINE q == c \div m
           r == c % m
<1>1. q \in Nat /\ r \in 0..(m - 1) /\ c = m * q + r
  <2>1. c \in Nat
    OBVIOUS
  <2> QED
    BY ONLY <2>1, m \in Nat \ {0}, Remainder, Zenon
<1>2. PICK k \in Nat : p = m * k
  <2>1. p \in Nat /\ p \div m \in Nat /\ p = m * (p \div m) + (p % m)
    BY ONLY p \in Nat \ {0}, m \in Nat \ {0}, Remainder
  <2> QED
    BY <2>1
<1> HIDE DEF q, r
<1>3. CASE r + 1 = m
  <2>1. c + 1 = m * (q + 1) + 0
    BY <1>1, <1>3
  <2>2. (c + 1) % m = 0
    <3>1. q + 1 \in Nat /\ 0 \in 0..(m - 1)
      BY <1>1
    <3>2. (m * (q + 1) + 0) % m = 0
      BY ONLY m \in Nat \ {0}, <3>1, RemainderIsUnique
    <3> QED
      BY ONLY <2>1, <3>2
  <2>3. CASE c + 1 = p
    <3>1. (c + 1) % p = 0 /\ 0 % m = 0
      <4>1. p = p * 1 + 0 /\ 0 = m * 0 + 0 /\ 0 \in 0..(p - 1) /\ 0 \in 0..(m - 1)
        OBVIOUS
      <4> QED
        BY <2>3, <4>1, RemainderIsUnique
    <3> QED
      BY <1>3, <3>1 DEF r
  <2>4. CASE c + 1 < p
    <3>1. (c + 1) % p = c + 1
      <4>1. c + 1 = p * 0 + (c + 1) /\ c + 1 \in 0..(p - 1)
        BY <2>4
      <4> QED
        BY <4>1, RemainderIsUnique
    <3> QED
      BY <1>3, <2>2, <3>1 DEF r
  <2> QED
    BY <2>3, <2>4
<1>4. CASE r + 1 # m
  <2>1. r + 1 \in 0..(m - 1) /\ c + 1 = m * q + (r + 1)
    BY <1>1, <1>4
  <2>2. (c + 1) % m = r + 1
    <3>1. (m * q + (r + 1)) % m = r + 1
      BY ONLY m \in Nat \ {0}, <1>1, <2>1, RemainderIsUnique
    <3> QED
      BY ONLY <2>1, <3>1
  <2>3. c + 1 # p
    <3>1. SUFFICES ASSUME c + 1 = p PROVE FALSE
      OBVIOUS
    <3>2. (m * k + 0) % m = 0
      BY RemainderIsUnique, 0 \in 0..(m - 1)
    <3> QED
      BY <1>1, <1>2, <2>2, <3>1, <3>2
  <2>4. (c + 1) % p = c + 1
    <3>1. c + 1 = p * 0 + (c + 1) /\ c + 1 \in 0..(p - 1)
      BY <2>3
    <3> QED
      BY <3>1, RemainderIsUnique
  <2> QED
    BY <1>4, <2>2, <2>4 DEF r
<1> QED
  BY <1>3, <1>4

(* A worker's place in the order of names, and the number of choices there are *)
(* before it is its turn.                                                      *)
Place(S, n) == Cardinality({m \in S : m < n})

Turns(S, i, n) ==
    IF Place(S, n) >= i % Cardinality(S)
    THEN Place(S, n) - (i % Cardinality(S))
    ELSE Place(S, n) + Cardinality(S) - (i % Cardinality(S))

(* Whoever of the round was chosen, k in number, comes after everybody else.   *)
ChosenComeLast(S, chosen, i, k) ==
    \A n \in S : n \in chosen <=> Turns(S, i, n) >= Cardinality(S) - k

InRound(S, chosen, i) ==
    /\ chosen \subseteq S
    /\ \E k \in 0..(Cardinality(S) - 1) : ChosenComeLast(S, chosen, i, k)

(* Where the cursor stands, or will when the increment under way is done.      *)
NextCursor == IF Choosing = {} THEN cursor ELSE (cursor + 1) % Period

Rotation ==
    /\ round.of \in SUBSET Names
    /\ round.of # {} =>
         /\ \A c, d \in Choosing : c = d
         /\ \A c \in Choosing : calls[c].at = "store" => calls[c].i = cursor
         /\ InRound(round.of, round.chosen, NextCursor)

(* Places are numbers below the size of the pool, and no two are the same.     *)
LEMMA PlacesDiffer ==
    ASSUME NEW S \in SUBSET Names, S # {}
    PROVE  /\ Cardinality(S) \in 1..(MaxName + 1)
           /\ \A n \in S : Place(S, n) \in 0..(Cardinality(S) - 1)
           /\ \A x, y \in S : Place(S, x) = Place(S, y) => x = y
<1> USE RoutingAssumption
<1>1. IsFiniteSet(Names) /\ Cardinality(Names) = MaxName + 1
  <2>1. 0 \in Int /\ MaxName \in Int /\ ~ (0 > MaxName) /\ MaxName - 0 + 1 = MaxName + 1
    OBVIOUS
  <2> QED
    BY <2>1, FS_Interval DEF Names
<1>2. IsFiniteSet(S) /\ Cardinality(S) \in 0..(MaxName + 1)
  BY <1>1, FS_Subset, FS_CardinalityType
<1>3. Cardinality(S) # 0
  BY <1>2, FS_EmptySet
<1> DEFINE below(n) == {m \in S : m < n}
<1>4. \A n \in S : IsFiniteSet(below(n)) /\ Cardinality(below(n)) \in Nat
  BY <1>2, FS_Subset, FS_CardinalityType
<1>5. \A n \in S : Cardinality(below(n)) < Cardinality(S)
  <2> SUFFICES ASSUME NEW n \in S PROVE Cardinality(below(n)) < Cardinality(S)
    OBVIOUS
  <2>1. below(n) \subseteq S /\ n \notin below(n)
    BY DEF Names
  <2>2. below(n) # S
    BY <2>1
  <2>3. /\ Cardinality(below(n)) <= Cardinality(S)
        /\ Cardinality(below(n)) = Cardinality(S) => below(n) = S
    <3> HIDE DEF below
    <3> QED
      BY <1>2, <2>1, FS_Subset
  <2> HIDE DEF below
  <2> QED
    BY <1>2, <1>4, <2>2, <2>3
<1>6. ASSUME NEW x \in S, NEW y \in S, x < y
      PROVE  Cardinality(below(x)) < Cardinality(below(y))
  <2>1. below(x) \subseteq below(y) /\ x \in below(y) /\ x \notin below(x)
    <3>1. \A m \in S : m \in Nat
      BY DEF Names
    <3> QED
      BY <1>6, <3>1
  <2>2. below(x) # below(y)
    BY <2>1
  <2>3. /\ Cardinality(below(x)) <= Cardinality(below(y))
        /\ Cardinality(below(x)) = Cardinality(below(y)) => below(x) = below(y)
    <3>1. IsFiniteSet(below(y))
      BY <1>4
    <3> HIDE DEF below
    <3> QED
      BY <2>1, <3>1, FS_Subset
  <2> HIDE DEF below
  <2> QED
    BY <1>4, <2>2, <2>3
<1>7. \A x, y \in S : Cardinality(below(x)) = Cardinality(below(y)) => x = y
  <2> SUFFICES ASSUME NEW x \in S, NEW y \in S, Cardinality(below(x)) = Cardinality(below(y)), x # y
               PROVE  FALSE
    OBVIOUS
  <2>1. x < y \/ y < x
    BY DEF Names
  <2> HIDE DEF below
  <2> QED
    BY <1>4, <1>6, <2>1
<1>8. \A n \in S : Place(S, n) = Cardinality(below(n))
  BY DEF Place
<1> HIDE DEF below
<1> QED
  BY <1>2, <1>3, <1>4, <1>5, <1>7, <1>8

(* So every place is somebody's, and round-robin finds a worker wherever its    *)
(* cursor stands.                                                              *)
LEMMA SomebodyInOrder ==
    ASSUME NEW S \in SUBSET Names, S # {}, NEW i \in Nat
    PROVE  InOrder(S, i) # {}
<1> DEFINE m == Cardinality(S)
           place == [n \in S |-> Place(S, n)]
<1>1. m \in Nat \ {0} /\ i % m \in 0..(m - 1)
  <2>1. m \in Nat \ {0}
    BY PlacesDiffer, RoutingAssumption
  <2> HIDE DEF m
  <2> QED
    BY <2>1, Remainder
<1>2. place \in Injection(S, 0..(m - 1))
  BY PlacesDiffer DEF Injection, IsInjective
<1>3. IsFiniteSet(0..(m - 1)) /\ Cardinality(0..(m - 1)) = m
  <2>1. 0 \in Int /\ m - 1 \in Int /\ ~ (0 > m - 1) /\ (m - 1) - 0 + 1 = m
    BY <1>1
  <2> HIDE DEF m
  <2> QED
    BY <2>1, FS_Interval
<1>4. place \in Surjection(S, 0..(m - 1))
  <2> HIDE DEF place
  <2> QED
    BY <1>2, <1>3, FS_Injection
<1>5. PICK n \in S : place[n] = i % m
  BY <1>1, <1>4 DEF Surjection
<1> QED
  BY <1>5 DEF InOrder, Place

(* A set of numbers has a least element.                                      *)
LEMMA LeastExists ==
    ASSUME NEW T, T \subseteq Nat, T # {}
    PROVE  \E x \in T : \A y \in T : x <= y
<1>1. \E x \in T : \A y \in T : ~ (<<y, x>> \in OpToRel(<, Nat))
  BY NatLessThanWellFounded, WFMin, Zenon
<1>2. PICK x \in T : \A y \in T : ~ (y < x)
  BY <1>1 DEF OpToRel
<1>3. \A y \in T : x <= y
  BY <1>2
<1> QED
  BY <1>2, <1>3

(* Somebody is first by a key and, among those with the same key, by name.     *)
LEMMA SomebodyFirst ==
    ASSUME NEW S \in SUBSET Names, S # {}, NEW key, \A n \in S : key[n] \in Nat
    PROVE  FirstBy(S, key) # {} /\ FirstBy(S, key) \subseteq S
<1> DEFINE keys == {key[n] : n \in S}
<1>1. PICK least \in keys : \A k \in keys : least <= k
  <2>1. keys \subseteq Nat /\ keys # {}
    OBVIOUS
  <2> HIDE DEF keys
  <2> QED
    BY <2>1, LeastExists
<1> DEFINE T == {n \in S : key[n] = least}
           ranks == {NameRank[n] : n \in T}
<1>2. \A n \in S : NameRank[n] \in Nat
  BY RoutingAssumption
<1>3. PICK first \in ranks : \A r \in ranks : first <= r
  <2>1. ranks \subseteq Nat /\ ranks # {}
    BY <1>2
  <2> HIDE DEF ranks
  <2> QED
    BY <2>1, LeastExists
<1>4. PICK n \in T : first = NameRank[n]
  OBVIOUS
<1>5. \A m \in S : key[n] < key[m] \/ (key[n] = key[m] /\ NameRank[n] <= NameRank[m])
  <2> SUFFICES ASSUME NEW m \in S
               PROVE  key[n] < key[m] \/ (key[n] = key[m] /\ NameRank[n] <= NameRank[m])
    OBVIOUS
  <2>1. key[n] = least /\ least <= key[m] /\ key[m] \in Nat /\ least \in Nat
    BY <1>1, <1>4
  <2>2. CASE key[m] = least
    BY <1>3, <1>4, <2>1, <2>2
  <2>3. CASE key[m] # least
    BY <2>1, <2>3
  <2> QED
    BY <2>2, <2>3
<1> QED
  BY <1>5 DEF FirstBy

(* Some worker has the most pending tokens: the one that the fewest others have *)
(* more than.                                                                  *)
LEMMA SomebodyBusiest ==
    ASSUME NEW S \in SUBSET Names, S # {}, \A n \in S : Pending(n) \in Nat
    PROVE  \E b \in S : Pending(b) = Max({Pending(m) : m \in S})
<1> DEFINE above(n) == {m \in S : Pending(m) > Pending(n)}
           counts == {Cardinality(above(n)) : n \in S}
<1>1. IsFiniteSet(S)
  <2>1. IsFiniteSet(Names)
    BY RoutingAssumption, FS_Interval DEF Names
  <2> QED
    BY <2>1, FS_Subset
<1>2. \A n \in S : IsFiniteSet(above(n)) /\ Cardinality(above(n)) \in Nat
  BY <1>1, FS_Subset, FS_CardinalityType
<1>3. PICK least \in counts : \A c \in counts : least <= c
  <2>1. counts \subseteq Nat /\ counts # {}
    BY <1>2
  <2> HIDE DEF counts
  <2> QED
    BY <2>1, LeastExists
<1>4. PICK b \in S : least = Cardinality(above(b))
  OBVIOUS
<1>5. \A m \in S : Pending(m) <= Pending(b)
  <2> SUFFICES ASSUME NEW m \in S, Pending(m) > Pending(b) PROVE FALSE
    OBVIOUS
  <2>1. above(m) \subseteq above(b) /\ m \in above(b) /\ m \notin above(m)
    OBVIOUS
  <2>2. above(m) # above(b)
    BY <2>1
  <2>3. /\ Cardinality(above(m)) <= Cardinality(above(b))
        /\ Cardinality(above(m)) = Cardinality(above(b)) => above(m) = above(b)
    <3>1. IsFiniteSet(above(b))
      BY <1>2
    <3> HIDE DEF above
    <3> QED
      BY <2>1, <3>1, FS_Subset
  <2>4. least <= Cardinality(above(m))
    BY <1>3
  <2> HIDE DEF above
  <2> QED
    BY <1>2, <1>4, <2>2, <2>3, <2>4
<1> QED
  BY <1>5 DEF Max

(* A choice takes the one whose turn it is, and brings everybody else one turn *)
(* nearer.                                                                     *)
LEMMA TurnsCountDown ==
    ASSUME NEW S \in SUBSET Names, S # {}, NEW i \in 0..(Period - 1), NEW n \in S
    PROVE  /\ Turns(S, i, n) \in 0..(Cardinality(S) - 1)
           /\ Turns(S, i, n) = 0 <=> n \in InOrder(S, i)
           /\ Turns(S, (i + 1) % Period, n) =
                  IF Turns(S, i, n) = 0 THEN Cardinality(S) - 1 ELSE Turns(S, i, n) - 1
<1> DEFINE m == Cardinality(S)
           at == i % m
           next == ((i + 1) % Period) % m
           place == Place(S, n)
<1>1. m \in Nat \ {0} /\ m \in 1..(MaxName + 1) /\ place \in 0..(m - 1)
  BY PlacesDiffer, RoutingAssumption
<1>2. Period \in Nat \ {0} /\ Period % m = 0
  BY <1>1, RoutingAssumption
<1>3. at \in 0..(m - 1)
  <2>1. i \in Nat
    BY <1>2
  <2> HIDE DEF m
  <2> QED
    BY <1>1, <2>1, Remainder
<1>4. next = IF at + 1 = m THEN 0 ELSE at + 1
  <2>1. m \in Nat \ {0} /\ Period % m = 0 /\ i \in 0..(Period - 1)
    BY <1>1, <1>2
  <2> HIDE DEF m
  <2> QED
    BY ONLY <1>2, <2>1, NextTurn
<1>5. Turns(S, i, n) = IF place >= at THEN place - at ELSE place + m - at
  BY DEF Turns
<1>6. Turns(S, (i + 1) % Period, n) = IF place >= next THEN place - next ELSE place + m - next
  BY DEF Turns
<1>7. n \in InOrder(S, i) <=> place = at
  BY DEF InOrder, Place
<1> HIDE DEF m, at, next, place
<1>8. Turns(S, i, n) \in 0..(m - 1) /\ (Turns(S, i, n) = 0 <=> place = at)
  BY ONLY <1>1, <1>3, <1>5
<1>9. Turns(S, (i + 1) % Period, n) = IF Turns(S, i, n) = 0 THEN m - 1 ELSE Turns(S, i, n) - 1
  BY ONLY <1>1, <1>3, <1>4, <1>5, <1>6
<1> QED
  BY <1>7, <1>8, <1>9 DEF m

(* The choice of n among the workers S, of whom `chosen' were chosen before.   *)
LEMMA RoundTurns ==
    ASSUME NEW S \in SUBSET Names, S # {}, NEW i \in 0..(Period - 1), NEW n \in InOrder(S, i),
           NEW chosen, InRound(S, chosen, i)
    PROVE  /\ n \notin chosen
           /\ InRound(S, IF chosen \cup {n} = S THEN {} ELSE chosen \cup {n},
                      (i + 1) % Period)
<1> SUFFICES ASSUME chosen \subseteq S,
                    NEW k \in 0..(Cardinality(S) - 1), ChosenComeLast(S, chosen, i, k)
             PROVE  /\ n \notin chosen
                    /\ InRound(S, IF chosen \cup {n} = S THEN {} ELSE chosen \cup {n},
                               (i + 1) % Period)
  BY DEF InRound
<1> DEFINE m == Cardinality(S)
           j == (i + 1) % Period
<1>1. m \in Nat \ {0} /\ n \in S
  BY PlacesDiffer, RoutingAssumption DEF InOrder
<1>2. \A x \in S : /\ Turns(S, i, x) \in 0..(m - 1)
                   /\ Turns(S, i, x) = 0 <=> x = n
                   /\ Turns(S, j, x) = IF x = n THEN m - 1 ELSE Turns(S, i, x) - 1
  <2>1. \A x \in S : x \in InOrder(S, i) <=> Place(S, x) = i % Cardinality(S)
    BY DEF InOrder, Place
  <2>2. \A x \in S : x \in InOrder(S, i) <=> x = n
    BY <1>1, <2>1, PlacesDiffer
  <2> QED
    BY <2>2, TurnsCountDown
<1>3. \A x \in S : x \in chosen <=> Turns(S, i, x) >= m - k
  BY DEF ChosenComeLast
<1> HIDE DEF m, j
<1>4. k \in 0..(m - 1)
  BY DEF m
<1>5. n \notin chosen
  BY <1>1, <1>2, <1>3, <1>4
<1>6. \A x \in S : x \in chosen \cup {n} <=> Turns(S, j, x) >= m - (k + 1)
  <2> SUFFICES ASSUME NEW x \in S
               PROVE  x \in chosen \cup {n} <=> Turns(S, j, x) >= m - (k + 1)
    OBVIOUS
  <2>1. CASE x = n
    BY <1>1, <1>2, <1>4, <2>1
  <2>2. CASE x # n
    BY <1>1, <1>2, <1>3, <1>4, <2>2
  <2> QED
    BY <2>1, <2>2
<1>7. CASE chosen \cup {n} = S
  <2>1. \A x \in S : ~ (Turns(S, j, x) >= m - 0)
    BY <1>1, <1>2
  <2> QED
    BY <1>1, <1>5, <1>7, <2>1 DEF InRound, ChosenComeLast, m, j
<1>8. CASE chosen \cup {n} # S
  <2>1. k + 1 \in 0..(m - 1)
    <3> SUFFICES ASSUME k + 1 = m PROVE FALSE
      BY <1>1, <1>4
    <3>1. \A x \in S : Turns(S, j, x) >= m - (k + 1)
      BY <1>1, <1>2
    <3> QED
      BY <1>1, <1>6, <1>8, <3>1
  <2> QED
    <3>1. ChosenComeLast(S, chosen \cup {n}, j, k + 1)
      BY <1>6 DEF ChosenComeLast, m
    <3>2. chosen \cup {n} \subseteq S
      BY <1>1
    <3>3. InRound(S, chosen \cup {n}, j)
      BY <2>1, <3>1, <3>2 DEF InRound, m
    <3> QED
      BY <1>5, <1>8, <3>3 DEF j
<1> QED
  BY <1>7, <1>8

(* "Route" fails only if nobody is healthy: whatever the strategy, the cursor,  *)
(* the loads and the caches, it comes to a worker, and to a healthy one.       *)
THEOREM SomebodyIsPicked ==
    ASSUME TypeOK, strategy \in StrategyNames, Healthy # {},
           NEW priority \in Priorities, NEW prefix \in Prefixes \cup {None}
    PROVE  /\ Picks(Healthy, priority, prefix) # {}
           /\ Picks(Healthy, priority, prefix) \subseteq Healthy
<1>1. Healthy \in SUBSET Names
  BY RoutingAssumption DEF Healthy, TypeOK, Names
<1>2. \A n \in Healthy : Jobs(n) \in Nat /\ Pending(n) \in Nat
  BY DEF Healthy, TypeOK, State, Jobs, Pending
<1>3. ASSUME NEW S \in SUBSET Healthy, S # {}
      PROVE  LeastLoaded(S) # {} /\ LeastPending(S) # {} /\ S \in SUBSET Names
  <2>1. S \in SUBSET Names
    BY <1>1
  <2>2. \A n \in S : [k \in S |-> Jobs(k)][n] \in Nat /\ [k \in S |-> Pending(k)][n] \in Nat
    BY <1>2
  <2> QED
    BY <1>3, <2>1, <2>2, SomebodyFirst DEF LeastLoaded, LeastPending
<1>4. InOrder(Healthy, cursor) # {}
  BY <1>1, RoutingAssumption, SomebodyInOrder DEF TypeOK
<1>5. PowerOfTwo(Healthy) # {}
  <2>1. CASE Cardinality(Healthy) <= 1
    BY <2>1 DEF PowerOfTwo
  <2>2. CASE ~ (Cardinality(Healthy) <= 1)
    <3>1. PICK a \in Healthy : TRUE
      OBVIOUS
    <3>2. PICK b \in Healthy : b # a
      <4>1. Healthy # {a}
        BY <2>2, FS_Singleton
      <4> QED
        BY <3>1, <4>1
    <3>3. Cardinality({a, b}) = 2
      <4>1. IsFiniteSet({a}) /\ Cardinality({a}) = 1
        BY FS_Singleton
      <4>2. Cardinality({a} \cup {b}) = Cardinality({a}) + 1
        BY <3>2, <4>1, FS_AddElement
      <4>3. {a, b} = {a} \cup {b}
        OBVIOUS
      <4> QED
        BY <4>1, <4>2, <4>3
    <3>4. {a, b} \in kSubset(2, Healthy) /\ LeastLoaded({a, b}) # {}
      BY <1>3, <3>3 DEF kSubset
    <3> QED
      BY <2>2, <3>4 DEF PowerOfTwo
  <2> QED
    BY <2>1, <2>2
<1>6. PrefixAffinity(Healthy, prefix) # {}
  <2>1. Holders(Healthy, prefix) \in SUBSET Healthy
    BY DEF Holders
  <2> QED
    BY <1>3, <2>1 DEF PrefixAffinity
<1>7. Priority(Healthy, priority) # {}
  <2>1. CASE priority = "interactive"
    BY <1>3, <2>1 DEF Priority
  <2>2. CASE priority # "interactive"
    <3> DEFINE busiest == Max({Pending(m) : m \in Healthy})
               T == {n \in Healthy : Pending(n) = busiest}
    <3>1. T # {} /\ T \in SUBSET Names
      BY <1>1, <1>2, SomebodyBusiest
    <3>2. \A n \in T : [k \in Healthy |-> busiest][n] \in Nat
      BY <1>2
    <3>3. Priority(Healthy, priority) = FirstBy(T, [k \in Healthy |-> busiest])
      BY <2>2 DEF Priority
    <3> HIDE DEF busiest, T
    <3> QED
      BY <3>1, <3>2, <3>3, SomebodyFirst
  <2> QED
    BY <2>1, <2>2
<1>8. Picks(Healthy, priority, prefix) # {}
  BY <1>3, <1>4, <1>5, <1>6, <1>7 DEF Picks, StrategyNames, HardwareAware
<1> QED
  BY <1>8, PicksTheHealthy

(* A choice that nobody else is in the midst of: in the middle of a round, or   *)
(* one that begins a round.                                                    *)
LEMMA ChoiceTurns ==
    ASSUME TypeOK, Rotation, Healthy # {}, Choosing = {}, strategy = "round-robin",
           NEW n \in InOrder(Healthy, cursor)
    PROVE  /\ round.of = Healthy => n \notin round.chosen
           /\ RoundAfter(n).of = Healthy
           /\ InRound(Healthy, RoundAfter(n).chosen, (cursor + 1) % Period)
<1>1. Healthy \in SUBSET Names /\ n \in Healthy
  BY RoutingAssumption DEF Healthy, TypeOK, Names, InOrder
<1>2. cursor \in 0..(Period - 1)
  BY DEF TypeOK
<1> DEFINE before == IF round.of = Healthy THEN round.chosen ELSE {}
<1>3. RoundAfter(n) = [of |-> Healthy, chosen |-> IF before \cup {n} = Healthy
                                                  THEN {} ELSE before \cup {n}]
  BY DEF RoundAfter
<1>4. InRound(Healthy, before, cursor)
  <2>1. CASE round.of = Healthy
    BY <1>1, <2>1 DEF Rotation, NextCursor
  <2>2. CASE round.of # Healthy
    <3>1. \A m \in Healthy : Turns(Healthy, cursor, m) \in 0..(Cardinality(Healthy) - 1)
      BY <1>1, <1>2, TurnsCountDown
    <3>2. Cardinality(Healthy) \in Nat \ {0}
      BY <1>1, PlacesDiffer, RoutingAssumption
    <3>3. ChosenComeLast(Healthy, {}, cursor, 0)
      BY <3>1, <3>2 DEF ChosenComeLast
    <3> QED
      BY <2>2, <3>2, <3>3 DEF InRound
  <2> QED
    BY <2>1, <2>2
<1> HIDE DEF before
<1>5. /\ n \notin before
      /\ InRound(Healthy, IF before \cup {n} = Healthy THEN {} ELSE before \cup {n},
                 (cursor + 1) % Period)
  BY ONLY <1>1, <1>2, <1>4, Healthy # {}, n \in InOrder(Healthy, cursor), RoundTurns
<1> QED
  BY <1>3, <1>5 DEF before

(* A call that sets out by round-robin is in choose(); whoever else is, breaks  *)
(* the round off.                                                              *)
LEMMA RouteTurns ==
    ASSUME TypeOK, IInv, Rotation, NEW c \in Callers, NEW priority \in Priorities,
           NEW prefix \in Prefixes \cup {None}, Route(c, priority, prefix)
    PROVE  Rotation'
<1>1. PICK n \in Picks(Healthy, priority, prefix) :
        /\ calls' = [calls EXCEPT ![c] =
               [at |-> IF strategy = "round-robin" THEN "increment" ELSE "admit",
                target |-> n, prefix |-> prefix, i |-> 0]]
        /\ round' = RoundAfter(n)
  BY DEF Route
<1>2. Healthy # {} /\ cursor' = cursor /\ calls[c] = NoCall
  BY DEF Route
<1>3. CASE strategy # "round-robin" \/ Choosing # {}
  BY <1>1, <1>3 DEF Rotation, RoundAfter, NewRound
<1>4. CASE strategy = "round-robin" /\ Choosing = {}
  <2>1. n \in InOrder(Healthy, cursor)
    BY <1>1, <1>4 DEF Picks
  <2>2. round'.of = Healthy /\ InRound(Healthy, round'.chosen, (cursor + 1) % Period)
    BY <1>1, <1>2, <1>4, <2>1, ChoiceTurns
  <2>3. Choosing' = {c} /\ calls'[c].at = "increment"
    <3>1. /\ calls'[c] = [at |-> "increment", target |-> n, prefix |-> prefix, i |-> 0]
          /\ \A d \in Callers : d # c => calls'[d] = calls[d]
      BY <1>1, <1>4 DEF IInv, Shape
    <3>2. calls'[c].at = "increment" /\ NoCall.at = "idle"
      BY <3>1 DEF NoCall
    <3>3. calls'[c] # NoCall
      BY <3>2
    <3> QED
      BY <1>4, <3>1, <3>2, <3>3 DEF Choosing, Busy
  <2>4. Healthy \in SUBSET Names
    BY RoutingAssumption DEF Healthy, TypeOK, Names
  <2> QED
    BY <1>2, <2>2, <2>3, <2>4 DEF Rotation, NextCursor
<1> QED
  BY <1>3, <1>4

(* The increment, which the call that is alone in choose() does from the cursor *)
(* it read; and an admission, which choose() is over for.                      *)
LEMMA IncrementTurns ==
    ASSUME TypeOK, IInv, Rotation, NEW c \in Callers,
           \/ ReadCursor(c) \/ WriteCursor(c)
           \/ \E want \in 1..MaxPending[backend] : Admit(c, want)
    PROVE  Rotation'
<1>1. calls = [d \in Callers |-> calls[d]] /\ round' = round
  BY DEF IInv, Shape, ReadCursor, WriteCursor, Admit
<1>2. \A d \in Callers : d # c => calls'[d] = calls[d]
  BY <1>1 DEF ReadCursor, WriteCursor, Admit
<1>3. CASE ReadCursor(c)
  <2>1. calls[c].at = "increment" /\ calls[c] # NoCall /\ cursor' = cursor
    BY <1>3 DEF ReadCursor, NoCall
  <2>2. calls'[c].at = "store" /\ calls'[c].i = cursor
    <3>1. calls' = [calls EXCEPT ![c].at = "store", ![c].i = cursor]
      BY <1>3 DEF ReadCursor
    <3>2. IsCall(calls[c])
      BY <2>1 DEF IInv, Shape, Busy
    <3>3. calls'[c] = [calls[c] EXCEPT !.at = "store", !.i = cursor]
      BY <1>1, <3>1
    <3>4. calls[c] = [at |-> calls[c].at, target |-> calls[c].target,
                      prefix |-> calls[c].prefix, i |-> calls[c].i]
      BY <3>2 DEF IsCall, Record
    <3> QED
      BY ONLY <3>3, <3>4
  <2>3. calls'[c] # NoCall
    BY <2>2 DEF NoCall
  <2>4. Choosing' = Choosing
    BY <1>2, <2>1, <2>2, <2>3 DEF Choosing, Busy
  <2> QED
    BY <1>1, <1>2, <2>1, <2>2, <2>4 DEF Rotation, NextCursor, Choosing, Busy
<1>4. CASE WriteCursor(c)
  <2>1. calls[c].at = "store" /\ calls[c] # NoCall /\ cursor' = (calls[c].i + 1) % Period
    BY <1>4 DEF WriteCursor, NoCall
  <2>2. calls'[c].at = "admit"
    <3>1. calls' = [calls EXCEPT ![c].at = "admit", ![c].i = 0]
      BY <1>4 DEF WriteCursor
    <3>2. IsCall(calls[c])
      BY <2>1 DEF IInv, Shape, Busy
    <3>3. calls'[c] = [calls[c] EXCEPT !.at = "admit", !.i = 0]
      BY <1>1, <3>1
    <3>4. calls[c] = [at |-> calls[c].at, target |-> calls[c].target,
                      prefix |-> calls[c].prefix, i |-> calls[c].i]
      BY <3>2 DEF IsCall, Record
    <3> QED
      BY ONLY <3>3, <3>4
  <2>3. Choosing' = Choosing \ {c} /\ c \in Choosing
    BY <1>2, <2>1, <2>2 DEF Choosing, Busy
  <2>4. CASE round.of # {}
    <3>1. Choosing = {c} /\ calls[c].i = cursor /\ InRound(round.of, round.chosen, (cursor + 1) % Period)
      BY <2>1, <2>3, <2>4 DEF Rotation, NextCursor
    <3>2. Choosing' = {} /\ cursor' = (cursor + 1) % Period
      BY <2>1, <2>3, <3>1
    <3> QED
      BY <1>1, <3>1, <3>2 DEF Rotation, NextCursor
  <2>5. CASE round.of = {}
    BY <1>1, <2>5 DEF Rotation
  <2> QED
    BY <2>4, <2>5
<1>5. CASE \E want \in 1..MaxPending[backend] : Admit(c, want)
  <2>1. calls[c].at = "admit" /\ calls' = [calls EXCEPT ![c] = NoCall] /\ cursor' = cursor
    BY <1>5 DEF Admit
  <2>2. calls'[c] = NoCall
    BY <1>1, <2>1
  <2>3. Choosing' = Choosing /\ c \notin Choosing
    BY <1>2, <2>1, <2>2 DEF Choosing, Busy
  <2>4. \A d \in Choosing : calls'[d] = calls[d]
    BY <1>2, <2>3 DEF Choosing, Busy
  <2> QED
    BY <1>1, <2>1, <2>3, <2>4 DEF Rotation, NextCursor
<1> QED
  BY <1>3, <1>4, <1>5

(* "Cycle through workers in order": a choice by round-robin that no other      *)
(* choice overlaps, when the same workers are healthy as at the last one, falls *)
(* on nobody who was chosen in this round, in a pool of any size.              *)
THEOREM NobodyChosenTwice == Spec => FairRotation
<1>1. Init => Rotation
  BY RoutingAssumption DEF Init, Rotation, Names
<1>2. ASSUME TypeOK, IInv, Rotation, [Next]_vars
      PROVE  Rotation'
  <2>1. ASSUME NEW c \in Callers, Submit(c)
        PROVE  Rotation'
    BY <1>2, <2>1, RouteTurns, IncrementTurns DEF Submit
  <2>2. CASE SetStrategy
    BY <2>2 DEF SetStrategy, Rotation, NewRound
  <2>3. CASE UNCHANGED <<cursor, round, calls>>
    BY <1>2, <2>3 DEF Rotation, NextCursor, Choosing, Busy
  <2>4. \/ UNCHANGED <<cursor, round, calls>> \/ SetStrategy
        \/ \E c \in Callers : Submit(c)
    BY <1>2 DEF Next, Serve, Sicken, Remove, AddWorker, vars
  <2> QED
    BY <2>1, <2>2, <2>3, <2>4
<1>3. ASSUME TypeOK, IInv, Rotation, [Next]_vars,
             NEW c \in Callers, strategy = "round-robin", round.of = Healthy,
             calls[c] = NoCall, calls'[c] # NoCall, Choosing = {}
      PROVE  calls'[c].target \notin round.chosen
  <2>1. calls = [d \in Callers |-> calls[d]]
    BY <1>3 DEF IInv, Shape
  <2>2. NoCall.at = "idle"
    BY DEF NoCall
  <2>3. PICK d \in Callers, priority \in Priorities, prefix \in Prefixes \cup {None} :
          Route(d, priority, prefix)
    <3>1. ~ UNCHANGED calls
      BY <1>3
    <3>2. ASSUME NEW d \in Callers, NEW want, Admit(d, want) PROVE FALSE
      <4>1. calls'[c] = NoCall \/ calls'[c] = calls[c]
        BY <2>1, <3>2 DEF Admit
      <4> QED
        BY <1>3, <4>1
    <3>3. ASSUME NEW d \in Callers, ReadCursor(d) \/ WriteCursor(d) PROVE FALSE
      <4>1. calls[d].at \in {"increment", "store"}
        BY <3>3 DEF ReadCursor, WriteCursor
      <4>2. d \in Choosing
        BY <2>2, <4>1 DEF Choosing, Busy
      <4> QED
        BY <1>3, <4>2
    <3>4. ~ SetStrategy
      <4> SUFFICES ASSUME SetStrategy PROVE FALSE
        OBVIOUS
      <4>1. calls' = [d \in Callers |-> IF d \in Choosing
                                       THEN [calls[d] EXCEPT !.at = "admit", !.i = 0]
                                       ELSE calls[d]]
        BY DEF SetStrategy
      <4>2. calls'[c] = calls[c]
        BY <1>3, <4>1
      <4> QED
        BY <1>3, <4>2
    <3>5. \/ UNCHANGED calls \/ SetStrategy
          \/ \E d \in Callers : Submit(d)
      BY <1>3 DEF Next, Serve, Sicken, Remove, AddWorker, vars
    <3> QED
      BY <3>1, <3>2, <3>3, <3>4, <3>5 DEF Submit
  <2>4. PICK n \in Picks(Healthy, priority, prefix) :
          calls' = [calls EXCEPT ![d] =
               [at |-> IF strategy = "round-robin" THEN "increment" ELSE "admit",
                target |-> n, prefix |-> prefix, i |-> 0]]
    BY <2>3 DEF Route
  <2>5. d = c /\ calls'[c].target = n
    BY <1>3, <2>1, <2>4
  <2>6. n \in InOrder(Healthy, cursor) /\ Healthy # {}
    BY <1>3, <2>3, <2>4 DEF Picks, Route
  <2> QED
    BY <1>3, <2>5, <2>6, ChoiceTurns
<1>4. TypeOK /\ IInv /\ Rotation /\ [Next]_vars
      => [\A c \in Callers :
            /\ strategy = "round-robin" /\ round.of = Healthy
            /\ calls[c] = NoCall /\ calls'[c] # NoCall
            /\ Choosing = {}
            => calls'[c].target \notin round.chosen]_vars
  BY <1>3
<1> QED
  BY <1>1, <1>2, <1>4, Invariance, PTL DEF Spec, FairRotation
===============================================================================

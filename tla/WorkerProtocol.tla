---------------------------- MODULE WorkerProtocol ----------------------------
(***************************************************************************)
(* What every backend promises the control plane: the Worker protocol of   *)
(* workers/base.py (admit / step / in_flight) as the PoolManager and       *)
(* Metrics rely on it.  A worker holds a set of resident requests; each    *)
(* step hands back token events, only for resident requests, and the final *)
(* event of a request is its last one and ends its residence.              *)
(*                                                                         *)
(* A request id may be accepted again once its previous use has ended, so  *)
(* one id stands for an unbounded supply of distinct ones.                 *)
(***************************************************************************)
EXTENDS Naturals

CONSTANTS
    SeqIds,     \* the request ids
    Burst       \* most events of one request in a single step

VARIABLES
    resident,   \* requests accepted whose final event has not been handed back
    delivered   \* events handed back so far for the current use of each id

vars == <<resident, delivered>>

(* What the pool can say of any backend: who is resident, and how many events  *)
(* came back.                                                               *)
TypeOK ==
    /\ resident \in SUBSET SeqIds
    /\ delivered \in [SeqIds -> Nat]

Init ==
    /\ resident = {}
    /\ delivered = [id \in SeqIds |-> 0]

(* Worker.admit: the request becomes resident and owes all its events.      *)
Accept(id) ==
    /\ id \notin resident
    /\ resident' = resident \cup {id}
    /\ delivered' = [delivered EXCEPT ![id] = 0]

(* Worker.step: some resident requests emit, and of those some emit their  *)
(* final event.                                                            *)
Deliver ==
    \E n \in [resident -> 0..Burst] :
        \E finals \in SUBSET {id \in resident : n[id] > 0} :
            /\ resident' = resident \ finals
            /\ delivered' = [id \in SeqIds |->
                   IF id \in resident THEN delivered[id] + n[id] ELSE delivered[id]]

Next == (\E id \in SeqIds : Accept(id)) \/ Deliver

Spec == Init /\ [][Next]_vars
===============================================================================

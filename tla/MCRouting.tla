------------------------------ MODULE MCRouting -------------------------------
(* Instances of Routing for TLC.                                            *)
EXTENDS Routing, TLC

CONSTANTS t1, t2

TwoCallers == {t1, t2}

(* The other three strategies are what two of these fall back on or use.      *)
EveryRule == {"random", "round-robin", "power-of-two-choices", "prefix-affinity", "priority"}

(* What a stream still has to bring is an estimate that may be 0 at any time. *)
FewTokens == [b \in Backends |-> IF b = "sim" THEN 2 ELSE 1]

(* Of the first ten names the strings stand in the order of the numbers.      *)
ByNumber == [n \in Names |-> n]

Alike == Permutations(TwoCallers)
===============================================================================

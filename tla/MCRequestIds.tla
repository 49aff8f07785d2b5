----------------------------- MODULE MCRequestIds -----------------------------
(* Instances of RequestIds for TLC.                                         *)
EXTENDS RequestIds, LoadGen, TLC

CONSTANTS t1, t2, a, b, none

MCSeqIds == {"u", "g"} \X (0..MaxNumber)

TwoThreads == {t1, t2}
NoThread == {}
TwoGenerators == {a, b}

Alike == Permutations(TwoThreads) \cup Permutations(TwoGenerators)

(* What rate_at returns over two cycles of a live generator.                  *)
ASSUME RatesOfTwoCycles ==
    /\ \A p \in Presets, t \in 0..(2 * Cycle) : RateAt(p, t) \in 1..Peak(p)
    /\ \A t \in 0..Cycle : RateAt("burst", t + Cycle) = RateAt("burst", t)
    /\ \E t \in 0..Cycle : RateAt("spike", t) = Peak("spike")
    /\ \A t \in Cycle..(2 * Cycle) : RateAt("spike", t) # Peak("spike")
===============================================================================

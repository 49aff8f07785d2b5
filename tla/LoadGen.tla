------------------------------- MODULE LoadGen --------------------------------
(***************************************************************************)
(* The shape of generated load: rate_at over the three presets, as a live  *)
(* LoadGenerator calls it, with the time since it was started and with its *)
(* cycle_s for the duration.  Rates are in twentieths of base_rate.        *)
(***************************************************************************)
EXTENDS Naturals

CONSTANT Cycle    \* cycle_s, in units of time

ASSUME LoadGenAssumption == Cycle \in Nat \ {0} /\ Cycle % 40 = 0

Presets == {"steady", "burst", "spike"}

Period == Cycle \div 4

InSurge(t) == 2 * Cycle <= 5 * t /\ 5 * t <= 3 * Cycle

(* rate_at: a square wave of four periods to the cycle, or a surge in the      *)
(* middle of the first cycle.                                                 *)
RateAt(p, t) ==
    CASE p = "steady" -> 20
      [] p = "burst"  -> IF 2 * (t % Period) < Period THEN 40 ELSE 5
      [] p = "spike"  -> IF InSurge(t) THEN 80 ELSE 6

(* _peak_rate: what plan_arrivals draws arrivals at before it thins them.      *)
Peak(p) == CASE p = "steady" -> 20 [] p = "burst" -> 40 [] p = "spike" -> 80
===============================================================================

----------------------------- MODULE Autoscaler ------------------------------
(***************************************************************************)
(* The scaling policy of autoscaler.py, a pure function of the             *)
(* configuration and of a snapshot of the pool.                            *)
(*                                                                         *)
(* Queue depths are floats in the code.  Here a threshold t stands for     *)
(* t / Unit, and the average load enters as the total load, so that        *)
(* avg > threshold is the exact comparison Unit * load > threshold * n.    *)
(***************************************************************************)
EXTENDS Naturals

CONSTANT Unit       \* how many threshold units make one request per worker

ASSUME UnitAssumption == Unit \in Nat \ {0}

(* The checks of AutoscalerConfig.__post_init__.                            *)
ValidConfig(c) ==
    /\ c.min >= 1
    /\ c.min <= c.max
    /\ c.scaleDown <= c.target

(* avg_queue_depth > threshold and < threshold, over n workers.  An empty    *)
(* pool has average 0.                                                       *)
Above(load, n, threshold) == Unit * load > threshold * n
Below(load, n, threshold) == IF n = 0 THEN threshold > 0 ELSE Unit * load < threshold * n

FaultyDecide(c, n, load, since, cooldown) ==    \* >= for > at the floor
    IF n < c.min THEN "up"
    ELSE IF n > c.max THEN "down"
    ELSE IF since < cooldown THEN "hold"
    ELSE IF Above(load, n, c.target) /\ n < c.max THEN "up"
    ELSE IF Below(load, n, c.scaleDown) /\ n >= c.min THEN "down"
    ELSE "hold"

CoolingDecide(c, n, load, since, cooldown) ==   \* the floor found too late
    IF since < cooldown THEN "hold"
    ELSE IF Above(load, n, c.target) /\ n < c.max THEN "up"
    ELSE IF Below(load, n, c.scaleDown) /\ n > c.min THEN "down"
    ELSE "hold"

SwappedDecide(c, n, load, since, cooldown) ==   \* down on the scale-up threshold
    IF n < c.min THEN "up"
    ELSE IF n > c.max THEN "down"
    ELSE IF since < cooldown THEN "hold"
    ELSE IF Above(load, n, c.target) /\ n < c.max THEN "up"
    ELSE IF Below(load, n, 2 * c.target) /\ n > c.min THEN "down"
    ELSE "hold"

(* decide(snapshot): hard bounds first, whatever the cooldown; then the      *)
(* cooldown; then the hysteresis band.                                       *)
Decide(c, n, load, since, cooldown) ==
    IF n < c.min THEN "up"
    ELSE IF n > c.max THEN "down"
    ELSE IF since < cooldown THEN "hold"
    ELSE IF Above(load, n, c.target) /\ n < c.max THEN "up"
    ELSE IF Below(load, n, c.scaleDown) /\ n > c.min THEN "down"
    ELSE "hold"
===============================================================================

----------------------------- MODULE MCScheduler -----------------------------
(* Instances of Scheduler for TLC.                                          *)
EXTENDS Scheduler

CONSTANTS a, b, c, d

MCSeqIds == {a, b, c, d}
===============================================================================

----------------------------- MODULE MCRealBench -----------------------------
(* Instances of RealBench for TLC.                                          *)
EXTENDS RealBench

(* The hypothesis of the theorems about the benchmark.                      *)
ASSUME MCNumbered == Numbered
===============================================================================

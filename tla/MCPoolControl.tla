---------------------------- MODULE MCPoolControl ----------------------------
(* Instances of PoolControl for TLC.                                        *)
EXTENDS PoolControl
===============================================================================

------------------------- MODULE MCStaticVsContinuous -------------------------
(* Instances of StaticVsContinuous for TLC.                                 *)
EXTENDS StaticVsContinuous
===============================================================================

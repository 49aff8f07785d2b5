-------------------------- MODULE MCRealModelWorker --------------------------
(* Instances of RealModelWorker for TLC.                                    *)
EXTENDS RealModelWorker

CONSTANTS r1, r2, r3

MCSeqIds == {r1, r2, r3}

AnyMode == {TRUE, FALSE}
===============================================================================

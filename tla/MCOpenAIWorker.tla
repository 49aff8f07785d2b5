--------------------------- MODULE MCOpenAIWorker ----------------------------
(* Instances of OpenAIWorker for TLC.                                       *)
EXTENDS OpenAIWorker, TLC

CONSTANTS a, b

MCSeqIds == {a, b}
===============================================================================

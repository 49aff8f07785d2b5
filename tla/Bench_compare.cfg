\* Every workload of four arrivals at steps 0..2 with 0..1 prefill and 1..2
\* decode steps, in batches of two.  The benchmark ends.
SPECIFICATION Spec
CONSTANTS
    Arrivals = 4
    LastStep = 2
    MaxBatch = 2
    MaxPrefill = 1
    MaxDecode = 2
CHECK_DEADLOCK FALSE
INVARIANTS
    ContinuousDominates
    SameWork
PROPERTIES
    StaticBatchesDoNotOverlap

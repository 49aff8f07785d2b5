\* A burst of four requests in batches of two, each answer of any length up to three.
\* The benchmark ends, so a state without successor is no error.
SPECIFICATION BenchFairSpec
CONSTANTS
    SeqIds = {1, 2, 3, 4}
    Requests = 4
    MaxBatch = 2
    MaxPrompt = 1
    MaxNew = 3
    MaxWidth = 0
    MaxFailures = 0
    Modes = {TRUE, FALSE}
INVARIANTS
    SameOutputs
    CompletesNoLater
PROPERTIES
    BenchmarkEnds
CHECK_DEADLOCK FALSE

\* Batches of two, four sequence ids, all workloads of 0..1 prefill and 1..2
\* decode steps; ids keep coming back.
SPECIFICATION FairSpec
CONSTANTS
    a = a
    b = b
    c = c
    d = d
    SeqIds <- MCSeqIds
    MaxBatch = 2
    MaxPrefill = 1
    MaxDecode = 2
    Policy = "continuous"
INVARIANTS
    BatchBounded
    BudgetExact
PROPERTIES
    NoOvertaking
    NoIdleSlotAfterStep
    KeepsWorkerProtocol
    NoStarvation

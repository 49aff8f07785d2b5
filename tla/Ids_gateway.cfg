\* Two threads that post at any time, and generators started and stopped at any time.
SPECIFICATION IdsSpec
CONSTANTS
    t1 = t1
    t2 = t2
    a = a
    b = b
    none = none
    SeqIds <- MCSeqIds
    MaxBatch = 2
    MaxPrefill = 0
    Policy = "continuous"
    MaxDecode = 2
    MaxNumber = 1
    MaxOwed = 2
    Cycle = 40
    Generators <- TwoGenerators
    NoGenerator = none
    Threads <- TwoThreads
SYMMETRY Alike
INVARIANTS
    OnlyReuseLoses

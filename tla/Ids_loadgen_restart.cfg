\* A generator is started while requests of the one before are resident.
SPECIFICATION IdsSpec
CONSTANTS
    t1 = t1
    t2 = t2
    a = a
    b = b
    none = none
    SeqIds <- MCSeqIds
    MaxBatch = 2
    MaxPrefill = 1
    Policy = "continuous"
    MaxDecode = 1
    MaxNumber = 1
    MaxOwed = 2
    Cycle = 40
    Generators <- TwoGenerators
    NoGenerator = none
    Threads <- NoThread
SYMMETRY Alike
INVARIANTS
    NothingLost

\* Two submits at a time on pools of up to three workers, under strategies
\* swapped at any time.
SPECIFICATION Spec
CONSTANTS
    t1 = t1
    t2 = t2
    Prefixes = {"p"}
    Callers <- TwoCallers
    Strategies <- EveryRule
    Backends = {"sim", "openai"}
    Initial = 2
    MaxName = 2
    MaxJobs = 2
    MaxPending <- FewTokens
    NameRank <- ByNumber
    Period = 6
SYMMETRY Alike
INVARIANTS
    OnePrefixHolder
    ReservesIdle
PROPERTIES
    FairRotation

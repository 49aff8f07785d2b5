\* A posted request and the autoscaler; nothing is killed or reset.
SPECIFICATION Spec
CONSTANTS
    g1 = g1
    g2 = g2
    u1 = u1
    LoopReqs <- Nobody
    ThreadReqs <- OneFromThread
    Want = 1
    MaxName = 2
    MaxResets = 0
    Plans <- OnePosted
INVARIANTS
    NobodyStranded

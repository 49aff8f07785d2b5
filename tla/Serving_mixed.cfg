\* Generated and posted requests on one or two workers, with a kill, or with a reset,
\* of streaming workers and of real-model workers.
SPECIFICATION FairSpec
CONSTANTS
    g1 = g1
    g2 = g2
    u1 = u1
    LoopReqs <- TwoFromLoop
    ThreadReqs <- OneFromThread
    Want = 2
    MaxName = 2
    MaxResets = 1
    Plans <- Mixed
INVARIANTS
    LoopEventsRecorded
    
    AccountComplete
PROPERTIES
    SubmittedCompletes

\* Two requests of up to two tokens; submitting at any time.
SPECIFICATION FairSpec
CONSTANTS
    a = a
    b = b
    SeqIds <- MCSeqIds
    MaxTokens = 2
    MaxPending = 4
CHECK_DEADLOCK FALSE
INVARIANTS
    SafeToReclaim
    InFlightExact
    PendingCoversStreams
PROPERTIES
    EveryRequestEnds
    KeepsWorkerProtocol

\* Batches of two out of three requests, prompts and answers of up to two tokens, the
\* batching mode switched at any time, and two calls of the model that raise.
SPECIFICATION Spec
CONSTANTS
    r1 = r1
    r2 = r2
    r3 = r3
    SeqIds <- MCSeqIds
    MaxBatch = 2
    MaxPrompt = 2
    MaxNew = 2
    MaxWidth = 4
    MaxFailures = 2
    Modes <- AnyMode
INVARIANTS
    RowsAligned
    LostOnlyByFailure
    TokensWithinBudget
PROPERTIES
    WedgedForEver
    StaticDrainsFirst
    StarvesOnlyUnderPrefill
    KeepsWorkerProtocol

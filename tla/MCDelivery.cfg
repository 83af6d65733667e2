SPECIFICATION Spec
CONSTANTS
    Workers = {w1, w2}
    Operations = 2
    WriteOperations = {2}
    Events <- WrongThenDelete
    BatchSize = 1
    MaxRounds = 2
    MaxRetries = 2
    Documents <- ParsedDocuments
    ChunkLimit = 3
    Overlap = 1
    MaxAttempts = 2
    MaxChanges = 1
    MaxFaults = 1
CHECK_DEADLOCK FALSE
INVARIANTS
    TypeOK OnDesktop Ingested Presented
PROPERTIES
    Lively

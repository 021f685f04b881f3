SPECIFICATION FairBatchSpec
CONSTANTS
    MaxSize = 2
    EmergencySize = 4
    MaxResults = 16
INVARIANTS ResultsAccountedFor MemoryBounded AlertsBounded
PROPERTY BufferEmpties
CHECK_DEADLOCK FALSE

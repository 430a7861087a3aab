SPECIFICATION Spec
CONSTANTS
    MaxDocs = 4
    BatchSize = 2
    MaxBuffer = 3
    InsertFails = FALSE
INVARIANTS FlushedAtExit
CHECK_DEADLOCK FALSE

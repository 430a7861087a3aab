SPECIFICATION FairSpec
CONSTANTS
    MaxDocs = 6
    BatchSize = 2
    MaxBuffer = 3
    InsertFails = TRUE
INVARIANTS TypeOK NoDocTwice KeepsNewest NoLateWrite
PROPERTIES BacklogDrains
CHECK_DEADLOCK FALSE

SPECIFICATION FairSpec
CONSTANTS
    Users = 3
    BatchSize = 2
    Concurrency = 2
    MaxRetries = 1
    Cost = 3
    Rate = 2
    MaxTokens = 1
    Early = 1
INVARIANTS TypeOK DebtBoundedByPool TotalsExact
PROPERTIES Ends
CHECK_DEADLOCK FALSE

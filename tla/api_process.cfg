SPECIFICATION ProcessSpec
CONSTANTS
    N = 5
    Priority = {1, 2, 3}
    Logger = 1
    Db = 2
    Cache = 3
    Api = 4
    Sockets = 5
    NeedsLogger = {2, 4, 5}
    Signal = {SIGTERM}
    EarlySignals = FALSE
    LogsToDb = TRUE
INVARIANTS ProcessTypeOK DependenciesUp GracefulClose BudgetKept
PROPERTIES ShutdownEnds
CHECK_DEADLOCK FALSE

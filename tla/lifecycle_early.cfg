SPECIFICATION Spec
CONSTANTS
    N = 5
    Priority = {1, 2, 3}
    Logger = 1
    NeedsLogger = {2, 4, 5}
    Signal = {SIGTERM}
    EarlySignals = TRUE
INVARIANTS CleanExit
CHECK_DEADLOCK FALSE

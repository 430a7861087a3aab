SPECIFICATION Spec
CONSTANTS
    Process = {p1, p2}
    Keep = 2
    Days = 3
    MaxLines = 2
    Crashes = 1
INVARIANTS TypeOK WholeDay
PROPERTIES KeepsLines
CHECK_DEADLOCK FALSE

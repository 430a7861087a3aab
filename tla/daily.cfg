SPECIFICATION Spec
CONSTANTS
    User = {u1, u2}
    Slots = 4
    Target = 1
    Early = 1
    Late = 1
    LockTtl = 3
    Days = 3
    Manual = 1
    Faults = 2
INVARIANTS TypeOK NeverTwice NeverMissed
CHECK_DEADLOCK FALSE

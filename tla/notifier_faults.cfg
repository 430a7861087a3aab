SPECIFICATION FairSpec
CONSTANTS
    NoCall = NoCall
    Process = {p1, p2}
    Job = {heartbeat}
    IntervalJob = {heartbeat}
    DailyJob = {}
    Slot = {s1}
    FirstSlot = s1
    Faults = {"degraded", "drop", "overrun", "crash"}
INVARIANTS GuardSound
PROPERTIES LockReleased JobKeepsRunning

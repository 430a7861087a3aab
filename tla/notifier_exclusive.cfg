SPECIFICATION Spec
CONSTANTS
    NoCall = NoCall
    Process = {p1, p2}
    Job = {heartbeat}
    IntervalJob = {heartbeat}
    DailyJob = {}
    Slot = {s1, s2}
    FirstSlot = s1
    Faults = {"degraded", "crash"}
INVARIANTS TypeOK MutualExclusion InProcessExclusion GuardComplete LockOwned
PROPERTIES ImplementsExclusiveJob

SPECIFICATION Spec
CONSTANTS
    NoCall = NoCall
    Process = {p1}
    Job = {heartbeat}
    IntervalJob = {heartbeat}
    DailyJob = {}
    Slot = {s1, s2}
    FirstSlot = s1
    Faults = {"drop"}
INVARIANTS InProcessExclusion

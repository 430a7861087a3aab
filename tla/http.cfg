SPECIFICATION HttpSpec
CONSTANTS
    Request = {r1, r2, r3}
    Static = {r3}
    Varied = {r1}
    Aborts = TRUE
INVARIANTS HttpTypeOK DrainsBeforeClose CountExplained AnswerDocumented
PROPERTIES StopEnds
CHECK_DEADLOCK FALSE

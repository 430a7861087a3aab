SPECIFICATION Spec
CONSTANTS
    Name = {p, q}
    Varied = {p}
INVARIANTS TypeOK AcceptedFits ConformingRefused MeaningKept
CHECK_DEADLOCK FALSE

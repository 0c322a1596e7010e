SPECIFICATION CheckSpec
CONSTANTS
    Worker = {w1, w2}
    Master = m
    Check = {c1, c2, c3, c4}
    Bad = {c1}
    BatchSize = 2
    MaxStarts = 2
INVARIANTS
    VerdictExact
PROPERTIES
    NobodyLeftAsleep
CHECK_DEADLOCK FALSE

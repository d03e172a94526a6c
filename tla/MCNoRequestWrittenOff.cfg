CONSTANTS
    w1 = w1
    w2 = w2
    a1 = a1
    a2 = a2
    NoAttempt = NoAttempt
    Workers = {w1, w2}
    Attempts = {a1, a2}
    MaxTries = 2
    Outcomes = {"Succeeded", "Mispaid", "Failed"}
    LateArrivals = TRUE
    ConsumerCommits = FALSE
SPECIFICATION Spec
SYMMETRY Symmetry
INVARIANT NoRequestWrittenOff
CHECK_DEADLOCK FALSE

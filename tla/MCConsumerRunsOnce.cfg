CONSTANTS
    w1 = w1
    w2 = w2
    a1 = a1
    a2 = a2
    NoAttempt = NoAttempt
    Workers = {w1, w2}
    Attempts = {a1, a2}
    MaxTries = 2
    Outcomes = {"Succeeded", "Mispaid", "Failed"}
    LateArrivals = FALSE
    ConsumerCommits = FALSE
SPECIFICATION Spec
SYMMETRY Symmetry
INVARIANT ConsumerRunsOnce
CHECK_DEADLOCK FALSE

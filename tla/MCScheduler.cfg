CONSTANTS
    N = 3
    Unanswered = {1}
    Contested = {3}
    BatchSize = 2
    Reach = 2
SPECIFICATION FairSpec
INVARIANTS
    TypeOK
    ToldOnce
    FlagMeansTold
PROPERTIES
    EveryAttemptEnds
    DueIsChecked
CHECK_DEADLOCK FALSE

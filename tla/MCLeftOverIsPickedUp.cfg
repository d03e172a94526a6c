CONSTANTS
    N = 3
    Unanswered = {1, 2}
    Contested = {}
    BatchSize = 2
    Reach = 2
SPECIFICATION FairSpec
PROPERTIES
    LeftOverIsPickedUp
CHECK_DEADLOCK FALSE

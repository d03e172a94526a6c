CONSTANTS
    w1 = w1
    w2 = w2
    Workers = {w1, w2}
    MaxVersions = 2
    MaxTokens = 4
    Digits = {"0", "2"}
    Others = {"+", "-", "x"}
    MaxTyped = 6
    Formats <- SmallFormats
SPECIFICATION Spec
SYMMETRY Symmetry
INVARIANTS
    TypeOK
    ErrorMeansNothingCreated
    LogAgrees
    VerdictIsMtns
    CallFitsWindow
    NumberIsNeverRefused
    RefusedOnFreshToken
PROPERTY
    KeepsContract
CHECK_DEADLOCK FALSE

CONSTANTS
    Calls = {c1, c2}
    Methods <- MCMethods
    Limit = 1
SPECIFICATION FairSpec
INVARIANTS
    AnswerBelongsToCall
    ShownOrRefused
    FatalForCause
PROPERTY SlowUserHoldsNobody
CHECK_DEADLOCK FALSE

CONSTANTS
    Waiters = {w1, w2}
    Modest = w1
    MinRunspaces <- MCMinRunspaces
    MaxRunspaces = 2
    Counts = {0, 1, 3}
SPECIFICATION WaitFairSpec
CHECK_DEADLOCK FALSE
INVARIANT NoFalseSuccess
PROPERTY AvailabilityWakes

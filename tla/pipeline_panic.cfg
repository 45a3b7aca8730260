CONSTANTS
    Streams = {out}
    Capacity = 1
    Callers = {c1}
    Waiters = {w1}
    Echoes = {}
    SkipInvokeSend = FALSE
    MaxSent = 3
    MaxHostCalls = 0
SPECIFICATION Spec
INVARIANT NoPanic
CHECK_DEADLOCK FALSE

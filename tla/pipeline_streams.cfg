\* Two streams and a server that reports every state.
CONSTANTS
    Streams = {out, error}
    Capacity = 2
    Callers = {c1}
    Waiters = {}
    Echoes = {"NotStarted", "Running", "Stopping"}
    SkipInvokeSend = TRUE
    MaxSent = 3
    MaxHostCalls = 1
SPECIFICATION Spec
SYMMETRY Symmetry
INVARIANTS StreamsComplete PanicOnlyAfterLocalFailure
PROPERTY NoGapForReader
CHECK_DEADLOCK FALSE

\* A server that reports final states only, as PowerShell does: the outcome.
CONSTANTS
    Streams = {out}
    Capacity = 1
    Callers = {c1, c2}
    Waiters = {w1}
    Echoes = {}
    SkipInvokeSend = FALSE
    MaxSent = 3
    MaxHostCalls = 1
SPECIFICATION FairSpec
INVARIANTS SuccessMeansDelivered WaitOutcome CreatedOnce
PROPERTIES OutcomeIsFinal DispatcherReleased
CHECK_DEADLOCK FALSE

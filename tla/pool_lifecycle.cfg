\* Two callers; the pool is opened, connected or resumed, with the handshake
\* in the messages or in the transport.
CONSTANTS
    Callers = {c1, c2}
    ResumeFrom = {"BeforeOpen", "Disconnected"}
    StartFrom = {"Connecting", "Opened", "Closing", "Disconnected", "Closed", "Broken"}
    HostCallLimit = 1
SPECIFICATION FairSpec
INVARIANTS ReturnsAreTrue EndMatchesCause
PROPERTIES EndIsFinal CloseReturns ConnectWakes LoopEnds
CHECK_DEADLOCK FALSE

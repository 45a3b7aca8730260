SPECIFICATION Spec
CONSTANTS
    Flows = {"open", "create", "connect", "resume"}
    Versions = {"2.3", "2", "3.0", "none"}
    Reports <- MCReports
    OwnMin = 1
    OwnMax = 2
    MaxMessages = 4
    MaxEmbedded = 2
INVARIANTS OpenedIsNegotiated HandshakeInOrder
CHECK_DEADLOCK FALSE

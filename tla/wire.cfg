SPECIFICATION Spec
CONSTANTS
    s1 = s1
    s2 = s2
    Senders = {s1, s2}
    Creators = {s2}
    Length <- MCLength
    ReadLoop = ReadLoop
    Nobody = Nobody
    Transports = {"adapter", "plain"}
    Capacity = 1
    HeaderSize = 2
    BlobSize = 1
    ServerPackets <- MCPackets
    Duplex = TRUE
INVARIANTS MessagesInTurn ReturnTellsTheTruth FramingKept
PROPERTIES SendEnds DataArrives
CHECK_DEADLOCK FALSE

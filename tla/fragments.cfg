\* Payload of 2 bytes: messages of one fragment to four;
\* limits of 2 messages and 3 fragments, both exceeded, and a duplication.
CONSTANTS
    Lengths = {0, 5, 8}
    MaxSize = 23
    MaxPending = 2
    MaxFragments = 3
    MaxMessages = 3
    MaxCopies = 1
SPECIFICATION FairSpec
INVARIANTS Intact LimitsAreExact
PROPERTIES DeliversMessages Arrives
CHECK_DEADLOCK FALSE

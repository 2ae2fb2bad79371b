\* Trees cut at every word, two VirtIO slots with any device, accepting or
\* refusing features and queues.
SPECIFICATION BootSpec
CONSTANTS
    Boards <- SomeBoards
    QueueSize = 8
CHECK_DEADLOCK FALSE
INVARIANTS
    ParsedTreeExact
    HandshakeKept
    InterruptsReachDevice
PROPERTIES
    BootCompletes

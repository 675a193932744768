SPECIFICATION Spec
CONSTANTS
    Byte = {0, 1}
    Junk = Junk
    Chunk <- MCChunk
    InitSize = 2
    MaxUnread = 4
INVARIANTS
    NoOverrun
PROPERTIES
    ImplementsQueue
CHECK_DEADLOCK FALSE

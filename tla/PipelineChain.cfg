SPECIFICATION PipeSpec
CONSTANTS
    MaxSeparated = 5
    MaxLines = 1
    OPEN_MAX = 8
    Rubbish <- NoDescriptor
INVARIANT ChainJoined
CHECK_DEADLOCK FALSE

SPECIFICATION Spec
CONSTANTS
    MaxCommands = 7
    MaxTable = 2
    Values = {3, 254}
    MaxWidth = 4
    MaxThreads = 3
    height = 2
    MaxSeparated = 5
    MaxLines = 3
    OPEN_MAX = 8
    Rubbish <- AnyNumber
    Producers = {1, 2}
    Consumers = {11, 12}
    Line <- OneAndThree
    MaxPieces = 2
    BUFF_SIZE = 9
    COUNT = 8
INVARIANTS
    TypeOK EndsTogether EachPixelOnce BlocksLive EndsInOneProcess EveryPieceInItsLine
    CatcherCount SenderCount OneUnderWay Lossless
PROPERTY HandshakeEnds
CHECK_DEADLOCK FALSE

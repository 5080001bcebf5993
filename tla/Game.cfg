SPECIFICATION MCSpec
CONSTANTS
    p1 = p1
    p2 = p2
    p3 = p3
    Null = Null
    Clients <- Two
    Name <- Own
    STREAM = TRUE
    MAX_NO_CLIENTS = 2
    MaxPings = 2
    MaxMoves = 0
    MaxLost = 0
SYMMETRY Symmetry
VIEW View
INVARIANTS MCTypeOK OneWaiting PollInBounds PairsUntilGameOver NoGhost
CHECK_DEADLOCK FALSE

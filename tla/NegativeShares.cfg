SPECIFICATION NegSpec
CONSTANTS
    Values = {3, 254}
    MaxWidth = 3
    MaxThreads = 3
    height = 2
INVARIANT BlockShares
CHECK_DEADLOCK FALSE

SPECIFICATION MCSpec
CONSTANTS
    c1 = c1
    c2 = c2
    Nobody = Nobody
    Clients <- Both
    MAX_NO_USERS = 2
    MaxCommands = 2
SYMMETRY Symmetry
INVARIANTS MCTypeOK StopLast StopReachesAll SignalsCovered ReplyNotStolen
CHECK_DEADLOCK FALSE

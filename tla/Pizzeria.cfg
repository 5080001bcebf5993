SPECIFICATION MCSpec
CONSTANTS
    empty = empty
    c1 = c1
    c2 = c2
    d1 = d1
    SYSV = FALSE
    Cooks <- TwoCooks
    Deliverers <- OneDeliverer
    Types <- OneType
    OVEN_SIZE = 2
    TABLE_SIZE = 1
INVARIANT MarkedHasCook
PROPERTIES KeepsDelivering EverybodyStops

SPECIFICATION Spec
CONSTANTS
    empty = empty
    c1 = c1
    c2 = c2
    c3 = c3
    d1 = d1
    d2 = d2
    Empty <- empty
    SYSV = TRUE
    Cooks <- TwoCooks
    Deliverers <- TwoDeliverers
    Types <- TwoTypes
    OVEN_SIZE = 2
    TABLE_SIZE = 2
SYMMETRY Symmetry
INVARIANTS TypeOK Exclusive FreePlace OvenOwnership
PROPERTY ImplementsFlow

SPECIFICATION Spec
CONSTANTS
    c1 = c1
    c2 = c2
    c3 = c3
    d1 = d1
    d2 = d2
    SYSV = FALSE
    Cooks <- TwoCooks
    Deliverers <- TwoDeliverers
    Types <- OneType
    OVEN_SIZE = 2
    TABLE_SIZE = 2
SYMMETRY Symmetry
INVARIANT FreePlace

CONSTANTS
    N = 2
    Producers = {p1, p2}
    Consumers = {c1, c2}
    Values = {a, b}
    NoValue = NoValue
    MaxPush = 5
SPECIFICATION Spec
SYMMETRY Symmetry
CHECK_DEADLOCK FALSE
PROPERTIES
    RejectionsJustified
    ImplementsFifo

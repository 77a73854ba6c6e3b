CONSTANTS
    Boxes = {x, y}
    capacity = 2
    BoxPolicies = {"RingBuffer", "Throttle"}
    AppendPolicies = {"RingBuffer"}
    MaxMsg = 4
    channel_capacity = 2
    Senders = {s1, s2}
    Receivers = {r1, r2}
    Values = {a, b}
    MaxSends = 4
    MayClose = TRUE
    NoValue = NoValue
    Nobody = Nobody
SPECIFICATION MCSpec
CHECK_DEADLOCK FALSE
INVARIANTS
    WithinCapacity
    EachMessageOnce
    SendOrder
    NoneIsFinal
PROPERTIES
    ImplementsFifo
    SendsReturn

CONSTANTS
    N = 3
    MaxPush = 5
    Values = {a, b}
    NoValue = NoValue
    Actors = {a1, a2, a3}
    box_capacity = 2
    box_policy = "FailFast"
    MaxSend = 3
SPECIFICATION MCSpec
CHECK_DEADLOCK FALSE
INVARIANTS
    NoDataRace
    CellsUsedOnce
    AnswersHold
    NoActorForgotten
    OneTurnPerRound
PROPERTIES
    ImplementsFifo
    EveryItemPopped
    MailHandled

SPECIFICATION RecordsSpec
CONSTANTS
    Window = 2
    Saturation = 2
    MaxQueued = 2
    MaxEpoch = 1
    MaxSeq = 3
    MaxLeft = 1
    EtmChoices = {TRUE, FALSE}
INVARIANTS RecordsTypeOK WindowExact EarlyKept
PROPERTY DeliversOnce
CHECK_DEADLOCK FALSE

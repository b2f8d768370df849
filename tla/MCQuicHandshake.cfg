CONSTANTS
    Config <- Courses
    MaxFaults = 1
SPECIFICATION FairSpec
CHECK_DEADLOCK FALSE
INVARIANTS
    TypeOK
    Agreement
    SecretsBeforeUse
    NeverRefused
    HeldByEarlyClient
    AckKeysWithEarlyKeys
PROPERTIES
    ErrorsOnlyFromFaults
    NeverGoesBack
    Completes
    TicketsArrive

CONSTANTS
    Config <- TicketConfigs
    MaxFaults = 1
SPECIFICATION Spec
CHECK_DEADLOCK FALSE
INVARIANT
    ErrorStaysVisible

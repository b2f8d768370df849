CONSTANTS
    Config <- HeldEarlyConfigs
    MaxFaults = 0
SPECIFICATION Spec
CHECK_DEADLOCK FALSE
INVARIANT
    FlightFlushed

SPECIFICATION FairSpec
CONSTANTS
    Modes <- MCModes
    MsgLen <- MCMsgLen
    Mtu = 12
    FallbackMtu = 7
    MaxFaults = 3
    TmoAlertCount = 3
    MaxBuffered = 100
    MaxSeqAhead = 10
INVARIANTS TypeOK OnlyTimeoutsFail LayersKept DataKept ReassembledWhole
PROPERTY Completes
CHECK_DEADLOCK FALSE

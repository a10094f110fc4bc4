CONSTANTS
    N <- MCN
    PN <- MCPN
    Size <- MCSize
    Threshold <- MCThreshold
    MaxSend <- MCMaxSend
    Live = TRUE
SPECIFICATION Spec
INVARIANT PushLoopTerminates
CHECK_DEADLOCK FALSE

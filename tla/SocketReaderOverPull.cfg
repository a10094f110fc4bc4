CONSTANTS
    N <- MCN
    PN <- MCPN
    Size <- MCSize
    Threshold <- MCThreshold
    MaxSend <- MCMaxSend
    Live = FALSE
SPECIFICATION Spec
INVARIANT PullWithinWritten
CHECK_DEADLOCK FALSE

CONSTANTS
    N <- MCN
    PN <- MCPN
    Size <- MCSize
    Threshold <- MCThreshold
    MaxSend <- MCMaxSend
    Live = FALSE
SPECIFICATION Spec
INVARIANT PushOnlyPulledWords
CHECK_DEADLOCK FALSE

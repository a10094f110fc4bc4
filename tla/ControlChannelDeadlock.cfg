\* Traffic in both directions through chip B: each core's inbound may block
\* in forward_message on the other core's full outbound ring.
CONSTANTS
    NoMsg = NoMsg
    w1 = w1
    w2 = w2
    FarKinds <- RoutedKinds
    Workers <- NoWorkers
    MaxSockets = 1
    S <- MCS
    K <- MCK
    Dirs <- BothWays
SPECIFICATION Spec
INVARIANTS
    NoCircularForwardWait
CHECK_DEADLOCK FALSE

\* Traffic from A to C through chip B, with local write responses, and two
\* workers of B opening a socket each through the gatekeeper's ring.
\* Deadlock is not checked: a resent stale message can leave X spinning
\* for ever (run ControlChannelStale.cfg).
CONSTANTS
    NoMsg = NoMsg
    w1 = w1
    w2 = w2
    FarKinds <- RoutedKinds
    Workers <- TwoWorkers
    MaxSockets = 1
    S <- MCS
    K <- MCK
    Dirs <- OneWay
SPECIFICATION Spec
INVARIANTS
    TypeOK
    RemoteRingNotOverrun
PROPERTIES
    RingSlotNeverOverwritten
    EverySocketConnects
CHECK_DEADLOCK FALSE

\* Traffic from A to C through chip B.
CONSTANTS
    NoMsg = NoMsg
    w1 = w1
    w2 = w2
    FarKinds <- RoutedKinds
    Workers <- NoWorkers
    MaxSockets = 1
    S <- MCS
    K <- MCK
    Dirs <- OneWay
SPECIFICATION Spec
PROPERTIES
    DeliveredInOrder
CHECK_DEADLOCK FALSE

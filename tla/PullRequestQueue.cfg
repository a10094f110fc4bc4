CONSTANTS
    s1 = s1
    s2 = s2
    s3 = s3
    s4 = s4
    NoReq = NoReq
    Senders <- MCSendersWithinRange
    QSize <- MCQSize
SPECIFICATION Spec
INVARIANT TypeOK
PROPERTIES
    SlotNeverOverwritten
    FifoRefinement
    EveryRequestServed

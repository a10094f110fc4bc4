CONSTANTS
    s1 = s1
    s2 = s2
    s3 = s3
    s4 = s4
    NoReq = NoReq
    Senders <- MCSendersAtRange
    QSize <- MCQSize
SPECIFICATION Spec
PROPERTY SlotNeverOverwritten
CHECK_DEADLOCK FALSE

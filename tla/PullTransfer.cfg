CONSTANTS
    NoWord = NoWord
    N <- MCN
    H <- MCH
    Packets <- MCPackets
SPECIFICATION Spec
INVARIANTS
    TypeOK
    UnpulledWordsIntact
    ConsumerHoldsStream
    HeaderAtReadPointer
    LocalWriteSourcesIntact
PROPERTIES
    StreamProgresses

\* Multicast writes from either end of a row of five chips.
CONSTANTS
    L <- MCL
    MaxDepth <- MCMaxDepth
SPECIFICATION Spec
INVARIANTS
    TypeOK
    DeliveredToGroup
    NoFalseCorruption
PROPERTIES
    MulticastCompletes

\* Workers send plain writes, atomic increments and fused write + atomic
\* packets to one destination router.
SPECIFICATION Spec
CONSTANTS
    B = 4
    HeaderWords = 3
    WordBytes = 16
    AddrBase <- MCAddrBase
    Addrs <- MCAddrs
    Sizes <- MCSizes
INVARIANTS
    WritesAtRequestedAddress

\* Both ends of each link run wait_all_src_dest_ready, with ethernet writes
\* landing in any order; one link waits without a timeout, on the other
\* only one end has one. A router may never launch, and after all return
\* the system stops.
SPECIFICATION Spec
CONSTANTS
    Sides <- MCSides
    Peer <- MCPeer
    TimeoutSides <- MCTimeoutSides
INVARIANTS
    TypeOK
PROPERTIES
    MeetRefinement
    LinkReadyOnceBothLaunched
    PeerSeenLeadsToReady
CHECK_DEADLOCK FALSE

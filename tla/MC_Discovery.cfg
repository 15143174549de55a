CONSTANTS
    p1 = p1
    p2 = p2
    h1 = h1
    h2 = h2
    t1 = t1
    t2 = t2
    alice = alice
    bob = bob
    carol = carol
    Proc <- MCProc
    IP <- MCOneHostIP
    HostOf <- MCOneHostOf
    Ports <- MCPorts
    Nicks <- MCNicks
    NickChoice <- MCNickChoice
    AnnounceInterval = 1
    PeerTimeout = 3
    CleanupInterval = 1
    MaxDelay = 1
    Lossy = TRUE
    Duplicating = FALSE
SYMMETRY MCProcSymmetry
SPECIFICATION Spec
INVARIANTS
    TypeOK
    NoSelfEntry
    EvictionBound

CONSTANTS
    p1 = p1
    p2 = p2
    h1 = h1
    h2 = h2
    t1 = t1
    t2 = t2
    alice = alice
    bob = bob
    carol = carol
    Proc <- MCProc
    IP <- MCTwoHostIP
    HostOf <- MCTwoHostOf
    Ports <- MCPorts
    Nicks <- MCNicks
    NickChoice <- MCNickChoice
    AnnounceInterval = 2
    PeerTimeout = 1
    CleanupInterval = 1
    MaxDelay = 0
    Lossy = FALSE
    Duplicating = FALSE
SPECIFICATION Spec
INVARIANTS
    LivePeersKnown

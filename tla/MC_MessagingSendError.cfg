CONSTANTS
    p1 = p1
    p2 = p2
    h1 = h1
    h2 = h2
    t1 = t1
    t2 = t2
    alice = alice
    bob = bob
    carol = carol
    Proc <- MCProc
    IP <- MCIP
    HostOf <- MCHostOf
    Ports <- MCPorts
    Nicks <- MCNicks
    NickChoice <- MCNickChoice
    Senders <- MCSenders
    AnnounceInterval = 1
    PeerTimeout = 1
    CleanupInterval = 1
    MaxDelay = 0
    Lossy = FALSE
    Duplicating = FALSE
SPECIFICATION MsgSpec
INVARIANTS
    SendFailureReported

CONSTANTS
    p1 = p1
    p2 = p2
    h1 = h1
    h2 = h2
    t1 = t1
    t2 = t2
    alice = alice
    bob = bob
    carol = carol
    Proc <- MCProc
    IP <- MCTwoHostIP
    HostOf <- MCTwoHostOf
    Ports <- MCOnePort
    Nicks <- MCNicksCarol
    NickChoice <- MCNickChoiceCarol
    AnnounceInterval = 1
    PeerTimeout = 3
    CleanupInterval = 1
    MaxDelay = 1
    Lossy = FALSE
    Duplicating = TRUE
SPECIFICATION Spec
INVARIANTS
    LivePeersKnown

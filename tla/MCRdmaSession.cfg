SPECIFICATION Spec
CONSTANTS
    MAX_WR = 2
    ParamSet <- MCParams
INVARIANTS
    TypeOK
    RoundHoldsSlots
    CompletionIsMine
    WaitHasSignaled
    DmaSafe
    RemoteMrLive
    RecvMatches
    SuccessMeansDelivered
    ReportFresh
    NoEndpointLeak
    StuckOnlyOnDeadPeer
PROPERTY ImplementsTransfer

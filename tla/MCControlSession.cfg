SPECIFICATION FairSpec
CONSTANTS
    MAX_WR = 2
    ParamSet <- MCParams
INVARIANTS
    TypeOK
    ReportComplete
    ReceivedIsSent
    CompletionIsMine
    PollFits
    WriteTargetLive
    SlotFindsQueueEmpty
    StuckOnlyOnDeadPeer
PROPERTIES
    SumIsFinal
    Termination

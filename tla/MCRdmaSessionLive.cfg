SPECIFICATION FairSpec
CONSTANTS
    MAX_WR = 2
    ParamSet <- MCLiveParams
PROPERTIES
    Termination
    SendWaitEnds

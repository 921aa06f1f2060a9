SPECIFICATION FairSpec
CONSTANTS
    Size = 3
    ParamSet <- MCParams
INVARIANTS
    TypeOK
    MessagesMatch
    BacklogBounded
    RequestsSet
    RootBufferLive
    VerdictSound
    OneToManyDelivers
PROPERTY Termination
CHECK_DEADLOCK FALSE

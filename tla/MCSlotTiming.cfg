SPECIFICATION Spec
CONSTANTS
    ParamSet <- MCParams
    DCCS_CYCLE_UPTIME = 18
    Grids <- MCGrids
    DBL_MAX = 1000
INVARIANTS
    OnSchedule
    ReportRight
CHECK_DEADLOCK FALSE

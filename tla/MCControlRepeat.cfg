SPECIFICATION Spec
CONSTANTS
    MAX_WR = 2
    ParamSet <- Plain
INVARIANT PositiveRepeatRuns

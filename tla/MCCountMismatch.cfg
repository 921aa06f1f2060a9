SPECIFICATION Spec
CONSTANTS
    MAX_WR = 2
    ParamSet <- Mismatched
INVARIANT MrInfoChecked

SPECIFICATION Spec
CONSTANTS
    MAX_WR = 2
    ParamSet <- MCParams3
INVARIANT WaitHasSignaled

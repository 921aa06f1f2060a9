SPECIFICATION Spec
CONSTANTS
    MAX_WR = 2
    ParamSet <- Hundred
INVARIANT BothSidesWrite

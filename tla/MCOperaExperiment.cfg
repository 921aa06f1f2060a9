SPECIFICATION Spec
CONSTANTS
    Hosts = {30, 32, 34}
    ParamSet <- MCParams
INVARIANT SavedComplete
PROPERTY ExperimentEnds
CHECK_DEADLOCK FALSE

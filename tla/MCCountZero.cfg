SPECIFICATION Spec
CONSTANTS
    DEFAULT_MESSAGE_COUNT = 2
    SIZE = 16
    Numbers <- MCNumbers
INVARIANT CountPositive
CHECK_DEADLOCK FALSE

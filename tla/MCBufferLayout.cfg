SPECIFICATION Spec
CONSTANTS
    DEFAULT_MESSAGE_COUNT = 2
    SIZE = 16
    Numbers <- MCNumbers
INVARIANTS
    OwnBytes
    RegionsAsAsked
    FreedOnce
CHECK_DEADLOCK FALSE

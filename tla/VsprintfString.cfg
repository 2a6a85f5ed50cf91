\* %s without a precision.
CONSTANTS
    WordSize = 64
    CharSize = 16
    Calls <- StringCalls
    Memory <- SomeMemory
    FrameLengths = {0, 1, 2, 3}
SPECIFICATION Spec
PROPERTIES
    StringsShown
CHECK_DEADLOCK FALSE

\* Directives with a width or a precision from the arguments.
CONSTANTS
    WordSize = 64
    CharSize = 16
    Calls <- StarCalls
    Memory <- SomeMemory
    FrameLengths = {0, 1, 2, 3}
SPECIFICATION Spec
INVARIANTS
    OnePieceAPass
CHECK_DEADLOCK FALSE

\* One directive of every kind, and formats that nobody meant.  The program
\* stops when vsprintf returns.
CONSTANTS
    WordSize = 64
    CharSize = 16
    Calls <- FormatCalls
    Memory <- SomeMemory
    FrameLengths = {0, 1, 2, 3}
SPECIFICATION Spec
INVARIANTS
    StaysInFormat
    OnePieceAPass
    OutputBounded
PROPERTIES
    ReadsBack
    FieldsFilled
CHECK_DEADLOCK FALSE

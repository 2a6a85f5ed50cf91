\* System calls only, at the end of the table.
CONSTANTS
    Vectors = {}
    Irqs = {}
    Calls <- EdgeCalls
    AddressOfNR_syscalls = 200
    MaxDepth = 1
SPECIFICATION Spec
INVARIANTS
    OnlyTheTableIsCalled
CHECK_DEADLOCK FALSE

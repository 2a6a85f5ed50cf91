\* Every vector, each interrupted at every instruction, with and without an
\* LDT.  A return to nowhere ends the model: deadlock is not checked.
CONSTANTS
    Vectors <- AllVectors
    Irqs <- ChipIrqs
    Calls <- SomeCalls
    AddressOfNR_syscalls = 200
    MaxDepth = 2
SPECIFICATION Spec
INVARIANTS
    TypeOK
    StackBelowIntact
    KernelSegmentsInC
    ArgumentsInPlace
PROPERTIES
    ReturnsExactly
    CallsReachTheirFunction
    UnfinishedAreLost
    NoReturnWithoutLdt
CHECK_DEADLOCK FALSE

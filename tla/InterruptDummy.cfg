\* One unhandled interrupt at a time.
CONSTANTS
    Vectors <- AllVectors
    Irqs <- ReturningIrqs
    Calls = {}
    AddressOfNR_syscalls = 200
    MaxDepth = 1
SPECIFICATION Spec
PROPERTIES
    DummyReturns
CHECK_DEADLOCK FALSE

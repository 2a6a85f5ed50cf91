\* Two neighbouring tasks, on bytes of sixteen values.
CONSTANTS
    Nibble = 4
    Tasks = {0, 1}
    Addresses <- SomeAddresses
SPECIFICATION Spec
INVARIANTS
    SegmentsAsSet

SPECIFICATION Spec
CONSTANTS
    NarrowBits = 2
    WordBits = 4
    WideBits = 8
    Literals <- SomeLiterals
    Halves <- SomeHalves
    LaterNumbers <- SomeLaterNumbers
    MaxSteps = 2
    Stale = {0, 1}
INVARIANTS
    BytecodeMeans
    NativeMeans
CHECK_DEADLOCK FALSE

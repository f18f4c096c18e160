SPECIFICATION Spec
CONSTANTS
    Symbols = {a, b, c}
    t1 = t1
    t2 = t2
    t3 = t3
    i1 = i1
    i2 = i2
    NoThread = NoThread
    Threads <- MCThreads
    Instances <- MCInstances
    InstanceOf <- MCInstanceOf
    Faults = {"object", "meta"}
SYMMETRY SymbolSymmetry
INVARIANTS
    ObjectsDisjoint
    SelfAttributed
PROPERTIES
    ReferencedObjectsStay
    ImplementsRegistry

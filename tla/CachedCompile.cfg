SPECIFICATION CompileSpec
CONSTANTS
    a = a
    b = b
    t1 = t1
    t2 = t2
    t3 = t3
    i1 = i1
    i2 = i2
    i3 = i3
    NoThread = NoThread
    Symbols = {a, b}
    Threads <- MCThreads
    Instances <- MCInstances
    InstanceOf <- MCInstanceOf
    Required <- MCRequired
    Faults = {"object", "meta"}
\* All jobs may have ended.
CHECK_DEADLOCK FALSE
INVARIANTS
    LinksExactly
PROPERTIES
    EveryJobEnds

SPECIFICATION Spec
CONSTANTS
    t1 = t1
    t2 = t2
    t3 = t3
    driver = driver
    Threads <- ThreeThreads
    Joiners <- OnlyT3
    Leavers <- TwoThreads
    Gc = driver
    MaxCycles = 3
CHECK_DEADLOCK FALSE
INVARIANTS
    TypeOK
    WorldStopped
    NeverOvercounted
PROPERTIES
    GcReturns
    ParkedResume

SPECIFICATION Spec
CONSTANTS
    t1 = t1
    t2 = t2
    t3 = t3
    driver = driver
    Threads <- TwoThreads
    Joiners = {}
    Leavers = {}
    Gc = driver
    MaxCycles = 2
CHECK_DEADLOCK FALSE
PROPERTY
    WaitUntilReleased

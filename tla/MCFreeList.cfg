SPECIFICATION Spec
CONSTANTS
    Base = 1
    Words = 13
    Sizes <- MCSizes
    Aligns <- MCAligns
INVARIANTS
    TypeOK
    Exclusive
    Accounted
    CoalescedBehind
    SortedRecovers
PROPERTIES
    FreeBytesExact
    CoalesceTerminates

SPECIFICATION Spec
CONSTANTS
    leaf = leaf
    node = node
    big = big
    left = left
    NoObject = NoObject
    YoungBase = 1
    YoungWords = 32
    OldBase = 35
    OldWords = 36
    CardWords = 5
    Classes <- LeafAndBig
    Size <- BulkySize
    FieldIds <- MCFieldIds
    Pointers <- BulkyPointers
    Locals = 1
    Statics <- OneStatic
    DebugBuild = FALSE
    MaxNew = 5
    MaxDepth = 1
    MaxStack = 2
CHECK_DEADLOCK FALSE
INVARIANTS
    OldExclusive
    NoWildRead
PROPERTIES
    AllocationReturns
CONSTRAINT
    StaticOrSpace

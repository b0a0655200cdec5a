SPECIFICATION Spec
CONSTANTS
    leaf = leaf
    node = node
    big = big
    left = left
    NoObject = NoObject
    YoungBase = 1
    YoungWords = 4
    OldBase = 7
    OldWords = 8
    CardWords = 5
    Classes <- NodeAndBig
    Size <- OomSize
    FieldIds <- MCFieldIds
    Pointers <- OomPointers
    Locals = 1
    Statics <- OneStatic
    DebugBuild = FALSE
    MaxNew = 2
    MaxDepth = 2
    MaxStack = 2
CHECK_DEADLOCK FALSE
INVARIANTS
    TypeOK
    NoWildRead
    OneCollectionEnough
PROPERTIES
    ImplementsManagedHeap

SPECIFICATION Spec
CONSTANTS
    leaf = leaf
    node = node
    big = big
    left = left
    NoObject = NoObject
    YoungBase = 1
    YoungWords = 9
    OldBase = 12
    OldWords = 20
    CardWords = 5
    Classes <- MCClasses
    Size <- MCSize
    FieldIds <- MCFieldIds
    Pointers <- MCPointers
    Locals = 2
    Statics = {}
    DebugBuild = FALSE
    MaxNew = 3
    MaxDepth = 1
    MaxStack = 2
CHECK_DEADLOCK FALSE
INVARIANTS
    EdenMarked
    MarkExact
    EdenTiled
    EvacuationComplete
    CardsCover
PROPERTIES
    ImplementsManagedHeap

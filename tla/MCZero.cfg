SPECIFICATION Spec
CONSTANTS
    leaf = leaf
    node = node
    big = big
    left = left
    NoObject = NoObject
    YoungBase = 1
    YoungWords = 30
    OldBase = 33
    OldWords = 38
    CardWords = 5
    Classes <- LeafAndBig
    Size <- BigSize
    FieldIds <- NoFields
    Pointers <- NoPointers
    Locals = 1
    Statics = {}
    DebugBuild = TRUE
    MaxNew = 4
    MaxDepth = 1
    MaxStack = 1
CHECK_DEADLOCK FALSE
INVARIANTS
    NoZeroSize

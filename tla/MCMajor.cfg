SPECIFICATION Spec
CONSTANTS
    leaf = leaf
    node = node
    big = big
    left = left
    NoObject = NoObject
    YoungBase = 1
    YoungWords = 4
    OldBase = 7
    OldWords = 8
    CardWords = 5
    Classes <- OnlyNode
    Size <- NodeSize
    FieldIds <- MCFieldIds
    Pointers <- NodePointers
    Locals = 2
    Statics = {}
    DebugBuild = FALSE
    MaxNew = 5
    MaxDepth = 1
    MaxStack = 2
CHECK_DEADLOCK FALSE
INVARIANTS
    OldExclusive
PROPERTIES
    GraphPreserved
CONSTRAINT
    WithinClaims

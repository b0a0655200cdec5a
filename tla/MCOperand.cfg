SPECIFICATION Spec
CONSTANTS
    leaf = leaf
    node = node
    big = big
    left = left
    NoObject = NoObject
    YoungBase = 1
    YoungWords = 8
    OldBase = 11
    OldWords = 20
    CardWords = 5
    Classes <- OnlyNode
    Size <- NodeSize
    FieldIds <- MCFieldIds
    Pointers <- NodePointers
    Locals = 1
    Statics = {}
    DebugBuild = FALSE
    MaxNew = 3
    MaxDepth = 1
    MaxStack = 2
CHECK_DEADLOCK FALSE
INVARIANTS
    OperandRefsLive

SPECIFICATION Spec
CONSTANTS
    Directories <- InheritedDirectories
    Values <- OneValue
CHECK_DEADLOCK FALSE
INVARIANT
    PayloadHoldsFields
